---------------------------- MODULE MCAccountTokens ----------------------------
(***************************************************************************)
(* AccountTokens on small instances: one or two accounts, a link of each   *)
(* kind issued beforehand to the first of them, one to the second, and two *)
(* tokens left to issue.                                                   *)
(***************************************************************************)
EXTENDS AccountTokensSlots, TLC

CONSTANTS u1, u2, verify1, reset1, delete1, delete2

MCSeed == (verify1 :> [kind |-> "verify", owner |-> u1])
       @@ (reset1  :> [kind |-> "reset",  owner |-> u1])
       @@ (delete1 :> [kind |-> "delete", owner |-> u1])

\* To issue a link to verify or to reset, the second account has no row to replace.
MCSeedOfBoth == MCSeed @@ (delete2 :> [kind |-> "delete", owner |-> u2])

MCTtl == [k \in Kinds |-> 1]

Traveler == [status |-> "ACTIVE", role |-> "TRAVELER", verified |-> FALSE,
             password |-> Original]

MCTravelers == {Traveler}

MCInitialUsers == {Traveler, [Traveler EXCEPT !.role = "EXPERT"],
                   [Traveler EXCEPT !.status = "SUSPENDED"]}

\* The first account starts with any of the rows above, the second as a traveler.
MCInit == Init /\ user[u2] = Traveler

MCSpec == MCInit /\ [][Next]_vars /\ Fairness

Symmetry == Permutations(Requests) \cup Permutations(Tokens \ DOMAIN MCSeed)
===============================================================================
