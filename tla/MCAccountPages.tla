------------------------------ MODULE MCAccountPages ------------------------------
(***************************************************************************)
(* AccountPages on a small instance: a traveler who registers and has a    *)
(* deletion link mailed in each language, an expert, and two tabs, one of  *)
(* which only signs in and follows deletion links.                         *)
(***************************************************************************)
EXTENDS AccountPages, TLC

CONSTANTS traveler, expert, main, side

Link(kind, in, n) == [of |-> traveler, kind |-> kind, in |-> in, n |-> n]

Verification == Link("verify", "ko", 1)
PasswordReset == Link("reset", "ko", 1)
Korean == Link("delete", "ko", 1)
English == Link("delete", "en", 2)

MCLinks == {Verification, PasswordReset, Korean, English}

MCExpiring == {Verification, Korean}

MCBouncing == {English}

MCMangled == [of |-> None, kind |-> "delete", in |-> "en", n |-> 1]

AsMailed(links) == {[link |-> l, in |-> l.in] : l \in links}

\* Pages that other pages lead to
Ends == {"home", "onboarding", "login", "sent", "result", "verify-sent", "verify-result",
         "verify-email", "reset-password", "post-login"}

MCHabits ==
  (main :> [pages |-> Pages \ Ends,
            links |-> AsMailed(MCLinks \cup {MCMangled}) \cup {[link |-> Korean, in |-> Explicit]},
            switches |-> TRUE])
  @@ (side :> [pages |-> {}, links |-> AsMailed({Korean}), switches |-> FALSE])

\* Either the password is reset or the account is deleted: there is no link
\* for the other.
MCInit ==
  /\ Init
  /\ state[Verification] = "unsent"
  /\ LET deletions == {state[Korean], state[English]} IN
       \/ state[PasswordReset] = "unsent" /\ deletions = {"lost"}
       \/ state[PasswordReset] = "lost" /\ deletions = {"unsent"}

MCSpec == MCInit /\ [][Next]_vars /\ Fairness

\* Links are opened as they are mailed.
MCHabitsAsMailed ==
  (main :> [pages |-> {"delete"}, links |-> AsMailed(MCLinks), switches |-> TRUE])
  @@ (side :> [pages |-> {}, links |-> AsMailed({Korean}), switches |-> FALSE])
===============================================================================
