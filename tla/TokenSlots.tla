------------------------------ MODULE TokenSlots ------------------------------
(***************************************************************************)
(* What the token-backed account flows promise, with no transaction, lock  *)
(* or request in sight: every account has one slot per kind of link        *)
(* (verify an email, reset a password, delete the account).  Issuing fills *)
(* the slot with a token never seen before, so an older link dies with the *)
(* newer one; using a link empties its slot and has its effect in the same *)
(* step; deleting an account empties all its slots.                        *)
(***************************************************************************)
CONSTANTS
  Users,          \* account ids
  Tokens,         \* the secrets put in links
  Passwords,      \* what a stored password hash may be
  None            \* no token, no password

Kinds == {"verify", "reset", "delete"}

VARIABLES
  slot,           \* slot[u][k]: the one token that works, or None
  known,          \* every token ever issued
  account         \* account[u]: deleted?, verified?, stored password

vars == <<slot, known, account>>

Account == [deleted : BOOLEAN, verified : BOOLEAN, password : Passwords]

Init ==
  /\ slot \in [Users -> [Kinds -> Tokens \cup {None}]]
  /\ known \in SUBSET Tokens
  /\ account \in [Users -> Account]

Issue(u, k, t) ==
  /\ t \notin known
  /\ known' = known \cup {t}
  /\ slot' = [slot EXCEPT ![u] = [@ EXCEPT ![k] = t]]
  /\ UNCHANGED account

Verify(u) ==
  /\ slot[u]["verify"] # None
  /\ slot' = [slot EXCEPT ![u] = [@ EXCEPT !["verify"] = None]]
  /\ account' = [account EXCEPT ![u] = [@ EXCEPT !.verified = TRUE]]
  /\ UNCHANGED known

Reset(u, password) ==
  /\ slot[u]["reset"] # None
  /\ slot' = [slot EXCEPT ![u] = [@ EXCEPT !["reset"] = None]]
  /\ account' = [account EXCEPT ![u] = [@ EXCEPT !.password = password]]
  /\ UNCHANGED known

Delete(u) ==
  /\ ~ account[u].deleted
  /\ slot[u]["delete"] # None
  /\ slot' = [slot EXCEPT ![u] = [k \in Kinds |-> None]]
  /\ account' = [account EXCEPT
       ![u] = [deleted |-> TRUE, verified |-> FALSE, password |-> None]]
  /\ UNCHANGED known

Next ==
  \E u \in Users :
    \/ \E k \in Kinds, t \in Tokens : Issue(u, k, t)
    \/ Verify(u)
    \/ \E password \in Passwords \ {None} : Reset(u, password)
    \/ Delete(u)

Spec == Init /\ [][Next]_vars
===============================================================================
