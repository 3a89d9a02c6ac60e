--------------------------- MODULE IdentityDirectory ---------------------------
(***************************************************************************)
(* What registration, OAuth sign-up and account deletion promise about who *)
(* is who: an email and an OAuth identity each belong to at most one       *)
(* account, an account is born with its email (and, by OAuth, with its     *)
(* identity) in one step, nothing ever moves from one account to another,  *)
(* and closing an account frees both at once.                              *)
(***************************************************************************)
CONSTANTS
  Users,          \* account ids
  Emails,         \* normalised addresses
  Identities,     \* (provider, providerAccountId) pairs
  None

VARIABLES
  holder,         \* holder[e]: the account with address e, or None
  owner,          \* owner[i]: the account identity i signs in to, or None
  known,          \* every account ever created
  closed          \* the deleted ones

vars == <<holder, owner, known, closed>>

Init ==
  /\ known \in SUBSET Users
  /\ closed \in SUBSET known
  /\ holder \in [Emails -> known \cup {None}]
  /\ owner \in [Identities -> known \cup {None}]

Register(u, e) ==
  /\ u \notin known
  /\ holder[e] = None
  /\ known' = known \cup {u}
  /\ holder' = [holder EXCEPT ![e] = u]
  /\ UNCHANGED <<owner, closed>>

SignUp(u, e, i) ==
  /\ u \notin known
  /\ holder[e] = None
  /\ owner[i] = None
  /\ known' = known \cup {u}
  /\ holder' = [holder EXCEPT ![e] = u]
  /\ owner' = [owner EXCEPT ![i] = u]
  /\ UNCHANGED closed

Without(f, u) == [x \in DOMAIN f |-> IF f[x] = u THEN None ELSE f[x]]

Close(u) ==
  /\ u \in known \ closed
  /\ closed' = closed \cup {u}
  /\ holder' = Without(holder, u)
  /\ owner' = Without(owner, u)
  /\ UNCHANGED known

Next ==
  \E u \in Users :
    \/ \E e \in Emails : Register(u, e)
    \/ \E e \in Emails, i \in Identities : SignUp(u, e, i)
    \/ Close(u)

Spec == Init /\ [][Next]_vars
===============================================================================
