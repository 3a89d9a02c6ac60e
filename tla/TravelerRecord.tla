------------------------------ MODULE TravelerRecord ------------------------------
(***************************************************************************)
(* What the onboarding form promises of an account: what the account says  *)
(* of its traveler is one form, whole, the last one saved, until the       *)
(* account is closed, and then nothing for ever.                           *)
(***************************************************************************)
CONSTANTS
  Users,          \* account ids
  Inputs,         \* filled-in forms
  None, Erased    \* not filled in yet; the account is closed

VARIABLE record   \* record[u]: what the account says of its traveler

Init == record \in [Users -> Inputs \cup {None, Erased}]

Save(u, input) ==
  /\ record[u] # Erased
  /\ record' = [record EXCEPT ![u] = input]

Close(u) ==
  /\ record[u] # Erased
  /\ record' = [record EXCEPT ![u] = Erased]

Next == \E u \in Users : Close(u) \/ \E input \in Inputs : Save(u, input)

Spec == Init /\ [][Next]_record
===============================================================================
