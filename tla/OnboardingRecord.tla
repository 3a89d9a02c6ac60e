----------------------------- MODULE OnboardingRecord -----------------------------
(***************************************************************************)
(* Onboarding implements TravelerRecord.                                   *)
(***************************************************************************)
EXTENDS Onboarding

CONSTANTS
  Erased,         \* the account is closed
  Torn            \* two rows that do not belong together; no record

ASSUME ErasedAssumption == Erased \notin Inputs \cup {None}

\* Of an account that is no traveler's there is nothing to say but its profile.
RecordOf(u) ==
  CASE user[u].status = "DELETED" /\ user[u].basics = None /\ profile[u] = None -> Erased
    [] /\ user[u].status # "DELETED"
       /\ user[u].role = "TRAVELER" => user[u].basics = profile[u] -> profile[u]
    [] OTHER -> Torn

Record == INSTANCE TravelerRecord WITH
  record <- [u \in Users |-> RecordOf(u)]

\* Whatever submits and deletions overlap and wherever they fail, the two rows
\* of an account change as if they were one that each saved form replaces
\* whole and a deletion empties for good.
ImplementsRecord == Record!Spec
===============================================================================
