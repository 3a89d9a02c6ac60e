CONSTANTS
  Users = {u1}
  Requests = {p1, p2, p3}
  None = None
  InitialUsers <- MCInitialUsers
  MaxResets = 2
SPECIFICATION Spec
SYMMETRY Symmetry
INVARIANTS
  TypeOK
  EveryAttemptRecorded
PROPERTIES
  SignInIsCurrent
  SessionsFollowTheAccount
