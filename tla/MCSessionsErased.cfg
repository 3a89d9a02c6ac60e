CONSTANTS
  Users = {u1}
  Requests = {p1, p2}
  None = None
  InitialUsers <- MCInitialUsers
  MaxResets = 1
SPECIFICATION Spec
SYMMETRY Symmetry
INVARIANTS
  NoSuccessAfterDeletion
