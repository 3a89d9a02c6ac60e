CONSTANTS
  u1 = u1
  u2 = u2
  verify1 = verify1
  reset1 = reset1
  delete1 = delete1
  delete2 = delete2
  Users = {u1}
  Tokens = {verify1, reset1, delete1, new1, new2}
  Requests = {p1, p2, p3}
  None = None
  Original = Original
  InitialUsers <- MCTravelers
  Seed <- MCSeed
  Ttl <- MCTtl
  MaxClock = 1
SPECIFICATION Spec
SYMMETRY Symmetry
INVARIANTS
  TombstoneStaysAnonymous
