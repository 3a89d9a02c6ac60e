CONSTANTS
  u1 = u1
  u2 = u2
  verify1 = verify1
  reset1 = reset1
  delete1 = delete1
  delete2 = delete2
  Users = {u1, u2}
  Tokens = {verify1, reset1, delete1, delete2, new1, new2}
  Requests = {p1, p2}
  None = None
  Original = Original
  InitialUsers <- MCInitialUsers
  Seed <- MCSeedOfBoth
  Ttl <- MCTtl
  MaxClock = 1
SPECIFICATION MCSpec
INVARIANTS
  TypeOK
  OneLiveToken
  SingleUse
  LostClaimIsExplained
  SpentLinkVerifies
PROPERTIES
  ChangesAreAuthorised
  DeletionTakesAllTokens
  ImplementsSlots
  EveryRequestAnswered
