CONSTANTS
  r1 = r1
  e1 = e1
  i1 = i1
  Requests = {p1, p2, p3}
  Residents = {r1}
  Emails = {e1, e2}
  Identities = {i1, i2}
  None = None
  Resident <- MCResident
SPECIFICATION FairSpec
INVARIANTS
  TypeOK
  WholeOrNothing
  NoForeignSignIn
  ToldTheTruth
  ConflictMeansDeletion
PROPERTIES
  ImplementsDirectory
  EveryRequestAnswered
