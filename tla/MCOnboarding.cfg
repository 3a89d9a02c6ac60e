CONSTANTS
  u1 = u1
  c1 = c1
  d1 = d1
  kr = kr
  Requests = {p1, p2}
  Users = {u1}
  None = None
  Erased = Erased
  Torn = Torn
  Categories = {c1}
  Cities = {d1}
  Countries = {kr}
  CountryOf <- MCCountryOf
  Inputs <- MCInputs
  InitialUsers <- MCAnyone
SPECIFICATION FairSpec
INVARIANTS
  TypeOK
  SavedWasOffered
  SavedGoesHome
PROPERTIES
  AnswersTellTheRecord
  HomeMeansComplete
  ImplementsRecord
  EveryRequestAnswered
