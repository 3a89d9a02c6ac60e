CONSTANTS
  c1 = c1
  d1 = d1
  d2 = d2
  kr = kr
  th = th
  us = us
  seoul = seoul
  east = east
  west = west
  s1 = s1
  s2 = s2
  l1 = l1
  Categories = {c1}
  Cities = {d1, d2}
  Countries = {kr, th}
  CountryOf <- MCCountryOf
  Switchable = {c1, d1}
  None = None
  Residences = {kr, us}
  TimezonesOf <- MCTimezonesOf
  FirstTimezone <- MCFirstTimezone
  NewTimezone = seoul
  Styles = {s1, s2}
  Languages = {l1}
  Most <- MCMost
  BudgetMax = 1
  GroupMax = 1
  Fillings <- MCFillings
  Posts <- MCPosts
  Programs = {1, 2, 3, 4, 5}
  CityIn <- MCCityIn
  CategoryIn <- MCCategoryIn
  Withdrawable = {2, 4}
  Rank <- MCRank
  DefaultSort = "featured"
  PageSize = 2
  PageMax = 3
  Urls <- MCUrls
SPECIFICATION Spec
INVARIANTS
  AcceptedIsComplete
  FilledFormIsAccepted
  OneRedirect
  WalkSeesAll
  FiltersAgree
