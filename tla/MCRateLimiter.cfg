CONSTANTS
  Ips = {ip1, ip2}
  Emails = {x1}
  Requests = {p1, p2}
  None = None
  Limit <- MCLimit
  Window <- MCWindow
  Threshold = 1
  MaxClock = 4
SPECIFICATION Spec
SYMMETRY Symmetry
INVARIANTS
  TypeOK
  NeverOverTheLimit
  RetryAfterIsExact
  EmailBudgetIsPaid
PROPERTIES
  ImplementsWindow
