CONSTANTS
  b1 = b1
  r1 = r1
  r2 = r2
  p1 = p1
  p2 = p2
  Requests = {r1, r2}
  Balances = {b1}
  BalanceOf <- MCBalanceOf
  DaysOf <- MCDaysOf
  Faults = {"unavailable", "invalid", "insufficient", "silent_accept"}
  NoRow = NoRow
  Probes = {p1, p2}
  Exhausted = {0}
  Totals = {1}
  Scopes <- MCScopes
SPECIFICATION FairServicesSpec
CHECK_DEADLOCK FALSE
INVARIANTS
  ServicesTypeOK
  TwinsAgree
  DownHasCause
PROPERTIES
  SameAnswers
  StoreImplementsHcm
  ProbeAnswered
