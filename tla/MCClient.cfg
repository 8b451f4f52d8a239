CONSTANTS
  b1 = b1
  r1 = r1
  Requests = {r1}
  Balances = {b1}
  BalanceOf <- MCBalanceOf
  DaysOf <- MCDaysOf
  Workers = {w1}
  NoWorker = NoWorker
  NoEntry = NoEntry
  NoRow = NoRow
  Faults = {}
  MaxStalled = 1
  MaxEntries = 3
  InitialTotals = {NoRow, 2}
  Totals = {2}
  Budget <- MCBudget
  MaxDisturbances = 2
  ManagerPage = ManagerPage
  AdminPage = AdminPage
  MaxCalls = 2
  NoRead = NoRead
  SetupTotal = 2
SPECIFICATION ClientSpec
CHECK_DEADLOCK FALSE
INVARIANTS
  ClientTypeOK
  ToldIsOutcome
PROPERTIES
  RowsKnownToHcm
  ShownIsExplained
