CONSTANTS
  b1 = b1
  r1 = r1
  r2 = r2
  r3 = r3
  w1 = w1
  w2 = w2
  Requests = {r1}
  Balances = {b1}
  BalanceOf <- MCBalanceOf
  DaysOf <- MCDaysOf
  Workers = {w1, w2}
  NoWorker = NoWorker
  NoEntry = NoEntry
  NoRow = NoRow
  Faults = {"unavailable", "lost", "db"}
  MaxStalled = 1
  MaxEntries = 3
  InitialTotals = {1}
  Totals = {3}
  Budget <- AnyDisturbance
  MaxDisturbances = 2
SPECIFICATION FairSpec
CHECK_DEADLOCK FALSE
INVARIANTS
  LedgerBalanced
  OneDecision
PROPERTIES
  TerminalIsFinal
  JobsSettle
  DecisionSettles
