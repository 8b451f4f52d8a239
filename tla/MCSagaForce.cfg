CONSTANTS
  b1 = b1
  r1 = r1
  r2 = r2
  r3 = r3
  w1 = w1
  w2 = w2
  Requests = {r1, r2}
  Balances = {b1}
  BalanceOf <- MCBalanceOf
  DaysOf <- MCDaysOf
  Workers = {w1, w2}
  NoWorker = NoWorker
  NoEntry = NoEntry
  NoRow = NoRow
  Faults = {"unavailable", "lost"}
  MaxStalled = 1
  MaxEntries = 2
  InitialTotals = {2, 3}
  Totals = {0}
  Budget <- ForceBudget
  MaxDisturbances = 2
SPECIFICATION Spec
SYMMETRY WorkerSymmetry
CHECK_DEADLOCK FALSE
INVARIANTS
  TypeOK
  LedgerInv
  StatusMatchesSaga
  HcmAgrees
  LedgerBalanced
  HcmNeverOverdrawn
  BooksInv
PROPERTIES
  LifecycleSpec
