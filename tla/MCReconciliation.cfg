CONSTANTS
  b1 = b1
  b2 = b2
  b3 = b3
  w1 = w1
  w2 = w2
  Balances = {b1, b2, b3}
  NoRow = NoRow
  NoSync = NoSync
  Workers = {w1, w2}
  NoWorker = NoWorker
  NoJob = NoJob
  Totals = {1, 2}
  FirstTotals = {1}
  ChunkSize = 2
  MaxStalled = 1
  MaxChanges = 1
  Changing = {b1}
  Orders <- MCOrders
  MaxBatches = 2
  Budget = 2
SPECIFICATION Spec
SYMMETRY WorkerSymmetry
CHECK_DEADLOCK FALSE
INVARIANTS
  TypeOK
  LocalIsSnapshot
  RefreshesExplainTotal
  OneRefreshPerPush
  NewestWins
  FinishedChunksMerged
