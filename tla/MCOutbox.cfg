CONSTANTS
  e1 = e1
  e2 = e2
  w1 = w1
  w2 = w2
  Entries = {e1, e2}
  Workers = {w1}
  NoWorker = NoWorker
  NoEntry = NoEntry
  MaxStalled = 1
  BatchLimit = 1
  StuckAfter = 2
  MaxCompleted = 1
  Budget = 2
SPECIFICATION FairSpec
CHECK_DEADLOCK FALSE
INVARIANTS
  TypeOK
  OldestFirst
PROPERTIES
  CompletedNotRepeated
  ChannelSpec
  EntriesSettle
