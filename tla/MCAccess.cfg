CONSTANTS
  ann = ann
  max = max
  eve = eve
  joe = joe
  r1 = r1
  c1 = c1
  c2 = c2
  People = {ann, max, eve, joe}
  Nobody = Nobody
  Requests = {r1}
  Calls = {c1, c2}
  NoCall = NoCall
  Founders <- MCFounders
  MaxWrites = 1
SPECIFICATION Spec
SYMMETRY CallSymmetry
CHECK_DEADLOCK FALSE
INVARIANTS
  TypeOK
  DecidedByEntitled
  TeamsIntact
