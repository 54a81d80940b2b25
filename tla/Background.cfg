CONSTANTS
  SSblk = 0
  ESblk = 2
  PagesPerSblk = 2
  UnitsPerPage = 1
  NrTPages = 2
  MaxCached = 1
  Readers = {r1, r2}
  Entries = {w1, w2}
  pg1 = pg1
  pg2 = pg2
  pg3 = pg3
  n1 = n1
  n2 = n2
  n3 = n3
  NULL = NULL
SYMMETRY Symmetry
SPECIFICATION MCSpec
INVARIANTS NeverAborts NewerIsDirty FoundUnlessLate NewestIsHeld LevelsFit InvalidatedIsDead IsMap
PROPERTY ImplementsOrder
CHECK_DEADLOCK FALSE
