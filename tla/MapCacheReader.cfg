CONSTANTS
  SSblk = 0
  ESblk = 2
  PagesPerSblk = 2
  UnitsPerPage = 1
  NrTPages = 3
  MaxCached = 2
  Readers = {r1}
  Entries = {e1}
SYMMETRY Symmetry
SPECIFICATION Spec
INVARIANTS TppaSound CountersExact LruIsCache
