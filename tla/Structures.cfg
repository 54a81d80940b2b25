CONSTANTS
  a = a
  b = b
  c = c
  Producers = {p1, p2}
  Consumers = {c1, c2}
  SP = FALSE
  SC = FALSE
  Size = 4
  Word = 8
  Bulk = {1}
  Starts = {6}
  MaxItems = 4
  n1 = n1
  n2 = n2
  n3 = n3
  NULL = NULL
  Lines = {0, 1, 2}
  PagesPerLine = 3
  MaxRun = 4
  SSblk = 1
  ESblk = 3
  PagesPerSblk = 2
  NrLpas = 3
  EntriesPerPage = 1
  MaxCached = 2
  MaxWb = 1
  Readers = {r1}
SPECIFICATION MCSpec
SYMMETRY Symmetry
INVARIANTS WrittenPrefix FewestPages GetIsRight NodesSound
PROPERTIES ImplementsQueue IsFifo
CHECK_DEADLOCK FALSE
