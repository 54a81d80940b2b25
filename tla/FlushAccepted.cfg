CONSTANTS
  SSblk = 1
  ESblk = 3
  PagesPerSblk = 3
  UnitsPerPage = 1
  NrLpas = 3
  NrEntries = 2
  ValueLens = {1}
SPECIFICATION Spec
PROPERTY FlushAccepted
CHECK_DEADLOCK FALSE
