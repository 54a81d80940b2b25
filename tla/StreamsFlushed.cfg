CONSTANTS
  NrStreams = 2
  SSblk = 1
  ESblk = 8
  PagesPerSblk = 2
  GrainsPerPage = 2
  EntriesPerPage = 1
  NrLpas = 4
  MaxWriteBuf = 3
  MaxFlushes = 8
SPECIFICATION SegSpec
INVARIANTS FlushWritesAll
CHECK_DEADLOCK FALSE
