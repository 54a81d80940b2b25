CONSTANTS
  Keys = {1, 2, 3, 4, 5}
  Requests = {1, 2, 3, 4, 5}
  Hash <- HashClash
  Fp <- FpClash
  FpMax = 0
  NrEntries = 8
  EPP = 2
  MaxCached = 1
  MaxWb = 2
  MaxCollision = 2
  MaxQueue = 1
  Few = 4
  NrStreams = 2
  SSblk = 1
  ESblk = 8
  PagesPerSblk = 2
  GrainsPerPage = 2
  EntriesPerPage = 1
  NrLpas = 4
  MaxWriteBuf = 3
  MaxFlushes = 8
SPECIFICATION MCSpec
INVARIANTS StoredReachable NotFoundIsAbsent AnsweredOnce OverflowIsFull PoolsSound StreamsReadable
PROPERTIES NothingLost RequestAnswered
CHECK_DEADLOCK FALSE
