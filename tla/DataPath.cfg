CONSTANTS
  SSblk = 1
  ESblk = 3
  PagesPerSblk = 2
  UnitsPerPage = 2
  NrLpas = 2
  NrEntries = 2
  ValueLens = {1, 2}
  r1 = r1
  NrPages = 3
  EPP = 2
  Asked = {0, 2, 4}
  Reqs = {r1}
  Total = 3
  HotCap = 2
  Chunk = 1
  NHot = 1
  KeyChunk = 1
  MaxProbe = 1
  RehashProbe = 2
  Warm = 1
  MaxHeat = 2
  TopK = 1
  CapPerPage = 1
  FifoMax = 1
  ScanSteps = 1
  MaxStat = 1
  MaxVer = 1
SPECIFICATION MCSpec
INVARIANTS TableSound DeviceFollows AssertsHold GcReady CountsExact ResizeKeepsWarm
CHECK_DEADLOCK FALSE
