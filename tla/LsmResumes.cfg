CONSTANTS
  Keys = {1, 2, 3, 4, 5, 6}
  KeyLen <- SmallKeyLen
  PageRoom = 4
  NumLimit = 3
  FlushCheckNum = 2
  LevelCaching = 2
  SizeFactor = 2
  CqSize = 2
  PagesPerSblk = 4
  LastMapSblk = 5
  LastSblk = 10
  MaxVer <- Once
SPECIFICATION Spec
PROPERTIES SetResumes
CHECK_DEADLOCK FALSE
