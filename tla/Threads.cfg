CONSTANTS
  Workers = {w1, w2}
  RmwWorkers = {w2}
  Requests = {1, 2, 3}
  Completers = {t1, t2}
  IoDepth = 2
  ReqRoom = 1
  FinishRoom = 1
  MaxParks = 1
  AbsentReads = TRUE
  Payloads = {a, b, c}
  Slack = 1
  MaxTime = 3
  MaxArrivals = 4
  w1 = w1
  w2 = w2
  p1 = p1
  p2 = p2
  c1 = c1
SPECIFICATION MCSpec
INVARIANTS WaitBounded OvertakesOnlyLater CountedIsThere OneHolder CounterExact RmwAtomicOnce
PROPERTIES EventuallyServed EventuallyDrained AcceptedEnds
CHECK_DEADLOCK FALSE
