SPECIFICATION FairSpec
CONSTANTS
  g1 = g1  g2 = g2  g3 = g3  w1 = w1  w2 = w2  t1 = t1
  Goroutines = {g1, g2, g3}
  Workers = {w1, w2}
  Tasks = {}
  Cap = 2
  MaxOps = 2
  NoValue = NoValue
CHECK_DEADLOCK FALSE
INVARIANTS WaitersAreBlocked SendOutcome DeliveredOnce EndOfStream
INVARIANTS TypeOK RingHoldsBacklog
PROPERTIES ImplementsFifo CloseReleases
