SPECIFICATION FairSpec
CONSTANTS
  g1 = g1  g2 = g2  g3 = g3  w1 = w1  w2 = w2  t1 = t1  n1 = n1  n2 = n2
  Workers = {w1, w2}
  Nodes = {n1, n2}
  Null = Null
  MaxOps = 2
  NoValue = NoValue
  Goroutines = {g1, g2, g3}
  Tasks = {}
CHECK_DEADLOCK FALSE
PROPERTIES CloseReleases
INVARIANTS TypeOK ListHoldsBacklog WaitersAreBlocked DeliveredOnce EndOfStream
PROPERTIES ImplementsFifo
