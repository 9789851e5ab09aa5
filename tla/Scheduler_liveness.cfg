SPECIFICATION FairSpec
CONSTANTS
  g1 = g1  g2 = g2  g3 = g3  w1 = w1  w2 = w2  h1 = h1  main = main
  Goroutines = {g1, g2}
  Workers = {w1, w2}
  Helpers = {h1}
  Main = main
  NoG = NoG
  Unbound = Unbound
  HelperSpawns = FALSE
  Pollers = {}
INVARIANTS CountsExact ShutdownJoins
PROPERTIES ShutdownTerminates FreshRuns UnparkedRuns
CHECK_DEADLOCK FALSE
