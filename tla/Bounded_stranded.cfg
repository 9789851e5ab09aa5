SPECIFICATION Spec
CONSTANTS
  g1 = g1  g2 = g2  g3 = g3  w1 = w1  w2 = w2  t1 = t1
  Goroutines = {g1, g2}
  Workers = {w1, w2}
  Tasks = {t1}
  Cap = 1
  MaxOps = 2
  NoValue = NoValue
SYMMETRY Symmetry
CHECK_DEADLOCK FALSE
INVARIANTS NoStrandedPair
