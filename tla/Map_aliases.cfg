SPECIFICATION Spec
CONSTANTS
  k1 = k1  k2 = k2  k3 = k3  k4 = k4  k5 = k5  v1 = v1
  m = m  n = n  b1 = b1  b2 = b2  b3 = b3
  Empty = Empty
  Tomb = Tomb
  GroupSize = 2
  InitialCap = 4
  Keys = {k1, k2, k3, k4, k5}
  Values = {v1}
  Hash <- MCHash
  Vars = {m, n}
  Buffers = {b1, b2, b3}
SYMMETRY Symmetry
INVARIANTS ProbesEnd
