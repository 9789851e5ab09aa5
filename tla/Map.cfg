SPECIFICATION Spec
CONSTANTS
  k1 = k1  k2 = k2  k3 = k3  k4 = k4  v1 = v1  v2 = v2
  Empty = Empty
  Tomb = Tomb
  GroupSize = 2
  InitialCap = 4
  MaxHint = 5
  Keys = {k1, k2, k3, k4}
  Hash <- MCHash
  Values = {v1, v2}
INVARIANTS TypeOK CountsExact ProbesEnd OneEntryPerKey VisitsOnceUnlessRehashed
PROPERTIES ImplementsMap
