SPECIFICATION Spec
CONSTANTS
  g1 = g1  g2 = g2  a = a  b = b
  Goroutines = {g1, g2}
  Chans = {a, b}
  Cap = 1
  CaseArrays <- MCCaseArrays
  MaxCases = 3
PROPERTIES SelectOutcome SelectReturns
