CONSTANTS
  Nil = Nil
  Failed = Failed
  Encode <- MCEncode
  Decode <- MCDecode
  WellFormed <- MCWellFormed
  Damages <- MCDamages
  Nodes <- MCNodes
SPECIFICATION Spec
INVARIANTS RoundTrip AcceptedIsWellFormed
CHECK_DEADLOCK FALSE
