CONSTANTS
  Nil = Nil
  Failed = Failed
  Junk = Junk
  Sources <- MCSources
SPECIFICATION Spec
INVARIANTS UsesAreDeclared SupportedBehaveAsGo
CHECK_DEADLOCK FALSE
