CONSTANTS
  Nil = Nil
  Failed = Failed
  Junk = Junk
  Sources <- MCSources
SPECIFICATION Spec
INVARIANTS RecoverStopsThePanic
CHECK_DEADLOCK FALSE
