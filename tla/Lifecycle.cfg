SPECIFICATION MCSpec
CHECK_DEADLOCK FALSE
CONSTANTS
  Signals = {"metrics", "logs"}
  Interfaces = {i1, i2}
  Nil = Nil
INVARIANTS EngineLifetime FailuresSurface
PROPERTIES EverythingReturns
