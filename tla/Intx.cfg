SPECIFICATION Spec
CONSTANTS
  W = 2
CHECK_DEADLOCK FALSE
INVARIANTS WordArithmetic HalfWidth LoopExact EstimateOneOff DividesExactly SignedTruncates
