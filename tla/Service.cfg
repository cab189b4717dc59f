SPECIFICATION Spec
CONSTANTS
  W = 2
  UINT32_MAX = 3
  Cards = 3
INVARIANTS CutIsModulo UniformDraws EveryOrder
PROPERTIES NoRepeat
