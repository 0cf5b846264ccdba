SPECIFICATION Spec
CONSTANTS
  Ticks = 2
  NanosPerTick = 2
  Offset = 1
  MaxWord = 7
  Unset = unset
  Stamps <- LateStamps
  MaxTouch = 1
PROPERTIES
  ZeroKeeps
