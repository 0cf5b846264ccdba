SPECIFICATION Spec
CONSTANTS
  Dispatchers = {d1, d2}
  Monitor = monitor
  None = none
SYMMETRY Symmetry
INVARIANTS
  EndStopsServer
CHECK_DEADLOCK FALSE
