SPECIFICATION Spec
CONSTANTS
  Dispatchers = {d1, d2}
  Monitor = monitor
  None = none
SYMMETRY Symmetry
PROPERTIES
  ReadyIsOwn
CHECK_DEADLOCK FALSE
