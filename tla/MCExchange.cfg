SPECIFICATION Spec
CONSTANTS
  Base = 2
  LenBytes = 2
  MaxSize = 4
  Messages = {m}
  Keys = {k1, k2}
  ServerKey = k1
  Nothing = nothing
INVARIANTS
  Intact
  FramesOpen
  ErrorTold
  LossHasCause
PROPERTY BothEnd
CHECK_DEADLOCK FALSE
