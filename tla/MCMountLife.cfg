SPECIFICATION FairSpec
CONSTANTS
  Dispatchers = {d1, d2}
  Monitor = monitor
  None = none
INVARIANTS
  TypeOK
  ReasonTrue
  MessageTrue
  NoKillUnderDrive
  OrderlyEnd
PROPERTIES
  LossEnds
  InterruptEnds
  WaitEnds
CHECK_DEADLOCK FALSE
