SPECIFICATION FairSpec
CONSTANTS
  Callers = {a, b, x}
  Keyed = {a, b}
  NoCaller = nobody
  MaxCalls = 2
  MaxCrashes = 1
INVARIANTS
  TypeOK
  InOrder
  AnswerIsOwn
  Inductive
  OnlyKeyedApplied
PROPERTIES
  Settled
  AbsSpec
  CallsReturn
  ServerGoneNoticed
  ServerReturns
CHECK_DEADLOCK FALSE
