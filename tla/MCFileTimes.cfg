SPECIFICATION Spec
CONSTANTS
  Ticks = 2
  NanosPerTick = 2
  Offset = 1
  MaxWord = 7
  Unset = unset
  Stamps <- FewStamps
  MaxTouch = 1
INVARIANTS
  TypeOK
  TimesSet
  OrderKept
PROPERTIES
  OthersKept
