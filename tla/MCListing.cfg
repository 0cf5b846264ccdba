SPECIFICATION Spec
CONSTANTS
  MaxName = 3
  Room = 2
  MaxChange = 2
  Spelling <- ThreeWords
  MaxSteps = 3
INVARIANTS
  ShownOnce
  NothingInvented
  Resolved
