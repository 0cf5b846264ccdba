SPECIFICATION Spec
CONSTANTS
  Names = {a, b}
  MaxDepth = 2
  Nodes = {root, n1, n2}
  Root = root
  Nowhere = nowhere
  MaxSize = 2
  Handles = {h1, h2}
  NoNode = none
  Sharing = TRUE
  Guarded = {"dir"}
  MaxFaults = 1
SYMMETRY Symmetry
INVARIANTS
  TypeOK
  Reaches
PROPERTIES
  AsFiles
  RemovalMissed
  ConstrainedStays
