SPECIFICATION Spec
CONSTANTS
  Names = {a, b}
  MaxDepth = 2
  Nodes = {root, n1, n2, n3}
  Root = root
  Nowhere = nowhere
  MaxSize = 1
  MaxLocal = 2
SYMMETRY Symmetry
INVARIANTS
  TypeOK
  FailureLeavesTree
  RenameLoss
  CanDeleteHonest
