SPECIFICATION Spec
CONSTANTS
  Names = {a, b}
  MaxDepth = 1
  Nodes = {root, n1, n2}
  Root = root
  Nowhere = nowhere
  MaxSize = 1
  Handles = {h1}
  NoNode = none
  Sharing = FALSE
  Guarded = {}
  MaxFaults = 1
SYMMETRY Symmetry
PROPERTY ConstrainedKeepsSize
