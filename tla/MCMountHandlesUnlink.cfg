SPECIFICATION Spec
CONSTANTS
  Names = {a, b}
  MaxDepth = 2
  Nodes = {root, n1, n2}
  Root = root
  Nowhere = nowhere
  MaxSize = 0
  Handles = {h1, h2}
  NoNode = none
  Sharing = TRUE
  Guarded = {"file", "dir"}
  MaxFaults = 0
SYMMETRY Symmetry
PROPERTY OpenUntilClose
