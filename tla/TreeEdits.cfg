\* Two names, paths of two segments, two contents; a window of two snapshots.
SPECIFICATION TreeSpec
CONSTANTS
  Name = {a, b}
  Leaf = {f, g}
  Directory = Directory
  None = None
  MaxDepth = 2
  Window = 2
  Steps <- MCSteps
SYMMETRY Sym
INVARIANT ReadsExact
PROPERTY ImplementsFlat
CHECK_DEADLOCK FALSE
