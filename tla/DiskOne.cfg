\* Power may be lost and the process may die at any time.
SPECIFICATION ScratchSpec
CONSTANTS
  o1 = o1
  o2 = o2
  o3 = o3
  aa = aa
  bb = bb
  Obj = {o1, o2, o3}
  Dir = {aa, bb}
  DirOf <- MCDirOf
  PowerLosses = TRUE
  a1 = a1
  a2 = a2
  Attempt = {a1, a2}
  Canonical = Canonical
  Target <- MCTarget
CONSTRAINT MCBound
SYMMETRY MCSymmetry
INVARIANTS
  NoTornWindow
  RetryKeeps
