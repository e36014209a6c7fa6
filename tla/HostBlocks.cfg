\* Every backing; blocks of several calls, refused, aborted, lost or published.
SPECIFICATION Spec
CONSTANTS
  k1 = k1
  k2 = k2
  v = v
  x = x
  y = y
  z = z
  Key = {k1, k2}
  Val = {v}
  Obj = {x, y, z}
  Refs = Refs
  None = None
  Hole = Hole
  Kind = {"map", "store", "odb"}
  Programs <- MCPrograms
  MaxFuel = 5
  MaxStoreReads = 2
  MaxSibReads = 1
  MaxObjReads = 1
  MaxHostBytes = 3
  MaxMemoBytes = 3
  MaxHeight = 2
  MaxIntents = 1
INVARIANTS
  RefsReadable
  BlockBytesBounded
PROPERTIES
  HeightNamesRefs
  ImplementsNative
  CallEnds
