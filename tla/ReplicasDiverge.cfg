\* Two operations in a block over stores that differ by one orphan chunk.
SPECIFICATION Spec
CONSTANTS
  Node = {a, b}
  Joiner = {b}
  Path = {p1}
  Chunk = {c1, c2}
  Owner = {o1}
  PinName = {}
  Watch = {}
  RetKey = {}
  Absent = Absent
  NoEntry = NoEntry
  ChunkLen <- MCChunkLen
  EntryLen <- MCEntryLen
  MaxSnap = 2
  MaxRev = 0
  WindowCap = 1
  StagingCap = 2
  OwnerCap = 2
  Quota = 2
  PinCap = 1
  PinShare = 1
  WatchCap = 0
  TTL = 1
  MaxImage = 100
  GcPeriod = 3
  MaxHeight = 4
  MaxOps = 2
  Mixed = FALSE
SYMMETRY MCSymmetry
INVARIANTS
  Agreement
