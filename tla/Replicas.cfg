\* Two operations in a block over stores that differ by orphan chunks; two
\* owners under tight caps and an image without slack.
SPECIFICATION Spec
CONSTANTS
  Node = {a, b}
  Joiner = {b}
  Path = {p1, p2}
  Chunk = {c1, c2}
  Owner = {o1, o2}
  PinName = {n1}
  Watch = {w1}
  RetKey = {k1}
  Absent = Absent
  NoEntry = NoEntry
  ChunkLen <- MCChunkLen
  EntryLen <- MCEntryLen
  MaxSnap = 2
  MaxRev = 1
  WindowCap = 1
  StagingCap = 2
  OwnerCap = 2
  Quota = 1
  PinCap = 1
  PinShare = 1
  WatchCap = 1
  TTL = 2
  MaxImage = 5
  GcPeriod = 3
  MaxHeight = 4
  MaxOps = 2
  Mixed = FALSE
SYMMETRY MCSymmetry
VIEW MCView
INVARIANTS
  SingleOpAgreement
  Possession
  CapsHold
PROPERTIES
  TtlHonoured
