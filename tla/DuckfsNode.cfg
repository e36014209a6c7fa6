\* A one-slot window, a pin, a retention key, one lost object, sweeps all along.
SPECIFICATION Spec
CONSTANTS
  Path = {p1}
  Chunk = {c1, c2}
  Owner = {o1}
  PinName = {n1}
  Watch = {w1}
  RetKey = {k1}
  Absent = Absent
  NoEntry = NoEntry
  ChunkLen <- MCChunkLen
  EntryLen <- MCEntryLen
  MaxSnap = 2
  MaxRev = 2
  WindowCap = 1
  StagingCap = 2
  OwnerCap = 2
  Quota = 2
  PinCap = 1
  PinShare = 1
  WatchCap = 1
  TTL = 1
  MaxImage = 100
  GcPeriod = 1
  MaxSource = 3
  MaxHeight = 2
  MaxRot = 1
SYMMETRY MCSymmetry
INVARIANTS
  TypeOK
  DurableClosure
  PendingClosure
  MembershipCounts
  ResolvableReadable
PROPERTIES
  RevisionNamesState
  ImplementsAtomic
