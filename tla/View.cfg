\* A mirror in step with its document, and no edit or fault left, may rest.
SPECIFICATION ViewWireSpec
CHECK_DEADLOCK FALSE
CONSTANTS
  MaxDepth = 3
  MaxNodes = 4
  MaxDecoded = 12
  MaxText = 4
  MaxDocuments = 1
  MaxProjected = 2
  MaxPatches = 4
  HostileSteps = 1
  NoTree = NoTree
  Views <- MCViews
  HostilePatches <- MCHostile
  Byte <- MCByte
  Texts <- MCTexts
  Joined2 <- MCJoined2
  Chunk = 2
  MaxRevision = 2
  MaxRequests = 6
  Faults = 1
  NoMirror = NoMirror
  NoTransfer = NoTransfer
INVARIANTS
  HostShowsSent
  HostBounded
  MirrorExact
PROPERTIES
  CatchesUp
