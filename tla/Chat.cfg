\* A channel with a message older than the index and an id nested in its own,
\* pages of one message; a client with a two-row window.
SPECIFICATION Spec
CONSTANTS
  g = g
  d = d
  w1 = w1
  w2 = w2
  h1 = h1
  h2 = h2
  Channel = {g, d}
  Nested <- MCNested
  Id = {m1, m2, m3}
  Token = {w1, w2}
  Label = {h1, h2}
  Body <- MCBody
  Party = {me}
  Emoji = {e}
  None = None
  Limit = 1
  MaxSeq = 4
  MaxRev = 2
  MaxOps = 4
  Floor <- MCFloor
  Room = g
  Me = me
  Window = 2
  MaxReads = 2
  RoomOps = 3
  SeenBody <- MCSeenBody
SYMMETRY MCSymmetry
INVARIANTS
  IndexSound
  WalkComplete
  WindowSound
  DrainedMatches
PROPERTIES
  LandingKeeps
CHECK_DEADLOCK FALSE
