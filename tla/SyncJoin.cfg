\* A joiner against two peers neither of which can serve a whole image.
SPECIFICATION Spec
CONSTANTS
  s1 = s1
  t1 = t1
  s2 = s2
  t2 = t2
  c1 = c1
  c2 = c2
  c3 = c3
  a = a
  b = b
  Obj = {s1, t1, s2, t2, c1, c2, c3}
  Order <- MCOrder
  Kids <- MCKids
  Chunk = {c1, c2, c3}
  Cost <- MCCost
  Image <- MCImage
  Peer = {a, b}
  Lost <- MCLost
  Spoilt <- MCSpoilt
  Limit = 2
  ReplyCap = 2
  None = None
  MaxRot = 1
  MaxCrash = 1
  MaxForge = 1
PROPERTIES
  ReadyPossesses
  SweepsSpare
  Converges
