\* Two writers and an ingest, who stop appending once they seal; writes and
\* unlinks fail, files rot, slots are claimed and files renamed at any moment.
SPECIFICATION BlobsSpec
CONSTANTS
  Digest = {d1}
  Size = 2
  Writer = {w1, w2}
  Ingest = {i1}
  Inode = {f1, f2, f3}
  NoFile = NoFile
  LateAppend = FALSE
  pa = pa
  pb = pb
  pc = pc
  pd = pd
  Payload = {pa, pb, pc, pd}
  None = None
  SizeOf <- MCSizeOf
  Large = 2
  Budget = 3
SYMMETRY MCSymmetry
VIEW MCView
INVARIANTS
  HeldSlotKept
  OneWriter
  NamesDescribe
  TiersSound
