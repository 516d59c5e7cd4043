SPECIFICATION Spec
CONSTANTS
  Session = {s1}
  Id = {i1, i2}
  Byte = {a, b}
  None = None
  Gone = Gone
  MaxTransfers = 2
  MaxBytes = 2
  ChunkBytes = 1
  UploadLimit = 1
  Window = 1
  Lifetime = 1
  MaxFiles = 2
  MaxSeq = 1
  MaxWithheld = 1
SYMMETRY Symmetry
INVARIANTS TypeOK QuotaHeld DeliveredWhole StoredWhole NothingLeaks
PROPERTY NoLateChunk
