SPECIFICATION Spec
CONSTANTS
  Session = {s1, s2}
  Name = {m, n}
  MaxItems = 2
  Bytes = {1, 2}
  UploadLimit = 2
  Window = 1
  RetentionZero = TRUE
  MaxBatches = 2
SYMMETRY Symmetry
INVARIANTS BundleStored NothingHalfDone
