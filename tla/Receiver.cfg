SPECIFICATION Spec
CONSTANTS
  Transfer = {t1, t2}
  Bundle = {b1}
  MaxChunks = 2
  BundleFiles = 3
  MaxSecond = 1
  MaxFaults = 1
SYMMETRY Symmetry
CHECK_DEADLOCK FALSE
INVARIANTS KeptWhole
PROPERTIES NeverOverwritten NoOrphans
