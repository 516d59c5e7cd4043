SPECIFICATION Spec
CONSTANTS
  Session = {s1, s2, s3}
  Owner = {s1}
  Address = {x, y}
  Account = {u, v}
  None = None
  MaxFailures = 1
  MaxEntries = 3
  Window = 1
  MaxGuesses = 4
  MaxCount = 2
SYMMETRY Symmetry
INVARIANTS TypeOK GuessesBounded
