---------------------------- MODULE MCFileIntake ----------------------------
EXTENDS FileIntake, TLC

Symmetry == Permutations(Session) \cup Permutations(Id) \cup Permutations(Byte)
=============================================================================
