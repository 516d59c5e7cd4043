----------------------------- MODULE MCAuthRate -----------------------------
EXTENDS AuthRate, TLC

Symmetry ==
  Permutations(Session \ Owner) \cup Permutations(Address) \cup Permutations(Account)
=============================================================================
