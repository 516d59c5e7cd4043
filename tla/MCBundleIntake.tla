--------------------------- MODULE MCBundleIntake ---------------------------
EXTENDS BundleIntake, TLC

Symmetry == Permutations(Session) \cup Permutations(Name)
=============================================================================
