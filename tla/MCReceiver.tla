----------------------------- MODULE MCReceiver -----------------------------
EXTENDS Receiver, TLC

Symmetry == Permutations(Transfer) \cup Permutations(Bundle)
=============================================================================
