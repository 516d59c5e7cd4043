------------------------------ MODULE MCDelivery ------------------------------
EXTENDS Delivery, TLC

Symmetry == Permutations(Session)
=============================================================================
