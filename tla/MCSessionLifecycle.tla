------------------------- MODULE MCSessionLifecycle -------------------------
EXTENDS SessionLifecycle, TLC

Symmetry == Permutations(Session) \cup Permutations(Fd)

\* bound: the threads that are inside enqueue or requestClientClose at once
TwoCalls == Cardinality({t \in Thread : ~Free(t)}) <= 2
=============================================================================
