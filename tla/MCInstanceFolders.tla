------------------------- MODULE MCInstanceFolders -------------------------
EXTENDS InstanceFolders, TLC

CONSTANTS t1, t2, t3

ThreeThreads == {t1, t2, t3}

\* Connections are interchangeable.
Symmetry == Permutations(Threads)
=============================================================================
