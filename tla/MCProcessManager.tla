-------------------------- MODULE MCProcessManager --------------------------
EXTENDS ProcessManager, TLC

CONSTANTS t1, t2, p1, p2, p3

TwoThreads == {t1, t2}
OneThread == {t1}
TwoPids == {p1, p2}
ThreePids == {p1, p2, p3}

StartStop == {"start", "stop"}

\* Processes are interchangeable.
Symmetry == Permutations(Pids)
=============================================================================
