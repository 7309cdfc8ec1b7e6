--------------------------- MODULE MCAppLifecycle ---------------------------
EXTENDS AppLifecycle, TLC

CONSTANTS t1, d1, d2, s1, s2, p1, p2, p3

OneThread == {t1}
OneDef == {d1}
TwoDefs == {d1, d2}
OneScope == {s1}
TwoScopes == {s1, s2}
ThreePids == {p1, p2, p3}
TwoPids == {p1, p2}

StartStop == {"start", "stop"}

\* Definitions, scope objects and processes are interchangeable.
Symmetry == Permutations(Defs) \cup Permutations(Scopes) \cup Permutations(Pids)
=============================================================================
