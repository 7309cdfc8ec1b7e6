--------------------------- MODULE MCAppRegistry ---------------------------
EXTENDS AppRegistry, TLC

CONSTANTS a1, a2, a3, d1, d2

ThreeApps == {a1, a2, a3}
TwoDefs == {d1, d2}

\* Identifiers are interchangeable, and so are definitions.
Symmetry == Permutations(AppIds) \cup Permutations(Defs)
=============================================================================
