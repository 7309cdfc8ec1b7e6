----------------------------- MODULE MCUserStore -----------------------------
EXTENDS UserStore, TLC

CONSTANTS r1, r2, ann, bob, h1, h2

OneUser == {ann}
TwoUsers == {ann, bob}
OneRequest == {r1}
TwoRequests == {r1, r2}
OneHash == {h1}
TwoHashes == {h1, h2}

\* Who may be there at first; every account with the first of the hashes.
AnyWithAdministrator ==
    {s \in Stores : /\ \A u \in Users : s[u] = Absent \/ s[u].hash = h1
                    /\ \E u \in Users : Administrator(s, u)}

\* Requests and users are interchangeable.
Symmetry == Permutations(Requests) \cup Permutations(Users)
=============================================================================
