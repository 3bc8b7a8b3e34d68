----------------------------- MODULE MCToolPool -----------------------------
EXTENDS ToolPool, TLC

CONSTANTS s1, s2, w1, w2, w3, c1

MCSessions == {s1, s2}
MCWorkers  == {w1, w2, w3}
MCClosers  == {c1}

\* Workers are interchangeable names, and so are sessions.
Symmetry == Permutations(MCSessions) \cup Permutations(MCWorkers)
=============================================================================
