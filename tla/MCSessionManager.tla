-------------------------- MODULE MCSessionManager --------------------------
(* Small instances of SessionManager for TLC. *)
EXTENDS SessionManager, TLC

CONSTANTS i1, i2, o1, o2, o3, t1, t2, c1

MCIds     == {i1, i2}
MCObjects == {o1, o2, o3}
MCClients == {t1, t2}
MCClosers == {c1}

\* Ids, objects and clients are interchangeable.
Symmetry == Permutations(MCIds) \cup Permutations(MCObjects) \cup Permutations(MCClients)
=============================================================================
