-------------------------- MODULE MCDaemonStorage --------------------------
(* Two daemons with the same roots, and a third that shares the log root only. *)
EXTENDS DaemonStorage, TLC

CONSTANTS d1, d2, d3, top, state, logs, c1, c2, r1, r2

MCAbove == (top :> {}) @@ (state :> {top}) @@ (logs :> {top})
MCRoots == [d \in Daemons |-> IF d = d3 THEN {logs} ELSE {state, logs}]
Symmetry == Permutations(Calls) \cup Permutations(Requests) \cup Permutations({d1, d2})
MCOrder == (top :> 0) @@ (logs :> 1) @@ (state :> 2)
=============================================================================
