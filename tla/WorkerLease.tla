---------------------------- MODULE WorkerLease ----------------------------
(***************************************************************************)
(* What a tool pool promises its sessions, without threads, start-ups,     *)
(* generations or kills: at most PoolSize workers are on offer or lent, a  *)
(* worker is lent to one session at a time, and a session's worker is      *)
(* never replaced under it: it is returned, dropped or closed.             *)
(***************************************************************************)
EXTENDS Integers, FiniteSets

CONSTANTS Sessions, Workers, NoWorker, PoolSize

VARIABLES available, lent

Lent    == {lent[s] : s \in {t \in Sessions : lent[t] # NoWorker}}
InUse   == available \cup Lent
HasRoom == Cardinality(InUse) < PoolSize

Init == available = {} /\ lent = [s \in Sessions |-> NoWorker]

Provide(w) ==
  /\ w \notin InUse
  /\ HasRoom
  /\ available' = available \cup {w}
  /\ UNCHANGED lent

Lend(s, w) ==
  /\ lent[s] = NoWorker
  /\ w \in available \/ (w \notin InUse /\ HasRoom)
  /\ available' = available \ {w}
  /\ lent' = [lent EXCEPT ![s] = w]

Return(s) ==
  /\ lent[s] # NoWorker
  /\ available' = available \cup {lent[s]}
  /\ lent' = [lent EXCEPT ![s] = NoWorker]

Drop(s) ==
  /\ lent[s] # NoWorker
  /\ lent' = [lent EXCEPT ![s] = NoWorker]
  /\ UNCHANGED available

Close ==
  /\ available' = {}
  /\ lent' \in {lent, [s \in Sessions |-> NoWorker]}

Next ==
  \/ \E w \in Workers : Provide(w)
  \/ \E s \in Sessions : (\E w \in Workers : Lend(s, w)) \/ Return(s) \/ Drop(s)
  \/ Close

Spec == Init /\ [][Next]_<<available, lent>>
=============================================================================
