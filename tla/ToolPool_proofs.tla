-------------------------- MODULE ToolPool_proofs --------------------------
(***************************************************************************)
(* Theorems about ToolPool, for every set of sessions, workers and closing *)
(* threads, every pool size and every number of closes and faults: types,  *)
(* exclusive workers and capacity first; then that no worker and no lease  *)
(* is lost, that start-ups are counted, and that ToolPool implements       *)
(* WorkerLease.                                                            *)
(***************************************************************************)
EXTENDS ToolPool, FiniteSetTheorems, TLAPS

-----------------------------------------------------------------------------
(* Type correctness: _return_worker_to_idle appends the worker its caller    *)
(* remembers, so that the types rest on callers that talk to a tool having   *)
(* one in hand.                                                              *)

InHand == \A s \in Sessions : Drives(s) => caller[s].wk \in Workers

\* Total, and what is computed from it, is an integer.
LEMMA TotalType == ASSUME TypeOK PROVE Total \in Int
<1>1. IsFiniteSet(LeasedSessions) /\ IsFiniteSet(idle)
  BY PoolAssumption, FS_Subset DEF TypeOK, LeasedSessions
<1>2. Cardinality(LeasedSessions) \in Nat /\ Cardinality(idle) \in Nat
  BY <1>1, FS_CardinalityType
<1>. QED BY <1>2 DEF Total, TypeOK

LEMMA TypeInit == Init => TypeOK
<1> SUFFICES ASSUME Init PROVE TypeOK OBVIOUS
<1>1. prewarmComplete \in BOOLEAN /\ supervisorStop \in BOOLEAN /\ backoff \in BOOLEAN
  BY PoolAssumption, Zenon DEF Init
<1>2. targetTotal \in Int /\ starting \in Int /\ closeGeneration \in Nat /\ faults \in Nat
  BY PoolAssumption DEF Init
<1>3. caller \in [Sessions -> CallerType] /\ boot \in [Workers -> BootType]
  BY DEF Init, Outside, NoBoot, CallerType, BootType, CallerPC, BootPC
<1>4. closer \in [Closers -> CloserType]
  BY DEF Init, CloserType
<1>5. /\ idle \in SUBSET Workers /\ startingWorkers \in SUBSET Workers
     /\ alive \in SUBSET Workers /\ incomplete \in SUBSET Workers
  BY DEF Init
<1>6. leased \in [Sessions -> Workers \cup {NoWorker}]
  BY DEF Init
<1>7. loaded \in [Workers -> SUBSET Sessions]
  BY DEF Init
<1>8. supervisor \in {"none", "running", "waiting"}
  BY DEF Init
<1>. QED BY <1>1, <1>2, <1>3, <1>4, <1>5, <1>6, <1>7, <1>8 DEF TypeOK


\* The helpers that move a caller.
LEMMA MovesType ==
  ASSUME TypeOK, NEW s \in Sessions, NEW step \in CallerPC,
         NEW w \in Workers \cup {NoWorker}, NEW src \in {"none", "idle", "new"},
         Moves(s, step, w, src)
  PROVE  caller' \in [Sessions -> CallerType]
BY DEF TypeOK, Moves, CallerType

LEMMA EntersType ==
  ASSUME TypeOK, NEW s \in Sessions, NEW step \in CallerPC, NEW gen \in Nat,
         Enters(s, step, gen)
  PROVE  caller' \in [Sessions -> CallerType]
BY DEF TypeOK, Enters, CallerType

LEMMA CallerFieldTypes ==
  ASSUME TypeOK, NEW s \in Sessions
  PROVE  /\ caller[s].wk \in Workers \cup {NoWorker}
         /\ caller[s].src \in {"none", "idle", "new"}
         /\ caller[s].gen \in Nat
         /\ leased[s] \in Workers \cup {NoWorker}
BY DEF TypeOK, CallerType

LEMMA GotoType ==
  ASSUME TypeOK, NEW s \in Sessions, NEW step \in CallerPC
  PROVE  /\ Goto(s, step) => caller' \in [Sessions -> CallerType]
         /\ Forget(s, step) => caller' \in [Sessions -> CallerType]
         /\ \A w \in Workers \cup {NoWorker} :
              Using(s, step, w) => caller' \in [Sessions -> CallerType]
BY MovesType, CallerFieldTypes DEF Goto, Forget, Using

LEMMA LeaveType ==
  ASSUME TypeOK, NEW s \in Sessions, Leave(s) PROVE caller' \in [Sessions -> CallerType]
BY EntersType DEF Leave, CallerPC

\* The helpers on the other variables.
LEMMA NotifyType ==
  ASSUME TypeOK, Notify PROVE supervisor' \in {"none", "running", "waiting"}
BY DEF Notify, TypeOK

LEMMA DieType ==
  ASSUME TypeOK, NEW W \in SUBSET Workers, Die(W)
  PROVE  alive' \in SUBSET Workers /\ loaded' \in [Workers -> SUBSET Sessions]
BY DEF Die, TypeOK

LEMMA BootStepType ==
  ASSUME TypeOK, NEW w \in Workers, NEW from, NEW to \in BootPC, BootStep(w, from, to)
  PROVE  boot' \in [Workers -> BootType]
BY DEF BootStep, TypeOK, BootType

LEMMA BootOverType ==
  ASSUME TypeOK, NEW w \in Workers, NEW from, BootOver(w, from)
  PROVE  boot' \in [Workers -> BootType]
<1>1. NoBoot \in BootType
  BY DEF NoBoot, BootType, BootPC
<1>. QED BY <1>1 DEF BootOver, TypeOK

LEMMA FaultType == ASSUME TypeOK, Fault PROVE faults' \in Nat
BY DEF Fault, TypeOK

-----------------------------------------------------------------------------
\* Every step of a caller keeps the types.
LEMMA TypeCallerRequest ==
  ASSUME TypeOK, NEW s \in Sessions, CallerRequest(s) PROVE TypeOK'
<1>. USE DEF tables, counters, superVars, toolVars
<1>1. CASE Lease(s)
  <2>1. caller' \in [Sessions -> CallerType]
    BY <1>1, EntersType DEF Lease, TypeOK, CallerPC
  <2>. QED BY <1>1, <2>1 DEF Lease, TypeOK
<1>2. CASE Execute(s)
  <2>1. caller' \in [Sessions -> CallerType]
    BY <1>2, GotoType, CallerFieldTypes DEF Execute, CallerPC
  <2>2. loaded' \in [Workers -> SUBSET Sessions]
    BY <1>2, CallerFieldTypes DEF Execute, TypeOK
  <2>. QED BY <1>2, <2>1, <2>2 DEF Execute, TypeOK
<1>3. CASE DiscardLease(s)
  <2>1. caller' \in [Sessions -> CallerType]
    BY <1>3, GotoType DEF DiscardLease, CallerPC
  <2>. QED BY <1>3, <2>1 DEF DiscardLease, TypeOK
<1>4. CASE Release(s)
  <2>1. caller' \in [Sessions -> CallerType]
    BY <1>4, GotoType, LeaveType, CallerFieldTypes DEF Release, CallerPC
  <2>. QED BY <1>4, <2>1 DEF Release, TypeOK
<1>. QED BY <1>1, <1>2, <1>3, <1>4 DEF CallerRequest

LEMMA TypeCallerStep ==
  ASSUME TypeOK, InHand, NEW s \in Sessions, CallerStep(s) PROVE TypeOK'
<1>. USE DEF tables, counters, superVars, toolVars
<1>1. CASE ReserveGivesUp(s)
  <2>1. caller' \in [Sessions -> CallerType]
    BY <1>1, LeaveType DEF ReserveGivesUp
  <2>. QED BY <1>1, <2>1 DEF ReserveGivesUp, TypeOK
<1>2. CASE TakeIdle(s)
  <2>1. PICK w \in idle : /\ idle' = idle \ {w}
                          /\ leased' = [leased EXCEPT ![s] = w]
                          /\ Moves(s, "prepare", w, "idle")
    BY <1>2 DEF TakeIdle
  <2>2. caller' \in [Sessions -> CallerType]
    BY <2>1, MovesType DEF TypeOK, CallerPC
  <2>3. leased' \in [Sessions -> Workers \cup {NoWorker}] /\ idle' \in SUBSET Workers
    BY <2>1 DEF TypeOK
  <2>. QED BY <1>2, <2>2, <2>3 DEF TakeIdle, TypeOK
<1>3. CASE ReserveSlot(s)
  <2>1. caller' \in [Sessions -> CallerType]
    BY <1>3, MovesType DEF ReserveSlot, CallerPC
  <2>2. PICK w \in Fresh :
          boot' = [boot EXCEPT ![w] = [pc |-> "spawn", gen |-> caller[s].gen, owner |-> s]]
    BY <1>3 DEF ReserveSlot
  <2>3. boot' \in [Workers -> BootType]
    BY <2>2, CallerFieldTypes DEF Fresh, TypeOK, BootType, BootPC
  <2>4. starting' \in Int /\ targetTotal' \in Int
    BY <1>3, TotalType DEF ReserveSlot, RaisedTarget, TypeOK
  <2>. QED BY <1>3, <2>1, <2>3, <2>4 DEF ReserveSlot, TypeOK
<1>4. CASE RetryLease(s)
  <2>1. caller' \in [Sessions -> CallerType]
    BY <1>4, EntersType, LeaveType DEF RetryLease, TypeOK, CallerPC
  <2>. QED BY <1>4, <2>1 DEF RetryLease, TypeOK
<1>5. CASE CheckGeneration(s)
  <2>1. caller' \in [Sessions -> CallerType]
    BY <1>5, EntersType, GotoType DEF CheckGeneration, CallerPC
  <2>2. leased' \in [Sessions -> Workers \cup {NoWorker}]
    BY <1>5 DEF CheckGeneration, TypeOK
  <2>3. supervisor' \in {"none", "running", "waiting"}
    BY <1>5, NotifyType DEF CheckGeneration, TypeOK
  <2>. QED BY <1>5, <2>1, <2>2, <2>3 DEF CheckGeneration, TypeOK
<1>6. CASE KillCancelled(s)
  <2>1. caller' \in [Sessions -> CallerType]
    BY <1>6, LeaveType DEF KillCancelled
  <2>2. Die({caller[s].wk})
    BY <1>6 DEF KillCancelled, ForceKill
  <2>3. alive' \in SUBSET Workers /\ loaded' \in [Workers -> SUBSET Sessions]
    BY <2>2 DEF Die, TypeOK
  <2>. QED BY <1>6, <2>1, <2>3 DEF KillCancelled, ForceKill, TypeOK
<1>7. CASE ToolAnswers(s)
  <2>1. caller' \in [Sessions -> CallerType]
    BY <1>7, GotoType DEF ToolAnswers, CallerPC
  <2>. QED BY <1>7, <2>1 DEF ToolAnswers, TypeOK
<1>8. CASE ToolFails(s)
  <2>1. caller' \in [Sessions -> CallerType]
    BY <1>8, GotoType DEF ToolFails, CallerPC
  <2>2. /\ alive' \in SUBSET Workers /\ faults' \in Nat
        /\ loaded' \in [Workers -> SUBSET Sessions]
    BY <1>8, FaultType DEF ToolFails, Die, TypeOK
  <2>. QED BY <1>8, <2>1, <2>2 DEF ToolFails, TypeOK
<1>9. CASE DiscardRead(s)
  <2>1. caller' \in [Sessions -> CallerType]
    BY <1>9, GotoType, LeaveType, CallerFieldTypes DEF DiscardRead, AfterDiscard, CallerPC
  <2>. QED BY <1>9, <2>1 DEF DiscardRead, TypeOK
<1>10. CASE DiscardKill(s)
  <2>1. caller' \in [Sessions -> CallerType]
    BY <1>10, GotoType DEF DiscardKill, CallerPC
  <2>2. alive' \in SUBSET Workers /\ loaded' \in [Workers -> SUBSET Sessions]
    BY <1>10 DEF DiscardKill, ForceKill, Die, TypeOK
  <2>. QED BY <1>10, <2>1, <2>2 DEF DiscardKill, ForceKill, TypeOK
<1>11. CASE DiscardDelete(s)
  <2>1. caller' \in [Sessions -> CallerType]
    BY <1>11, GotoType, LeaveType DEF DiscardDelete, AfterDiscard, CallerPC
  <2>2. leased' \in [Sessions -> Workers \cup {NoWorker}]
    BY <1>11 DEF DiscardDelete, TypeOK
  <2>. QED BY <1>11, <2>1, <2>2, NotifyType DEF DiscardDelete, TypeOK
<1>12. CASE NoReuse(s)
  <2>1. caller' \in [Sessions -> CallerType]
    BY <1>12, GotoType DEF NoReuse, CallerPC
  <2>2. targetTotal' \in Int
    BY <1>12, PoolAssumption DEF NoReuse, TypeOK
  <2>. QED BY <1>12, <2>1, <2>2 DEF NoReuse, TypeOK
<1>13. CASE ResetCleans(s)
  <2>1. caller' \in [Sessions -> CallerType]
    BY <1>13, GotoType DEF ResetCleans, CallerPC
  <2>2. loaded' \in [Workers -> SUBSET Sessions] /\ incomplete' \in SUBSET Workers
    BY <1>13 DEF ResetCleans, TypeOK
  <2>. QED BY <1>13, <2>1, <2>2 DEF ResetCleans, TypeOK
<1>14. CASE ResetIncomplete(s)
  <2>1. caller' \in [Sessions -> CallerType]
    BY <1>14, GotoType DEF ResetIncomplete, CallerPC
  <2>2. incomplete' \in SUBSET Workers
    BY <1>14 DEF ResetIncomplete, TypeOK
  <2>. QED BY <1>14, <2>1, <2>2 DEF ResetIncomplete, TypeOK
<1>15. CASE ReturnToIdle(s)
  <2>1. caller' \in [Sessions -> CallerType]
    BY <1>15, LeaveType DEF ReturnToIdle
  <2>2. /\ leased' \in [Sessions -> Workers \cup {NoWorker}]
        /\ idle' \in SUBSET Workers
    BY <1>15 DEF ReturnToIdle, At, Drives, InHand, TypeOK
  <2>3. supervisor' \in {"none", "running", "waiting"}
    BY <1>15, NotifyType DEF ReturnToIdle, TypeOK
  <2>. QED BY <1>15, <2>1, <2>2, <2>3 DEF ReturnToIdle, TypeOK
<1>. QED BY <1>1, <1>2, <1>3, <1>4, <1>5, <1>6, <1>7, <1>8, <1>9, <1>10, <1>11,
            <1>12, <1>13, <1>14, <1>15 DEF CallerStep

\* Every step of a start-up keeps the types.
LEMMA OwnerLeavesType ==
  ASSUME TypeOK, NEW w \in Workers, OwnerLeaves(w)
  PROVE  caller' \in [Sessions -> CallerType]
<1>1. boot[w].owner \in Sessions \cup {Supervisor}
  BY DEF TypeOK, BootType
<1>. QED BY <1>1, LeaveType DEF OwnerLeaves, TypeOK

LEMMA TypeStarterStep ==
  ASSUME TypeOK, NEW w \in Workers, StarterStep(w) PROVE TypeOK'
<1>. USE DEF tables, counters, superVars, toolVars
<1>0. /\ boot[w].owner \in Sessions \cup {Supervisor}
      /\ {"none", "spawn", "register", "cancelled", "await", "ready", "failed",
          "publish", "fail", "kill"} = BootPC
  BY DEF TypeOK, BootType, BootPC
<1>1. CASE SpawnProcess(w)
  <2>1. boot' \in [Workers -> BootType]
    BY <1>0, <1>1, BootStepType DEF SpawnProcess
  <2>. QED BY <1>1, <2>1 DEF SpawnProcess, TypeOK
<1>2. CASE SpawnFails(w)
  <2>1. boot' \in [Workers -> BootType]
    BY <1>0, <1>2, BootStepType DEF SpawnFails
  <2>. QED BY <1>2, <2>1, FaultType DEF SpawnFails, TypeOK
<1>3. CASE RegisterStarting(w)
  <2>1. boot' \in [Workers -> BootType]
    BY <1>0, <1>3, BootStepType DEF RegisterStarting
  <2>. QED BY <1>3, <2>1 DEF RegisterStarting, TypeOK
<1>4. CASE KillUnregistered(w)
  <2>1. boot' \in [Workers -> BootType]
    BY <1>0, <1>4, BootStepType DEF KillUnregistered
  <2>2. alive' \in SUBSET Workers /\ loaded' \in [Workers -> SUBSET Sessions]
    BY <1>4, DieType DEF KillUnregistered, ForceKill
  <2>. QED BY <1>4, <2>1, <2>2 DEF KillUnregistered, ForceKill, TypeOK
<1>5. CASE BecomesReady(w)
  <2>1. boot' \in [Workers -> BootType]
    BY <1>0, <1>5, BootStepType DEF BecomesReady
  <2>. QED BY <1>5, <2>1 DEF BecomesReady, TypeOK
<1>6. CASE BootFails(w)
  <2>1. boot' \in [Workers -> BootType]
    BY <1>0, <1>6, BootStepType DEF BootFails
  <2>2. alive' \in SUBSET Workers /\ loaded' \in [Workers -> SUBSET Sessions]
    BY <1>6, DieType DEF BootFails
  <2>3. faults' \in Nat
    BY <1>6, FaultType DEF BootFails, TypeOK
  <2>. QED BY <1>6, <2>1, <2>2, <2>3 DEF BootFails, TypeOK
<1>7. CASE Unregister(w)
  <2>1. boot' \in [Workers -> BootType]
    BY <1>0, <1>7, BootStepType DEF Unregister
  <2>. QED BY <1>7, <2>1, NotifyType DEF Unregister, TypeOK
<1>8. CASE AbandonStart(w)
  <2>1. boot' \in [Workers -> BootType]
    BY <1>8, BootOverType DEF AbandonStart
  <2>2. backoff' \in BOOLEAN
    BY <1>8, Zenon DEF AbandonStart, TypeOK
  <2>3. caller' \in [Sessions -> CallerType] /\ supervisor' \in {"none", "running", "waiting"}
    BY <1>8, OwnerLeavesType, NotifyType DEF AbandonStart
  <2>. QED BY <1>8, <2>1, <2>2, <2>3 DEF AbandonStart, TypeOK
<1>9. CASE LeaseNewWorker(w)
  <2>1. boot' \in [Workers -> BootType]
    BY <1>0, <1>9, BootStepType, BootOverType DEF LeaseNewWorker
  <2>2. boot[w].owner \in Sessions
    BY <1>0, <1>9 DEF LeaseNewWorker
  <2>3. caller' \in [Sessions -> CallerType]
    BY <1>9, <2>2, GotoType DEF LeaseNewWorker, TypeOK, CallerPC
  <2>4. leased' \in [Sessions -> Workers \cup {NoWorker}]
    BY <1>9, <2>2 DEF LeaseNewWorker, TypeOK
  <2>. QED BY <1>9, <2>1, <2>3, <2>4, NotifyType DEF LeaseNewWorker, TypeOK
<1>10. CASE PublishIdle(w)
  <2>1. boot' \in [Workers -> BootType]
    BY <1>0, <1>10, BootStepType, BootOverType DEF PublishIdle
  <2>2. prewarmComplete' \in BOOLEAN
    BY <1>10, Zenon DEF PublishIdle, PrewarmDone, TypeOK
  <2>3. idle' \in SUBSET Workers
    BY <1>10 DEF PublishIdle, TypeOK
  <2>. QED BY <1>10, <2>1, <2>2, <2>3, NotifyType DEF PublishIdle, TypeOK
<1>11. CASE KillStarted(w)
  <2>1. boot' \in [Workers -> BootType]
    BY <1>11, BootOverType DEF KillStarted
  <2>2. alive' \in SUBSET Workers /\ loaded' \in [Workers -> SUBSET Sessions]
    BY <1>11, DieType DEF KillStarted, ForceKill
  <2>. QED BY <1>11, <2>1, <2>2, OwnerLeavesType DEF KillStarted, ForceKill, TypeOK
<1>. QED BY <1>1, <1>2, <1>3, <1>4, <1>5, <1>6, <1>7, <1>8, <1>9, <1>10, <1>11
         DEF StarterStep

\* Every step of the supervisor, of a closing thread and of the environment.
\* The supervisor starts at most as many workers as the pool has room for.
LEMMA StartsWithinRoom ==
  ASSUME TypeOK, NEW complete \in BOOLEAN 
  PROVE  Starts(complete) \in Int /\ Starts(complete) <= PoolSize - Total
<1>1. SupervisorTarget(complete) \in Int
  BY PoolAssumption DEF SupervisorTarget, TypeOK
<1>2. Total \in Int /\ starting \in Int /\ PoolSize \in Int /\ PrewarmConcurrency \in Int
  BY TotalType, PoolAssumption DEF TypeOK
<1>. DEFINE a == SupervisorTarget(complete) - Total
            b == PoolSize - Total
            c == PrewarmConcurrency - starting
<1>3. a \in Int /\ b \in Int /\ c \in Int
  BY <1>1, <1>2
<1>. HIDE DEF a, b, c
<1>4. \E n \in {a, b, c} : \A m \in {a, b, c} : n <= m
  BY <1>3
<1>5. Starts(complete) = CHOOSE n \in {a, b, c} : \A m \in {a, b, c} : n <= m
  BY DEF Starts, a, b, c
<1>6. Starts(complete) \in {a, b, c} /\ Starts(complete) <= b
  BY <1>4, <1>5
<1>. QED BY <1>3, <1>6 DEF b

LEMMA TypeSupervisorStep ==
  ASSUME TypeOK, StartSupervisor \/ SupervisorExits \/ SupervisorLoop \/ BackoffExpires
  PROVE  TypeOK'
<1>. USE DEF tables, counters, superVars, toolVars
<1>1. CASE StartSupervisor
  BY <1>1, NotifyType DEF StartSupervisor, TypeOK
<1>2. CASE SupervisorExits
  BY <1>2 DEF SupervisorExits, TypeOK
<1>3. CASE BackoffExpires
  BY <1>3 DEF BackoffExpires, TypeOK
<1>4. CASE SupervisorLoop
  <2>1. prewarmComplete' \in BOOLEAN
    BY <1>4, Zenon DEF SupervisorLoop, PrewarmDone, TypeOK
  <2>2. Starts(prewarmComplete') \in Int
    BY <2>1, StartsWithinRoom
  <2>3. boot' \in [Workers -> BootType]
    BY <1>4 DEF SupervisorLoop, TypeOK, BootType, BootPC
  <2>4. starting' \in Int /\ supervisor' \in {"none", "running", "waiting"}
    BY <1>4, <2>2 DEF SupervisorLoop, TypeOK
  <2>. QED BY <1>4, <2>1, <2>3, <2>4 DEF SupervisorLoop, TypeOK
<1>. QED BY <1>1, <1>2, <1>3, <1>4

LEMMA LeasedWorkersType == TypeOK => LeasedWorkers \in SUBSET Workers
BY DEF TypeOK, LeasedWorkers, LeasedSessions

LEMMA TypeCloser ==
  ASSUME TypeOK, NEW c \in Closers, BeginClose(c) \/ CloserStep(c) PROVE TypeOK'
<1>. USE DEF tables, counters, superVars, toolVars
<1>1. CASE BeginClose(c)
  <2>1. closer' \in [Closers -> CloserType]
    BY <1>1 DEF BeginClose, TypeOK, CloserType
  <2>. QED BY <1>1, <2>1, NotifyType DEF BeginClose, TypeOK
<1>2. ASSUME NEW W \in SUBSET Workers, CloseTables(c, W)
      PROVE  /\ closer' \in [Closers -> CloserType] /\ closeGeneration' \in Nat
             /\ supervisor' \in {"none", "running", "waiting"}
  BY <1>2, NotifyType DEF CloseTables, TypeOK, CloserType
<1>3. CASE CancelPendingLeases(c)
  <2>1. idle \cup startingWorkers \in SUBSET Workers
    BY DEF TypeOK
  <2>. QED BY <1>2, <1>3, <2>1 DEF CancelPendingLeases, CloseTables, TypeOK
<1>4. CASE CloseAll(c)
  <2>1. idle \cup LeasedWorkers \cup startingWorkers \in SUBSET Workers
    BY LeasedWorkersType DEF TypeOK
  <2>2. targetTotal' \in Int /\ leased' \in [Sessions -> Workers \cup {NoWorker}]
    BY <1>4, PoolAssumption DEF CloseAll
  <2>3. prewarmComplete' \in BOOLEAN
    BY <1>4, PoolAssumption, Zenon DEF CloseAll
  <2>. QED BY <1>2, <1>4, <2>1, <2>2, <2>3 DEF CloseAll, CloseTables, TypeOK
<1>5. CASE KillNext(c)
  <2>1. PICK w \in closer[c].todo : /\ ForceKill(w)
                                    /\ closer' = [closer EXCEPT ![c].todo = @ \ {w}]
    BY <1>5 DEF KillNext
  <2>2. closer[c].todo \in SUBSET Workers
    BY DEF TypeOK, CloserType
  <2>3. closer' \in [Closers -> CloserType]
    BY <2>1 DEF TypeOK, CloserType
  <2>4. alive' \in SUBSET Workers /\ loaded' \in [Workers -> SUBSET Sessions]
    BY <2>1, <2>2, DieType DEF ForceKill
  <2>. QED BY <1>5, <2>1, <2>3, <2>4 DEF KillNext, ForceKill, TypeOK
<1>6. CASE EndClose(c)
  <2>1. closer' \in [Closers -> CloserType]
    BY <1>6 DEF EndClose, TypeOK, CloserType
  <2>. QED BY <1>6, <2>1 DEF EndClose, TypeOK
<1>. QED BY <1>1, <1>3, <1>4, <1>5, <1>6 DEF CloserStep

LEMMA TypeToolDies == ASSUME TypeOK, NEW w \in Workers, ToolDies(w) PROVE TypeOK'
<1>1. alive' \in SUBSET Workers /\ loaded' \in [Workers -> SUBSET Sessions]
  BY DieType DEF ToolDies
<1>. QED BY <1>1, FaultType DEF ToolDies, TypeOK, tables, counters, superVars

LEMMA TypeNext == TypeOK /\ InHand /\ [Next]_vars => TypeOK'
<1>1. ASSUME TypeOK, InHand, Next PROVE TypeOK'
  BY <1>1, TypeCallerRequest, TypeCallerStep, TypeStarterStep, TypeToolDies,
     TypeCloser, TypeSupervisorStep DEF Next
<1>2. ASSUME TypeOK, UNCHANGED vars PROVE TypeOK'
  BY <1>2 DEF TypeOK, vars, tables, counters, superVars, toolVars
<1>. QED BY <1>1, <1>2

\* What a step of one caller does to the callers.
LEMMA MovesEffect ==
  ASSUME TypeOK, NEW s \in Sessions, NEW step, NEW w, NEW src, Moves(s, step, w, src)
  PROVE  /\ caller'[s].pc = step /\ caller'[s].wk = w
         /\ caller'[s].gen = caller[s].gen /\ caller'[s].src = src
         /\ \A t \in Sessions \ {s} : caller'[t] = caller[t]
BY DEF Moves, TypeOK

LEMMA EntersEffect ==
  ASSUME TypeOK, NEW s \in Sessions, NEW step, NEW gen, Enters(s, step, gen)
  PROVE  /\ caller'[s].pc = step /\ caller'[s].wk = NoWorker /\ caller'[s].gen = gen
         /\ \A t \in Sessions \ {s} : caller'[t] = caller[t]
BY DEF Enters, TypeOK

\* Only s moves, and it drives a tool only with a worker in hand.
GoodMove(s) ==
  /\ \A t \in Sessions \ {s} : caller'[t] = caller[t]
  /\ Drives(s)' => caller'[s].wk \in Workers

LEMMA GoodMoveSuffices ==
  ASSUME InHand, NEW s \in Sessions, GoodMove(s) PROVE InHand'
BY DEF InHand, GoodMove, Drives

\* Entering a step outside a call, and moving to a step that talks to no tool.
LEMMA GoodEnters ==
  ASSUME TypeOK, NEW s \in Sessions, NEW gen, NEW step \in {"reserve", "out", "held"},
         Enters(s, step, gen)
  PROVE  GoodMove(s)
BY EntersEffect DEF GoodMove, Drives

LEMMA GoodMoves ==
  ASSUME TypeOK, NEW s \in Sessions, NEW step, NEW w, NEW src, Moves(s, step, w, src),
         \/ w \in Workers
         \/ step \in {"starting", "kill", "held", "bump", "discard", "dkill", "ddelete", "retry"}
  PROVE  GoodMove(s)
BY MovesEffect DEF GoodMove, Drives

LEMMA InHandCaller ==
  ASSUME TypeOK, InHand, NEW s \in Sessions, CallerRequest(s) \/ CallerStep(s) PROVE InHand'
<1>1. CASE Lease(s) \/ ReserveGivesUp(s) \/ RetryLease(s) \/ KillCancelled(s) \/ ReturnToIdle(s)
  <2>. QED BY <1>1, GoodEnters, GoodMoveSuffices
           DEF Lease, ReserveGivesUp, RetryLease, KillCancelled, ReturnToIdle, Leave
<1>2. CASE Execute(s) \/ DiscardLease(s) \/ Release(s)
  <2>1. GoodMove(s)
    BY <1>2, GoodEnters, GoodMoves, CallerFieldTypes
    DEF Execute, DiscardLease, Release, Goto, Using, Leave
  <2>. QED BY <2>1, GoodMoveSuffices
<1>3. CASE ToolAnswers(s)
  <2>1. caller[s].wk \in Workers
    BY <1>3 DEF ToolAnswers, TypeOK
  <2>2. GoodMove(s)
    BY <1>3, <2>1, GoodMoves DEF ToolAnswers, Goto, Forget, Using
  <2>. QED BY <2>2, GoodMoveSuffices
<1>4. CASE ToolFails(s) \/ DiscardKill(s) \/ NoReuse(s)
  <2>1. GoodMove(s)
    BY <1>4, GoodMoves DEF ToolFails, DiscardKill, NoReuse, Goto, Forget, Using
  <2>. QED BY <2>1, GoodMoveSuffices
<1>5. CASE DiscardRead(s) \/ DiscardDelete(s)
  <2>1. GoodMove(s)
    BY <1>5, GoodMoves, GoodEnters
    DEF DiscardRead, DiscardDelete, AfterDiscard, Forget, Using, Leave
  <2>. QED BY <2>1, GoodMoveSuffices
<1>6. CASE ResetCleans(s) \/ ResetIncomplete(s)
  <2>1. caller[s].wk \in Workers
    BY <1>6 DEF ResetCleans, ResetIncomplete, TypeOK
  <2>2. GoodMove(s)
    BY <1>6, <2>1, GoodMoves DEF ResetCleans, ResetIncomplete, Goto, Forget, Using
  <2>. QED BY <2>2, GoodMoveSuffices
<1>7. CASE TakeIdle(s)
  <2>1. PICK w \in idle : Moves(s, "prepare", w, "idle")
    BY <1>7 DEF TakeIdle
  <2>2. GoodMove(s)
    BY <2>1, GoodMoves DEF TypeOK
  <2>. QED BY <2>2, GoodMoveSuffices
<1>8. CASE ReserveSlot(s)
  BY <1>8, GoodMoves, GoodMoveSuffices DEF ReserveSlot
<1>9. CASE CheckGeneration(s)
  <2>1. GoodMove(s)
    BY <1>9, GoodMoves, GoodEnters DEF CheckGeneration, Goto
  <2>. QED BY <2>1, GoodMoveSuffices
<1>. QED BY <1>1, <1>2, <1>3, <1>4, <1>5, <1>6, <1>7, <1>8, <1>9
         DEF CallerRequest, CallerStep

LEMMA InHandStarter ==
  ASSUME TypeOK, InHand, NEW w \in Workers, StarterStep(w) PROVE InHand'
<1>1. ASSUME NEW s \in Sessions, Leave(s) PROVE InHand'
  BY <1>1, GoodEnters, GoodMoveSuffices DEF Leave
<1>2. ASSUME UNCHANGED caller PROVE InHand'
  BY <1>2 DEF InHand, Drives
<1>3. boot[w].owner \in Sessions \cup {Supervisor}
  BY DEF TypeOK, BootType
<1>4. ASSUME OwnerLeaves(w) PROVE InHand'
  BY <1>1, <1>2, <1>3, <1>4 DEF OwnerLeaves
<1>5. CASE AbandonStart(w) \/ KillStarted(w)
  BY <1>4, <1>5 DEF AbandonStart, KillStarted
<1>6. CASE LeaseNewWorker(w)
  BY <1>2, <1>3, <1>6, GoodMoves, GoodMoveSuffices DEF LeaseNewWorker, Using
<1>7. CASE \/ SpawnProcess(w) \/ SpawnFails(w) \/ RegisterStarting(w) \/ KillUnregistered(w)
           \/ BecomesReady(w) \/ BootFails(w) \/ Unregister(w) \/ PublishIdle(w)
  BY <1>2, <1>7 DEF SpawnProcess, SpawnFails, RegisterStarting, KillUnregistered,
                    BecomesReady, BootFails, Unregister, PublishIdle
<1>. QED BY <1>5, <1>6, <1>7 DEF StarterStep

LEMMA InHandNext == TypeOK /\ InHand /\ [Next]_vars => InHand'
<1>. SUFFICES ASSUME TypeOK, InHand, [Next]_vars PROVE InHand'
  OBVIOUS
<1>1. CASE \E s \in Sessions : CallerRequest(s) \/ CallerStep(s)
  BY <1>1, InHandCaller
<1>2. CASE \E w \in Workers : StarterStep(w)
  BY <1>2, InHandStarter
<1>3. CASE UNCHANGED caller
  BY <1>3 DEF InHand, Drives
<1>4. ASSUME NEW c \in Closers, BeginClose(c) \/ CloserStep(c) PROVE UNCHANGED caller
  BY <1>4 DEF BeginClose, CloserStep, CancelPendingLeases, CloseAll, CloseTables, KillNext, EndClose
<1>5. CASE \/ \E w \in Workers : ToolDies(w)
           \/ StartSupervisor \/ SupervisorExits \/ SupervisorLoop \/ BackoffExpires
           \/ UNCHANGED vars
  BY <1>3, <1>5 DEF ToolDies, StartSupervisor, SupervisorExits, SupervisorLoop,
                    BackoffExpires, vars
<1>. QED BY <1>1, <1>2, <1>3, <1>4, <1>5 DEF Next

\* The pool's fields and its threads' locals always have the values of their types: no
\* table, and no kill list, ever holds the None of a lease that a close has cleared.
THEOREM TypeCorrect == Spec => []TypeOK
<1>1. Init => TypeOK /\ InHand
  BY TypeInit DEF Init, InHand, Drives, Outside
<1>2. TypeOK /\ InHand /\ [Next]_vars => (TypeOK /\ InHand)'
  BY TypeNext, InHandNext
<1>. QED BY <1>1, <1>2, PTL DEF Spec

-----------------------------------------------------------------------------
(* Exclusive leases. A worker that a session leases, or that its thread      *)
(* still remembers after a close has cleared the lease, is no other          *)
(* session's, is not idle, and has no start-up thread; and a start-up whose  *)
(* worker is in _starting_workers is between registration and the finally    *)
(* clause.                                                                   *)

Refs(s) == {leased[s], caller[s].wk} \ {NoWorker}

Separate ==
  /\ \A s, t \in Sessions : s # t => Refs(s) \cap Refs(t) = {}
  /\ \A s \in Sessions : Refs(s) \cap idle = {}
  /\ \A w \in Workers : boot[w].pc # "none" =>
       w \notin idle /\ \A s \in Sessions : w \notin Refs(s)

Registered == \A w \in startingWorkers : boot[w].pc \in {"await", "ready", "failed"}

LEMMA SeparateGivesExclusive ==
  TypeOK /\ InHand /\ Separate /\ Registered => LeaseExclusive /\ DrivenByOne
<1>. SUFFICES ASSUME TypeOK, InHand, Separate, Registered PROVE LeaseExclusive /\ DrivenByOne
  OBVIOUS
<1>1. \A s \in Sessions : leased[s] # NoWorker => leased[s] \in Refs(s)
  BY DEF Refs
<1>2. \A s \in Sessions : Drives(s) => caller[s].wk \in Refs(s)
  BY PoolAssumption DEF Refs, InHand
<1>3. \A w \in startingWorkers : w \in Workers /\ boot[w].pc # "none"
  BY DEF Registered, TypeOK
<1>4. LeaseExclusive
  BY <1>1, <1>3 DEF LeaseExclusive, Separate, LeasedSessions, LeasedWorkers
<1>5. DrivenByOne
  BY <1>2 DEF DrivenByOne, Separate
<1>. QED BY <1>4, <1>5

\* Steps that give nobody a new worker: references go or are copied within a session.
LEMMA NarrowSeparate ==
  ASSUME Separate,
         \A s \in Sessions : /\ leased'[s] \in {leased[s], NoWorker}
                             /\ caller'[s].wk \in {NoWorker, caller[s].wk, leased[s]},
         idle' \subseteq idle,
         \A w \in Workers : boot'[w].pc # "none" => boot[w].pc # "none"
  PROVE  Separate'
<1>1. \A s \in Sessions : Refs(s)' \subseteq Refs(s)
  BY DEF Refs
<1>. QED BY <1>1 DEF Separate

\* What Fresh promises about a new worker.
LEMMA FreshIsSeparate ==
  ASSUME TypeOK, NEW w \in Fresh
  PROVE  /\ w \in Workers /\ w \notin idle /\ boot[w].pc = "none"
         /\ \A s \in Sessions : w \notin Refs(s)
BY DEF Fresh, NoBoot, Refs, LeasedWorkers, LeasedSessions

LEMMA SeparateCaller ==
  ASSUME TypeOK, InHand, Separate, Registered, NEW s \in Sessions,
         CallerRequest(s) \/ CallerStep(s)
  PROVE  Separate' /\ Registered'
<1>. USE DEF tables, counters, superVars, toolVars
<1>1. ASSUME UNCHANGED <<startingWorkers, boot>> PROVE Registered'
  BY <1>1 DEF Registered
<1>2. ASSUME \A t \in Sessions \ {s} : caller'[t] = caller[t],
             caller'[s].wk \in {NoWorker, caller[s].wk, leased[s]},
             \A t \in Sessions : leased'[t] \in {leased[t], NoWorker},
             idle' \subseteq idle, UNCHANGED <<boot, startingWorkers>>
      PROVE  Separate' /\ Registered'
  BY <1>1, <1>2, NarrowSeparate
<1>3. ASSUME NEW step, NEW gen, Enters(s, step, gen)
      PROVE  (\A t \in Sessions \ {s} : caller'[t] = caller[t]) /\ caller'[s].wk = NoWorker
  BY <1>3, EntersEffect
<1>4. ASSUME NEW step, NEW w, NEW src, Moves(s, step, w, src)
      PROVE  (\A t \in Sessions \ {s} : caller'[t] = caller[t]) /\ caller'[s].wk = w
  BY <1>4, MovesEffect
<1>5. CASE \/ Lease(s) \/ ReserveGivesUp(s) \/ RetryLease(s) \/ KillCancelled(s)
           \/ Execute(s) \/ DiscardLease(s) \/ Release(s) \/ ToolAnswers(s) \/ ToolFails(s)
  <2>1. UNCHANGED <<idle, leased, boot, startingWorkers>>
    BY <1>5 DEF Lease, ReserveGivesUp, RetryLease, KillCancelled, Execute, DiscardLease,
                Release, ToolAnswers, ToolFails
  <2>2. \/ \E step, gen : Enters(s, step, gen)
        \/ \E step, src : \E w \in {NoWorker, caller[s].wk, leased[s]} : Moves(s, step, w, src)
    BY <1>5 DEF Lease, ReserveGivesUp, RetryLease, KillCancelled, Execute, DiscardLease,
                Release, ToolAnswers, ToolFails, Goto, Forget, Using, Leave
  <2>. QED BY <1>2, <1>3, <1>4, <2>1, <2>2
<1>6. CASE \/ DiscardRead(s) \/ DiscardKill(s) \/ NoReuse(s)
           \/ ResetCleans(s) \/ ResetIncomplete(s)
  <2>1. UNCHANGED <<idle, leased, boot, startingWorkers>>
    BY <1>6 DEF DiscardRead, DiscardKill, NoReuse, ResetCleans, ResetIncomplete
  <2>2. \/ \E step, gen : Enters(s, step, gen)
        \/ \E step, src : \E w \in {NoWorker, caller[s].wk, leased[s]} : Moves(s, step, w, src)
    BY <1>6 DEF DiscardRead, DiscardKill, NoReuse, ResetCleans, ResetIncomplete,
                AfterDiscard, Goto, Forget, Using, Leave
  <2>. QED BY <1>2, <1>3, <1>4, <2>1, <2>2
<1>7. CASE DiscardDelete(s) \/ CheckGeneration(s)
  <2>1. /\ UNCHANGED <<idle, boot, startingWorkers>>
        /\ \A t \in Sessions : leased'[t] \in {leased[t], NoWorker}
    BY <1>7 DEF DiscardDelete, CheckGeneration, TypeOK
  <2>2. \/ \E step, gen : Enters(s, step, gen)
        \/ \E step, src : \E w \in {NoWorker, caller[s].wk, leased[s]} : Moves(s, step, w, src)
    BY <1>7 DEF DiscardDelete, CheckGeneration, AfterDiscard, Goto, Forget, Using, Leave
  <2>. QED BY <1>2, <1>3, <1>4, <2>1, <2>2
<1>8. CASE TakeIdle(s)
  <2>1. PICK w \in idle : /\ idle' = idle \ {w}
                          /\ leased' = [leased EXCEPT ![s] = w]
                          /\ Moves(s, "prepare", w, "idle")
    BY <1>8 DEF TakeIdle
  <2>2. w \in Workers /\ w # NoWorker /\ boot[w].pc = "none" /\ \A t \in Sessions : w \notin Refs(t)
    BY PoolAssumption DEF TypeOK, Separate
  <2>3. Refs(s)' = {w} /\ \A t \in Sessions \ {s} : Refs(t)' = Refs(t)
    BY <1>4, <2>1, <2>2 DEF Refs, TypeOK
  <2>4. UNCHANGED <<boot, startingWorkers>>
    BY <1>8 DEF TakeIdle
  <2>. QED BY <1>1, <2>1, <2>2, <2>3, <2>4 DEF Separate
<1>9. CASE ReserveSlot(s)
  <2>1. PICK w \in Fresh :
          boot' = [boot EXCEPT ![w] = [pc |-> "spawn", gen |-> caller[s].gen, owner |-> s]]
    BY <1>9 DEF ReserveSlot
  <2>2. UNCHANGED <<idle, leased, startingWorkers>> /\ Moves(s, "starting", NoWorker, "new")
    BY <1>9 DEF ReserveSlot
  <2>3. \A t \in Sessions : Refs(t)' \subseteq Refs(t)
    BY <1>4, <2>2 DEF Refs
  <2>4. w \in Workers /\ \A v \in Workers \ {w} : boot'[v] = boot[v]
    BY <2>1, FreshIsSeparate DEF TypeOK
  <2>5. Separate'
    BY <2>2, <2>3, <2>4, FreshIsSeparate DEF Separate
  <2>6. w \notin startingWorkers
    BY FreshIsSeparate DEF Registered
  <2>7. Registered'
    BY <2>2, <2>4, <2>6 DEF Registered, TypeOK
  <2>. QED BY <2>5, <2>7
<1>10. CASE ReturnToIdle(s)
  <2>1. caller[s].wk \in Workers /\ caller[s].wk # NoWorker
    BY <1>10, PoolAssumption DEF ReturnToIdle, At, InHand, Drives
  <2>2. /\ \A t \in Sessions \ {s} : Refs(t)' = Refs(t)
        /\ UNCHANGED <<boot, startingWorkers>>
    BY <1>3, <1>10 DEF ReturnToIdle, Leave, Refs, TypeOK
  <2>3. CASE leased[s] = caller[s].wk
    <3>1. Refs(s)' = {} /\ idle' = idle \cup Refs(s)
      BY <1>3, <1>10, <2>1, <2>3 DEF ReturnToIdle, Leave, Refs, TypeOK
    <3>. QED BY <1>1, <2>2, <3>1 DEF Separate
  <2>4. CASE leased[s] # caller[s].wk
    BY <1>2, <1>3, <1>10, <2>4 DEF ReturnToIdle, Leave
  <2>. QED BY <2>3, <2>4
<1>. QED BY <1>5, <1>6, <1>7, <1>8, <1>9, <1>10 DEF CallerRequest, CallerStep

\* The start-up of w moves on: no other start-up changes.
LEMMA BootStepEffect ==
  ASSUME TypeOK, NEW w \in Workers, NEW from, NEW to, BootStep(w, from, to)
  PROVE  /\ boot[w].pc = from /\ boot'[w].pc = to /\ boot'[w].owner = boot[w].owner
         /\ boot'[w].gen = boot[w].gen /\ \A v \in Workers \ {w} : boot'[v] = boot[v]
BY DEF BootStep, TypeOK, BootType

LEMMA BootOverEffect ==
  ASSUME TypeOK, NEW w \in Workers, NEW from, BootOver(w, from)
  PROVE  /\ boot[w].pc = from /\ boot'[w].pc = "none"
         /\ \A v \in Workers \ {w} : boot'[v] = boot[v]
BY DEF BootOver, NoBoot, TypeOK

\* The owner of a start-up leaves the pool, with no worker in hand.
LEMMA OwnerLeavesEffect ==
  ASSUME TypeOK, NEW w \in Workers, OwnerLeaves(w)
  PROVE  \A t \in Sessions : caller'[t].wk \in {NoWorker, caller[t].wk}
<1>1. boot[w].owner \in Sessions \cup {Supervisor}
  BY DEF TypeOK, BootType
<1>. QED BY <1>1, EntersEffect DEF OwnerLeaves, Leave

LEMMA SeparateStarter ==
  ASSUME TypeOK, Separate, Registered, NEW w \in Workers, StarterStep(w)
  PROVE  Separate' /\ Registered'
<1>. USE DEF tables, counters, superVars, toolVars
<1>1. ASSUME UNCHANGED <<idle, leased>>,
             \A t \in Sessions : caller'[t].wk \in {NoWorker, caller[t].wk},
             boot[w].pc # "none", \A v \in Workers \ {w} : boot'[v] = boot[v]
      PROVE  Separate'
  BY <1>1, NarrowSeparate
<1>2. CASE SpawnProcess(w) \/ SpawnFails(w) \/ KillUnregistered(w)
  <2>1. /\ UNCHANGED <<idle, leased, startingWorkers, caller>>
        /\ boot[w].pc \in {"spawn", "cancelled"} /\ \A v \in Workers \ {w} : boot'[v] = boot[v]
    BY <1>2, BootStepEffect DEF SpawnProcess, SpawnFails, KillUnregistered
  <2>2. w \notin startingWorkers
    BY <2>1 DEF Registered
  <2>. QED BY <1>1, <2>1, <2>2 DEF Registered, TypeOK
<1>3. CASE RegisterStarting(w)
  <2>1. /\ UNCHANGED <<idle, leased, caller>>
        /\ boot[w].pc = "register" /\ \A v \in Workers \ {w} : boot'[v] = boot[v]
        /\ \/ boot'[w].pc = "await" /\ startingWorkers' = startingWorkers \cup {w}
           \/ startingWorkers' = startingWorkers
    BY <1>3, BootStepEffect DEF RegisterStarting
  <2>2. w \notin startingWorkers
    BY <2>1 DEF Registered
  <2>. QED BY <1>1, <2>1, <2>2 DEF Registered, TypeOK
<1>4. CASE BecomesReady(w) \/ BootFails(w)
  <2>1. /\ UNCHANGED <<idle, leased, startingWorkers, caller>>
        /\ boot[w].pc = "await" /\ boot'[w].pc \in {"ready", "failed"}
        /\ \A v \in Workers \ {w} : boot'[v] = boot[v]
    BY <1>4, BootStepEffect DEF BecomesReady, BootFails
  <2>. QED BY <1>1, <2>1 DEF Registered, TypeOK
<1>5. CASE Unregister(w)
  <2>1. /\ UNCHANGED <<idle, leased, caller>> /\ startingWorkers' = startingWorkers \ {w}
        /\ boot[w].pc \in {"ready", "failed"} /\ \A v \in Workers \ {w} : boot'[v] = boot[v]
    BY <1>5, BootStepEffect DEF Unregister
  <2>. QED BY <1>1, <2>1 DEF Registered, TypeOK
<1>6. CASE AbandonStart(w) \/ KillStarted(w)
  <2>1. /\ UNCHANGED <<idle, leased, startingWorkers>>
        /\ boot[w].pc \in {"fail", "kill"} /\ \A v \in Workers \ {w} : boot'[v] = boot[v]
        /\ \A t \in Sessions : caller'[t].wk \in {NoWorker, caller[t].wk}
    BY <1>6, BootOverEffect, OwnerLeavesEffect DEF AbandonStart, KillStarted
  <2>2. w \notin startingWorkers
    BY <2>1 DEF Registered
  <2>. QED BY <1>1, <2>1, <2>2 DEF Registered, TypeOK
<1>7. ASSUME BootStep(w, "publish", "kill") \/ BootOver(w, "publish"),
             UNCHANGED startingWorkers
      PROVE  /\ Registered' /\ boot[w].pc = "publish"
             /\ \A v \in Workers \ {w} : boot'[v] = boot[v]
  <2>1. boot[w].pc = "publish" /\ \A v \in Workers \ {w} : boot'[v] = boot[v]
    BY <1>7, BootStepEffect, BootOverEffect
  <2>2. w \notin startingWorkers
    BY <2>1 DEF Registered
  <2>. QED BY <1>7, <2>1, <2>2 DEF Registered, TypeOK
<1>8. CASE LeaseNewWorker(w)
  <2>1. PICK s \in Sessions : s = boot[w].owner /\ UNCHANGED <<idle, startingWorkers>>
    BY <1>8 DEF LeaseNewWorker, TypeOK, BootType
  <2>2. CASE BootStep(w, "publish", "kill") /\ UNCHANGED <<leased, caller>>
    BY <1>1, <1>7, <2>1, <2>2
  <2>3. CASE /\ BootOver(w, "publish") /\ Using(s, "prepare", w)
             /\ leased' = [leased EXCEPT ![s] = w]
    <3>1. /\ boot[w].pc = "publish" /\ boot'[w].pc = "none" /\ Registered'
          /\ \A v \in Workers \ {w} : boot'[v] = boot[v]
      BY <1>7, <2>1, <2>3, BootOverEffect
    <3>2. caller'[s].wk = w /\ \A t \in Sessions \ {s} : caller'[t] = caller[t]
      BY <2>1, <2>3, MovesEffect DEF Using
    <3>3. Refs(s)' \subseteq {w} /\ \A t \in Sessions \ {s} : Refs(t)' = Refs(t)
      BY <2>1, <2>3, <3>2 DEF Refs, TypeOK
    <3>4. w \notin idle /\ \A t \in Sessions : w \notin Refs(t)
      BY <3>1 DEF Separate
    <3>5. \A t, u \in Sessions : t # u => Refs(t)' \cap Refs(u)' = {}
      BY <3>3, <3>4 DEF Separate
    <3>6. \A t \in Sessions : Refs(t)' \cap idle' = {}
      BY <2>1, <3>3, <3>4 DEF Separate
    <3>7. \A v \in Workers : boot'[v].pc # "none" =>
            v \notin idle' /\ \A t \in Sessions : v \notin Refs(t)'
      BY <2>1, <3>1, <3>3, <3>4 DEF Separate
    <3>8. Separate'
      BY <3>5, <3>6, <3>7 DEF Separate
    <3>. QED BY <3>1, <3>8
  <2>. QED BY <1>8, <2>1, <2>2, <2>3 DEF LeaseNewWorker
<1>9. CASE PublishIdle(w)
  <2>1. UNCHANGED <<leased, caller, startingWorkers>>
    BY <1>9 DEF PublishIdle
  <2>2. CASE BootStep(w, "publish", "kill") /\ UNCHANGED idle
    BY <1>1, <1>7, <2>1, <2>2
  <2>3. CASE BootOver(w, "publish") /\ idle' = idle \cup {w}
    <3>1. /\ boot[w].pc = "publish" /\ boot'[w].pc = "none" /\ Registered'
          /\ \A v \in Workers \ {w} : boot'[v] = boot[v]
      BY <1>7, <2>1, <2>3, BootOverEffect
    <3>2. \A t \in Sessions : Refs(t)' = Refs(t) /\ w \notin Refs(t)
      BY <2>1, <3>1 DEF Refs, Separate
    <3>. QED BY <2>3, <3>1, <3>2 DEF Separate
  <2>. QED BY <1>9, <2>2, <2>3 DEF PublishIdle
<1>. QED BY <1>2, <1>3, <1>4, <1>5, <1>6, <1>8, <1>9 DEF StarterStep

LEMMA SeparateOther ==
  ASSUME TypeOK, Separate, Registered,
         \/ \E c \in Closers : BeginClose(c) \/ CloserStep(c)
         \/ \E w \in Workers : ToolDies(w)
         \/ StartSupervisor \/ SupervisorExits \/ SupervisorLoop \/ BackoffExpires
         \/ UNCHANGED vars
  PROVE  Separate' /\ Registered'
<1>. USE DEF tables, counters, superVars, toolVars
<1>1. ASSUME UNCHANGED <<caller, boot>>, idle' \subseteq idle, startingWorkers' \subseteq startingWorkers,
             \A s \in Sessions : leased'[s] \in {leased[s], NoWorker}
      PROVE  Separate' /\ Registered'
  BY <1>1, NarrowSeparate DEF Registered
<1>2. ASSUME NEW c \in Closers, BeginClose(c) \/ CloserStep(c) PROVE Separate' /\ Registered'
  <2>1. CASE BeginClose(c) \/ KillNext(c) \/ EndClose(c)
    BY <1>1, <2>1 DEF BeginClose, KillNext, EndClose
  <2>2. CASE CancelPendingLeases(c)
    BY <1>1, <2>2 DEF CancelPendingLeases, CloseTables
  <2>3. CASE CloseAll(c)
    BY <1>1, <2>3 DEF CloseAll, CloseTables
  <2>. QED BY <1>2, <2>1, <2>2, <2>3 DEF CloserStep
<1>3. CASE SupervisorLoop
  <2>1. UNCHANGED <<idle, leased, startingWorkers, caller>>
    BY <1>3 DEF SupervisorLoop
  <2>2. \A w \in Workers : boot'[w] = boot[w] \/ w \in Fresh
    BY <1>3 DEF SupervisorLoop, TypeOK
  <2>3. \A s \in Sessions : Refs(s)' = Refs(s)
    BY <2>1 DEF Refs
  <2>4. \A w \in startingWorkers : w \in Workers /\ w \notin Fresh
    BY FreshIsSeparate DEF Registered, TypeOK
  <2>. QED BY <2>1, <2>2, <2>3, <2>4, FreshIsSeparate DEF Separate, Registered
<1>4. CASE \/ \E w \in Workers : ToolDies(w)
           \/ StartSupervisor \/ SupervisorExits \/ BackoffExpires \/ UNCHANGED vars
  BY <1>1, <1>4 DEF ToolDies, StartSupervisor, SupervisorExits, BackoffExpires, vars
<1>. QED BY <1>2, <1>3, <1>4

\* The inductive invariant behind type correctness and exclusive leases.
PoolInv == TypeOK /\ InHand /\ Separate /\ Registered

\* Before the first lease nothing is in hand and nothing starts.
LEMMA PoolInit == Init => PoolInv
<1>. SUFFICES ASSUME Init PROVE PoolInv OBVIOUS
<1>1. TypeOK /\ InHand
  BY TypeInit DEF Init, InHand, Drives, Outside
<1>2. \A s \in Sessions : Refs(s) = {}
  BY DEF Init, Refs, Outside
<1>3. Separate /\ Registered
  BY <1>2 DEF Init, Separate, Registered, NoBoot
<1>. QED BY <1>1, <1>3 DEF PoolInv

\* Every reachable state satisfies it: no step mixes up the workers of two threads.
THEOREM PoolInvariant == Spec => []PoolInv
<1>1. PoolInv /\ [Next]_vars => PoolInv'
  <2>. SUFFICES ASSUME PoolInv, [Next]_vars PROVE Separate' /\ Registered'
    BY TypeNext, InHandNext DEF PoolInv
  <2>. QED BY SeparateCaller, SeparateStarter, SeparateOther DEF PoolInv, Next
<1>. QED BY PoolInit, <1>1, PTL DEF Spec

\* However closes, start-ups and calls interleave, a worker is in one place of the tables.
THEOREM LeasesExclusive == Spec => []LeaseExclusive
<1>1. PoolInv => LeaseExclusive
  BY SeparateGivesExclusive DEF PoolInv
<1>. QED BY <1>1, PoolInvariant, PTL

\* No two threads talk to one tool process, not even with a worker a close took from them.
THEOREM ToolsDrivenByOne == Spec => []DrivenByOne
<1>1. PoolInv => DrivenByOne
  BY SeparateGivesExclusive DEF PoolInv
<1>. QED BY <1>1, PoolInvariant, PTL

\* Both together: a worker is in one place, and one thread drives it.
THEOREM WorkersExclusive == Spec => []WorkerExclusive
<1>1. LeaseExclusive /\ DrivenByOne => WorkerExclusive
  BY DEF WorkerExclusive
<1>. QED BY <1>1, LeasesExclusive, ToolsDrivenByOne, PTL

-----------------------------------------------------------------------------
(* Capacity: every step that raises one of the three counts lowers another,  *)
(* or was allowed by HasSlot or by the supervisor's room.                    *)

LEMMA FiniteTables ==
  ASSUME TypeOK
  PROVE  /\ IsFiniteSet(idle) /\ Cardinality(idle) \in Nat
         /\ IsFiniteSet(LeasedSessions) /\ Cardinality(LeasedSessions) \in Nat
<1>1. IsFiniteSet(idle) /\ IsFiniteSet(LeasedSessions)
  BY PoolAssumption, FS_Subset DEF TypeOK, LeasedSessions
<1>. QED BY <1>1, FS_CardinalityType

LEMMA LeasedCountNext == Cardinality(LeasedSessions)' \in Nat
<1>1. IsFiniteSet(LeasedSessions')
  BY PoolAssumption, FS_Subset DEF LeasedSessions
<1>. QED BY <1>1, FS_CardinalityType

\* One leased session more or less.
LEMMA LeaseAdds ==
  ASSUME TypeOK, NEW s \in Sessions, NEW w \in Workers, leased' = [leased EXCEPT ![s] = w]
  PROVE  Cardinality(LeasedSessions)' <= Cardinality(LeasedSessions) + 1
<1>1. LeasedSessions' = LeasedSessions \cup {s}
  BY PoolAssumption DEF LeasedSessions, TypeOK
<1>2. Cardinality(LeasedSessions \cup {s}) =
        IF s \in LeasedSessions THEN Cardinality(LeasedSessions) ELSE Cardinality(LeasedSessions) + 1
  BY FiniteTables, FS_AddElement
<1>. QED BY <1>1, <1>2, FiniteTables

LEMMA LeaseDrops ==
  ASSUME TypeOK, NEW s \in Sessions, leased' = [leased EXCEPT ![s] = NoWorker]
  PROVE  /\ leased[s] # NoWorker =>
              Cardinality(LeasedSessions)' = Cardinality(LeasedSessions) - 1
         /\ leased[s] = NoWorker =>
              Cardinality(LeasedSessions)' = Cardinality(LeasedSessions)
<1>1. LeasedSessions' = LeasedSessions \ {s}
  BY DEF LeasedSessions, TypeOK
<1>2. Cardinality(LeasedSessions \ {s}) =
        IF s \in LeasedSessions THEN Cardinality(LeasedSessions) - 1 ELSE Cardinality(LeasedSessions)
  BY FiniteTables, FS_RemoveElement
<1>3. s \in LeasedSessions <=> leased[s] # NoWorker
  BY DEF LeasedSessions
<1>. QED BY <1>1, <1>2, <1>3

\* One idle worker more.
LEMMA IdleAdds ==
  ASSUME TypeOK, NEW w, idle' = idle \cup {w}
  PROVE  Cardinality(idle)' <= Cardinality(idle) + 1 /\ Cardinality(idle)' \in Nat
<1>1. /\ Cardinality(idle \cup {w}) =
           IF w \in idle THEN Cardinality(idle) ELSE Cardinality(idle) + 1
      /\ IsFiniteSet(idle \cup {w})
  BY FiniteTables, FS_AddElement
<1>2. Cardinality(idle)' = Cardinality(idle \cup {w})
  OBVIOUS
<1>. QED BY <1>1, <1>2, FiniteTables

LEMMA SameCounts ==
  ASSUME CapacityRespected, UNCHANGED <<idle, leased, starting>> PROVE CapacityRespected'
BY DEF CapacityRespected, Total, LeasedSessions

LEMMA CapacityCaller ==
  ASSUME TypeOK, InHand, CapacityRespected, NEW s \in Sessions, CallerRequest(s) \/ CallerStep(s)
  PROVE  CapacityRespected'
<1>. USE DEF tables, counters, superVars, toolVars
<1>1. CASE \/ CallerRequest(s)
           \/ ReserveGivesUp(s) \/ RetryLease(s) \/ KillCancelled(s) \/ ToolAnswers(s)
           \/ ToolFails(s) \/ DiscardRead(s) \/ DiscardKill(s) \/ NoReuse(s)
           \/ ResetCleans(s) \/ ResetIncomplete(s)
  BY <1>1, SameCounts
  DEF CallerRequest, Lease, Execute, DiscardLease, Release, ReserveGivesUp, RetryLease,
      KillCancelled, ToolAnswers, ToolFails, DiscardRead, DiscardKill, NoReuse,
      ResetCleans, ResetIncomplete
<1>2. CASE TakeIdle(s)
  <2>1. PICK w \in idle : idle' = idle \ {w} /\ leased' = [leased EXCEPT ![s] = w]
    BY <1>2 DEF TakeIdle
  <2>2. Cardinality(idle)' = Cardinality(idle) - 1
    BY <2>1, FiniteTables, FS_RemoveElement
  <2>3. Cardinality(LeasedSessions)' <= Cardinality(LeasedSessions) + 1
    BY <2>1, LeaseAdds DEF TypeOK
  <2>4. starting' = starting /\ Cardinality(LeasedSessions)' \in Nat
    BY <1>2, LeasedCountNext DEF TakeIdle
  <2>. QED BY <2>2, <2>3, <2>4, FiniteTables, PoolAssumption DEF CapacityRespected, Total, TypeOK
<1>3. CASE ReserveSlot(s)
  <2>1. UNCHANGED <<idle, leased>> /\ starting' = starting + 1 /\ Total < PoolSize
    BY <1>3 DEF ReserveSlot, HasSlot
  <2>. QED BY <2>1, FiniteTables, PoolAssumption DEF CapacityRespected, Total, LeasedSessions, TypeOK
<1>4. CASE DiscardDelete(s) \/ CheckGeneration(s)
  <2>1. /\ UNCHANGED <<idle, starting>>
        /\ leased' = leased \/ leased' = [leased EXCEPT ![s] = NoWorker]
    BY <1>4 DEF DiscardDelete, CheckGeneration
  <2>2. Cardinality(LeasedSessions)' <= Cardinality(LeasedSessions)
        /\ Cardinality(LeasedSessions)' \in Nat
    <3>1. CASE leased' = leased
      <4>1. LeasedSessions' = LeasedSessions
        BY <3>1 DEF LeasedSessions
      <4>. QED BY <4>1, FiniteTables
    <3>2. CASE leased' = [leased EXCEPT ![s] = NoWorker]
      <4>1. \/ Cardinality(LeasedSessions)' = Cardinality(LeasedSessions) - 1
            \/ Cardinality(LeasedSessions)' = Cardinality(LeasedSessions)
        BY <3>2, LeaseDrops
      <4>. QED BY <4>1, FiniteTables, LeasedCountNext
    <3>. QED BY <2>1, <3>1, <3>2
  <2>. QED BY <2>1, <2>2, FiniteTables, PoolAssumption DEF CapacityRespected, Total, TypeOK
<1>5. CASE ReturnToIdle(s)
  <2>1. CASE leased[s] = caller[s].wk
    <3>1. /\ leased' = [leased EXCEPT ![s] = NoWorker] /\ starting' = starting
          /\ idle' = idle \cup {caller[s].wk}
      BY <1>5, <2>1 DEF ReturnToIdle
    <3>2. leased[s] # NoWorker
      BY <1>5, <2>1, PoolAssumption DEF ReturnToIdle, At, InHand, Drives
    <3>3. Cardinality(LeasedSessions)' = Cardinality(LeasedSessions) - 1
      BY <3>1, <3>2, LeaseDrops
    <3>4. Cardinality(idle)' <= Cardinality(idle) + 1 /\ Cardinality(idle)' \in Nat
      BY <3>1, IdleAdds
    <3>. QED BY <3>1, <3>3, <3>4, FiniteTables, PoolAssumption DEF CapacityRespected, Total, TypeOK
  <2>2. CASE leased[s] # caller[s].wk
    BY <1>5, <2>2, SameCounts DEF ReturnToIdle
  <2>. QED BY <2>1, <2>2
<1>. QED BY <1>1, <1>2, <1>3, <1>4, <1>5 DEF CallerStep

LEMMA CapacityStarter ==
  ASSUME TypeOK, CapacityRespected, NEW w \in Workers, StarterStep(w) PROVE CapacityRespected'
<1>. USE DEF tables, counters, superVars, toolVars
<1>1. CASE \/ SpawnProcess(w) \/ SpawnFails(w) \/ RegisterStarting(w) \/ KillUnregistered(w)
           \/ BecomesReady(w) \/ BootFails(w) \/ Unregister(w) \/ KillStarted(w)
  BY <1>1, SameCounts
  DEF SpawnProcess, SpawnFails, RegisterStarting, KillUnregistered, BecomesReady,
      BootFails, Unregister, KillStarted
<1>2. ASSUME UNCHANGED <<idle, leased>>, starting' = starting - 1 PROVE CapacityRespected'
  BY <1>2, FiniteTables, PoolAssumption DEF CapacityRespected, Total, LeasedSessions, TypeOK
<1>3. CASE AbandonStart(w)
  BY <1>2, <1>3 DEF AbandonStart
<1>4. CASE LeaseNewWorker(w)
  <2>1. PICK s \in Sessions : s = boot[w].owner
    BY <1>4 DEF LeaseNewWorker, TypeOK, BootType
  <2>2. CASE UNCHANGED leased
    BY <1>2, <1>4, <2>2 DEF LeaseNewWorker
  <2>3. CASE leased' = [leased EXCEPT ![s] = w]
    <3>1. idle' = idle /\ starting' = starting - 1
      BY <1>4 DEF LeaseNewWorker
    <3>2. Cardinality(LeasedSessions)' <= Cardinality(LeasedSessions) + 1
      BY <2>3, LeaseAdds
    <3>. QED BY <3>1, <3>2, LeasedCountNext, FiniteTables, PoolAssumption
             DEF CapacityRespected, Total, TypeOK
  <2>. QED BY <1>4, <2>1, <2>2, <2>3 DEF LeaseNewWorker
<1>5. CASE PublishIdle(w)
  <2>1. UNCHANGED leased /\ starting' = starting - 1
    BY <1>5 DEF PublishIdle
  <2>2. CASE UNCHANGED idle
    BY <1>2, <2>1, <2>2
  <2>3. CASE idle' = idle \cup {w}
    <3>1. Cardinality(idle)' <= Cardinality(idle) + 1 /\ Cardinality(idle)' \in Nat
      BY <2>3, IdleAdds
    <3>. QED BY <2>1, <3>1, FiniteTables, PoolAssumption
             DEF CapacityRespected, Total, LeasedSessions, TypeOK
  <2>. QED BY <1>5, <2>2, <2>3 DEF PublishIdle
<1>. QED BY <1>1, <1>3, <1>4, <1>5 DEF StarterStep

LEMMA CapacityOther ==
  ASSUME TypeOK, CapacityRespected,
         \/ \E c \in Closers : BeginClose(c) \/ CloserStep(c)
         \/ \E w \in Workers : ToolDies(w)
         \/ StartSupervisor \/ SupervisorExits \/ SupervisorLoop \/ BackoffExpires
         \/ UNCHANGED vars
  PROVE  CapacityRespected'
<1>. USE DEF tables, counters, superVars, toolVars
<1>1. CASE \/ \E c \in Closers : BeginClose(c) \/ KillNext(c) \/ EndClose(c)
           \/ \E w \in Workers : ToolDies(w)
           \/ StartSupervisor \/ SupervisorExits \/ BackoffExpires \/ UNCHANGED vars
  BY <1>1, SameCounts
  DEF BeginClose, KillNext, EndClose, ToolDies, StartSupervisor, SupervisorExits,
      BackoffExpires, vars
<1>2. Cardinality({}) = 0
  BY FS_EmptySet
<1>3. CASE \E c \in Closers : CancelPendingLeases(c)
  <2>1. idle' = {} /\ UNCHANGED <<leased, starting>>
    BY <1>3 DEF CancelPendingLeases, CloseTables
  <2>. QED BY <1>2, <2>1, FiniteTables, PoolAssumption
           DEF CapacityRespected, Total, LeasedSessions, TypeOK
<1>4. CASE \E c \in Closers : CloseAll(c)
  <2>1. idle' = {} /\ leased' = [s \in Sessions |-> NoWorker] /\ starting' = starting
    BY <1>4 DEF CloseAll, CloseTables
  <2>2. LeasedSessions' = {}
    BY <2>1 DEF LeasedSessions
  <2>. QED BY <1>2, <2>1, <2>2, FiniteTables, PoolAssumption DEF CapacityRespected, Total, TypeOK
<1>5. CASE SupervisorLoop
  <2>1. prewarmComplete' \in BOOLEAN
    BY <1>5, Zenon DEF SupervisorLoop, PrewarmDone, TypeOK
  <2>2. /\ UNCHANGED <<idle, leased>>
        /\ starting' \in {starting, starting + Starts(prewarmComplete')}
    BY <1>5 DEF SupervisorLoop
  <2>3. Starts(prewarmComplete') <= PoolSize - Total /\ Starts(prewarmComplete') \in Int
    BY <2>1, StartsWithinRoom
  <2>4. Total' \in {Total, Total + Starts(prewarmComplete')}
    <3>1. Cardinality(LeasedSessions)' = Cardinality(LeasedSessions)
      BY <2>2 DEF LeasedSessions
    <3>. QED BY <2>2, <2>3, <3>1, FiniteTables DEF Total, TypeOK
  <2>. QED BY <2>3, <2>4, TotalType, PoolAssumption DEF CapacityRespected
<1>. QED BY <1>1, <1>3, <1>4, <1>5 DEF CloserStep

\* Lent, idle and starting workers together never exceed pool_size.
THEOREM CapacityKept == Spec => []CapacityRespected
<1>1. Init => CapacityRespected
  <2>1. ASSUME Init PROVE LeasedSessions = {} /\ idle = {} /\ starting = 0
    BY <2>1 DEF Init, LeasedSessions
  <2>. QED BY <2>1, FS_EmptySet, PoolAssumption DEF CapacityRespected, Total
<1>2. PoolInv /\ CapacityRespected /\ [Next]_vars => CapacityRespected'
  BY CapacityCaller, CapacityStarter, CapacityOther DEF PoolInv, Next
<1>. QED BY <1>1, <1>2, PoolInvariant, PTL DEF Spec

-----------------------------------------------------------------------------
(* What the steps leave alone *)

\* A caller's step is not one of a caller that waits for a start-up, and moves no other.
LEMMA CallerFrame ==
  ASSUME TypeOK, NEW s \in Sessions, CallerRequest(s) \/ CallerStep(s)
  PROVE  /\ \A t \in Sessions \ {s} : caller'[t] = caller[t] /\ leased'[t] = leased[t]
         /\ caller[s].pc # "starting"
         /\ UNCHANGED <<startingWorkers, closeGeneration, closer>>
         /\ ReserveSlot(s) \/ UNCHANGED <<boot, starting>>
<1>. USE DEF tables, counters, superVars, toolVars, At
<1>1. ASSUME NEW step, NEW gen, Enters(s, step, gen)
      PROVE  \A t \in Sessions \ {s} : caller'[t] = caller[t]
  BY <1>1, EntersEffect
<1>2. ASSUME NEW step, NEW w, NEW src, Moves(s, step, w, src)
      PROVE  \A t \in Sessions \ {s} : caller'[t] = caller[t]
  BY <1>2, MovesEffect
<1>3. CASE Lease(s) \/ Execute(s) \/ DiscardLease(s) \/ Release(s)
  BY <1>1, <1>2, <1>3 DEF Lease, Execute, DiscardLease, Release, Leave, Goto, Using
<1>4. CASE ReserveGivesUp(s) \/ RetryLease(s) \/ KillCancelled(s)
  BY <1>1, <1>2, <1>4 DEF ReserveGivesUp, RetryLease, KillCancelled, Leave
<1>5. CASE TakeIdle(s) \/ ReserveSlot(s)
  BY <1>2, <1>5 DEF TakeIdle, ReserveSlot, TypeOK
<1>6. CASE CheckGeneration(s)
  BY <1>1, <1>2, <1>6 DEF CheckGeneration, Goto, TypeOK
<1>7. CASE ToolAnswers(s) \/ ToolFails(s)
  BY <1>2, <1>7 DEF ToolAnswers, ToolFails, Goto, Forget, Using
<1>8. CASE DiscardRead(s) \/ DiscardKill(s)
  BY <1>1, <1>2, <1>8 DEF DiscardRead, DiscardKill, AfterDiscard, Goto, Forget, Using, Leave
<1>9. CASE DiscardDelete(s) \/ ReturnToIdle(s)
  BY <1>1, <1>2, <1>9 DEF DiscardDelete, ReturnToIdle, AfterDiscard, Forget, Using, Leave, TypeOK
<1>10. CASE NoReuse(s) \/ ResetCleans(s) \/ ResetIncomplete(s)
  BY <1>2, <1>10 DEF NoReuse, ResetCleans, ResetIncomplete, Goto, Forget, Using
<1>. QED BY <1>3, <1>4, <1>5, <1>6, <1>7, <1>8, <1>9, <1>10 DEF CallerRequest, CallerStep

-----------------------------------------------------------------------------
(* Leases have holders. A thread with a worker in hand has the lease of that *)
(* worker or, after a close, of none: what it deletes is its own.            *)

Leaseless == {"out", "reserve", "starting", "kill", "retry"}

HandOf(s) ==
  /\ caller[s].wk # NoWorker => leased[s] \in {caller[s].wk, NoWorker}
  /\ caller[s].pc \in {"dkill", "ddelete"} => caller[s].wk # NoWorker
  /\ caller[s].pc \in Leaseless => leased[s] = NoWorker

Hands == \A s \in Sessions : HandOf(s)

\* A start-up that a lease began has a caller that waits for it, and for no other.
OwnerWaits ==
  \A w \in Workers :
    boot[w].pc # "none" /\ boot[w].owner # Supervisor =>
      /\ At(boot[w].owner, "starting")
      /\ \A v \in Workers : boot[v].pc # "none" /\ boot[v].owner = boot[w].owner => v = w

\* A caller's step keeps the hands of all callers.
LEMMA HandsCaller ==
  ASSUME TypeOK, InHand, Hands, NEW s \in Sessions, CallerRequest(s) \/ CallerStep(s)
  PROVE  Hands'
<1>. USE DEF tables, counters, superVars, toolVars, At
<1>1. \A t \in Sessions \ {s} : HandOf(t)'
  BY CallerFrame DEF Hands, HandOf
<1>2. HandOf(s) /\ leased[s] \in Workers \cup {NoWorker} /\ (Drives(s) => caller[s].wk # NoWorker)
  BY PoolAssumption DEF Hands, InHand, TypeOK
<1>3. ASSUME NEW step, NEW gen, Enters(s, step, gen), step \notin {"dkill", "ddelete"},
             step \in Leaseless => leased'[s] = NoWorker
      PROVE  Hands'
  BY <1>1, <1>3, EntersEffect DEF Hands, HandOf
<1>4. ASSUME NEW step, NEW w, NEW src, Moves(s, step, w, src),
             w # NoWorker => leased'[s] \in {w, NoWorker},
             step \in {"dkill", "ddelete"} => w # NoWorker,
             step \in Leaseless => leased'[s] = NoWorker
      PROVE  Hands'
  BY <1>1, <1>4, MovesEffect DEF Hands, HandOf
<1>. USE DEF Leaseless
<1>5. CASE Lease(s) \/ ReserveGivesUp(s) \/ RetryLease(s) \/ KillCancelled(s)
  <2>1. leased'[s] = NoWorker
    BY <1>2, <1>5 DEF Lease, ReserveGivesUp, RetryLease, KillCancelled, HandOf
  <2>2. \E step \in {"out", "reserve"}, gen \in {0, closeGeneration} : Enters(s, step, gen)
    BY <1>5 DEF Lease, ReserveGivesUp, RetryLease, KillCancelled, Leave
  <2>. QED BY <1>3, <2>1, <2>2
<1>6. CASE Execute(s) \/ DiscardLease(s)
  <2>1. leased'[s] = leased[s]
    BY <1>6 DEF Execute, DiscardLease
  <2>2. \/ Moves(s, "discard", caller[s].wk, caller[s].src)
        \/ Moves(s, "exec", leased[s], caller[s].src)
    BY <1>6 DEF Execute, DiscardLease, Goto, Using
  <2>. QED BY <1>2, <1>4, <2>1, <2>2 DEF HandOf
<1>7. CASE Release(s)
  <2>1. leased'[s] = leased[s]
    BY <1>7 DEF Release
  <2>2. CASE leased[s] = NoWorker
    BY <1>3, <1>7, <2>1, <2>2 DEF Release, Leave
  <2>3. CASE leased[s] # NoWorker
    <3>1. \/ \E step \in {"bump", "discard"} : Moves(s, step, caller[s].wk, caller[s].src)
          \/ Moves(s, "reset", leased[s], caller[s].src)
      BY <1>7, <2>3 DEF Release, Goto, Using
    <3>. QED BY <1>2, <1>4, <2>1, <3>1 DEF HandOf
  <2>. QED BY <2>2, <2>3
<1>8. CASE TakeIdle(s)
  <2>1. PICK w \in idle : leased' = [leased EXCEPT ![s] = w] /\ Moves(s, "prepare", w, "idle")
    BY <1>8 DEF TakeIdle
  <2>2. leased'[s] = w
    BY <2>1 DEF TypeOK
  <2>. QED BY <1>4, <2>1, <2>2
<1>9. CASE ReserveSlot(s)
  <2>1. leased'[s] = NoWorker /\ Moves(s, "starting", NoWorker, "new")
    BY <1>2, <1>9 DEF ReserveSlot, HandOf
  <2>. QED BY <1>4, <2>1
<1>10. CASE CheckGeneration(s)
  <2>1. CASE closeGeneration = caller[s].gen
    BY <1>3, <1>10, <2>1 DEF CheckGeneration
  <2>2. CASE closeGeneration # caller[s].gen
    <3>1. Moves(s, "kill", caller[s].wk, caller[s].src)
      BY <1>10, <2>2 DEF CheckGeneration, Goto
    <3>2. caller[s].wk # NoWorker
      BY <1>2, <1>10 DEF CheckGeneration, Drives
    <3>3. leased'[s] = NoWorker
      BY <1>2, <1>10, <2>2, <3>2 DEF CheckGeneration, HandOf, TypeOK
    <3>. QED BY <1>4, <3>1, <3>3
  <2>. QED BY <2>1, <2>2
<1>11. CASE ToolAnswers(s) \/ ToolFails(s) \/ NoReuse(s) \/ ResetCleans(s) \/ ResetIncomplete(s)
  <2>1. leased'[s] = leased[s]
    BY <1>11 DEF ToolAnswers, ToolFails, NoReuse, ResetCleans, ResetIncomplete
  <2>2. \E step \in {"check", "held", "return", "discard", "health"},
           w \in {caller[s].wk, NoWorker} : Moves(s, step, w, caller[s].src)
    BY <1>11 DEF ToolAnswers, ToolFails, NoReuse, ResetCleans, ResetIncomplete, Goto, Forget, Using
  <2>. QED BY <1>2, <1>4, <2>1, <2>2 DEF HandOf
<1>12. CASE DiscardRead(s)
  <2>1. leased'[s] = leased[s]
    BY <1>12 DEF DiscardRead
  <2>2. CASE leased[s] = NoWorker
    <3>1. Moves(s, "retry", NoWorker, caller[s].src) \/ Enters(s, "out", 0)
      BY <1>12, <2>2 DEF DiscardRead, AfterDiscard, Forget, Using, Leave
    <3>. QED BY <1>3, <1>4, <2>1, <2>2, <3>1
  <2>3. CASE leased[s] # NoWorker
    <3>1. Moves(s, "dkill", leased[s], caller[s].src)
      BY <1>12, <2>3 DEF DiscardRead, Using
    <3>. QED BY <1>4, <2>1, <2>3, <3>1
  <2>. QED BY <2>2, <2>3
<1>13. CASE DiscardKill(s)
  <2>1. leased'[s] = leased[s] /\ Moves(s, "ddelete", caller[s].wk, caller[s].src)
    BY <1>13 DEF DiscardKill, Goto
  <2>2. caller[s].wk # NoWorker
    BY <1>2, <1>13 DEF DiscardKill, HandOf
  <2>. QED BY <1>2, <1>4, <2>1, <2>2 DEF HandOf
<1>14. CASE DiscardDelete(s)
  <2>1. caller[s].wk # NoWorker
    BY <1>2, <1>14 DEF DiscardDelete, HandOf
  <2>2. leased'[s] = NoWorker
    BY <1>2, <1>14, <2>1 DEF DiscardDelete, HandOf, TypeOK
  <2>3. Moves(s, "retry", NoWorker, caller[s].src) \/ Enters(s, "out", 0)
    BY <1>14 DEF DiscardDelete, AfterDiscard, Forget, Using, Leave
  <2>. QED BY <1>3, <1>4, <2>2, <2>3
<1>15. CASE ReturnToIdle(s)
  <2>1. caller[s].wk # NoWorker
    BY <1>2, <1>15 DEF ReturnToIdle, Drives
  <2>2. leased'[s] = NoWorker
    BY <1>2, <1>15, <2>1 DEF ReturnToIdle, HandOf, TypeOK
  <2>. QED BY <1>3, <1>15, <2>2 DEF ReturnToIdle, Leave
<1>. QED BY <1>5, <1>6, <1>7, <1>8, <1>9, <1>10, <1>11, <1>12, <1>13, <1>14, <1>15
         DEF CallerRequest, CallerStep

\* A caller's step keeps the owners of start-ups waiting.
LEMMA OwnerCaller ==
  ASSUME TypeOK, OwnerWaits, NEW s \in Sessions, CallerRequest(s) \/ CallerStep(s)
  PROVE  OwnerWaits'
<1>. USE DEF At
<1>1. \A w \in Workers : boot[w].owner \in Sessions \cup {Supervisor}
  BY DEF TypeOK, BootType
<1>2. caller[s].pc # "starting" /\ \A t \in Sessions \ {s} : caller'[t] = caller[t]
  BY CallerFrame
<1>3. \A w \in Workers : boot[w].pc # "none" => boot[w].owner # s
  BY <1>2, PoolAssumption DEF OwnerWaits
<1>4. CASE UNCHANGED boot
  BY <1>1, <1>2, <1>3, <1>4 DEF OwnerWaits
<1>5. CASE ReserveSlot(s)
  <2>1. PICK w \in Fresh :
          boot' = [boot EXCEPT ![w] = [pc |-> "spawn", gen |-> caller[s].gen, owner |-> s]]
    BY <1>5 DEF ReserveSlot
  <2>2. /\ w \in Workers /\ boot'[w].owner = s /\ boot[w].pc = "none"
        /\ \A v \in Workers \ {w} : boot'[v] = boot[v]
    BY <2>1, FreshIsSeparate DEF TypeOK
  <2>3. caller'[s].pc = "starting"
    BY <1>5, MovesEffect DEF ReserveSlot
  <2>. QED BY <1>1, <1>2, <1>3, <2>2, <2>3 DEF OwnerWaits
<1>. QED BY <1>4, <1>5, CallerFrame

\* The caller that waits for a start-up leaves when it has failed.
LEMMA OwnerGone ==
  ASSUME TypeOK, Hands, OwnerWaits, NEW w \in Workers, boot[w].pc # "none", OwnerLeaves(w),
         boot'[w].pc = "none", \A v \in Workers \ {w} : boot'[v] = boot[v], UNCHANGED leased
  PROVE  Hands' /\ OwnerWaits'
<1>. USE DEF At
<1>1. \A v \in Workers : boot[v].owner \in Sessions \cup {Supervisor}
  BY DEF TypeOK, BootType
<1>2. CASE boot[w].owner = Supervisor
  <2>1. UNCHANGED caller
    BY <1>2 DEF OwnerLeaves
  <2>. QED BY <1>1, <2>1 DEF Hands, HandOf, OwnerWaits
<1>3. CASE boot[w].owner # Supervisor
  <2>1. PICK s \in Sessions : s = boot[w].owner /\ Enters(s, "out", 0)
    BY <1>1, <1>3 DEF OwnerLeaves, Leave
  <2>2. /\ caller'[s].pc = "out" /\ caller'[s].wk = NoWorker
        /\ \A t \in Sessions \ {s} : caller'[t] = caller[t]
    BY <2>1, EntersEffect
  <2>3. caller[s].pc = "starting" /\ leased[s] = NoWorker
    BY <1>3, <2>1 DEF OwnerWaits, Hands, HandOf, Leaseless
  <2>4. Hands'
    BY <2>2, <2>3 DEF Hands, HandOf, Leaseless
  <2>5. \A v \in Workers \ {w} : boot[v].pc # "none" => boot[v].owner # s
    BY <1>3, <2>1 DEF OwnerWaits
  <2>. QED BY <1>1, <2>2, <2>4, <2>5 DEF OwnerWaits
<1>. QED BY <1>2, <1>3

\* The steps of a start-up.
LEMMA HandsStarter ==
  ASSUME TypeOK, Hands, OwnerWaits, NEW w \in Workers, StarterStep(w)
  PROVE  Hands' /\ OwnerWaits'
<1>. USE DEF tables, counters, superVars, toolVars, At
<1>1. \A v \in Workers : boot[v].owner \in Sessions \cup {Supervisor}
  BY DEF TypeOK, BootType
<1>2. ASSUME UNCHANGED <<leased, caller>>, boot[w].pc # "none",
             boot'[w].pc = "none" \/ boot'[w].owner = boot[w].owner,
             \A v \in Workers \ {w} : boot'[v] = boot[v]
      PROVE  Hands' /\ OwnerWaits'
  <2>1. Hands'
    BY <1>2 DEF Hands, HandOf
  <2>. QED BY <1>1, <1>2, <2>1 DEF OwnerWaits
<1>3. CASE \/ SpawnProcess(w) \/ SpawnFails(w) \/ RegisterStarting(w) \/ KillUnregistered(w)
           \/ BecomesReady(w) \/ BootFails(w) \/ Unregister(w)
  <2>1. UNCHANGED <<leased, caller>>
    BY <1>3 DEF SpawnProcess, SpawnFails, RegisterStarting, KillUnregistered,
                BecomesReady, BootFails, Unregister
  <2>2. \E from, to \in BootPC \ {"none"} : BootStep(w, from, to)
    BY <1>3 DEF SpawnProcess, SpawnFails, RegisterStarting, KillUnregistered,
                BecomesReady, BootFails, Unregister, BootPC
  <2>. QED BY <1>2, <2>1, <2>2, BootStepEffect
<1>4. CASE AbandonStart(w) \/ KillStarted(w)
  <2>1. OwnerLeaves(w) /\ UNCHANGED leased /\ (BootOver(w, "fail") \/ BootOver(w, "kill"))
    BY <1>4 DEF AbandonStart, KillStarted
  <2>. QED BY <2>1, BootOverEffect, OwnerGone
<1>5. CASE PublishIdle(w)
  <2>1. UNCHANGED <<leased, caller>> /\ (BootStep(w, "publish", "kill") \/ BootOver(w, "publish"))
    BY <1>5 DEF PublishIdle
  <2>. QED BY <1>2, <2>1, BootStepEffect, BootOverEffect
<1>6. CASE LeaseNewWorker(w)
  <2>1. PICK s \in Sessions : s = boot[w].owner /\ s # Supervisor
    BY <1>1, <1>6 DEF LeaseNewWorker
  <2>2. CASE BootStep(w, "publish", "kill") /\ UNCHANGED <<leased, caller>>
    BY <1>2, <2>2, BootStepEffect
  <2>3. CASE /\ BootOver(w, "publish") /\ Using(s, "prepare", w)
             /\ leased' = [leased EXCEPT ![s] = w]
    <3>1. /\ caller'[s].pc = "prepare" /\ caller'[s].wk = w /\ leased'[s] = w
          /\ \A t \in Sessions \ {s} : caller'[t] = caller[t] /\ leased'[t] = leased[t]
      BY <2>3, MovesEffect DEF Using, TypeOK
    <3>2. Hands'
      BY <3>1 DEF Hands, HandOf, Leaseless
    <3>3. /\ boot[w].pc = "publish" /\ boot'[w].pc = "none"
          /\ \A v \in Workers \ {w} : boot'[v] = boot[v]
      BY <2>3, BootOverEffect
    <3>4. \A v \in Workers \ {w} : boot[v].pc # "none" => boot[v].owner # s
      BY <2>1, <3>3 DEF OwnerWaits
    <3>. QED BY <1>1, <3>1, <3>2, <3>3, <3>4 DEF OwnerWaits
  <2>. QED BY <1>6, <2>1, <2>2, <2>3 DEF LeaseNewWorker
<1>. QED BY <1>3, <1>4, <1>5, <1>6 DEF StarterStep

\* Whoever closes, supervises or dies.
Others ==
  \/ \E c \in Closers : BeginClose(c) \/ CloserStep(c)
  \/ \E w \in Workers : ToolDies(w)
  \/ StartSupervisor \/ SupervisorExits \/ SupervisorLoop \/ BackoffExpires
  \/ UNCHANGED vars

\* Closing threads only clear leases, and the supervisor's start-ups have no caller.
LEMMA HandsOther ==
  ASSUME TypeOK, Hands, OwnerWaits, Others PROVE Hands' /\ OwnerWaits'
<1>. USE DEF tables, counters, superVars, toolVars, At
<1>1. \A v \in Workers : boot[v].owner \in Sessions \cup {Supervisor}
  BY DEF TypeOK, BootType
<1>2. ASSUME UNCHANGED caller, \A s \in Sessions : leased'[s] \in {leased[s], NoWorker},
             \A w \in Workers : \/ boot'[w] = boot[w]
                                \/ boot'[w].owner = Supervisor
      PROVE  Hands' /\ OwnerWaits'
  <2>1. Hands'
    BY <1>2 DEF Hands, HandOf
  <2>. QED BY <1>1, <1>2, <2>1 DEF OwnerWaits
<1>3. CASE \E c \in Closers : BeginClose(c) \/ KillNext(c) \/ EndClose(c)
  BY <1>2, <1>3 DEF BeginClose, KillNext, EndClose
<1>4. CASE \E c \in Closers : CancelPendingLeases(c)
  BY <1>2, <1>4 DEF CancelPendingLeases, CloseTables
<1>5. CASE \E c \in Closers : CloseAll(c)
  <2>1. UNCHANGED <<caller, boot>> /\ leased' = [s \in Sessions |-> NoWorker]
    BY <1>5 DEF CloseAll, CloseTables
  <2>. QED BY <1>2, <2>1
<1>6. CASE SupervisorLoop
  <2>1. UNCHANGED <<caller, leased>>
    BY <1>6 DEF SupervisorLoop
  <2>2. \A w \in Workers : boot'[w] = boot[w] \/ boot'[w].owner = Supervisor
    BY <1>6 DEF SupervisorLoop, TypeOK
  <2>. QED BY <1>2, <2>1, <2>2
<1>7. CASE \/ \E w \in Workers : ToolDies(w)
           \/ StartSupervisor \/ SupervisorExits \/ BackoffExpires \/ UNCHANGED vars
  BY <1>2, <1>7 DEF ToolDies, StartSupervisor, SupervisorExits, BackoffExpires, vars
<1>. QED BY <1>3, <1>4, <1>5, <1>6, <1>7 DEF Others, CloserStep

-----------------------------------------------------------------------------
(* _starting counts the start-ups between their reservation and publication. *)

Counted == {w \in Workers : boot[w].pc \in CountedBootPC}

\* One start-up more, one less, or one that goes on.
LEMMA CountedMoves ==
  ASSUME TypeOK, StartingCount, NEW w \in Workers,
         \A v \in Workers \ {w} : boot'[v] = boot[v]
  PROVE  /\ ~(boot[w].pc \in CountedBootPC) /\ boot'[w].pc \in CountedBootPC
              /\ starting' = starting + 1 => StartingCount'
         /\ boot[w].pc \in CountedBootPC /\ ~(boot'[w].pc \in CountedBootPC)
              /\ starting' = starting - 1 => StartingCount'
         /\ (boot[w].pc \in CountedBootPC <=> boot'[w].pc \in CountedBootPC)
              /\ starting' = starting => StartingCount'
<1>1. IsFiniteSet(Counted) /\ starting = Cardinality(Counted)
  BY PoolAssumption, FS_Subset DEF Counted, StartingCount
<1>2. StartingCount' <=> starting' = Cardinality(Counted')
  BY DEF StartingCount, Counted
<1>3. ASSUME ~(boot[w].pc \in CountedBootPC), boot'[w].pc \in CountedBootPC
      PROVE  Cardinality(Counted') = Cardinality(Counted) + 1
  <2>1. Counted' = Counted \cup {w} /\ w \notin Counted
    BY <1>3 DEF Counted
  <2>. QED BY <1>1, <2>1, FS_AddElement
<1>4. ASSUME boot[w].pc \in CountedBootPC, ~(boot'[w].pc \in CountedBootPC)
      PROVE  Cardinality(Counted') = Cardinality(Counted) - 1
  <2>1. Counted' = Counted \ {w} /\ w \in Counted
    BY <1>4 DEF Counted
  <2>. QED BY <1>1, <2>1, FS_RemoveElement
<1>5. ASSUME boot[w].pc \in CountedBootPC <=> boot'[w].pc \in CountedBootPC
      PROVE  Counted' = Counted
  BY <1>5 DEF Counted
<1>. QED BY <1>1, <1>2, <1>3, <1>4, <1>5

\* A caller that reserves a slot counts one start-up more.
LEMMA CountCaller ==
  ASSUME TypeOK, StartingCount, NEW s \in Sessions, CallerRequest(s) \/ CallerStep(s)
  PROVE  StartingCount'
<1>1. CASE UNCHANGED <<boot, starting>>
  BY <1>1 DEF StartingCount
<1>2. CASE ReserveSlot(s)
  <2>1. PICK w \in Fresh :
          boot' = [boot EXCEPT ![w] = [pc |-> "spawn", gen |-> caller[s].gen, owner |-> s]]
    BY <1>2 DEF ReserveSlot
  <2>2. /\ w \in Workers /\ boot'[w].pc = "spawn" /\ boot[w].pc = "none"
        /\ \A v \in Workers \ {w} : boot'[v] = boot[v]
    BY <2>1, FreshIsSeparate DEF TypeOK
  <2>3. starting' = starting + 1
    BY <1>2 DEF ReserveSlot
  <2>. QED BY <2>2, <2>3, CountedMoves DEF CountedBootPC, BootPC
<1>. QED BY <1>1, <1>2, CallerFrame

\* A start-up leaves the count where _starting goes down, and only there.
LEMMA CountStarter ==
  ASSUME TypeOK, StartingCount, NEW w \in Workers, StarterStep(w)
  PROVE  StartingCount'
<1>. USE DEF tables, counters, superVars, toolVars, CountedBootPC, BootPC
<1>1. CASE \/ SpawnProcess(w) \/ SpawnFails(w) \/ RegisterStarting(w) \/ KillUnregistered(w)
           \/ BecomesReady(w) \/ BootFails(w) \/ Unregister(w)
  <2>1. \E from, to \in CountedBootPC : BootStep(w, from, to)
    BY <1>1 DEF SpawnProcess, SpawnFails, RegisterStarting, KillUnregistered,
                BecomesReady, BootFails, Unregister
  <2>2. starting' = starting
    BY <1>1 DEF SpawnProcess, SpawnFails, RegisterStarting, KillUnregistered,
                BecomesReady, BootFails, Unregister
  <2>. QED BY <2>1, <2>2, BootStepEffect, CountedMoves
<1>2. CASE AbandonStart(w)
  <2>1. BootOver(w, "fail") /\ starting' = starting - 1
    BY <1>2 DEF AbandonStart
  <2>. QED BY <2>1, BootOverEffect, CountedMoves
<1>3. CASE LeaseNewWorker(w) \/ PublishIdle(w)
  <2>1. /\ BootStep(w, "publish", "kill") \/ BootOver(w, "publish")
        /\ starting' = starting - 1
    BY <1>3 DEF LeaseNewWorker, PublishIdle
  <2>. QED BY <2>1, BootStepEffect, BootOverEffect, CountedMoves
<1>4. CASE KillStarted(w)
  <2>1. BootOver(w, "kill") /\ starting' = starting
    BY <1>4 DEF KillStarted
  <2>. QED BY <2>1, BootOverEffect, CountedMoves
<1>. QED BY <1>1, <1>2, <1>3, <1>4 DEF StarterStep

\* The supervisor counts the start-ups it begins.
LEMMA CountOther ==
  ASSUME TypeOK, StartingCount, Others PROVE StartingCount'
<1>. USE DEF tables, counters, superVars, toolVars
<1>1. CASE SupervisorLoop
  <2>1. CASE UNCHANGED <<boot, starting>>
    BY <2>1 DEF StartingCount
  <2>2. CASE ~UNCHANGED <<boot, starting>>
    <3>1. PICK W \in SUBSET Fresh :
            /\ starting' = starting + Cardinality(W)
            /\ boot' = [w \in Workers |->
                          IF w \in W THEN [pc |-> "spawn", gen |-> closeGeneration,
                                           owner |-> Supervisor] ELSE boot[w]]
      BY <1>1, <2>2 DEF SupervisorLoop
    <3>2. W \subseteq Workers /\ \A w \in W : boot[w].pc = "none"
      BY FreshIsSeparate
    <3>3. Counted' = Counted \cup W /\ Counted \cap W = {}
      BY <3>1, <3>2 DEF Counted, CountedBootPC, BootPC
    <3>4. IsFiniteSet(Counted) /\ IsFiniteSet(W)
      BY <3>2, PoolAssumption, FS_Subset DEF Counted
    <3>5. Cardinality(Counted') = Cardinality(Counted) + Cardinality(W)
      <4>1. Cardinality(Counted \cup W) = Cardinality(Counted) + Cardinality(W) - Cardinality({})
        BY <3>3, <3>4, FS_Union
      <4>. QED BY <3>3, <3>4, <4>1, FS_EmptySet, FS_CardinalityType
    <3>. QED BY <3>1, <3>5 DEF StartingCount, Counted
  <2>. QED BY <2>1, <2>2
<1>2. CASE ~SupervisorLoop
  <2>1. UNCHANGED <<boot, starting>>
    BY <1>2 DEF Others, BeginClose, CloserStep, CancelPendingLeases, CloseAll, CloseTables,
                KillNext, EndClose, ToolDies, StartSupervisor, SupervisorExits, BackoffExpires,
                vars
  <2>. QED BY <2>1 DEF StartingCount
<1>. QED BY <1>1, <1>2

-----------------------------------------------------------------------------
(* Kill lists. What is on one is out of the tables, and a start-up whose     *)
(* worker is on one began before the close, so that it will not publish it.  *)

Tabled == idle \cup LeasedWorkers

DoomedInv ==
  /\ DoomedNotOffered
  /\ \A c \in Closers : closer[c].pc # "kill" => closer[c].todo = {}
  /\ \A w \in Workers : boot[w].pc # "none" =>
       /\ boot[w].gen <= closeGeneration
       /\ \A c \in Closers : w \in closer[c].todo => boot[w].gen < closeGeneration

\* A caller's step brings no worker into the tables.
LEMMA TablesShrink ==
  ASSUME TypeOK, InHand, NEW s \in Sessions, CallerRequest(s) \/ CallerStep(s)
  PROVE  Tabled' \subseteq Tabled
<1>. USE DEF tables, counters, superVars, toolVars, At
<1>1. ASSUME idle' \subseteq Tabled,
             \A t \in Sessions : leased'[t] \in {leased[t], NoWorker} \cup idle
      PROVE  Tabled' \subseteq Tabled
  BY <1>1 DEF Tabled, LeasedWorkers, LeasedSessions
<1>2. CASE TakeIdle(s)
  BY <1>1, <1>2 DEF TakeIdle, Tabled, TypeOK
<1>3. CASE CheckGeneration(s) \/ DiscardDelete(s)
  <2>1. idle' = idle /\ \A t \in Sessions : leased'[t] \in {leased[t], NoWorker}
    BY <1>3 DEF CheckGeneration, DiscardDelete, TypeOK
  <2>. QED BY <1>1, <2>1 DEF Tabled
<1>4. CASE ReturnToIdle(s)
  <2>1. caller[s].wk \in Workers /\ caller[s].wk # NoWorker
    BY <1>4, PoolAssumption DEF ReturnToIdle, InHand, Drives
  <2>2. leased[s] = caller[s].wk => caller[s].wk \in LeasedWorkers
    BY <2>1 DEF LeasedWorkers, LeasedSessions
  <2>3. \A t \in Sessions : leased'[t] \in {leased[t], NoWorker}
    BY <1>4 DEF ReturnToIdle, TypeOK
  <2>4. CASE leased[s] = caller[s].wk
    <3>1. idle' = idle \cup {caller[s].wk}
      BY <1>4, <2>4 DEF ReturnToIdle
    <3>. QED BY <1>1, <2>2, <2>3, <2>4, <3>1 DEF Tabled
  <2>5. CASE leased[s] # caller[s].wk
    <3>1. idle' = idle
      BY <1>4, <2>5 DEF ReturnToIdle
    <3>. QED BY <1>1, <2>3, <3>1 DEF Tabled
  <2>. QED BY <2>4, <2>5
<1>5. CASE ~(TakeIdle(s) \/ CheckGeneration(s) \/ DiscardDelete(s) \/ ReturnToIdle(s))
  <2>1. UNCHANGED <<idle, leased>>
    BY <1>5 DEF CallerRequest, Lease, Execute, DiscardLease, Release, CallerStep, ReserveGivesUp,
                ReserveSlot, RetryLease, KillCancelled, ToolAnswers, ToolFails, DiscardRead,
                DiscardKill, NoReuse, ResetCleans, ResetIncomplete
  <2>. QED BY <2>1 DEF Tabled, LeasedWorkers, LeasedSessions
<1>. QED BY <1>2, <1>3, <1>4, <1>5

\* A new start-up is on no kill list.
LEMMA DoomedCaller ==
  ASSUME TypeOK, InHand, DoomedInv, NEW s \in Sessions, CallerRequest(s) \/ CallerStep(s)
  PROVE  DoomedInv'
<1>1. Tabled' \subseteq Tabled /\ UNCHANGED <<closer, closeGeneration>>
  BY TablesShrink, CallerFrame
<1>2. DoomedNotOffered'
  BY <1>1 DEF DoomedInv, DoomedNotOffered, Tabled
<1>3. CASE UNCHANGED boot
  BY <1>1, <1>2, <1>3 DEF DoomedInv
<1>4. CASE ReserveSlot(s)
  <2>1. PICK w \in Fresh :
          boot' = [boot EXCEPT ![w] = [pc |-> "spawn", gen |-> caller[s].gen, owner |-> s]]
    BY <1>4 DEF ReserveSlot
  <2>2. /\ w \in Workers /\ boot'[w].gen = closeGeneration
        /\ \A v \in Workers \ {w} : boot'[v] = boot[v]
    BY <1>4, <2>1, FreshIsSeparate DEF ReserveSlot, TypeOK
  <2>3. \A c \in Closers : w \notin closer[c].todo
    BY DEF Fresh
  <2>4. closeGeneration \in Nat
    BY DEF TypeOK
  <2>. QED BY <1>1, <1>2, <2>2, <2>3, <2>4 DEF DoomedInv
<1>. QED BY <1>3, <1>4, CallerFrame

\* A start-up brings its worker into the tables only if no close came between.
LEMMA DoomedStarter ==
  ASSUME TypeOK, DoomedInv, NEW w \in Workers, StarterStep(w)
  PROVE  DoomedInv'
<1>. USE DEF tables, counters, superVars, toolVars
<1>1. UNCHANGED <<closer, closeGeneration>>
  BY DEF StarterStep, SpawnProcess, SpawnFails, RegisterStarting, KillUnregistered, BecomesReady,
         BootFails, Unregister, AbandonStart, LeaseNewWorker, PublishIdle, KillStarted
<1>2. /\ boot[w].pc # "none"
      /\ boot'[w].pc = "none" \/ boot'[w].gen = boot[w].gen
      /\ \A v \in Workers \ {w} : boot'[v] = boot[v]
  <2>1. \/ \E from \in BootPC \ {"none"}, to \in BootPC : BootStep(w, from, to)
        \/ \E from \in BootPC \ {"none"} : BootOver(w, from)
    BY DEF StarterStep, SpawnProcess, SpawnFails, RegisterStarting, KillUnregistered, BecomesReady,
           BootFails, Unregister, AbandonStart, LeaseNewWorker, PublishIdle, KillStarted, BootPC
  <2>. QED BY <2>1, BootStepEffect, BootOverEffect
<1>3. \/ Tabled' \subseteq Tabled
      \/ boot[w].gen = closeGeneration /\ Tabled' \subseteq Tabled \cup {w}
  <2>1. CASE UNCHANGED <<idle, leased>>
    BY <2>1 DEF Tabled, LeasedWorkers, LeasedSessions
  <2>2. CASE LeaseNewWorker(w) /\ ~UNCHANGED leased
    <3>1. PICK s \in Sessions : leased' = [leased EXCEPT ![s] = w]
      BY <2>2 DEF LeaseNewWorker, TypeOK, BootType
    <3>2. boot[w].gen = closeGeneration /\ idle' = idle
      BY <2>2 DEF LeaseNewWorker
    <3>3. \A t \in Sessions : leased'[t] \in {leased[t], w}
      BY <3>1 DEF TypeOK
    <3>. QED BY <3>2, <3>3 DEF Tabled, LeasedWorkers, LeasedSessions
  <2>3. CASE PublishIdle(w) /\ ~UNCHANGED idle
    BY <2>3 DEF PublishIdle, Tabled, LeasedWorkers, LeasedSessions
  <2>. QED BY <2>1, <2>2, <2>3
       DEF StarterStep, SpawnProcess, SpawnFails, RegisterStarting, KillUnregistered, BecomesReady,
           BootFails, Unregister, AbandonStart, LeaseNewWorker, PublishIdle, KillStarted
<1>4. boot[w].gen = closeGeneration => \A c \in Closers : w \notin closer[c].todo
  BY <1>2 DEF DoomedInv, TypeOK
<1>5. DoomedNotOffered'
  BY <1>1, <1>3, <1>4 DEF DoomedInv, DoomedNotOffered, Tabled
<1>. QED BY <1>1, <1>2, <1>5 DEF DoomedInv

\* A close empties the tables of what it puts on its kill list.
LEMMA DoomedOther ==
  ASSUME PoolInv, DoomedInv, Others PROVE DoomedInv'
<1>. USE DEF tables, counters, superVars, toolVars
<1>1. /\ closeGeneration \in Nat /\ closer \in [Closers -> CloserType]
      /\ boot \in [Workers -> BootType]
  BY DEF PoolInv, TypeOK
<1>2. ASSUME UNCHANGED <<boot, closeGeneration>>, Tabled' \subseteq Tabled,
             \A c \in Closers : /\ closer'[c].todo \subseteq closer[c].todo
                                /\ closer'[c].pc # "kill" => closer'[c].todo = {}
      PROVE  DoomedInv'
  BY <1>2 DEF DoomedInv, DoomedNotOffered, Tabled
<1>3. ASSUME NEW c \in Closers, NEW doomed, CloseTables(c, doomed),
             doomed \cap Tabled' = {}, Tabled' \subseteq Tabled
      PROVE  DoomedInv'
  <2>1. /\ closer'[c] = [pc |-> "kill", todo |-> doomed] /\ UNCHANGED boot
        /\ \A d \in Closers \ {c} : closer'[d] = closer[d]
        /\ closeGeneration' = closeGeneration + 1
    BY <1>1, <1>3 DEF CloseTables
  <2>2. DoomedNotOffered'
    BY <1>3, <2>1 DEF DoomedInv, DoomedNotOffered, Tabled
  <2>3. \A d \in Closers : closer'[d].pc # "kill" => closer'[d].todo = {}
    BY <2>1 DEF DoomedInv
  <2>4. \A w \in Workers : boot[w].pc # "none" => boot[w].gen < closeGeneration'
    BY <1>1, <2>1 DEF DoomedInv, BootType
  <2>5. \A w \in Workers : boot[w].gen \in Nat
    BY <1>1 DEF BootType
  <2>. QED BY <1>1, <2>1, <2>2, <2>3, <2>4, <2>5 DEF DoomedInv
<1>4. ASSUME NEW c \in Closers, BeginClose(c) \/ EndClose(c) \/ KillNext(c) PROVE DoomedInv'
  <2>1. UNCHANGED <<idle, leased, boot, closeGeneration>>
    BY <1>4 DEF BeginClose, EndClose, KillNext
  <2>2. Tabled' = Tabled
    BY <2>1 DEF Tabled, LeasedWorkers, LeasedSessions
  <2>3. \A d \in Closers \ {c} : closer'[d] = closer[d]
    BY <1>1, <1>4 DEF BeginClose, EndClose, KillNext
  <2>4. closer'[c].todo \subseteq closer[c].todo /\ (closer'[c].pc # "kill" => closer'[c].todo = {})
    BY <1>1, <1>4 DEF BeginClose, EndClose, KillNext, DoomedInv, CloserType
  <2>. QED BY <1>2, <2>1, <2>2, <2>3, <2>4 DEF DoomedInv
<1>5. ASSUME NEW c \in Closers, CancelPendingLeases(c) PROVE DoomedInv'
  <2>1. Tabled' = LeasedWorkers
    BY <1>5 DEF CancelPendingLeases, CloseTables, Tabled, LeasedWorkers, LeasedSessions
  <2>2. (idle \cup startingWorkers) \cap LeasedWorkers = {}
    BY SeparateGivesExclusive DEF PoolInv, LeaseExclusive
  <2>. QED BY <1>3, <1>5, <2>1, <2>2 DEF CancelPendingLeases, Tabled
<1>6. ASSUME NEW c \in Closers, CloseAll(c) PROVE DoomedInv'
  <2>1. Tabled' = {}
    BY <1>6 DEF CloseAll, CloseTables, Tabled, LeasedWorkers, LeasedSessions
  <2>. QED BY <1>3, <1>6, <2>1 DEF CloseAll
<1>7. CASE SupervisorLoop
  <2>1. UNCHANGED <<idle, leased, closer, closeGeneration>>
    BY <1>7 DEF SupervisorLoop
  <2>2. \A w \in Workers : boot'[w] = boot[w] \/ (w \in Fresh /\ boot'[w].gen = closeGeneration)
    <3>1. CASE UNCHANGED boot
      BY <3>1
    <3>2. CASE ~UNCHANGED boot
      <4>1. PICK W \in SUBSET Fresh :
              boot' = [w \in Workers |->
                         IF w \in W THEN [pc |-> "spawn", gen |-> closeGeneration,
                                          owner |-> Supervisor] ELSE boot[w]]
        BY <1>7, <3>2 DEF SupervisorLoop
      <4>. QED BY <4>1
    <3>. QED BY <3>1, <3>2
  <2>3. \A w \in Fresh : \A c \in Closers : w \notin closer[c].todo
    BY DEF Fresh
  <2>4. DoomedNotOffered'
    BY <2>1 DEF DoomedInv, DoomedNotOffered, LeasedWorkers, LeasedSessions
  <2>. QED BY <1>1, <2>1, <2>2, <2>3, <2>4 DEF DoomedInv
<1>8. CASE \/ \E w \in Workers : ToolDies(w)
           \/ StartSupervisor \/ SupervisorExits \/ BackoffExpires \/ UNCHANGED vars
  <2>1. UNCHANGED <<idle, leased, closer, closeGeneration, boot>>
    BY <1>8 DEF ToolDies, StartSupervisor, SupervisorExits, BackoffExpires, vars
  <2>2. Tabled' = Tabled
    BY <2>1 DEF Tabled, LeasedWorkers, LeasedSessions
  <2>. QED BY <1>2, <2>1, <2>2 DEF DoomedInv
<1>. QED BY <1>4, <1>5, <1>6, <1>7, <1>8 DEF Others, CloserStep

-----------------------------------------------------------------------------
(* No running process without an owner. A start-up that has failed and a     *)
(* caller about to delete a lease leave a dead worker behind.                *)

DeadDone ==
  /\ \A w \in Workers : boot[w].pc \in {"spawn", "failed", "fail"} => w \notin alive
  /\ \A s \in Sessions : At(s, "ddelete") => caller[s].wk \notin alive

Owned(w) ==
  \/ w \in idle
  \/ \E s \in Sessions : leased[s] = w /\ w # NoWorker
  \/ w \in Workers /\ boot[w].pc # "none"
  \/ \E c \in Closers : w \in closer[c].todo
  \/ \E s \in Sessions : At(s, "kill") /\ caller[s].wk = w

\* NoOrphan, one process at a time.
LEMMA OwnedSuffices == (\A v \in alive : Owned(v)) <=> NoOrphan
<1>. DEFINE booting == {w \in Workers : boot[w].pc # "none"}
            doomed == UNION {closer[c].todo : c \in Closers}
            going  == {caller[s].wk : s \in {t \in Sessions : At(t, "kill")}}
<1>1. \A w : w \in LeasedWorkers <=> \E s \in Sessions : leased[s] = w /\ w # NoWorker
  BY DEF LeasedWorkers, LeasedSessions
<1>2. \A w : w \in doomed <=> \E c \in Closers : w \in closer[c].todo
  OBVIOUS
<1>3. \A w : w \in going <=> \E s \in Sessions : At(s, "kill") /\ caller[s].wk = w
  OBVIOUS
<1>4. NoOrphan <=> alive \subseteq idle \cup LeasedWorkers \cup booting \cup doomed \cup going
  BY DEF NoOrphan
<1>5. \A w : w \in booting <=> w \in Workers /\ boot[w].pc # "none"
  OBVIOUS
<1>. HIDE DEF booting, doomed, going
<1>6. NoOrphan <=> \A w \in alive : w \in idle \/ w \in LeasedWorkers \/ w \in booting
                                   \/ w \in doomed \/ w \in going
  BY <1>4
<1>. QED BY <1>1, <1>2, <1>3, <1>5, <1>6 DEF Owned

\* The same after a step.
LEMMA OwnedNext == (\A v \in alive : Owned(v))' => NoOrphan'
BY OwnedSuffices, PTL

\* A caller's step starts no process, and only DiscardKill leads to the deletion.
LEMMA DeadCaller ==
  ASSUME TypeOK, DeadDone, NEW s \in Sessions, CallerRequest(s) \/ CallerStep(s)
  PROVE  alive' \subseteq alive /\ DeadDone'
<1>. USE DEF tables, counters, superVars, toolVars, At
<1>1. alive' \subseteq alive
  BY DEF CallerRequest, Lease, Execute, DiscardLease, Release, CallerStep, ReserveGivesUp,
         TakeIdle, ReserveSlot, RetryLease, CheckGeneration, KillCancelled, ToolAnswers,
         ToolFails, DiscardRead, DiscardKill, DiscardDelete, NoReuse, ResetCleans,
         ResetIncomplete, ReturnToIdle, ForceKill, Die
<1>2. \A t \in Sessions \ {s} : caller'[t] = caller[t]
  BY CallerFrame
<1>3. caller'[s].pc = "ddelete" => caller'[s].wk \notin alive'
  <2>1. CASE DiscardKill(s)
    <3>1. caller'[s].wk = caller[s].wk /\ alive' = alive \ {caller[s].wk}
      BY <2>1, MovesEffect DEF DiscardKill, Goto, ForceKill, Die
    <3>. QED BY <3>1
  <2>2. CASE ~DiscardKill(s)
    <3>1. \/ \E step \in CallerPC \ {"ddelete"}, w \in Workers \cup {NoWorker},
                src \in {"none", "idle", "new"} : Moves(s, step, w, src)
          \/ \E step \in {"out", "reserve", "held"}, gen \in Nat : Enters(s, step, gen)
      BY <2>2, CallerFieldTypes
         DEF CallerRequest, Lease, Execute, DiscardLease, Release, CallerStep, ReserveGivesUp,
             TakeIdle, ReserveSlot, RetryLease, CheckGeneration, KillCancelled, ToolAnswers,
             ToolFails, DiscardRead, DiscardDelete, NoReuse, ResetCleans, ResetIncomplete,
             ReturnToIdle, AfterDiscard, Leave, Goto, Using, Forget, CallerPC, TypeOK
    <3>. QED BY <3>1, MovesEffect, EntersEffect
  <2>. QED BY <2>1, <2>2
<1>4. \A w \in Workers : boot'[w] = boot[w] \/ w \notin alive
  <2>1. CASE ReserveSlot(s)
    <3>1. PICK w \in Fresh :
            boot' = [boot EXCEPT ![w] = [pc |-> "spawn", gen |-> caller[s].gen, owner |-> s]]
      BY <2>1 DEF ReserveSlot
    <3>. QED BY <3>1 DEF Fresh, TypeOK
  <2>. QED BY <2>1, CallerFrame
<1>. QED BY <1>1, <1>2, <1>3, <1>4 DEF DeadDone

\* A caller gives up a worker to the tables, dead, or with the intent to kill it.
LEMMA OrphanCaller ==
  ASSUME TypeOK, InHand, Hands, DeadDone, NoOrphan,
         NEW s \in Sessions, CallerRequest(s) \/ CallerStep(s)
  PROVE  NoOrphan'
<1>. USE DEF tables, counters, superVars, toolVars, At
<1>1. alive' \subseteq alive /\ \A w \in alive : Owned(w)
  BY DeadCaller, OwnedSuffices
<1>2. \A w \in Workers : boot[w].pc # "none" => boot'[w].pc # "none"
  <2>1. CASE ReserveSlot(s)
    <3>1. PICK w \in Fresh :
            boot' = [boot EXCEPT ![w] = [pc |-> "spawn", gen |-> caller[s].gen, owner |-> s]]
      BY <2>1 DEF ReserveSlot
    <3>. QED BY <3>1 DEF TypeOK
  <2>. QED BY <2>1, CallerFrame
<1>3. /\ \A t \in Sessions \ {s} : caller'[t] = caller[t] /\ leased'[t] = leased[t]
      /\ closer' = closer
  BY CallerFrame
<1>4. ASSUME NEW w \in alive', w \in idle => Owned(w)', w = leased[s] => Owned(w)',
             At(s, "kill") /\ w = caller[s].wk => Owned(w)'
      PROVE  Owned(w)'
  BY <1>1, <1>2, <1>3, <1>4 DEF Owned
<1>5. ASSUME \A w \in alive' : /\ w \in idle => Owned(w)'
                               /\ w = leased[s] => Owned(w)'
                               /\ At(s, "kill") /\ w = caller[s].wk => Owned(w)'
      PROVE  NoOrphan'
  BY <1>4, <1>5, OwnedNext
<1>6. NoWorker \notin alive
  BY PoolAssumption DEF TypeOK
<1>7. CASE KillCancelled(s)
  <2>1. alive' = alive \ {caller[s].wk} /\ UNCHANGED <<idle, leased>>
    BY <1>7 DEF KillCancelled, ForceKill, Die
  <2>. QED BY <1>1, <1>5, <1>6, <2>1 DEF Owned
<1>8. CASE TakeIdle(s)
  <2>1. PICK w \in idle : idle' = idle \ {w} /\ leased' = [leased EXCEPT ![s] = w]
    BY <1>8 DEF TakeIdle
  <2>2. leased'[s] = w /\ leased[s] = NoWorker /\ caller[s].pc # "kill"
    BY <1>8, <2>1 DEF TakeIdle, TypeOK, Hands, HandOf, Leaseless
  <2>. QED BY <1>1, <1>5, <1>6, <2>1, <2>2 DEF Owned
<1>9. CASE CheckGeneration(s)
  <2>1. idle' = idle /\ caller[s].pc # "kill"
    BY <1>9 DEF CheckGeneration
  <2>2. CASE leased'[s] = leased[s]
    BY <1>1, <1>5, <1>6, <2>1, <2>2 DEF Owned
  <2>3. CASE leased'[s] # leased[s]
    <3>1. leased[s] = caller[s].wk /\ Moves(s, "kill", caller[s].wk, caller[s].src)
      BY <1>9, <2>3 DEF CheckGeneration, Goto
    <3>2. caller'[s].pc = "kill" /\ caller'[s].wk = leased[s]
      BY <3>1, MovesEffect
    <3>. QED BY <1>1, <1>5, <2>1, <3>2 DEF Owned
  <2>. QED BY <2>2, <2>3
<1>10. CASE DiscardDelete(s)
  <2>1. idle' = idle /\ caller[s].pc # "kill" /\ caller[s].wk \notin alive
    BY <1>10 DEF DiscardDelete, DeadDone
  <2>2. leased'[s] = leased[s] \/ leased[s] = caller[s].wk
    BY <1>10 DEF DiscardDelete
  <2>. QED BY <1>1, <1>5, <1>6, <2>1, <2>2 DEF Owned
<1>11. CASE ReturnToIdle(s)
  <2>1. caller[s].pc # "kill" /\ idle \subseteq idle'
    BY <1>11 DEF ReturnToIdle
  <2>2. leased'[s] = leased[s] \/ leased[s] \in idle'
    BY <1>11 DEF ReturnToIdle
  <2>. QED BY <1>1, <1>5, <1>6, <2>1, <2>2 DEF Owned
<1>12. CASE ~(\/ KillCancelled(s) \/ TakeIdle(s) \/ CheckGeneration(s)
              \/ DiscardDelete(s) \/ ReturnToIdle(s))
  <2>1. UNCHANGED <<idle, leased>> /\ caller[s].pc # "kill"
    BY <1>12 DEF CallerRequest, Lease, Execute, DiscardLease, Release, CallerStep,
                 ReserveGivesUp, ReserveSlot, RetryLease, ToolAnswers, ToolFails, DiscardRead,
                 DiscardKill, NoReuse, ResetCleans, ResetIncomplete
  <2>. QED BY <1>1, <1>5, <1>6, <2>1 DEF Owned
<1>. QED BY <1>7, <1>8, <1>9, <1>10, <1>11, <1>12

\* What a start-up does to the processes and to the callers.
LEMMA StarterFrame ==
  ASSUME TypeOK, Hands, OwnerWaits, NEW w \in Workers, StarterStep(w)
  PROVE  /\ alive' \subseteq alive \cup {w} /\ closer' = closer /\ idle \subseteq idle'
         /\ \A s \in Sessions : caller'[s] # caller[s] \/ leased'[s] # leased[s] =>
              At(s, "starting") /\ leased[s] = NoWorker /\ caller'[s].pc # "ddelete"
<1>. USE DEF tables, counters, superVars, toolVars, At
<1>1. /\ alive' \subseteq alive \cup {w} /\ closer' = closer /\ idle \subseteq idle'
      /\ boot[w].pc # "none"
  BY DEF StarterStep, SpawnProcess, SpawnFails, RegisterStarting, KillUnregistered, BecomesReady,
         BootFails, Unregister, AbandonStart, LeaseNewWorker, PublishIdle, KillStarted,
         BootStep, BootOver, ForceKill, Die
<1>2. \/ UNCHANGED <<caller, leased>>
      \/ OwnerLeaves(w) /\ UNCHANGED leased
      \/ /\ boot[w].owner # Supervisor
         /\ leased' = [leased EXCEPT ![boot[w].owner] = w]
         /\ Using(boot[w].owner, "prepare", w)
  BY DEF StarterStep, SpawnProcess, SpawnFails, RegisterStarting, KillUnregistered, BecomesReady,
         BootFails, Unregister, AbandonStart, LeaseNewWorker, PublishIdle, KillStarted
<1>3. boot[w].owner # Supervisor =>
        /\ boot[w].owner \in Sessions
        /\ At(boot[w].owner, "starting") /\ leased[boot[w].owner] = NoWorker
  BY <1>1 DEF OwnerWaits, Hands, HandOf, Leaseless, TypeOK, BootType
<1>4. \A s \in Sessions : caller'[s] # caller[s] \/ leased'[s] # leased[s] =>
        s = boot[w].owner /\ s # Supervisor /\ caller'[s].pc # "ddelete"
  <2>1. CASE UNCHANGED <<caller, leased>>
    BY <2>1
  <2>2. CASE OwnerLeaves(w) /\ UNCHANGED leased
    <3>1. CASE boot[w].owner = Supervisor
      BY <2>2, <3>1 DEF OwnerLeaves
    <3>2. CASE boot[w].owner # Supervisor
      BY <1>3, <2>2, <3>2, EntersEffect DEF OwnerLeaves, Leave
    <3>. QED BY <3>1, <3>2
  <2>3. CASE /\ boot[w].owner # Supervisor
             /\ leased' = [leased EXCEPT ![boot[w].owner] = w]
             /\ Using(boot[w].owner, "prepare", w)
    <3>1. \A s \in Sessions \ {boot[w].owner} : caller'[s] = caller[s] /\ leased'[s] = leased[s]
      BY <1>3, <2>3, MovesEffect DEF Using, TypeOK
    <3>2. caller'[boot[w].owner].pc = "prepare"
      BY <1>3, <2>3, MovesEffect DEF Using
    <3>. QED BY <2>3, <3>1, <3>2
  <2>. QED BY <1>2, <2>1, <2>2, <2>3
<1>. QED BY <1>1, <1>3, <1>4

\* Start-ups end with a worker handed on or dead.
LEMMA DeadStarter ==
  ASSUME TypeOK, Hands, OwnerWaits, Separate, DeadDone, NEW w \in Workers, StarterStep(w)
  PROVE  DeadDone'
<1>. USE DEF tables, counters, superVars, toolVars, At
<1>1. /\ alive' \subseteq alive \cup {w}
      /\ \A s \in Sessions : caller'[s].pc = "ddelete" => caller'[s] = caller[s]
  BY StarterFrame
<1>2. boot[w].pc # "none" /\ \A v \in Workers \ {w} : boot'[v] = boot[v]
  <2>1. \/ \E from \in BootPC \ {"none"}, to \in BootPC : BootStep(w, from, to)
        \/ \E from \in BootPC \ {"none"} : BootOver(w, from)
    BY DEF StarterStep, SpawnProcess, SpawnFails, RegisterStarting, KillUnregistered, BecomesReady,
           BootFails, Unregister, AbandonStart, LeaseNewWorker, PublishIdle, KillStarted, BootPC
  <2>. QED BY <2>1, BootStepEffect, BootOverEffect
<1>3. boot'[w].pc \in {"spawn", "failed", "fail"} => w \notin alive'
  <2>1. CASE \/ SpawnProcess(w) \/ RegisterStarting(w) \/ BecomesReady(w)
             \/ AbandonStart(w) \/ LeaseNewWorker(w) \/ PublishIdle(w) \/ KillStarted(w)
    <3>1. \/ \E from \in BootPC, to \in {"register", "await", "cancelled", "ready", "kill"} :
               BootStep(w, from, to)
          \/ \E from \in BootPC : BootOver(w, from)
      BY <2>1 DEF SpawnProcess, RegisterStarting, BecomesReady, AbandonStart, LeaseNewWorker,
                  PublishIdle, KillStarted, BootPC
    <3>. QED BY <3>1, BootStepEffect, BootOverEffect
  <2>2. CASE SpawnFails(w) \/ Unregister(w)
    <3>1. /\ alive' = alive
          /\ \/ BootStep(w, "spawn", "fail") \/ BootStep(w, "failed", "fail")
             \/ BootStep(w, "ready", "publish")
      BY <2>2 DEF SpawnFails, Unregister
    <3>. QED BY <3>1, BootStepEffect DEF DeadDone
  <2>3. CASE KillUnregistered(w) \/ BootFails(w)
    BY <2>3 DEF KillUnregistered, BootFails, ForceKill, Die
  <2>. QED BY <2>1, <2>2, <2>3 DEF StarterStep
<1>4. \A s \in Sessions : caller[s].wk # w
  BY <1>2, PoolAssumption DEF Separate, Refs
<1>. QED BY <1>1, <1>2, <1>3, <1>4 DEF DeadDone

\* A start-up owns its worker until a table does.
LEMMA OrphanStarter ==
  ASSUME TypeOK, Hands, OwnerWaits, DeadDone, NoOrphan, NEW w \in Workers, StarterStep(w)
  PROVE  NoOrphan'
<1>. USE DEF tables, counters, superVars, toolVars, At
<1>1. /\ alive' \subseteq alive \cup {w} /\ closer' = closer /\ idle \subseteq idle'
      /\ \A s \in Sessions : caller'[s] # caller[s] \/ leased'[s] # leased[s] =>
           caller[s].pc = "starting" /\ leased[s] = NoWorker
  BY StarterFrame
<1>2. \/ \E from \in BootPC \ {"none"}, to \in BootPC \ {"none"} : BootStep(w, from, to)
      \/ \E from \in BootPC \ {"none"} : BootOver(w, from)
  BY DEF StarterStep, SpawnProcess, SpawnFails, RegisterStarting, KillUnregistered, BecomesReady,
         BootFails, Unregister, AbandonStart, LeaseNewWorker, PublishIdle, KillStarted, BootPC
<1>3. boot[w].pc # "none" /\ \A v \in Workers \ {w} : boot'[v] = boot[v]
  BY <1>2, BootStepEffect, BootOverEffect
<1>4. \A v \in alive \ {w} : Owned(v)'
  <2>1. \A v \in alive : Owned(v)
    BY OwnedSuffices
  <2>. QED BY <1>1, <1>3, <2>1 DEF Owned
<1>5. w \in alive' => Owned(w)'
  <2>1. CASE boot'[w].pc # "none"
    BY <2>1 DEF Owned
  <2>2. CASE AbandonStart(w)
    BY <2>2 DEF AbandonStart, BootOver, DeadDone
  <2>3. CASE KillStarted(w)
    BY <2>3 DEF KillStarted, ForceKill, Die
  <2>4. CASE LeaseNewWorker(w) /\ boot'[w].pc = "none"
    <3>1. boot[w].owner \in Sessions
      BY <2>4 DEF LeaseNewWorker, TypeOK, BootType
    <3>2. leased' = [leased EXCEPT ![boot[w].owner] = w]
      BY <2>4, BootStepEffect DEF LeaseNewWorker
    <3>. QED BY <3>1, <3>2, PoolAssumption DEF Owned, TypeOK
  <2>5. CASE PublishIdle(w) /\ boot'[w].pc = "none"
    BY <2>5, BootStepEffect DEF PublishIdle, Owned
  <2>6. CASE \/ SpawnProcess(w) \/ SpawnFails(w) \/ RegisterStarting(w) \/ KillUnregistered(w)
             \/ BecomesReady(w) \/ BootFails(w) \/ Unregister(w)
    <3>1. \E from, to \in BootPC \ {"none"} : BootStep(w, from, to)
      BY <2>6 DEF SpawnProcess, SpawnFails, RegisterStarting, KillUnregistered,
                  BecomesReady, BootFails, Unregister, BootPC
    <3>. QED BY <2>1, <3>1, BootStepEffect
  <2>. QED BY <2>1, <2>2, <2>3, <2>4, <2>5, <2>6 DEF StarterStep
<1>. QED BY <1>1, <1>4, <1>5, OwnedNext

\* Closing threads, the supervisor and faults: what leaves a table is on a kill list.
LEMMA OrphanOther ==
  ASSUME TypeOK, Separate, Registered, DoomedInv, DeadDone, NoOrphan, Others
  PROVE  DeadDone' /\ NoOrphan'
<1>. USE DEF tables, counters, superVars, toolVars, At
<1>1. \A v \in alive : Owned(v)
  BY OwnedSuffices
<1>3. ASSUME alive' \subseteq alive, UNCHANGED <<caller, boot>>, \A v \in alive' : Owned(v)'
      PROVE  DeadDone' /\ NoOrphan'
  BY <1>3, OwnedNext DEF DeadDone
<1>4. ASSUME NEW c \in Closers, BeginClose(c) \/ EndClose(c) \/ KillNext(c)
      PROVE  DeadDone' /\ NoOrphan'
  <2>1. UNCHANGED <<idle, leased, boot, caller>> /\ alive' \subseteq alive
    BY <1>4 DEF BeginClose, EndClose, KillNext, ForceKill, Die
  <2>2. \A d \in Closers \ {c} : closer'[d] = closer[d]
    BY <1>4 DEF BeginClose, EndClose, KillNext, TypeOK
  <2>3. \A v \in alive' : v \in closer[c].todo => v \in closer'[c].todo
    BY <1>4 DEF BeginClose, EndClose, KillNext, ForceKill, Die, TypeOK, CloserType
  <2>. QED BY <1>1, <1>3, <2>1, <2>2, <2>3 DEF Owned
<1>5. ASSUME NEW c \in Closers, CancelPendingLeases(c) \/ CloseAll(c)
      PROVE  DeadDone' /\ NoOrphan'
  <2>1. UNCHANGED <<boot, caller, alive>>
    BY <1>5 DEF CancelPendingLeases, CloseAll, CloseTables
  <2>2. closer[c].todo = {}
    BY <1>5 DEF CancelPendingLeases, CloseAll, DoomedInv
  <2>3. \A d \in Closers \ {c} : closer'[d] = closer[d]
    BY <1>5 DEF CancelPendingLeases, CloseAll, CloseTables, TypeOK
  <2>4. idle \subseteq closer'[c].todo
    BY <1>5 DEF CancelPendingLeases, CloseAll, CloseTables, TypeOK
  <2>5. \A s \in Sessions : leased[s] # NoWorker =>
          leased'[s] = leased[s] \/ leased[s] \in closer'[c].todo
    BY <1>5 DEF CancelPendingLeases, CloseAll, CloseTables, TypeOK, LeasedWorkers, LeasedSessions
  <2>. QED BY <1>1, <1>3, <2>1, <2>2, <2>3, <2>4, <2>5 DEF Owned
<1>6. CASE SupervisorLoop
  <2>1. UNCHANGED <<idle, leased, closer, caller, alive>>
    BY <1>6 DEF SupervisorLoop
  <2>2. \A w \in Workers : \/ boot'[w] = boot[w]
                           \/ boot'[w].pc = "spawn" /\ w \notin alive
    <3>1. CASE ~UNCHANGED boot
      <4>1. PICK W \in SUBSET Fresh :
              boot' = [w \in Workers |->
                         IF w \in W THEN [pc |-> "spawn", gen |-> closeGeneration,
                                          owner |-> Supervisor] ELSE boot[w]]
        BY <1>6, <3>1 DEF SupervisorLoop
      <4>. QED BY <4>1 DEF Fresh
    <3>. QED BY <3>1
  <2>3. DeadDone'
    BY <2>1, <2>2 DEF DeadDone
  <2>4. \A v \in alive' : Owned(v)'
    BY <1>1, <2>1, <2>2 DEF Owned
  <2>. QED BY <2>3, <2>4, OwnedNext
<1>7. CASE \/ \E w \in Workers : ToolDies(w)
           \/ StartSupervisor \/ SupervisorExits \/ BackoffExpires \/ UNCHANGED vars
  <2>1. UNCHANGED <<idle, leased, closer, boot, caller>> /\ alive' \subseteq alive
    BY <1>7 DEF ToolDies, StartSupervisor, SupervisorExits, BackoffExpires, vars, Die
  <2>. QED BY <1>1, <1>3, <2>1 DEF Owned
<1>. QED BY <1>4, <1>5, <1>6, <1>7 DEF Others, CloserStep

-----------------------------------------------------------------------------
(* Design state. A worker that a thread starts or that has died holds none;  *)
(* one that is offered, or about to be, holds none or is marked; and what    *)
(* else a lent worker holds is its session's.                                *)

Spotless(w) == loaded[w] = {} \/ w \in incomplete

Returning(s) == caller[s].pc \in {"health", "return"}

OfferedSpotless  == \A w \in idle : Spotless(w)
ReturnedSpotless == \A s \in Sessions : Returning(s) => Spotless(caller[s].wk)
LentMarked ==
  \A s \in LeasedSessions : loaded[leased[s]] \subseteq {s} \/ leased[s] \in incomplete

Residue ==
  /\ \A w \in Workers : w \notin alive \/ boot[w].pc # "none" => loaded[w] = {}
  /\ IncompletePolicy # "ignore" => OfferedSpotless /\ ReturnedSpotless /\ LentMarked

\* A worker starts without design state, loses it, or keeps it with its mark, and is
\* offered and lent only from a start-up, from a finished reset or from the offered ones.
LEMMA ResidueKept ==
  ASSUME TypeOK, InHand, Residue,
         \A w \in Workers :
           /\ \/ loaded'[w] = {}
              \/ loaded'[w] = loaded[w] /\ (w \in incomplete => w \in incomplete')
           /\ w \in alive => w \in alive' \/ loaded'[w] = {}
           /\ boot'[w].pc # "none" => boot[w].pc # "none" \/ w \notin alive,
         \A w \in idle' : \/ w \in idle
                          \/ w \in Workers /\ boot[w].pc # "none"
                          \/ \E s \in Sessions : Returning(s) /\ caller[s].wk = w,
         \A s \in Sessions : \/ leased'[s] \in {leased[s], NoWorker} \cup idle
                             \/ leased'[s] \in Workers /\ boot[leased'[s]].pc # "none",
         \A s \in Sessions : Returning(s)' => Returning(s) /\ caller'[s].wk = caller[s].wk
  PROVE  Residue'
<1>1. \A w \in Workers : w \notin alive' \/ boot'[w].pc # "none" => loaded'[w] = {}
  BY DEF Residue
<1>2. ASSUME IncompletePolicy # "ignore"
      PROVE  OfferedSpotless' /\ ReturnedSpotless' /\ LentMarked'
  <2>1. \A w \in Workers : Spotless(w) \/ boot[w].pc # "none" => Spotless(w)'
    BY DEF Residue, Spotless
  <2>2. idle \subseteq Workers /\ \A s \in Sessions : Returning(s) => caller[s].wk \in Workers
    BY DEF TypeOK, InHand, Drives, Returning
  <2>3. OfferedSpotless'
    <3>1. \A w \in idle' : Spotless(w)'
      BY <1>2, <2>1, <2>2 DEF Residue, OfferedSpotless, ReturnedSpotless
    <3>. QED BY <3>1 DEF OfferedSpotless
  <2>4. ReturnedSpotless'
    <3>1. ASSUME NEW s \in Sessions, Returning(s)'
          PROVE  loaded'[caller'[s].wk] = {} \/ caller'[s].wk \in incomplete'
      <4>1. Returning(s) /\ caller'[s].wk = caller[s].wk /\ caller[s].wk \in Workers
        BY <2>2, <3>1
      <4>. QED BY <1>2, <2>1, <4>1 DEF Residue, ReturnedSpotless, Spotless
    <3>. QED BY <3>1 DEF ReturnedSpotless, Spotless
  <2>5. ASSUME NEW s \in Sessions, leased'[s] # NoWorker
        PROVE  loaded'[leased'[s]] \subseteq {s} \/ leased'[s] \in incomplete'
    <3>1. CASE leased'[s] = leased[s]
      <4>1. s \in LeasedSessions /\ leased[s] \in Workers
        BY <2>5, <3>1 DEF LeasedSessions, TypeOK
      <4>. QED BY <1>2, <3>1, <4>1 DEF Residue, LentMarked
    <3>2. CASE leased'[s] \in idle
      BY <1>2, <2>1, <2>2, <3>2 DEF Residue, OfferedSpotless, Spotless
    <3>3. CASE leased'[s] \in Workers /\ boot[leased'[s]].pc # "none"
      BY <2>1, <3>3 DEF Spotless
    <3>. QED BY <2>5, <3>1, <3>2, <3>3
  <2>. QED BY <2>3, <2>4, <2>5 DEF LentMarked, LeasedSessions
<1>. QED BY <1>1, <1>2 DEF Residue

\* Executions load state into the caller's own worker; resets clean or mark it.
LEMMA ResidueCaller ==
  ASSUME TypeOK, InHand, Hands, Separate, Residue,
         NEW s \in Sessions, CallerRequest(s) \/ CallerStep(s)
  PROVE  Residue'
<1>. USE DEF tables, counters, superVars, toolVars, At
<1>1. /\ \A t \in Sessions \ {s} : caller'[t] = caller[t] /\ leased'[t] = leased[t]
      /\ \A w \in Workers : boot'[w].pc # "none" => boot[w].pc # "none" \/ w \notin alive
  <2>1. CASE ReserveSlot(s)
    <3>1. PICK w \in Fresh :
            boot' = [boot EXCEPT ![w] = [pc |-> "spawn", gen |-> caller[s].gen, owner |-> s]]
      BY <2>1 DEF ReserveSlot
    <3>. QED BY <3>1, CallerFrame DEF Fresh, TypeOK
  <2>. QED BY <2>1, CallerFrame
<1>2. CASE Execute(s) \/ ResetCleans(s) \/ ResetIncomplete(s)
  <2>1. UNCHANGED <<idle, leased, boot, alive>>
    BY <1>2 DEF Execute, ResetCleans, ResetIncomplete
  <2>2. CASE UNCHANGED <<loaded, incomplete>> /\ ~Returning(s)'
    BY <1>1, <2>1, <2>2, ResidueKept DEF Returning
  <2>3. CASE Execute(s) /\ ~(UNCHANGED loaded)
    <3>1. /\ leased[s] \in alive /\ loaded' = [loaded EXCEPT ![leased[s]] = @ \cup {s}]
          /\ Using(s, "exec", leased[s]) /\ incomplete' = incomplete
      BY <2>3 DEF Execute
    <3>2. /\ leased[s] \in Workers /\ leased[s] \in Refs(s)
          /\ boot[leased[s]].pc = "none" /\ leased[s] \notin idle
          /\ \A t \in Sessions \ {s} : leased[t] # leased[s] /\ caller[t].wk # leased[s]
      <4>1. leased[s] \in Workers /\ leased[s] # NoWorker
        BY <3>1, PoolAssumption DEF TypeOK
      <4>2. leased[s] \in Refs(s)
        BY <4>1 DEF Refs
      <4>3. \A t \in Sessions \ {s} : leased[s] \notin Refs(t)
        BY <4>2 DEF Separate
      <4>. QED BY <4>1, <4>2, <4>3 DEF Separate, Refs
    <3>3. ~Returning(s)'
      BY <3>1, MovesEffect DEF Using, Returning
    <3>4. /\ \A w \in Workers \ {leased[s]} : loaded'[w] = loaded[w]
          /\ loaded'[leased[s]] = loaded[leased[s]] \cup {s}
      BY <3>1, <3>2 DEF TypeOK
    <3>5. \A t \in Sessions : Returning(t) => caller[t].wk \in Workers
      BY DEF InHand, Drives, Returning
    <3>6. \A w \in Workers : w \notin alive' \/ boot'[w].pc # "none" => loaded'[w] = {}
      BY <2>1, <3>1, <3>2, <3>4 DEF Residue
    <3>7. ASSUME IncompletePolicy # "ignore"
          PROVE  OfferedSpotless' /\ ReturnedSpotless' /\ LentMarked'
      <4>1. OfferedSpotless'
        BY <2>1, <3>1, <3>2, <3>4, <3>7 DEF Residue, OfferedSpotless, Spotless, TypeOK
      <4>2. ASSUME NEW t \in Sessions, Returning(t)'
            PROVE  loaded'[caller'[t].wk] = {} \/ caller'[t].wk \in incomplete'
        <5>1. t # s
          BY <3>3, <4>2
        <5>2. caller'[t] = caller[t] /\ Returning(t) /\ caller[t].wk # leased[s]
          BY <1>1, <3>2, <4>2, <5>1 DEF Returning
        <5>. QED BY <3>1, <3>4, <3>5, <3>7, <5>2 DEF Residue, ReturnedSpotless, Spotless
      <4>3. ASSUME NEW t \in Sessions, leased[t] # NoWorker
            PROVE  loaded'[leased[t]] \subseteq {t} \/ leased[t] \in incomplete
        <5>1. t \in LeasedSessions /\ leased[t] \in Workers
          BY <4>3 DEF LeasedSessions, TypeOK
        <5>. QED BY <3>2, <3>4, <3>7, <5>1 DEF Residue, LentMarked
      <4>4. LentMarked'
        BY <2>1, <3>1, <4>3 DEF LentMarked, LeasedSessions
      <4>5. ReturnedSpotless'
        BY <4>2 DEF ReturnedSpotless, Spotless
      <4>. QED BY <4>1, <4>4, <4>5
    <3>. QED BY <3>6, <3>7 DEF Residue
  <2>4. CASE (ResetCleans(s) \/ ResetIncomplete(s)) /\ Returning(s)'
    <3>. DEFINE w == caller[s].wk
    <3>1. caller[s].pc = "reset" /\ w \in alive /\ w \in Workers
      BY <2>4 DEF ResetCleans, ResetIncomplete, TypeOK
    <3>2. caller'[s].wk = w
      BY <2>4, MovesEffect DEF ResetCleans, ResetIncomplete, Goto, Forget, Using, Returning
    <3>3. /\ \/ loaded' = [loaded EXCEPT ![w] = {}]
             \/ loaded' = loaded /\ (IncompletePolicy # "ignore" => w \in incomplete')
          /\ incomplete' \in {incomplete \ {w}, incomplete \cup {w}}
      BY <2>4, MovesEffect, PoolAssumption
         DEF ResetCleans, ResetIncomplete, Goto, Forget, Using, Returning
    <3>. HIDE DEF w
    <3>4. /\ \A v \in Workers \ {w} :
               loaded'[v] = loaded[v] /\ (v \in incomplete <=> v \in incomplete')
          /\ loaded'[w] = {} \/ loaded'[w] = loaded[w]
          /\ IncompletePolicy # "ignore" => loaded'[w] = {} \/ w \in incomplete'
      BY <3>1, <3>3 DEF TypeOK
    <3>5. idle \subseteq Workers /\ \A t \in Sessions : Returning(t) => caller[t].wk \in Workers
      BY DEF TypeOK, InHand, Drives, Returning
    <3>6. \A v \in Workers : v \notin alive' \/ boot'[v].pc # "none" => loaded'[v] = {}
      BY <2>1, <3>1, <3>4 DEF Residue
    <3>7. ASSUME IncompletePolicy # "ignore"
          PROVE  OfferedSpotless' /\ ReturnedSpotless' /\ LentMarked'
      <4>1. \A v \in Workers : Spotless(v) => Spotless(v)'
        BY <3>4, <3>7 DEF Spotless
      <4>2. ASSUME NEW t \in Sessions, Returning(t)'
            PROVE  loaded'[caller'[t].wk] = {} \/ caller'[t].wk \in incomplete'
        <5>1. CASE t = s
          BY <3>2, <3>4, <3>7, <5>1
        <5>2. CASE t # s
          <6>1. caller'[t].wk = caller[t].wk /\ Returning(t)
            BY <1>1, <4>2, <5>2 DEF Returning
          <6>. QED BY <3>5, <3>7, <4>1, <6>1 DEF Residue, ReturnedSpotless, Spotless
        <5>. QED BY <5>1, <5>2
      <4>3. ReturnedSpotless'
        BY <4>2 DEF ReturnedSpotless, Spotless
      <4>4. ASSUME NEW t \in Sessions, leased[t] # NoWorker
            PROVE  loaded'[leased[t]] \subseteq {t} \/ leased[t] \in incomplete'
        <5>1. t \in LeasedSessions /\ leased[t] \in Workers
          BY <4>4 DEF LeasedSessions, TypeOK
        <5>. QED BY <3>4, <3>7, <5>1 DEF Residue, LentMarked
      <4>5. LentMarked'
        BY <2>1, <4>4 DEF LentMarked, LeasedSessions
      <4>6. OfferedSpotless'
        BY <2>1, <3>5, <3>7, <4>1 DEF Residue, OfferedSpotless, Spotless
      <4>. QED BY <4>3, <4>5, <4>6
    <3>. QED BY <3>6, <3>7 DEF Residue
  <2>5. Execute(s) => ~Returning(s)' /\ incomplete' = incomplete
    BY MovesEffect DEF Execute, Goto, Using, Returning
  <2>6. (ResetCleans(s) \/ ResetIncomplete(s)) /\ ~Returning(s)' => UNCHANGED <<loaded, incomplete>>
    BY MovesEffect DEF ResetCleans, ResetIncomplete, Goto, Forget, Using, Returning
  <2>. QED BY <1>2, <2>2, <2>3, <2>4, <2>5, <2>6
<1>3. CASE ~(Execute(s) \/ ResetCleans(s) \/ ResetIncomplete(s))
  <2>1. /\ incomplete' = incomplete
        /\ \A w \in Workers : \/ loaded'[w] = {}
                              \/ loaded'[w] = loaded[w] /\ (w \in alive => w \in alive')
    BY <1>3 DEF CallerRequest, Lease, DiscardLease, Release, CallerStep, ReserveGivesUp, TakeIdle,
                ReserveSlot, RetryLease, CheckGeneration, KillCancelled, ToolAnswers, ToolFails,
                DiscardRead, DiscardKill, DiscardDelete, NoReuse, ReturnToIdle, ForceKill, Die
  <2>2. \A w \in idle' : w \in idle \/ (Returning(s) /\ caller[s].wk = w)
    BY <1>3 DEF CallerRequest, Lease, DiscardLease, Release, CallerStep, ReserveGivesUp, TakeIdle,
                ReserveSlot, RetryLease, CheckGeneration, KillCancelled, ToolAnswers, ToolFails,
                DiscardRead, DiscardKill, DiscardDelete, NoReuse, ReturnToIdle, Returning
  <2>3. leased'[s] \in {leased[s], NoWorker} \cup idle
    BY <1>3 DEF CallerRequest, Lease, DiscardLease, Release, CallerStep, ReserveGivesUp, TakeIdle,
                ReserveSlot, RetryLease, CheckGeneration, KillCancelled, ToolAnswers, ToolFails,
                DiscardRead, DiscardKill, DiscardDelete, NoReuse, ReturnToIdle, TypeOK
  <2>4. Returning(s)' => Returning(s) /\ caller'[s].wk = caller[s].wk
    <3>1. CASE ToolAnswers(s)
      BY <3>1, MovesEffect DEF ToolAnswers, Goto, Forget, Using, Returning
    <3>2. CASE ~ToolAnswers(s)
      <4>1. \/ \E step \in CallerPC \ {"health", "return"}, w \in Workers \cup {NoWorker},
                  src \in {"none", "idle", "new"} : Moves(s, step, w, src)
            \/ \E step \in {"out", "reserve", "held"}, gen \in Nat : Enters(s, step, gen)
        BY <1>3, <3>2, CallerFieldTypes
           DEF CallerRequest, Lease, DiscardLease, Release, CallerStep, ReserveGivesUp,
               TakeIdle, ReserveSlot, RetryLease, CheckGeneration, KillCancelled, ToolFails,
               DiscardRead, DiscardKill, DiscardDelete, NoReuse, ReturnToIdle,
               AfterDiscard, Leave, Goto, Using, Forget, CallerPC, TypeOK
      <4>. QED BY <4>1, MovesEffect, EntersEffect DEF Returning
    <3>. QED BY <3>1, <3>2
  <2>5. \A t \in Sessions : /\ leased'[t] \in {leased[t], NoWorker} \cup idle
                            /\ Returning(t)' => Returning(t) /\ caller'[t].wk = caller[t].wk
    BY <1>1, <2>3, <2>4 DEF Returning
  <2>. QED BY <1>1, <2>1, <2>2, <2>5, ResidueKept
<1>. QED BY <1>2, <1>3

\* Start-ups hand on workers without design state.
LEMMA ResidueStarter ==
  ASSUME TypeOK, InHand, Hands, OwnerWaits, Residue, NEW w \in Workers, StarterStep(w)
  PROVE  Residue'
<1>. USE DEF tables, counters, superVars, toolVars, At
<1>1. boot[w].pc # "none" /\ \A v \in Workers \ {w} : boot'[v] = boot[v]
  <2>1. \/ \E from \in BootPC \ {"none"}, to \in BootPC : BootStep(w, from, to)
        \/ \E from \in BootPC \ {"none"} : BootOver(w, from)
    BY DEF StarterStep, SpawnProcess, SpawnFails, RegisterStarting, KillUnregistered, BecomesReady,
           BootFails, Unregister, AbandonStart, LeaseNewWorker, PublishIdle, KillStarted, BootPC
  <2>. QED BY <2>1, BootStepEffect, BootOverEffect
<1>2. loaded[w] = {}
  BY <1>1 DEF Residue
<1>3. /\ loaded'[w] = {} /\ \A v \in Workers \ {w} : loaded'[v] = loaded[v]
      /\ incomplete' \in {incomplete, incomplete \ {w}}
      /\ \A v \in Workers \ {w} : v \in alive => v \in alive'
      /\ \A v \in idle' : v \in idle \/ v = w
  BY <1>2 DEF StarterStep, SpawnProcess, SpawnFails, RegisterStarting, KillUnregistered,
              BecomesReady, BootFails, Unregister, AbandonStart, LeaseNewWorker, PublishIdle,
              KillStarted, ForceKill, Die
<1>4. \A s \in Sessions : leased'[s] \in {leased[s], w}
  BY DEF StarterStep, SpawnProcess, SpawnFails, RegisterStarting, KillUnregistered,
         BecomesReady, BootFails, Unregister, AbandonStart, LeaseNewWorker, PublishIdle,
         KillStarted, TypeOK
<1>5. \A s \in Sessions : Returning(s)' => caller'[s] = caller[s]
  <2>1. \/ UNCHANGED caller \/ OwnerLeaves(w)
        \/ boot[w].owner # Supervisor /\ Using(boot[w].owner, "prepare", w)
    BY DEF StarterStep, SpawnProcess, SpawnFails, RegisterStarting, KillUnregistered, BecomesReady,
           BootFails, Unregister, AbandonStart, LeaseNewWorker, PublishIdle, KillStarted
  <2>2. boot[w].owner \in Sessions \cup {Supervisor}
    BY DEF TypeOK, BootType
  <2>. QED BY <2>1, <2>2, EntersEffect, MovesEffect DEF OwnerLeaves, Leave, Using, Returning
<1>. QED BY <1>1, <1>3, <1>4, <1>5, ResidueKept DEF Returning

\* Closing threads, the supervisor and faults load nothing.
LEMMA ResidueOther ==
  ASSUME TypeOK, InHand, Residue, Others PROVE Residue'
<1>. USE DEF tables, counters, superVars, toolVars
<1>1. UNCHANGED <<caller, incomplete>> /\ idle' \subseteq idle
  BY DEF Others, BeginClose, CloserStep, CancelPendingLeases, CloseAll, CloseTables, KillNext,
         EndClose, ToolDies, StartSupervisor, SupervisorExits, SupervisorLoop, BackoffExpires,
         ForceKill, vars
<1>2. \A w \in Workers : \/ loaded'[w] = {}
                         \/ loaded'[w] = loaded[w] /\ (w \in alive => w \in alive')
  BY DEF Others, BeginClose, CloserStep, CancelPendingLeases, CloseAll, CloseTables, KillNext,
         EndClose, ToolDies, StartSupervisor, SupervisorExits, SupervisorLoop, BackoffExpires,
         ForceKill, Die, vars
<1>3. \A s \in Sessions : leased'[s] \in {leased[s], NoWorker}
  BY DEF Others, BeginClose, CloserStep, CancelPendingLeases, CloseAll, CloseTables, KillNext,
         EndClose, ToolDies, StartSupervisor, SupervisorExits, SupervisorLoop, BackoffExpires, vars
<1>4. \A w \in Workers : boot'[w].pc # "none" => boot[w].pc # "none" \/ w \notin alive
  <2>1. CASE SupervisorLoop /\ ~UNCHANGED boot
    <3>1. PICK W \in SUBSET Fresh :
            boot' = [w \in Workers |->
                       IF w \in W THEN [pc |-> "spawn", gen |-> closeGeneration,
                                        owner |-> Supervisor] ELSE boot[w]]
      BY <2>1 DEF SupervisorLoop
    <3>. QED BY <3>1 DEF Fresh
  <2>2. CASE UNCHANGED boot
    BY <2>2
  <2>3. SupervisorLoop \/ UNCHANGED boot
    BY DEF Others, BeginClose, CloserStep, CancelPendingLeases, CloseAll, CloseTables, KillNext,
           EndClose, ToolDies, StartSupervisor, SupervisorExits, BackoffExpires, vars
  <2>. QED BY <2>1, <2>2, <2>3
<1>. QED BY <1>1, <1>2, <1>3, <1>4, ResidueKept DEF Returning

-----------------------------------------------------------------------------
(* The refinement. A step of the pool is a step of the abstract lease, or    *)
(* leaves idle and leased alone: start-ups, tools and kills are hidden.      *)

LeaseNext == Leases!Next \/ UNCHANGED <<idle, leased>>

\* An instance has its own copy of the library's operator.
LEMMA SameCardinality == ASSUME NEW S PROVE Leases!Cardinality(S) = Cardinality(S)
BY DEF Cardinality, Leases!Cardinality

\* What the abstract lease counts as in use.
LEMMA SameInUse == Leases!InUse = idle \cup LeasedWorkers
BY DEF Leases!InUse, Leases!Lent, LeasedWorkers, LeasedSessions

\* Sessions that lease are at least as many as the workers they lease.
LEMMA FewerWorkers ==
  ASSUME TypeOK
  PROVE  /\ IsFiniteSet(LeasedWorkers) /\ Cardinality(LeasedWorkers) \in Nat
         /\ Cardinality(LeasedWorkers) <= Cardinality(LeasedSessions)
<1>. DEFINE lease == [s \in LeasedSessions |-> leased[s]]
<1>1. lease \in Surjection(LeasedSessions, LeasedWorkers)
  BY DEF Surjection, LeasedWorkers
<1>. HIDE DEF lease
<1>2. IsFiniteSet(LeasedWorkers) /\ Cardinality(LeasedWorkers) <= Cardinality(LeasedSessions)
  BY <1>1, FiniteTables, FS_Surjection
<1>. QED BY <1>2, FS_CardinalityType

\* A start-up that has not been published keeps a place free for its worker.
LEMMA RoomToPublish ==
  ASSUME TypeOK, StartingCount, CapacityRespected, NEW w \in Workers, boot[w].pc = "publish"
  PROVE  Leases!HasRoom
<1>1. starting \in Nat \ {0}
  <2>1. IsFiniteSet(Counted) /\ starting = Cardinality(Counted)
    BY PoolAssumption, FS_Subset DEF Counted, StartingCount
  <2>2. w \in Counted
    BY DEF Counted, CountedBootPC, BootPC
  <2>. QED BY <2>1, <2>2, FS_EmptySet, FS_CardinalityType
<1>2. Cardinality(idle \cup LeasedWorkers) <= Cardinality(idle) + Cardinality(LeasedWorkers)
  <2>1. /\ IsFiniteSet(idle \cap LeasedWorkers)
        /\ Cardinality(idle \cup LeasedWorkers) =
             Cardinality(idle) + Cardinality(LeasedWorkers) - Cardinality(idle \cap LeasedWorkers)
    BY FiniteTables, FewerWorkers, FS_Union, FS_Subset
  <2>. QED BY <2>1, FiniteTables, FewerWorkers, FS_CardinalityType
<1>3. Cardinality(idle \cup LeasedWorkers) \in Nat
  BY FiniteTables, FewerWorkers, FS_Union, FS_CardinalityType
<1>4. /\ Cardinality(LeasedSessions) + Cardinality(idle) + starting <= PoolSize
      /\ PoolSize \in Nat
  BY PoolAssumption DEF CapacityRespected, Total
<1>5. Cardinality(idle \cup LeasedWorkers) < PoolSize
  BY <1>1, <1>2, <1>3, <1>4, FiniteTables, FewerWorkers
<1>. QED BY <1>5, SameInUse, SameCardinality DEF Leases!HasRoom

\* A caller's step lends, returns or drops its worker, or is hidden.
LEMMA RefineCaller ==
  ASSUME TypeOK, InHand, Hands, NEW s \in Sessions, CallerRequest(s) \/ CallerStep(s)
  PROVE  LeaseNext
<1>. USE DEF tables, counters, superVars, toolVars, At
<1>1. ASSUME leased[s] # NoWorker, idle' = idle, leased' = [leased EXCEPT ![s] = NoWorker]
      PROVE  LeaseNext
  <2>1. Leases!Drop(s)
    BY <1>1 DEF Leases!Drop
  <2>. QED BY <2>1 DEF LeaseNext, Leases!Next
<1>2. CASE TakeIdle(s)
  <2>1. PICK w \in idle : idle' = idle \ {w} /\ leased' = [leased EXCEPT ![s] = w]
    BY <1>2 DEF TakeIdle
  <2>2. leased[s] = NoWorker /\ w \in Workers
    BY <1>2 DEF TakeIdle, Hands, HandOf, Leaseless, TypeOK
  <2>3. Leases!Lend(s, w)
    BY <2>1, <2>2 DEF Leases!Lend
  <2>. QED BY <2>2, <2>3 DEF LeaseNext, Leases!Next
<1>3. CASE CheckGeneration(s) \/ DiscardDelete(s)
  <2>1. caller[s].wk # NoWorker /\ idle' = idle
    BY <1>3, PoolAssumption DEF CheckGeneration, DiscardDelete, InHand, Drives, Hands, HandOf
  <2>2. CASE leased' = leased
    BY <2>1, <2>2 DEF LeaseNext
  <2>3. CASE leased' # leased
    BY <1>1, <1>3, <2>1, <2>3 DEF CheckGeneration, DiscardDelete
  <2>. QED BY <2>2, <2>3
<1>4. CASE ReturnToIdle(s)
  <2>1. CASE leased[s] = caller[s].wk
    <3>1. leased[s] # NoWorker
      BY <1>4, <2>1, PoolAssumption DEF ReturnToIdle, InHand, Drives
    <3>2. Leases!Return(s)
      BY <1>4, <2>1, <3>1 DEF ReturnToIdle, Leases!Return
    <3>. QED BY <3>2 DEF LeaseNext, Leases!Next
  <2>2. CASE leased[s] # caller[s].wk
    BY <1>4, <2>2 DEF ReturnToIdle, LeaseNext
  <2>. QED BY <2>1, <2>2
<1>5. CASE ~(TakeIdle(s) \/ CheckGeneration(s) \/ DiscardDelete(s) \/ ReturnToIdle(s))
  <2>1. UNCHANGED <<idle, leased>>
    BY <1>5 DEF CallerRequest, Lease, Execute, DiscardLease, Release, CallerStep, ReserveGivesUp,
                ReserveSlot, RetryLease, KillCancelled, ToolAnswers, ToolFails, DiscardRead,
                DiscardKill, NoReuse, ResetCleans, ResetIncomplete
  <2>. QED BY <2>1 DEF LeaseNext
<1>. QED BY <1>2, <1>3, <1>4, <1>5

\* A start-up lends or provides its worker, or is hidden.
LEMMA RefineStarter ==
  ASSUME TypeOK, Hands, OwnerWaits, Separate, StartingCount, CapacityRespected,
         NEW w \in Workers, StarterStep(w)
  PROVE  LeaseNext
<1>. USE DEF tables, counters, superVars, toolVars, At
<1>1. ASSUME boot[w].pc # "none" PROVE w \notin Leases!InUse
  BY <1>1, SameInUse DEF Separate, Refs, LeasedWorkers, LeasedSessions
<1>2. CASE UNCHANGED <<idle, leased>>
  BY <1>2 DEF LeaseNext
<1>3. CASE LeaseNewWorker(w) /\ ~UNCHANGED <<idle, leased>>
  <2>1. /\ boot[w].pc = "publish" /\ boot[w].owner # Supervisor
        /\ idle' = idle /\ leased' = [leased EXCEPT ![boot[w].owner] = w]
    BY <1>3 DEF LeaseNewWorker, BootOver
  <2>2. boot[w].owner \in Sessions /\ leased[boot[w].owner] = NoWorker
    BY <2>1 DEF OwnerWaits, Hands, HandOf, Leaseless, TypeOK, BootType
  <2>3. w \notin idle /\ w \notin Leases!InUse /\ Leases!HasRoom
    BY <1>1, <2>1, SameInUse, RoomToPublish
  <2>4. Leases!Lend(boot[w].owner, w)
    BY <2>1, <2>2, <2>3 DEF Leases!Lend
  <2>. QED BY <2>2, <2>4 DEF LeaseNext, Leases!Next
<1>4. CASE PublishIdle(w) /\ ~UNCHANGED <<idle, leased>>
  <2>1. boot[w].pc = "publish" /\ idle' = idle \cup {w} /\ leased' = leased
    BY <1>4 DEF PublishIdle, BootOver
  <2>2. Leases!Provide(w)
    BY <1>1, <2>1, RoomToPublish DEF Leases!Provide
  <2>. QED BY <2>2 DEF LeaseNext, Leases!Next
<1>. QED BY <1>2, <1>3, <1>4
         DEF StarterStep, SpawnProcess, SpawnFails, RegisterStarting, KillUnregistered,
             BecomesReady, BootFails, Unregister, AbandonStart, KillStarted

\* A close is a close of the abstract lease.
LEMMA RefineOther == ASSUME Others PROVE LeaseNext
<1>. USE DEF tables, counters, superVars, toolVars
<1>1. CASE \E c \in Closers : CancelPendingLeases(c) \/ CloseAll(c)
  <2>1. Leases!Close
    BY <1>1 DEF CancelPendingLeases, CloseAll, CloseTables, Leases!Close
  <2>. QED BY <2>1 DEF LeaseNext, Leases!Next
<1>2. CASE ~\E c \in Closers : CancelPendingLeases(c) \/ CloseAll(c)
  <2>1. UNCHANGED <<idle, leased>>
    BY <1>2 DEF Others, BeginClose, CloserStep, KillNext, EndClose, ToolDies, StartSupervisor,
                SupervisorExits, SupervisorLoop, BackoffExpires, vars
  <2>. QED BY <2>1 DEF LeaseNext
<1>. QED BY <1>1, <1>2

-----------------------------------------------------------------------------
\* The inductive invariant behind the theorems below.
LeaseInv ==
  /\ PoolInv /\ Hands /\ OwnerWaits /\ StartingCount
  /\ DoomedInv /\ DeadDone /\ NoOrphan /\ Residue

\* Next, by who takes the step.
LEMMA WhoSteps ==
  ASSUME [Next]_vars
  PROVE  \/ \E s \in Sessions : CallerRequest(s) \/ CallerStep(s)
         \/ \E w \in Workers : StarterStep(w)
         \/ Others
BY DEF Next, Others

\* Every reachable state satisfies it: each kind of thread keeps each of its parts.
THEOREM LeaseInvariant == Spec => []LeaseInv
<1>1. Init => LeaseInv
  <2>. SUFFICES ASSUME Init PROVE LeaseInv OBVIOUS
  <2>1. PoolInv
    BY PoolInit
  <2>2. Hands /\ OwnerWaits
    BY DEF Init, Hands, HandOf, OwnerWaits, Outside, NoBoot
  <2>3. StartingCount
    <3>1. Counted = {} /\ starting = 0
      BY DEF Init, Counted, CountedBootPC, NoBoot
    <3>. QED BY <3>1, FS_EmptySet DEF Counted, StartingCount
  <2>4. DoomedInv
    BY DEF Init, DoomedInv, DoomedNotOffered, NoBoot
  <2>5. DeadDone /\ NoOrphan
    BY DEF Init, DeadDone, NoOrphan, NoBoot
  <2>6. Residue
    BY DEF Init, Residue, OfferedSpotless, ReturnedSpotless, LentMarked, Returning, Outside,
           LeasedSessions
  <2>. QED BY <2>1, <2>2, <2>3, <2>4, <2>5, <2>6 DEF LeaseInv
<1>2. LeaseInv /\ PoolInv' /\ [Next]_vars => LeaseInv'
  <2>. SUFFICES ASSUME LeaseInv, PoolInv', [Next]_vars PROVE LeaseInv' OBVIOUS
  <2>1. ASSUME NEW s \in Sessions, CallerRequest(s) \/ CallerStep(s) PROVE LeaseInv'
    BY <2>1, HandsCaller, OwnerCaller, CountCaller, DoomedCaller, DeadCaller, OrphanCaller,
       ResidueCaller DEF LeaseInv, PoolInv
  <2>2. ASSUME NEW w \in Workers, StarterStep(w) PROVE LeaseInv'
    BY <2>2, HandsStarter, CountStarter, DoomedStarter, DeadStarter, OrphanStarter,
       ResidueStarter DEF LeaseInv, PoolInv
  <2>3. CASE Others
    BY <2>3, HandsOther, CountOther, DoomedOther, OrphanOther, ResidueOther DEF LeaseInv, PoolInv
  <2>. QED BY <2>1, <2>2, <2>3, WhoSteps
<1>. QED BY <1>1, <1>2, PoolInvariant, PTL DEF Spec

\* The lock-free counter of start-ups is exact, on every path through a start-up.
THEOREM StartsCounted == Spec => []StartingCount
<1>1. LeaseInv => StartingCount
  BY DEF LeaseInv
<1>. QED BY <1>1, LeaseInvariant, PTL

\* However closes, start-ups and failed calls undo each other, no process runs without an
\* owner, no lease is without a session, and no worker on a kill list is offered or lent.
THEOREM AllAccounted == Spec => []WorkersAccounted
<1>1. LeaseInv => WorkersAccounted
  BY DEF LeaseInv, WorkersAccounted, DoomedInv, LeaseHasHolder, LeasedSessions,
         Hands, HandOf, Leaseless
<1>. QED BY <1>1, LeaseInvariant, PTL

\* Whatever kills and failed resets leave behind, a session's worker holds no design state
\* of another session, unless it carries the mark that has its first execution retried.
THEOREM ResidueMarked == Spec => []ResidueIsMarked
<1>1. LeaseInv => ResidueIsMarked
  BY DEF LeaseInv, Residue, LentMarked, ResidueIsMarked
<1>. QED BY <1>1, LeaseInvariant, PTL

\* The pool, with its threads, generations and kills, implements the abstract lease.
THEOREM PoolImplementsLease == Spec => LeaseSpec
<1>1. Init => Leases!Init
  BY DEF Init, Leases!Init
<1>2. LeaseInv /\ CapacityRespected /\ [Next]_vars => LeaseNext
  BY WhoSteps, RefineCaller, RefineStarter, RefineOther DEF LeaseInv, PoolInv
<1>3. LeaseNext => [Leases!Next]_<<idle, leased>>
  BY DEF LeaseNext
<1>. QED BY <1>1, <1>2, <1>3, LeaseInvariant, CapacityKept, PTL DEF Spec, LeaseSpec, Leases!Spec
=============================================================================
