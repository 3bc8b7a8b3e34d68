------------------------------ MODULE ToolPool ------------------------------
(***************************************************************************)
(* ToolWorkerPoolBase (tool_pool.py) with the release step of its two      *)
(* subclasses (innovus_pool.py, primetime_pool.py): a bounded pool of      *)
(* physical tool processes lent to logical sessions.                       *)
(*                                                                         *)
(* One action is one critical section of the pool's condition variable, or *)
(* one lock-free step between two of them (a pipe round trip, a kill).     *)
(* Threads: one caller per session (SessionManager runs at most one pool   *)
(* call per session id at a time), the supervisor, the start-up threads,   *)
(* and the threads that call cancel_pending_leases or close_all.           *)
(***************************************************************************)
EXTENDS Integers, FiniteSets

CONSTANTS
  Sessions,            \* session ids
  Workers,             \* worker ids (uuid4); a dead id that nothing mentions is used again
  Closers,             \* threads that call cancel_pending_leases or close_all
  NoWorker,            \* the None of _leased.get
  Supervisor,          \* owner of a start-up run by the supervisor
  PoolSize,            \* pool_size
  PrewarmConcurrency,  \* prewarm_concurrency
  Prewarm,             \* prewarm_enabled
  Replenish,           \* replenish_enabled
  Reuse,               \* reuse_enabled (Innovus), reset Tcl configured (PrimeTime)
  Tool,                \* "innovus" or "primetime"
  IncompletePolicy,    \* innovus_pool_incomplete_reset_policy
  QueueTimeout,        \* whether queue_timeout > 0
  MaxCloses,           \* bound: no close starts at or beyond this generation
  MaxFaults            \* bound: deaths, errors and time-outs of live tools

ASSUME PoolAssumption ==
  /\ IsFiniteSet(Sessions) /\ IsFiniteSet(Workers)
  /\ NoWorker \notin Workers
  /\ Supervisor \notin Sessions
  /\ PoolSize \in Nat \ {0}
  /\ PrewarmConcurrency \in Nat \ {0}
  /\ Prewarm \in BOOLEAN /\ Replenish \in BOOLEAN
  /\ Reuse \in BOOLEAN /\ QueueTimeout \in BOOLEAN
  /\ Tool \in {"innovus", "primetime"}
  /\ IncompletePolicy \in {"discard", "reuse_with_retry", "ignore"}
  /\ MaxCloses \in Nat
  /\ MaxFaults \in Nat

VARIABLES
  idle,             \* _idle
  leased,           \* _leased
  startingWorkers,  \* _starting_workers
  starting,         \* _starting
  closeGeneration,  \* _close_generation
  targetTotal,      \* _target_total
  prewarmComplete,  \* _prewarm_complete
  supervisorStop,   \* _supervisor_stop
  supervisor,       \* the supervisor thread: none, running, or asleep in wait()
  backoff,          \* _supervisor_backoff_until is in the future
  caller,           \* a session's thread: step, lease generation, worker, source
  boot,             \* a run of _start_physical_worker, by its worker
  closer,           \* a closing thread: step, workers left to kill
  alive,            \* workers whose processes run
  loaded,           \* sessions whose design state a tool process holds
  incomplete,       \* workers with incomplete_reset_warning_seen
  faults            \* faults so far

tables     == <<idle, leased, startingWorkers>>
counters   == <<starting, closeGeneration, targetTotal, prewarmComplete>>
superVars  == <<supervisorStop, supervisor, backoff>>
toolVars   == <<alive, loaded, incomplete, faults>>
vars == <<tables, counters, superVars, caller, boot, closer, toolVars>>

CallerPC == {"out", "reserve", "starting", "prepare", "check", "kill", "held", "exec",
             "bump", "reset", "health", "return", "discard", "dkill", "ddelete", "retry"}
BootPC == {"none", "spawn", "register", "cancelled", "await",
           "ready", "failed", "publish", "fail", "kill"}

\* A caller outside the pool, a start-up that is not running.
Outside == [pc |-> "out", gen |-> 0, wk |-> NoWorker, src |-> "none"]
NoBoot  == [pc |-> "none", gen |-> 0, owner |-> Supervisor]

LeasedSessions == {s \in Sessions : leased[s] # NoWorker}
LeasedWorkers  == {leased[s] : s \in LeasedSessions}
Total == Cardinality(LeasedSessions) + Cardinality(idle) + starting

\* Worker ids no thread and no table mentions: what uuid4 may return.
Fresh == {w \in Workers :
            /\ w \notin alive \cup idle \cup LeasedWorkers
            /\ boot[w] = NoBoot
            /\ \A s \in Sessions : caller[s].wk # w
            /\ \A c \in Closers : w \notin closer[c].todo}

Init ==
  /\ idle = {}
  /\ leased = [s \in Sessions |-> NoWorker]
  /\ startingWorkers = {}
  /\ starting = 0
  /\ closeGeneration = 0
  /\ targetTotal = IF Prewarm THEN PoolSize ELSE 0
  /\ prewarmComplete = ~Prewarm
  /\ supervisorStop = FALSE
  /\ supervisor = "none"
  /\ backoff = FALSE
  /\ caller = [s \in Sessions |-> Outside]
  /\ boot = [w \in Workers |-> NoBoot]
  /\ closer = [c \in Closers |-> [pc |-> "idle", todo |-> {}]]
  /\ alive = {}
  /\ loaded = [w \in Workers |-> {}]
  /\ incomplete = {}
  /\ faults = 0

-----------------------------------------------------------------------------
\* Mutant: notify() instead of notify_all() may wake a caller and not the supervisor.
NotifyOne == supervisor' \in {supervisor, IF supervisor = "waiting" THEN "running" ELSE supervisor}

\* _cond.notify_all(): callers poll with a time-out, the supervisor sleeps without.
Notify == supervisor' = IF supervisor = "waiting" THEN "running" ELSE supervisor

At(s, step) == caller[s].pc = step

\* A caller starts or ends a call, with no worker in hand.
Enters(s, step, gen) ==
  caller' = [caller EXCEPT ![s] = [pc |-> step, gen |-> gen, wk |-> NoWorker, src |-> "none"]]
Leave(s) == Enters(s, "out", 0)

\* A caller goes on to a step, with the worker and the source it remembers there.
Moves(s, step, w, src) ==
  caller' = [caller EXCEPT ![s] = [pc |-> step, gen |-> caller[s].gen, wk |-> w, src |-> src]]
Goto(s, step)     == Moves(s, step, caller[s].wk, caller[s].src)
Using(s, step, w) == Moves(s, step, w, caller[s].src)
Forget(s, step)   == Using(s, step, NoWorker)

Fault == faults < MaxFaults /\ faults' = faults + 1

\* Processes end, and the design state of their tools with them.
Die(W) ==
  /\ alive' = alive \ W
  /\ loaded' = [w \in Workers |-> IF w \in W THEN {} ELSE loaded[w]]

\* _force_kill_worker: the worker's processes are gone when it returns.
ForceKill(w) == Die({w}) /\ UNCHANGED <<incomplete, faults>>

-----------------------------------------------------------------------------
(* lease *)

\* Whether the pool may start one more worker, and two mutants: start-ups in
\* progress not counted, and one worker too many.
HasSlotNoStarting == Cardinality(LeasedSessions) + Cardinality(idle) < PoolSize
HasSlotOffByOne   == Total <= PoolSize
HasSlot == Total < PoolSize

Lease(s) ==
  /\ At(s, "out")
  /\ Enters(s, "reserve", closeGeneration)
  /\ UNCHANGED <<tables, counters, superVars, boot, closer, toolVars>>

\* Mutant: a waiting lease looks at the generation but at no deadline.
ReserveWaitsOn(s) ==
  /\ At(s, "reserve")
  /\ closeGeneration # caller[s].gen
  /\ Leave(s)
  /\ UNCHANGED <<tables, counters, superVars, boot, closer, toolVars>>

\* The wait ends with an error: cancelled by a close, or the queue deadline passed.
ReserveGivesUp(s) ==
  /\ At(s, "reserve")
  /\ \/ closeGeneration # caller[s].gen
     \/ QueueTimeout /\ idle = {} /\ ~HasSlot
  /\ Leave(s)
  /\ UNCHANGED <<tables, counters, superVars, boot, closer, toolVars>>

TakeIdle(s) ==
  /\ At(s, "reserve")
  /\ closeGeneration = caller[s].gen
  /\ \E w \in idle :
       /\ idle' = idle \ {w}
       /\ leased' = [leased EXCEPT ![s] = w]
       /\ Moves(s, "prepare", w, "idle")
  /\ UNCHANGED <<startingWorkers, counters, superVars, boot, closer, toolVars>>

\* max(_target_total, min(_pool_size, total + 1)), where total < _pool_size.
RaisedTarget == IF targetTotal > Total THEN targetTotal ELSE Total + 1

ReserveSlot(s) ==
  /\ At(s, "reserve")
  /\ closeGeneration = caller[s].gen
  /\ idle = {}
  /\ HasSlot
  /\ starting' = starting + 1
  /\ targetTotal' = RaisedTarget
  /\ \E w \in Fresh :
       boot' = [boot EXCEPT ![w] = [pc |-> "spawn", gen |-> caller[s].gen, owner |-> s]]
  /\ Moves(s, "starting", NoWorker, "new")
  /\ UNCHANGED <<tables, closeGeneration, prewarmComplete, superVars, closer, toolVars>>

\* except ExecutionError in lease: try again only if the worker came from _idle.
RetryLease(s) ==
  /\ At(s, "retry")
  /\ IF closeGeneration = caller[s].gen THEN Enters(s, "reserve", closeGeneration)
                                        ELSE Leave(s)
  /\ UNCHANGED <<tables, counters, superVars, boot, closer, toolVars>>

\* lease re-reads the generation under the lock before it hands the worker out.
CheckGeneration(s) ==
  /\ At(s, "check")
  /\ IF closeGeneration = caller[s].gen
     THEN /\ Enters(s, "held", 0)
          /\ UNCHANGED <<leased, supervisor>>
     ELSE /\ Goto(s, "kill")
          /\ IF leased[s] = caller[s].wk
             THEN leased' = [leased EXCEPT ![s] = NoWorker] /\ Notify
             ELSE UNCHANGED <<leased, supervisor>>
  /\ UNCHANGED <<idle, startingWorkers, counters, supervisorStop, backoff,
                 boot, closer, toolVars>>

KillCancelled(s) ==
  /\ At(s, "kill")
  /\ ForceKill(caller[s].wk)
  /\ Leave(s)
  /\ UNCHANGED <<tables, counters, superVars, boot, closer>>

-----------------------------------------------------------------------------
(* _start_physical_worker, run by a caller or by a supervised starter      *)

BootStep(w, from, to) == boot[w].pc = from /\ boot' = [boot EXCEPT ![w].pc = to]
BootOver(w, from)     == boot[w].pc = from /\ boot' = [boot EXCEPT ![w] = NoBoot]

\* The start-up fails in a caller's thread: lease raises.
OwnerLeaves(w) ==
  IF boot[w].owner = Supervisor THEN UNCHANGED caller ELSE Leave(boot[w].owner)

SpawnProcess(w) ==
  /\ BootStep(w, "spawn", "register")
  /\ alive' = alive \cup {w}
  /\ incomplete' = incomplete \ {w}
  /\ UNCHANGED <<tables, counters, superVars, caller, closer, loaded, faults>>

\* Pipe, Process or the pool's directory cannot be made.
SpawnFails(w) ==
  /\ BootStep(w, "spawn", "fail")
  /\ Fault
  /\ UNCHANGED <<tables, counters, superVars, caller, closer, alive, loaded, incomplete>>

RegisterStarting(w) ==
  /\ IF closeGeneration = boot[w].gen
     THEN BootStep(w, "register", "await") /\ startingWorkers' = startingWorkers \cup {w}
     ELSE BootStep(w, "register", "cancelled") /\ UNCHANGED startingWorkers
  /\ UNCHANGED <<idle, leased, counters, superVars, caller, closer, toolVars>>

KillUnregistered(w) ==
  /\ BootStep(w, "cancelled", "fail")
  /\ ForceKill(w)
  /\ UNCHANGED <<tables, counters, superVars, caller, closer>>

BecomesReady(w) ==
  /\ BootStep(w, "await", "ready")
  /\ w \in alive
  /\ UNCHANGED <<tables, counters, superVars, caller, closer, toolVars>>

\* Start-up error, time-out, or a dead process; the thread then kills the worker.
BootFails(w) ==
  /\ BootStep(w, "await", "failed")
  /\ IF w \in alive THEN Fault ELSE UNCHANGED faults
  /\ Die({w})
  /\ UNCHANGED <<tables, counters, superVars, caller, closer, incomplete>>

\* The finally clause.
Unregister(w) ==
  /\ BootStep(w, "ready", "publish") \/ BootStep(w, "failed", "fail")
  /\ startingWorkers' = startingWorkers \ {w}
  /\ Notify
  /\ UNCHANGED <<idle, leased, counters, supervisorStop, backoff, caller, closer, toolVars>>

\* Mutant: a failed start-up keeps its place in _starting.
AbandonUncounted(w) ==
  /\ BootOver(w, "fail")
  /\ backoff' = (backoff \/ boot[w].owner = Supervisor)
  /\ Notify
  /\ OwnerLeaves(w)
  /\ UNCHANGED <<tables, counters, supervisorStop, closer, toolVars>>

\* The except clauses of _reserve_or_start and _start_supervised_worker.
AbandonStart(w) ==
  /\ BootOver(w, "fail")
  /\ starting' = starting - 1
  /\ backoff' = (backoff \/ boot[w].owner = Supervisor)
  /\ Notify
  /\ OwnerLeaves(w)
  /\ UNCHANGED <<tables, closeGeneration, targetTotal, prewarmComplete,
                 supervisorStop, closer, toolVars>>

\* Mutant: the generation is not read again after the start-up.
LeaseUnchecked(w) ==
  LET s == boot[w].owner
  IN  /\ s # Supervisor
      /\ starting' = starting - 1
      /\ Notify
      /\ BootOver(w, "publish")
      /\ leased' = [leased EXCEPT ![s] = w]
      /\ Using(s, "prepare", w)
      /\ UNCHANGED <<idle, startingWorkers, closeGeneration, targetTotal, prewarmComplete,
                     supervisorStop, backoff, closer, toolVars>>

LeaseNewWorker(w) ==
  LET s == boot[w].owner
  IN  /\ s # Supervisor
      /\ starting' = starting - 1
      /\ Notify
      /\ IF closeGeneration # boot[w].gen
         THEN BootStep(w, "publish", "kill") /\ UNCHANGED <<leased, caller>>
         ELSE /\ BootOver(w, "publish")
              /\ leased' = [leased EXCEPT ![s] = w]
              /\ Using(s, "prepare", w)
      /\ UNCHANGED <<idle, startingWorkers, closeGeneration, targetTotal, prewarmComplete,
                     supervisorStop, backoff, closer, toolVars>>

\* _mark_prewarm_complete_locked
PrewarmDone(idleNow) ==
  prewarmComplete \/ Cardinality(LeasedSessions) + Cardinality(idleNow) >= PoolSize

PublishIdle(w) ==
  /\ boot[w].owner = Supervisor
  /\ starting' = starting - 1
  /\ Notify
  /\ IF closeGeneration # boot[w].gen \/ supervisorStop
     THEN BootStep(w, "publish", "kill") /\ UNCHANGED <<idle, prewarmComplete>>
     ELSE /\ BootOver(w, "publish")
          /\ idle' = idle \cup {w}
          /\ prewarmComplete' = PrewarmDone(idle')
  /\ UNCHANGED <<leased, startingWorkers, closeGeneration, targetTotal,
                 supervisorStop, backoff, caller, closer, toolVars>>

KillStarted(w) ==
  /\ BootOver(w, "kill")
  /\ ForceKill(w)
  /\ OwnerLeaves(w)
  /\ UNCHANGED <<tables, counters, superVars, closer>>

-----------------------------------------------------------------------------
(* the supervisor *)

\* _supervisor_target_locked
SupervisorTarget(complete) ==
  IF ~complete THEN PoolSize
  ELSE IF ~Replenish THEN 0
  ELSE IF targetTotal < PoolSize THEN targetTotal ELSE PoolSize

\* The number of workers the loop would start.
Starts(complete) ==
  LET room == {SupervisorTarget(complete) - Total, PoolSize - Total,
               PrewarmConcurrency - starting}
  IN  CHOOSE n \in room : \A m \in room : n <= m

\* SessionManager starts the supervisors when the server starts, before any close.
StartSupervisor ==
  /\ closeGeneration = 0
  /\ \A c \in Closers : closer[c].pc = "idle"
  /\ IF supervisor = "none"
     THEN supervisorStop' = FALSE /\ supervisor' = "running"
     ELSE Notify /\ UNCHANGED supervisorStop
  /\ UNCHANGED <<tables, counters, backoff, caller, boot, closer, toolVars>>

SupervisorExits ==
  /\ supervisor = "running"
  /\ supervisorStop
  /\ supervisor' = "none"
  /\ UNCHANGED <<tables, counters, supervisorStop, backoff, caller, boot, closer, toolVars>>

BackoffExpires ==
  /\ backoff
  /\ backoff' = FALSE
  /\ UNCHANGED <<tables, counters, supervisorStop, supervisor, caller, boot, closer, toolVars>>

SupervisorLoop ==
  /\ supervisor = "running" /\ ~supervisorStop /\ ~backoff
  /\ prewarmComplete' = PrewarmDone(idle)
  /\ LET starts == Starts(prewarmComplete')
         first  == [pc |-> "spawn", gen |-> closeGeneration, owner |-> Supervisor]
     IN  IF starts <= 0
         THEN supervisor' = "waiting" /\ UNCHANGED <<starting, boot>>
         ELSE /\ starting' = starting + starts
              /\ \E W \in SUBSET Fresh :
                   /\ Cardinality(W) = starts
                   /\ boot' = [w \in Workers |-> IF w \in W THEN first ELSE boot[w]]
              /\ UNCHANGED supervisor
  /\ UNCHANGED <<tables, closeGeneration, targetTotal, supervisorStop, backoff,
                 caller, closer, toolVars>>

-----------------------------------------------------------------------------
(* operations on a leased worker *)

\* _execute_worker; a lost worker makes SessionManager's adapter call discard.
Execute(s) ==
  /\ At(s, "held")
  /\ LET w == leased[s]
     IN  IF w = NoWorker \/ w \notin alive
         THEN Goto(s, "discard") /\ UNCHANGED loaded
         ELSE /\ Using(s, "exec", w)
              /\ loaded' = [loaded EXCEPT ![w] = @ \cup {s}]
  /\ UNCHANGED <<tables, counters, superVars, boot, closer, alive, incomplete, faults>>

\* The worker answers prepare_session, execute (a Tcl error is an answer too)
\* or the healthcheck.
ToolAnswers(s) ==
  /\ caller[s].wk \in alive
  /\ \/ At(s, "prepare") /\ Goto(s, "check")
     \/ At(s, "exec") /\ Forget(s, "held")
     \/ At(s, "health") /\ Goto(s, "return")
  /\ UNCHANGED <<tables, counters, superVars, boot, closer, toolVars>>

\* The worker is dead, replies with an error, or times out and is killed.
ToolFails(s) ==
  /\ caller[s].pc \in {"prepare", "exec", "reset", "health"}
  /\ IF caller[s].wk \in alive
     THEN Fault /\ \E killed \in {{}, {caller[s].wk}} : Die(killed)
     ELSE UNCHANGED <<alive, loaded, faults>>
  /\ Forget(s, "discard")
  /\ UNCHANGED <<tables, counters, superVars, boot, closer, incomplete>>

\* SessionManager drops the lease: dead worker before execute, failed create.
DiscardLease(s) ==
  /\ At(s, "held")
  /\ Goto(s, "discard")
  /\ UNCHANGED <<tables, counters, superVars, boot, closer, toolVars>>

\* discard returns, into lease's except clause or out of the pool.
AfterDiscard(s) == IF caller[s].src = "idle" THEN Forget(s, "retry") ELSE Leave(s)

DiscardRead(s) ==
  /\ At(s, "discard")
  /\ IF leased[s] = NoWorker THEN AfterDiscard(s)
     ELSE Using(s, "dkill", leased[s])
  /\ UNCHANGED <<tables, counters, superVars, boot, closer, toolVars>>

DiscardKill(s) ==
  /\ At(s, "dkill")
  /\ ForceKill(caller[s].wk)
  /\ Goto(s, "ddelete")
  /\ UNCHANGED <<tables, counters, superVars, boot, closer>>

DiscardDelete(s) ==
  /\ At(s, "ddelete")
  /\ leased' = IF leased[s] = caller[s].wk THEN [leased EXCEPT ![s] = NoWorker] ELSE leased
  /\ Notify
  /\ AfterDiscard(s)
  /\ UNCHANGED <<idle, startingWorkers, counters, supervisorStop, backoff,
                 boot, closer, toolVars>>

-----------------------------------------------------------------------------
(* release (InnovusWorkerPool, PrimeTimeWorkerPool) *)

Release(s) ==
  /\ At(s, "held")
  /\ LET w == leased[s]
     IN  IF w = NoWorker THEN Leave(s)
         ELSE IF ~Reuse THEN Goto(s, "bump")
         ELSE IF w \notin alive THEN Goto(s, "discard")
         ELSE Using(s, "reset", w)
  /\ UNCHANGED <<tables, counters, superVars, boot, closer, toolVars>>

\* Reuse disabled: Innovus raises the replenish target, both discard the worker.
NoReuse(s) ==
  /\ At(s, "bump")
  /\ targetTotal' = IF Tool = "innovus" /\ Replenish THEN PoolSize ELSE targetTotal
  /\ Forget(s, "discard")
  /\ UNCHANGED <<tables, starting, closeGeneration, prewarmComplete,
                 superVars, boot, closer, toolVars>>

\* Mutant: the worker is offered again before its healthcheck.
ResetOffersEarly(s) ==
  /\ At(s, "reset")
  /\ caller[s].wk \in alive
  /\ leased[s] = caller[s].wk
  /\ leased' = [leased EXCEPT ![s] = NoWorker]
  /\ idle' = idle \cup {caller[s].wk}
  /\ loaded' = [loaded EXCEPT ![caller[s].wk] = {}]
  /\ Goto(s, "health")
  /\ UNCHANGED <<startingWorkers, counters, superVars, boot, closer, alive, incomplete, faults>>

\* reset_session succeeds and the tool drops the session's design state.
ResetCleans(s) ==
  /\ At(s, "reset")
  /\ caller[s].wk \in alive
  /\ loaded' = [loaded EXCEPT ![caller[s].wk] = {}]
  /\ incomplete' = incomplete \ {caller[s].wk}
  /\ Goto(s, "health")
  /\ UNCHANGED <<tables, counters, superVars, boot, closer, alive, faults>>

\* Mutant: the policy is not looked at and no mark is left.
ResetUnmarked(s) ==
  /\ At(s, "reset")
  /\ caller[s].wk \in alive
  /\ Goto(s, "health")
  /\ UNCHANGED <<tables, counters, superVars, boot, closer, toolVars>>

\* The reset exits 0 but Innovus reports IMPSYC-6379: design state remains.
ResetIncomplete(s) ==
  /\ At(s, "reset")
  /\ Tool = "innovus"
  /\ caller[s].wk \in alive
  /\ IF IncompletePolicy = "discard"
     THEN Forget(s, "discard") /\ UNCHANGED incomplete
     ELSE /\ Goto(s, "health")
          /\ incomplete' = IF IncompletePolicy = "reuse_with_retry"
                            THEN incomplete \cup {caller[s].wk}
                            ELSE incomplete \ {caller[s].wk}
  /\ UNCHANGED <<tables, counters, superVars, boot, closer, alive, loaded, faults>>

\* Mutant: the worker is looked up again and the lease not compared with it.
ReturnLookedUp(s) ==
  /\ At(s, "return")
  /\ leased' = [leased EXCEPT ![s] = NoWorker]
  /\ idle' = idle \cup {leased[s]}
  /\ Notify
  /\ Leave(s)
  /\ UNCHANGED <<startingWorkers, counters, supervisorStop, backoff, boot, closer, toolVars>>

\* _return_worker_to_idle
ReturnToIdle(s) ==
  /\ At(s, "return")
  /\ IF leased[s] = caller[s].wk
     THEN /\ leased' = [leased EXCEPT ![s] = NoWorker]
          /\ idle' = idle \cup {caller[s].wk}
          /\ Notify
     ELSE UNCHANGED <<leased, idle, supervisor>>
  /\ Leave(s)
  /\ UNCHANGED <<startingWorkers, counters, supervisorStop, backoff, boot, closer, toolVars>>

-----------------------------------------------------------------------------
(* cancel_pending_leases and close_all *)

\* Both begin with stop_supervisor, whose join gives up after two seconds.
BeginClose(c) ==
  /\ closer[c].pc = "idle"
  /\ closeGeneration < MaxCloses
  /\ supervisorStop' = TRUE
  /\ Notify
  /\ \E step \in {"cancel", "close_all"} : closer' = [closer EXCEPT ![c].pc = step]
  /\ UNCHANGED <<tables, counters, backoff, caller, boot, toolVars>>

\* The critical section both share; the workers are killed after it.
CloseTables(c, workers) ==
  /\ closeGeneration' = closeGeneration + 1
  /\ closer' = [closer EXCEPT ![c] = [pc |-> "kill", todo |-> workers]]
  /\ idle' = {}
  /\ startingWorkers' = {}
  /\ Notify
  /\ UNCHANGED <<starting, supervisorStop, backoff, caller, boot, toolVars>>

CancelPendingLeases(c) ==
  /\ closer[c].pc = "cancel"
  /\ CloseTables(c, idle \cup startingWorkers)
  /\ UNCHANGED <<leased, targetTotal, prewarmComplete>>

CloseAll(c) ==
  /\ closer[c].pc = "close_all"
  /\ CloseTables(c, idle \cup LeasedWorkers \cup startingWorkers)
  /\ leased' = [s \in Sessions |-> NoWorker]
  /\ targetTotal' = IF Prewarm THEN PoolSize ELSE 0
  /\ prewarmComplete' = ~Prewarm

KillNext(c) ==
  /\ \E w \in closer[c].todo :
       /\ ForceKill(w)
       /\ closer' = [closer EXCEPT ![c].todo = @ \ {w}]
  /\ UNCHANGED <<tables, counters, superVars, caller, boot>>

EndClose(c) ==
  /\ closer[c] = [pc |-> "kill", todo |-> {}]
  /\ closer' = [closer EXCEPT ![c].pc = "idle"]
  /\ UNCHANGED <<tables, counters, superVars, caller, boot, toolVars>>

-----------------------------------------------------------------------------
\* A tool process dies by itself.
ToolDies(w) ==
  /\ w \in alive
  /\ Fault
  /\ Die({w})
  /\ UNCHANGED <<tables, counters, superVars, caller, boot, closer, incomplete>>

\* What SessionManager asks for, and how a caller's thread runs to the end of the call.
CallerRequest(s) == Lease(s) \/ Execute(s) \/ DiscardLease(s) \/ Release(s)

CallerStep(s) ==
  \/ ReserveGivesUp(s) \/ TakeIdle(s) \/ ReserveSlot(s) \/ RetryLease(s)
  \/ CheckGeneration(s) \/ KillCancelled(s) \/ ToolAnswers(s) \/ ToolFails(s)
  \/ DiscardRead(s) \/ DiscardKill(s) \/ DiscardDelete(s)
  \/ NoReuse(s) \/ ResetCleans(s) \/ ResetIncomplete(s) \/ ReturnToIdle(s)

StarterStep(w) ==
  \/ SpawnProcess(w) \/ SpawnFails(w) \/ RegisterStarting(w) \/ KillUnregistered(w)
  \/ BecomesReady(w) \/ BootFails(w) \/ Unregister(w) \/ AbandonStart(w)
  \/ LeaseNewWorker(w) \/ PublishIdle(w) \/ KillStarted(w)

CloserStep(c) == CancelPendingLeases(c) \/ CloseAll(c) \/ KillNext(c) \/ EndClose(c)

Next ==
  \/ \E s \in Sessions : CallerRequest(s) \/ CallerStep(s)
  \/ \E w \in Workers : StarterStep(w) \/ ToolDies(w)
  \/ \E c \in Closers : BeginClose(c) \/ CloserStep(c)
  \/ StartSupervisor \/ SupervisorExits \/ SupervisorLoop \/ BackoffExpires

Spec == Init /\ [][Next]_vars

\* Threads run, and their waits on pipes and on the condition variable are
\* bounded; requests, closes and faults need not happen.
Fairness ==
  /\ \A s \in Sessions : WF_vars(CallerStep(s))
  /\ \A w \in Workers : WF_vars(StarterStep(w))
  /\ \A c \in Closers : WF_vars(CloserStep(c))
  /\ WF_vars(SupervisorExits \/ SupervisorLoop)
  /\ WF_vars(BackoffExpires)

FairSpec == Spec /\ Fairness

-----------------------------------------------------------------------------
(* Properties *)

CallerType == [pc : CallerPC, gen : Nat, wk : Workers \cup {NoWorker},
               src : {"none", "idle", "new"}]
BootType   == [pc : BootPC, gen : Nat, owner : Sessions \cup {Supervisor}]
CloserType == [pc : {"idle", "cancel", "close_all", "kill"}, todo : SUBSET Workers]

\* The values of the pool's fields and of its threads' locals.
TypeOK ==
  /\ idle \in SUBSET Workers
  /\ leased \in [Sessions -> Workers \cup {NoWorker}]
  /\ startingWorkers \in SUBSET Workers
  /\ starting \in Int /\ targetTotal \in Int
  /\ closeGeneration \in Nat /\ faults \in Nat
  /\ prewarmComplete \in BOOLEAN /\ supervisorStop \in BOOLEAN /\ backoff \in BOOLEAN
  /\ supervisor \in {"none", "running", "waiting"}
  /\ caller \in [Sessions -> CallerType]
  /\ boot \in [Workers -> BootType]
  /\ closer \in [Closers -> CloserType]
  /\ alive \in SUBSET Workers
  /\ loaded \in [Workers -> SUBSET Sessions]
  /\ incomplete \in SUBSET Workers

\* A worker has one place in the pool's tables: no two sessions lease it, and it is
\* never idle, leased or still registered as starting at the same time, whatever
\* closes and start-ups interleave.
LeaseExclusive ==
  /\ \A s, t \in LeasedSessions : leased[s] = leased[t] => s = t
  /\ idle \cap LeasedWorkers = {}
  /\ startingWorkers \cap (idle \cup LeasedWorkers) = {}

\* Steps at which a caller talks to the worker it remembers, without the lock.
Drives(s) == caller[s].pc \in {"prepare", "check", "exec", "reset", "health", "return"}

\* Two threads never talk to the same tool process, and nobody talks to a process
\* that _idle offers to the next lease: threads keep the worker in a local variable
\* while close_all may clear the tables under them.
DrivenByOne ==
  \A s \in Sessions : Drives(s) =>
    /\ caller[s].wk \notin idle
    /\ \A t \in Sessions \ {s} : Drives(t) => caller[t].wk # caller[s].wk

\* A worker serves one session at a time, in the pool's tables and on its pipe.
WorkerExclusive == LeaseExclusive /\ DrivenByOne

\* No process is lost: each running tool process is in a table, owned by a start-up
\* thread, or on the kill list of a thread that will get to it.
NoOrphan ==
  alive \subseteq idle \cup LeasedWorkers \cup {w \in Workers : boot[w].pc # "none"}
                  \cup (UNION {closer[c].todo : c \in Closers})
                  \cup {caller[s].wk : s \in {t \in Sessions : At(t, "kill")}}

\* A lease is always someone's: only a session with a call in progress, or one that
\* holds its worker, has an entry in _leased, so close_session frees every slot.
LeaseHasHolder ==
  \A s \in LeasedSessions :
    caller[s].pc \notin {"out", "reserve", "starting", "kill", "retry"}

\* A worker on a kill list is out of the tables: no lease hands out a process that
\* a closing thread is about to kill.
DoomedNotOffered ==
  \A c \in Closers : closer[c].todo \cap (idle \cup LeasedWorkers) = {}

\* Workers and leases are accounted for, whatever a close, a start-up and a failed call
\* undo under each other: no process without an owner who will use or kill it, no lease
\* without a session that will give it back, none of a process that is to be killed.
WorkersAccounted == NoOrphan /\ LeaseHasHolder /\ DoomedNotOffered

\* The lock-free counter _starting is the number of start-ups between their
\* reservation and their publication, on every path through them.
CountedBootPC == BootPC \ {"none", "kill"}
StartingCount == starting = Cardinality({w \in Workers : boot[w].pc \in CountedBootPC})

\* active + idle + starting, as pool_state reports it, never exceeds pool_size.
CapacityRespected == Total <= PoolSize

\* A session's worker holds no other session's design state, or it carries the mark
\* that makes the adapter retry the session's first execution on a new worker.
ResidueIsMarked ==
  IncompletePolicy # "ignore" =>
    \A s \in LeasedSessions :
      loaded[leased[s]] \subseteq {s} \/ leased[s] \in incomplete

\* The pool implements the abstract lease: whatever its threads do, sessions see workers
\* appear, be lent to one session each, come back or vanish, PoolSize at most.
Leases == INSTANCE WorkerLease WITH available <- idle, lent <- leased
LeaseSpec == Leases!Spec

\* README.md:40 calls innovus_pool_size a hard limit of physical processes.
HardProcessLimit == Cardinality(alive) <= PoolSize

\* A thread inside a pool call.
InCall(s) == caller[s].pc \notin {"out", "held"}

\* Every lease, execute, discard and release returns: waiters get a worker or the
\* queue time-out, cancelled leases end, and no thread waits for another one forever.
CallsReturn == \A s \in Sessions : InCall(s) ~> ~InCall(s)

\* A running supervisor brings the pool back to its target whatever discards and failed
\* start-ups took from it, unless it is stopped or calls go on taking workers: it sleeps
\* without a time-out, so that whoever makes room must wake it.
Replenished ==
  supervisor # "none" ~>
    \/ supervisorStop
    \/ Cardinality(LeasedSessions) + Cardinality(idle) >= SupervisorTarget(prewarmComplete)
    \/ \E s \in Sessions : InCall(s)

=============================================================================
