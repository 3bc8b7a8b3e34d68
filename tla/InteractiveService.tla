------------------------- MODULE InteractiveService -------------------------
(***************************************************************************)
(* The interactive daemon (service.py, service_lifecycle.py, runtime.py)   *)
(* over its registry and its scheduler: create, execute, destroy, loss of  *)
(* a runtime, the sweep, shutdown, a crash and the reconciliation after.   *)
(*                                                                         *)
(* An action is one transaction, one critical section, or one exchange     *)
(* with a process. A process is the tree of a worker and its tool; that a  *)
(* recorded pid still means this process is process_identity.py's promise. *)
(***************************************************************************)
EXTENDS CapacityScheduler

CONSTANTS
  MaxExecs,    \* bound: executions of one session
  MaxFaults,   \* bound: failures and deaths of processes
  MaxIoFaults, \* bound: failed removals of a directory
  MaxStops,    \* bound: crashes and shutdowns
  MaxForgets   \* bound: create requests that retention deletes

ASSUME ServiceAssumption ==
  \A bound \in {MaxExecs, MaxFaults, MaxIoFaults, MaxStops, MaxForgets} : bound \in Nat

VARIABLES
  db,      \* the registry
  mem,     \* what the daemon holds for a session id, and the threads at work for it
  daemon,  \* down, reconciling, up or stopping
  sweep,   \* the sweeper: where it is in its pass, and for which ids
  stop,    \* shutdown: its snapshots, and the id at hand
  proc,    \* the process tree of the runtime of a session
  stray,   \* sessions whose processes belong to a daemon that is gone
  spent    \* used up of each bound

INSTANCE InteractiveRegistry

vars == <<leases, schedulerClosed, db, mem, daemon, sweep, stop, proc, stray, spent>>

Threads == {"task", "job", "kill", "mon", "sweep", "stop"}

Memory == [
  ctrl       : {"none", "private", "listed", "pending", "released"},
               \* the RuntimeController: with its create task, in _controllers,
               \* in _pending_release_ids too, released
  stopping   : BOOLEAN,           \* _stopping of the runtime
  suppressed : BOOLEAN,           \* _monitor_loss_suppressed
  orphan     : {"none", "request", "session", "unknown"},  \* _orphan_runtimes
  found      : {"none", "request", "session", "unknown"},  \* records still to reconcile
  dirty      : {"none", "request", "session"},             \* _pending_ownership_cleanup
  task       : {"none", "acquire", "register", "build", "attempt", "spawn", "boot",
                "publish", "cleanup", "fail"},             \* _create_workspace_session_task
  job        : {"none", "prepare", "mark", "run", "record", "release", "complete", "discard"},
  exec       : 0..MaxExecs,                                \* the job's execution
  kill       : {"none", "release", "orphan", "closeT", "closeF", "closeN", "seal"},
               \* destroy_workspace_session; what it closes was confirmed terminated,
               \* was not, or was not there
  mon        : {"none", "watch", "look", "call", "mark", "release", "ended"},
                                                           \* _monitor_loop and its callback
  rel        : Threads \cup {"free"},                      \* holder of release_lock
  step       : {"kill", "retire", "clean", "yes", "no"},   \* its place in _release_controller
  lock       : {"free", "job", "kill", "sweep"}]           \* holder of the session lock

NoMemory == [ctrl |-> "none", stopping |-> FALSE, suppressed |-> FALSE, orphan |-> "none",
             found |-> "none", dirty |-> "none", task |-> "none", job |-> "none", exec |-> 0,
             kill |-> "none", mon |-> "none", rel |-> "free", step |-> "kill", lock |-> "free"]

Resting  == [at |-> "rest", clean |-> {}, pending |-> {}, orphans |-> {}, todo |-> {}]
Running  == [starting |-> {}, ctrls |-> {}, orphans |-> {}, on |-> {}]
Nothing  == [s \in SessionIds |-> NoMemory]
Starting == {"spawn", "boot"}

\* A daemon with empty roots.
Init ==
  /\ SchedulerInit /\ RegistryInit
  /\ mem = Nothing /\ daemon = "up"
  /\ sweep = Resting /\ stop = Running
  /\ proc = [s \in SessionIds |-> "no"] /\ stray = {}
  /\ spent = [fault |-> 0, io |-> 0, stop |-> 0, forget |-> 0]

-----------------------------------------------------------------------------
Bound == [fault |-> MaxFaults, io |-> MaxIoFaults, stop |-> MaxStops, forget |-> MaxForgets]
Spend(what) == spent[what] < Bound[what] /\ spent' = [spent EXCEPT ![what] = @ + 1]
Free        == UNCHANGED spent

Set(s, m)  == mem' = [mem EXCEPT ![s] = m]
Task(s, t) == Set(s, [mem[s] EXCEPT !.task = t])

Serving      == daemon \in {"up", "stopping"}
ControllerOf(s) == mem[s].ctrl \in {"listed", "pending"}
IsAlive(s)   == proc[s] = "tool" /\ ~mem[s].stopping
Exits(s)     == proc' = [proc EXCEPT ![s] = "no"] /\ stray' = stray \ {s}

UnchangedScheduler == UNCHANGED schedulerVars
UnchangedProcess   == UNCHANGED <<proc, stray>>
UnchangedControl   == UNCHANGED <<daemon, sweep, stop>>
OnlyMemory == UnchangedScheduler /\ UnchangedProcess /\ UnchangedControl /\ UNCHANGED db

-----------------------------------------------------------------------------
(* Create *)

Create(s) ==
  /\ daemon = "up"
  /\ BeginCreateRequest(s)
  /\ Task(s, "acquire")
  /\ UnchangedScheduler /\ UnchangedProcess /\ UnchangedControl /\ Free

CreateRefused(s) ==
  /\ daemon = "up"
  /\ RefuseCreateRequest(s)
  /\ UnchangedScheduler /\ UnchangedProcess /\ UnchangedControl /\ Free /\ UNCHANGED mem

TaskAcquires(s) ==
  /\ mem[s].task = "acquire"
  /\ Acquire(s)
  /\ Task(s, "register")
  /\ UnchangedProcess /\ UnchangedControl /\ Free /\ UNCHANGED db

\* The capacity deadline, a closed scheduler, a workspace path that does not do.
TaskGivesUp(s) ==
  /\ mem[s].task = "acquire"
  /\ Task(s, "fail")
  /\ OnlyMemory /\ Free

TaskRegisters(s) ==
  /\ mem[s].task = "register"
  /\ RegisterRuntimeStartup(s)
  /\ Task(s, "build")
  /\ UnchangedScheduler /\ UnchangedProcess /\ UnchangedControl /\ Free

TaskBuilds(s) ==
  /\ mem[s].task = "build"
  /\ Set(s, [mem[s] EXCEPT !.task = "attempt", !.ctrl = "private", !.stopping = FALSE,
                           !.suppressed = FALSE, !.mon = "none"])
  /\ OnlyMemory /\ Free

\* No scratch directory: _cleanup_failed_create without a runtime.
BuildFails(s) ==
  /\ mem[s].task = "build"
  /\ Spend("io")
  /\ Release(s)
  /\ \/ ClearRuntimeStartup(s) /\ Task(s, "fail")
     \/ UNCHANGED db /\ Set(s, [mem[s] EXCEPT !.task = "fail", !.dirty = "request"])
  /\ UnchangedProcess /\ UnchangedControl

\* The runtime joins _starting_runtimes.
TaskAttempts(s) ==
  /\ mem[s].task = "attempt"
  /\ IF daemon = "up" THEN MarkSpawnAttempted(s) /\ Task(s, "spawn")
                      ELSE UNCHANGED db /\ Task(s, "cleanup")
  /\ UnchangedScheduler /\ UnchangedProcess /\ UnchangedControl /\ Free

TaskSpawns(s) ==
  /\ mem[s].task = "spawn" /\ ~mem[s].stopping
  /\ proc' = [proc EXCEPT ![s] = "worker"]
  /\ Task(s, "boot")
  /\ UnchangedScheduler /\ UnchangedControl /\ Free /\ UNCHANGED <<db, stray>>

SpawnFails(s) ==
  /\ mem[s].task = "spawn"
  /\ IF mem[s].stopping THEN Free ELSE Spend("fault")
  /\ Task(s, "cleanup")
  /\ OnlyMemory

\* The worker starts its tool; one whose daemon is gone may be past its last look
\* at the parent.
WorkerStartsTool(s) ==
  /\ proc[s] = "worker"
  /\ proc' = [proc EXCEPT ![s] = "tool"]
  /\ UnchangedScheduler /\ UnchangedControl /\ Free /\ UNCHANGED <<db, mem, stray>>

\* _report_processes, for the worker and, once tool_started came, for the tool.
TaskReports(s) ==
  /\ mem[s].task = "boot"
  /\ \/ db[s].startup = "attempted" /\ UpdateStartupProcesses(s, "worker")
     \/ db[s].startup = "worker" /\ proc[s] = "tool" /\ UpdateStartupProcesses(s, "tool")
  /\ UnchangedScheduler /\ UnchangedProcess /\ UnchangedControl /\ Free /\ UNCHANGED mem

TaskBoots(s) ==
  /\ mem[s].task = "boot" /\ db[s].startup = "tool" /\ IsAlive(s)
  /\ Set(s, [mem[s] EXCEPT !.task = "publish", !.mon = "watch"])
  /\ OnlyMemory /\ Free

\* An error, a time-out or a lost worker: start() calls terminate(), whose own
\* failure it ignores.
BootFails(s) ==
  /\ mem[s].task = "boot"
  /\ IF IsAlive(s) \/ (proc[s] = "worker" /\ ~mem[s].stopping) THEN Spend("fault") ELSE Free
  /\ Exits(s) \/ UnchangedProcess
  /\ Set(s, [mem[s] EXCEPT !.task = "cleanup", !.stopping = TRUE])
  /\ UnchangedScheduler /\ UnchangedControl /\ UNCHANGED db

\* Registry and _controllers change under _lock: shutdown sees both or neither.
TaskPublishes(s) ==
  /\ mem[s].task = "publish" /\ IsAlive(s) /\ daemon = "up"
  /\ MarkReady(s)
  /\ PublishWorkspaceSession(s)
  /\ Set(s, [mem[s] EXCEPT !.task = "none", !.ctrl = "listed"])
  /\ UnchangedProcess /\ UnchangedControl /\ Free

\* The runtime is gone, the daemon stops, or the session limit is reached.
PublishRefused(s) ==
  /\ mem[s].task = "publish"
  /\ IF IsAlive(s) /\ daemon = "up" THEN Spend("fault") ELSE Free
  /\ IF IsAlive(s) THEN MarkReady(s) ELSE UnchangedScheduler
  /\ Task(s, "cleanup")
  /\ UnchangedProcess /\ UnchangedControl /\ UNCHANGED db

TaskFails(s) ==
  /\ mem[s].task = "fail"
  /\ FailCreateRequest(s)
  /\ Task(s, "none")
  /\ UnchangedScheduler /\ UnchangedProcess /\ UnchangedControl /\ Free

-----------------------------------------------------------------------------
(* _release_controller, under release_lock, by whichever thread wants it *)

Wants(s, by) ==
  CASE by = "task"  -> mem[s].task = "cleanup"
    [] by = "job"   -> mem[s].job \in {"release", "discard"}
    [] by = "kill"  -> mem[s].kill = "release"
    [] by = "mon"   -> mem[s].mon = "release"
    [] by = "sweep" -> \/ sweep.at = "snapshots" /\ sweep.clean = {} /\ s \in sweep.pending
                       \/ sweep.at = "stopIdle" /\ s \in sweep.todo
    [] by = "stop"  -> s \in stop.on

BeginsRelease(s) ==
  /\ mem[s].rel = "free"
  /\ \E by \in Threads :
       /\ Wants(s, by)
       /\ Set(s, [mem[s] EXCEPT !.rel = by,
                                !.step = IF mem[s].ctrl = "released" THEN "yes" ELSE "kill"])
  /\ OnlyMemory /\ Free

Terminates(s) ==
  /\ mem[s].rel # "free" /\ mem[s].step = "kill"
  /\ Exits(s)
  /\ Set(s, [mem[s] EXCEPT !.stopping = TRUE, !.step = "retire"])
  /\ UnchangedScheduler /\ UnchangedControl /\ Free /\ UNCHANGED db

\* Mutant: nothing is left to the sweep.
NotRemembered(s) ==
  /\ mem[s].rel # "free" /\ mem[s].step = "kill" /\ proc[s] # "no"
  /\ Spend("fault")
  /\ Set(s, [mem[s] EXCEPT !.stopping = TRUE, !.step = "no"])
  /\ OnlyMemory

\* The processes cannot be confirmed dead: the sweep will try again.
NotConfirmed(s) ==
  /\ mem[s].rel # "free" /\ mem[s].step = "kill" /\ proc[s] # "no"
  /\ Spend("fault")
  /\ Set(s, [mem[s] EXCEPT !.stopping = TRUE, !.ctrl = "pending", !.step = "no"])
  /\ OnlyMemory

\* Logs are sealed, the lease is released, the controller leaves the tables.
Retires(s) ==
  /\ mem[s].rel # "free" /\ mem[s].step = "retire"
  /\ SealLostLogs(s)
  /\ Release(s)
  /\ Set(s, [mem[s] EXCEPT !.ctrl = "released", !.step = "clean"])
  /\ UnchangedProcess /\ UnchangedControl /\ Free

\* startup_request_id is set until the session is published.
CleanupKind(s) == IF db[s].session = "none" THEN "request" ELSE "session"

\* _finish_durable_cleanup: logs, scratch directory, then the recorded pids.
Cleans(s, kind) ==
  /\ IF kind = "request" THEN ClearRuntimeStartup(s)
     ELSE Put(s, [db[s] EXCEPT !.unsealed = {}, !.owned = FALSE])
  /\ kind = "session" => db[s].runtime # "none"
  /\ Free

\* A directory that cannot be removed, or no row left for the session. Logs can
\* always be read.
CannotClean(s, kind) ==
  /\ IF kind = "session" /\ db[s].runtime = "none" THEN Free ELSE Spend("io")
  /\ IF kind = "session" THEN SealLostLogs(s) ELSE UNCHANGED db

\* Mutant: what could not be cleaned is not queued.
CleansUpOnce(s) ==
  /\ mem[s].rel # "free" /\ mem[s].step = "clean"
  /\ Cleans(s, CleanupKind(s)) \/ CannotClean(s, CleanupKind(s))
  /\ Set(s, [mem[s] EXCEPT !.step = "yes"])
  /\ UnchangedScheduler /\ UnchangedProcess /\ UnchangedControl

CleansUp(s) ==
  /\ mem[s].rel # "free" /\ mem[s].step = "clean"
  /\ \/ Cleans(s, CleanupKind(s)) /\ Set(s, [mem[s] EXCEPT !.step = "yes"])
     \/ /\ CannotClean(s, CleanupKind(s))
        /\ Set(s, [mem[s] EXCEPT !.step = "yes", !.dirty = CleanupKind(s)])
  /\ UnchangedScheduler /\ UnchangedProcess /\ UnchangedControl

\* Answered: the thread may take the lock's result and go on.
Answered(s, by) == mem[s].rel = by /\ mem[s].step \in {"yes", "no"}
Confirmed(s)    == mem[s].step = "yes"

\* Mutant: the create waits until its processes are confirmed dead.
TaskWaits(s) ==
  /\ Answered(s, "task") /\ Confirmed(s)
  /\ Set(s, [mem[s] EXCEPT !.rel = "free", !.task = "fail"])
  /\ OnlyMemory /\ Free

TaskCleanedUp(s) ==
  /\ Answered(s, "task")
  /\ Set(s, [mem[s] EXCEPT !.rel = "free", !.task = "fail"])
  /\ OnlyMemory /\ Free

-----------------------------------------------------------------------------
(* Execute *)

Unlock(m, by) == [m EXCEPT !.lock = IF @ = by THEN "free" ELSE @]

Execute(s) ==
  /\ daemon = "up" /\ mem[s].lock = "free" /\ mem[s].job = "none"
  /\ \E k \in ExecIds :
       /\ BeginExecution(s, k)
       /\ Set(s, [mem[s] EXCEPT !.exec = k, !.lock = "job",
                                !.job = IF ControllerOf(s) THEN "prepare" ELSE "complete"])
  /\ UnchangedScheduler /\ UnchangedProcess /\ UnchangedControl /\ Free

JobPrepares(s) ==
  /\ mem[s].job = "prepare" /\ IsAlive(s)
  /\ Set(s, [mem[s] EXCEPT !.job = "mark"])
  /\ OnlyMemory /\ Free

\* The log cannot be opened, and the tool answers the health check.
PrepareRefused(s) ==
  /\ mem[s].job = "prepare" /\ IsAlive(s) /\ Spend("io")
  /\ CompleteExecution(s, mem[s].exec, TRUE)
  /\ Set(s, [Unlock(mem[s], "job") EXCEPT !.job = "none"])
  /\ UnchangedScheduler /\ UnchangedProcess /\ UnchangedControl

\* The runtime is lost or answers too late.
PrepareFails(s) ==
  /\ mem[s].job = "prepare"
  /\ IF IsAlive(s) THEN Spend("fault") ELSE Free
  /\ Set(s, [mem[s] EXCEPT !.job = "release"])
  /\ OnlyMemory

\* The request ends its part: _execute_task runs on without the session lock.
JobRuns(s) ==
  /\ mem[s].job = "mark"
  /\ IF MayRun(s, mem[s].exec)
     THEN /\ MarkExecutionRunning(s, mem[s].exec)
          /\ Set(s, [Unlock(mem[s], "job") EXCEPT !.job = "run"])
     ELSE UNCHANGED db /\ Set(s, [mem[s] EXCEPT !.job = "release"])
  /\ UnchangedScheduler /\ UnchangedProcess /\ UnchangedControl /\ Free

\* A complete summary of a tool that is alive; the monitor is held off.
SummaryComes(s) ==
  /\ mem[s].job = "run" /\ IsAlive(s)
  /\ Set(s, [mem[s] EXCEPT !.job = "record", !.suppressed = TRUE])
  /\ OnlyMemory /\ Free

JobRecords(s) ==
  /\ mem[s].job = "record"
  /\ CompleteExecution(s, mem[s].exec, TRUE)
  /\ Set(s, [mem[s] EXCEPT !.job = "none"])
  /\ UnchangedScheduler /\ UnchangedProcess /\ UnchangedControl /\ Free

\* resume_monitoring
ResumesMonitoring(s) ==
  /\ mem[s].suppressed /\ ~mem[s].stopping /\ mem[s].job \notin {"run", "record", "discard"}
  /\ Set(s, [mem[s] EXCEPT !.suppressed = FALSE])
  /\ OnlyMemory /\ Free

\* A summary that tells of a time-out or a dead tool: completed before the release.
SummaryOfLoss(s) ==
  /\ mem[s].job = "run"
  /\ IF IsAlive(s) THEN Spend("fault") ELSE Free
  /\ CompleteExecution(s, mem[s].exec, FALSE)
  /\ Set(s, [mem[s] EXCEPT !.job = "discard", !.suppressed = TRUE])
  /\ UnchangedScheduler /\ UnchangedProcess /\ UnchangedControl

\* No summary: released before it is completed.
NoSummary(s) ==
  /\ mem[s].job = "run"
  /\ IF IsAlive(s) THEN Spend("fault") ELSE Free
  /\ Set(s, [mem[s] EXCEPT !.job = "release"])
  /\ OnlyMemory

JobReleased(s) ==
  /\ Answered(s, "job")
  /\ Set(s, [mem[s] EXCEPT !.rel = "free",
                           !.job = IF @ = "release" THEN "complete" ELSE "none"])
  /\ OnlyMemory /\ Free

\* _complete_without_summary
JobCompletes(s) ==
  /\ mem[s].job = "complete"
  /\ CompleteExecution(s, mem[s].exec, FALSE)
  /\ Set(s, [Unlock(mem[s], "job") EXCEPT !.job = "none"])
  /\ UnchangedScheduler /\ UnchangedProcess /\ UnchangedControl /\ Free

-----------------------------------------------------------------------------
(* Loss of a runtime *)

ProcessDies(s) ==
  /\ proc[s] # "no" /\ s \notin stray /\ Spend("fault")
  /\ Exits(s)
  /\ UnchangedScheduler /\ UnchangedControl /\ UNCHANGED <<db, mem>>

Mon(s, m) == Set(s, [mem[s] EXCEPT !.mon = m])

\* The monitor looks at the flags under _state_lock, and at the processes after it.
MonitorWakes(s) ==
  /\ mem[s].mon = "watch"
  /\ \/ mem[s].stopping /\ Mon(s, "ended")
     \/ ~mem[s].stopping /\ mem[s].job # "run" /\ ~mem[s].suppressed /\ Mon(s, "look")
  /\ OnlyMemory /\ Free

MonitorLooks(s) ==
  /\ mem[s].mon = "look"
  /\ Mon(s, CASE proc[s] = "tool" -> "watch"
              [] proc[s] # "tool" /\ mem[s].stopping -> "ended"
              [] OTHER -> "call")
  /\ OnlyMemory /\ Free

\* _runtime_lost_callback leaves a runtime with an execution to that, and a create
\* that is not published to the create.
CallsBack(s) ==
  /\ mem[s].mon = "call"
  /\ Mon(s, IF db[s].session = "none" \/ db[s].current # 0 THEN "ended" ELSE "mark")
  /\ OnlyMemory /\ Free

MonitorMarks(s) ==
  /\ mem[s].mon = "mark"
  /\ MarkRuntimeLost(s)
  /\ Mon(s, IF ControllerOf(s) THEN "release" ELSE "ended")
  /\ UnchangedScheduler /\ UnchangedProcess /\ UnchangedControl /\ Free

MonitorReleased(s) ==
  /\ Answered(s, "mon")
  /\ Set(s, [mem[s] EXCEPT !.rel = "free", !.mon = "ended"])
  /\ OnlyMemory /\ Free

-----------------------------------------------------------------------------
(* Destroy *)

\* No controller and no orphan: nothing of the runtime runs.
Destroy(s) ==
  /\ Serving /\ mem[s].lock = "free" /\ db[s].session = "ACTIVE"
  /\ Set(s, [mem[s] EXCEPT !.lock = "kill",
                           !.kill = CASE ControllerOf(s)           -> "release"
                                      [] ~ControllerOf(s) /\ mem[s].orphan # "none" -> "orphan"
                                      [] OTHER                     -> "closeN"])
  /\ OnlyMemory /\ Free

DestroyReleased(s) ==
  /\ Answered(s, "kill")
  /\ Set(s, [mem[s] EXCEPT !.rel = "free", !.kill = IF Confirmed(s) THEN "closeT" ELSE "closeF"])
  /\ OnlyMemory /\ Free

\* The controller stays with the sweep if its termination was not confirmed.
DestroyCloses(s) ==
  /\ mem[s].kill \in {"closeT", "closeF", "closeN"}
  /\ CloseWorkspaceSession(s, mem[s].kill = "closeT")
  /\ LET stopped == \/ mem[s].kill = "closeT"
                    \/ mem[s].kill = "closeN" /\ mem[s].orphan = "none" /\ proc[s] = "no"
     IN  Set(s, IF stopped THEN [mem[s] EXCEPT !.kill = "seal"]
                ELSE [Unlock(mem[s], "kill") EXCEPT !.kill = "none"])
  /\ UnchangedScheduler /\ UnchangedProcess /\ UnchangedControl /\ Free

DestroySeals(s) ==
  /\ mem[s].kill = "seal"
  /\ SealLostLogs(s)
  /\ Set(s, [Unlock(mem[s], "kill") EXCEPT !.kill = "none"])
  /\ UnchangedScheduler /\ UnchangedProcess /\ UnchangedControl /\ Free

-----------------------------------------------------------------------------
(* Orphans: processes of an earlier daemon *)

\* terminate_recorded_processes for recorded pids. Where a pid may be missing, the
\* code waits for a start-up time; by then such a tree has followed its parent.
OrphanGone(s) == mem[s].orphan = "unknown" => proc[s] = "no"

\* _release_orphan, confirmed; ownership is cleared or left to the sweep.
OrphanReleased(s, m) ==
  LET kind == IF m.orphan = "unknown" THEN "request" ELSE m.orphan
  IN  /\ OrphanGone(s)
      /\ Exits(s)
      /\ Release(s)
      /\ \/ Cleans(s, kind) /\ Set(s, [m EXCEPT !.orphan = "none"])
         \/ CannotClean(s, kind) /\ Set(s, [m EXCEPT !.orphan = "none", !.dirty = kind])

DestroyReleasesOrphan(s) ==
  /\ mem[s].kill = "orphan"
  /\ IF mem[s].orphan # "none"
     THEN OrphanReleased(s, [mem[s] EXCEPT !.kill = "closeT"])
     ELSE /\ Set(s, [mem[s] EXCEPT !.kill = "closeT"])
          /\ UnchangedScheduler /\ UnchangedProcess /\ Free /\ UNCHANGED db
  /\ UnchangedControl

DestroyKeepsOrphan(s) ==
  /\ mem[s].kill = "orphan" /\ mem[s].orphan # "none" /\ proc[s] # "no" /\ Spend("fault")
  /\ Set(s, [mem[s] EXCEPT !.kill = "closeN"])
  /\ OnlyMemory

-----------------------------------------------------------------------------
(* The sweep *)

Sweep(at, todo) == sweep' = [sweep EXCEPT !.at = at, !.todo = todo]
InSweep         == UNCHANGED <<daemon, stop>>

\* sweep_once: snapshots of what was put off, and after these the idle runtimes.
SweepBegins ==
  /\ daemon = "up" /\ sweep.at = "rest"
  /\ sweep' = [at      |-> "snapshots",
               clean   |-> {s \in SessionIds : mem[s].dirty # "none"},
               pending |-> {s \in SessionIds : mem[s].ctrl = "pending"},
               orphans |-> {s \in SessionIds : mem[s].orphan # "none"},
               todo    |-> {}]
  /\ InSweep /\ UnchangedScheduler /\ UnchangedProcess /\ Free /\ UNCHANGED <<db, mem>>

SweepLooksForIdle ==
  sweep.at = "snapshots" /\ sweep.clean = {} /\ sweep.pending = {} /\ sweep.orphans = {}

\* The logs to seal come next, then what retention lets go.
SweepMoves ==
  /\ Serving
  /\ \/ SweepLooksForIdle /\ Sweep("seal", {s \in SessionIds : SafeToSeal(s)})
     \/ sweep.at = "seal" /\ sweep.todo = {} /\ Sweep("rest", {})
  /\ InSweep /\ UnchangedScheduler /\ UnchangedProcess /\ Free /\ UNCHANGED <<db, mem>>

SweepCleans(s) ==
  /\ s \in sweep.clean
  /\ \/ Cleans(s, mem[s].dirty) /\ Set(s, [mem[s] EXCEPT !.dirty = "none"])
     \/ CannotClean(s, mem[s].dirty) /\ UNCHANGED mem
  /\ sweep' = [sweep EXCEPT !.clean = @ \ {s}]
  /\ InSweep /\ UnchangedScheduler /\ UnchangedProcess

SweepReleased(s) ==
  /\ s \in sweep.pending /\ Answered(s, "sweep")
  /\ Set(s, [mem[s] EXCEPT !.rel = "free"])
  /\ sweep' = [sweep EXCEPT !.pending = @ \ {s}]
  /\ InSweep /\ UnchangedScheduler /\ UnchangedProcess /\ Free /\ UNCHANGED db

SweepsOrphan(s) ==
  /\ sweep.clean = {} /\ sweep.pending = {} /\ s \in sweep.orphans
  /\ sweep' = [sweep EXCEPT !.orphans = @ \ {s}]

\* An orphan that a destroy has released in the meantime is released again, in vain.
SweepReleasesOrphan(s) ==
  /\ SweepsOrphan(s)
  /\ IF mem[s].orphan # "none" THEN OrphanReleased(s, mem[s])
     ELSE UnchangedScheduler /\ UnchangedProcess /\ Free /\ UNCHANGED <<db, mem>>
  /\ InSweep

\* Still in quarantine, or not confirmed dead.
SweepKeepsOrphan(s) ==
  /\ SweepsOrphan(s) /\ mem[s].orphan # "none" /\ proc[s] # "no"
  /\ IF OrphanGone(s) THEN Spend("fault") ELSE Free
  /\ InSweep /\ UnchangedScheduler /\ UnchangedProcess /\ UNCHANGED <<db, mem>>

\* The idle time of a runtime is over; its candidate is tested again under the lock.
SweepFindsIdle(s) ==
  /\ SweepLooksForIdle /\ mem[s].lock = "free"
  /\ db[s].runtime = "READY" /\ db[s].current = 0 /\ ControllerOf(s)
  /\ Set(s, [mem[s] EXCEPT !.lock = "sweep"])
  /\ Sweep("stopIdle", {s})
  /\ InSweep /\ UnchangedScheduler /\ UnchangedProcess /\ Free /\ UNCHANGED db

SweepStopsIdle(s) ==
  /\ sweep.at = "stopIdle" /\ Answered(s, "sweep")
  /\ IF Confirmed(s) THEN MarkRuntimeStopped(s) ELSE UNCHANGED db
  /\ Set(s, [Unlock(mem[s], "sweep") EXCEPT !.rel = "free"])
  /\ Sweep("snapshots", {})
  /\ InSweep /\ UnchangedScheduler /\ UnchangedProcess /\ Free

\* A runtime whose controller was let go by an earlier part of the sweep.
SweepStopsHandleless(s) ==
  /\ SweepLooksForIdle /\ mem[s].lock = "free"
  /\ db[s].runtime = "READY" /\ db[s].current = 0 /\ ~ControllerOf(s)
  /\ IF proc[s] = "no" THEN MarkRuntimeStopped(s) ELSE MarkRuntimeLost(s)
  /\ UnchangedScheduler /\ UnchangedProcess /\ UnchangedControl /\ Free /\ UNCHANGED mem

\* Tested again for a controller or an orphan whose processes live.
SweepSeals(s) ==
  /\ sweep.at = "seal" /\ s \in sweep.todo
  /\ IF (ControllerOf(s) \/ mem[s].orphan # "none") /\ proc[s] # "no"
     THEN UNCHANGED db ELSE SealLostLogs(s)
  /\ Sweep("seal", sweep.todo \ {s})
  /\ InSweep /\ UnchangedScheduler /\ UnchangedProcess /\ Free /\ UNCHANGED mem

\* Bound: retention meets an id that no thread works on.
Quiet(s) ==
  /\ mem[s].task = "none" /\ mem[s].job = "none" /\ mem[s].kill = "none"
  /\ mem[s].rel = "free" /\ mem[s].mon \in {"none", "ended"}

\* The retention time of a create request, or of a closed session, is over.
SweepForgets(s) ==
  /\ sweep.at = "seal" /\ sweep.todo = {} /\ Quiet(s)
  /\ \/ CreateIsGarbage(s) /\ DeleteCreate(s) /\ Spend("forget")
     \/ SessionIsGarbage(s) /\ spent.forget < MaxForgets /\ DeleteSession(s) /\ Free
  /\ Sweep("rest", {})
  /\ InSweep /\ UnchangedScheduler /\ UnchangedProcess /\ UNCHANGED mem

-----------------------------------------------------------------------------
(* Shutdown, crash, restart *)

InStop == UNCHANGED <<daemon, sweep>>

Shutdown ==
  /\ daemon = "up" /\ Spend("stop")
  /\ daemon' = "stopping"
  /\ CloseScheduler
  /\ stop' = [starting |-> {s \in SessionIds : mem[s].task \in Starting},
              ctrls    |-> {s \in SessionIds : ControllerOf(s)},
              orphans  |-> {s \in SessionIds : mem[s].orphan # "none"},
              on       |-> {}]
  /\ UnchangedProcess /\ UNCHANGED <<db, mem, sweep>>

StopsStarting(s) ==
  /\ s \in stop.starting
  /\ Set(s, [mem[s] EXCEPT !.stopping = TRUE])
  /\ Exits(s) \/ UnchangedProcess
  /\ stop' = [stop EXCEPT !.starting = @ \ {s}]
  /\ InStop /\ UnchangedScheduler /\ Free /\ UNCHANGED db

StopsRuntime(s) ==
  /\ stop.starting = {} /\ stop.on = {} /\ s \in stop.ctrls
  /\ MarkRuntimeLost(s)
  /\ stop' = [stop EXCEPT !.on = {s}]
  /\ InStop /\ UnchangedScheduler /\ UnchangedProcess /\ Free /\ UNCHANGED mem

StopReleased(s) ==
  /\ Answered(s, "stop")
  /\ Set(s, [mem[s] EXCEPT !.rel = "free"])
  /\ stop' = [stop EXCEPT !.on = {}, !.ctrls = @ \ {s}]
  /\ InStop /\ UnchangedScheduler /\ UnchangedProcess /\ Free /\ UNCHANGED db

StopsOrphan(s) ==
  /\ stop.starting = {} /\ stop.ctrls = {} /\ s \in stop.orphans
  /\ \/ mem[s].orphan # "none" /\ OrphanReleased(s, mem[s])
     \/ /\ mem[s].orphan = "none" \/ proc[s] # "no"
        /\ UnchangedScheduler /\ UnchangedProcess /\ Free /\ UNCHANGED <<db, mem>>
  /\ stop' = [stop EXCEPT !.orphans = @ \ {s}]
  /\ InStop

Gone ==
  /\ daemon' = "down"
  /\ mem' = Nothing /\ sweep' = Resting /\ stop' = Running
  /\ ResetScheduler
  /\ stray' = {s \in SessionIds : proc[s] # "no"}
  /\ UNCHANGED <<db, proc>>

\* shutdown waits for the create tasks and the executions, not for the requests.
Stopped ==
  /\ daemon = "stopping"
  /\ stop = Running
  /\ \A s \in SessionIds :
       mem[s].task = "none" /\ (mem[s].job = "none" \/ mem[s].lock = "job")
  /\ Gone /\ Free

Crash == daemon # "down" /\ Spend("stop") /\ Gone

\* A worker notices that its parent is gone, ends its tool and exits.
StrayExits(s) ==
  /\ s \in stray
  /\ Exits(s)
  /\ UnchangedScheduler /\ UnchangedControl /\ Free /\ UNCHANGED <<db, mem>>

Reconcile ==
  /\ daemon = "down"
  /\ daemon' = "reconciling"
  /\ ReconcileTables
  /\ mem' = [s \in SessionIds |-> [mem[s] EXCEPT !.found = SurvivorKind(s)]]
  /\ UnchangedScheduler /\ UnchangedProcess /\ Free /\ UNCHANGED <<sweep, stop>>

\* A survivor keeps a slot, without regard to the capacity.
Adopts(s) ==
  /\ mem[s].found # "none" /\ (proc[s] # "no" \/ mem[s].found = "unknown")
  /\ ReserveExisting(s)
  /\ Set(s, [mem[s] EXCEPT !.found = "none", !.orphan = mem[s].found])
  /\ UnchangedProcess /\ UnchangedControl /\ Free /\ UNCHANGED db

BuriesDead(s) ==
  /\ mem[s].found \in {"request", "session"} /\ proc[s] = "no"
  /\ \/ Cleans(s, mem[s].found) /\ Set(s, [mem[s] EXCEPT !.found = "none"])
     \/ /\ CannotClean(s, mem[s].found)
        /\ Set(s, [mem[s] EXCEPT !.found = "none", !.dirty = mem[s].found])
  /\ UnchangedScheduler /\ UnchangedProcess /\ UnchangedControl

\* The daemon is up; logs without a recorded writer are sealed first.
Serves ==
  /\ daemon = "reconciling" /\ \A s \in SessionIds : mem[s].found = "none"
  /\ daemon' = "up"
  /\ db' = [s \in SessionIds |-> IF SafeToSeal(s) THEN [db[s] EXCEPT !.unsealed = {}] ELSE db[s]]
  /\ UnchangedScheduler /\ UnchangedProcess /\ Free /\ UNCHANGED <<mem, sweep, stop>>

-----------------------------------------------------------------------------
TaskStep(s) ==
  \/ TaskAcquires(s) \/ TaskGivesUp(s) \/ TaskRegisters(s) \/ TaskBuilds(s) \/ BuildFails(s)
  \/ TaskAttempts(s) \/ TaskSpawns(s) \/ SpawnFails(s) \/ TaskReports(s) \/ TaskBoots(s)
  \/ BootFails(s) \/ TaskPublishes(s) \/ PublishRefused(s) \/ TaskFails(s) \/ TaskCleanedUp(s)
ReleaseStep(s) ==
  BeginsRelease(s) \/ Terminates(s) \/ NotConfirmed(s) \/ Retires(s) \/ CleansUp(s)
JobStep(s) ==
  \/ JobPrepares(s) \/ PrepareRefused(s) \/ PrepareFails(s) \/ JobRuns(s) \/ SummaryComes(s)
  \/ JobRecords(s) \/ ResumesMonitoring(s) \/ SummaryOfLoss(s) \/ NoSummary(s)
  \/ JobReleased(s) \/ JobCompletes(s)
MonitorStep(s) ==
  \/ MonitorWakes(s) \/ MonitorLooks(s) \/ CallsBack(s) \/ MonitorMarks(s) \/ MonitorReleased(s)
DestroyStep(s) ==
  \/ DestroyReleased(s) \/ DestroyReleasesOrphan(s) \/ DestroyKeepsOrphan(s)
  \/ DestroyCloses(s) \/ DestroySeals(s)
SweepStep(s) ==
  \/ SweepCleans(s) \/ SweepReleased(s) \/ SweepReleasesOrphan(s) \/ SweepKeepsOrphan(s)
  \/ SweepFindsIdle(s) \/ SweepStopsIdle(s) \/ SweepStopsHandleless(s) \/ SweepSeals(s)
  \/ SweepForgets(s)
StopStep(s) == StopsStarting(s) \/ StopsRuntime(s) \/ StopReleased(s) \/ StopsOrphan(s)
RestartStep(s) == Adopts(s) \/ BuriesDead(s)
ProcessStep(s) == WorkerStartsTool(s) \/ StrayExits(s)

Next ==
  \/ \E s \in SessionIds :
       \/ Create(s) \/ CreateRefused(s) \/ Execute(s) \/ Destroy(s) \/ ProcessDies(s)
       \/ TaskStep(s) \/ ReleaseStep(s) \/ JobStep(s) \/ MonitorStep(s) \/ DestroyStep(s)
       \/ SweepStep(s) \/ StopStep(s) \/ RestartStep(s) \/ ProcessStep(s)
  \/ SweepBegins \/ SweepMoves \/ Shutdown \/ Stopped \/ Crash \/ Reconcile \/ Serves

Spec == Init /\ [][Next]_vars

-----------------------------------------------------------------------------
(* Properties *)

\* The variables have their types (the type invariant of this module, with the lease
\* states of the scheduler and the rows of the registry).
TypeOK ==
  /\ leases \in [SessionIds -> LeaseStates] /\ schedulerClosed \in BOOLEAN
  /\ db \in [SessionIds -> Row]
  /\ mem \in [SessionIds -> Memory]
  /\ daemon \in {"down", "reconciling", "up", "stopping"}
  /\ sweep \in [at : {"rest", "snapshots", "stopIdle", "seal"}, clean : SUBSET SessionIds,
                pending : SUBSET SessionIds, orphans : SUBSET SessionIds, todo : SUBSET SessionIds]
  /\ stop \in [starting : SUBSET SessionIds, ctrls : SUBSET SessionIds,
               orphans : SUBSET SessionIds, on : SUBSET SessionIds]
  /\ stray \subseteq SessionIds
  /\ proc \in [SessionIds -> {"no", "worker", "tool"}]
  /\ spent \in [DOMAIN Bound -> Nat] /\ \A what \in DOMAIN Bound : spent[what] <= Bound[what]

Trees == {s \in SessionIds : proc[s] # "no"}

\* Capacity is released only after process death: while the daemon serves, every
\* process tree, one of an earlier daemon too, is covered by a lease.
LeaseCoversProcess == Serving => \A s \in Trees : leases[s] # "none"

\* At no time, a restart included, do more tools run than the tool has capacity.
TreesWithinCapacity == Cardinality(Trees) <= Capacity

\* The permits of the scheduler bound the processes that exist, not those it knows of.
CapacityCoversTrees == LeaseCoversProcess /\ TreesWithinCapacity

\* The registry knows of every process: it holds process ids, or a start-up whose
\* spawn was attempted. What it has forgotten is gone.
OwnershipDurable ==
  \A s \in Trees : db[s].owned \/ db[s].startup \in {"attempted", "worker", "tool"}

\* Somebody will release the controller of s without being asked again.
WillRelease(s) ==
  \/ db[s].runtime \in {"READY", "BUSY"}
  \/ mem[s].job # "none" \/ mem[s].mon = "release" \/ mem[s].kill = "release"
  \/ mem[s].rel # "free" \/ s \in stop.ctrls \cup stop.on

\* A lease has somebody who will release it: the create task, the runtime that is in
\* use, a release under way, or the sweep with its pending controllers and orphans.
NoLeakedPermit ==
  \A s \in Leased(LeaseStates \ {"none"}) :
    \/ daemon = "reconciling"
    \/ mem[s].task # "none"
    \/ mem[s].ctrl = "pending" \/ mem[s].orphan # "none"
    \/ mem[s].ctrl = "listed" /\ WillRelease(s)

\* The rows of a session agree: one execution at most is active and it is the current
\* one of a usable runtime, BUSY says that it runs, a closed session has stopped, a
\* published one has a create request that succeeded and no start-up left.
RecordsAgree ==
  \A s \in SessionIds : LET r == db[s] IN
    /\ \A k \in ExecIds : r.execs[k] \in Active => r.current = k
    /\ r.current # 0 => /\ r.execs[r.current] \in Active
                        /\ r.session = "ACTIVE" /\ r.runtime \in {"READY", "BUSY"}
    /\ r.runtime = "BUSY" <=> \E k \in ExecIds : r.execs[k] = "RUNNING"
    /\ r.session = "CLOSED" => r.runtime = "STOPPED"
    /\ r.session # "none" => r.create = "SUCCEEDED" /\ r.startup = "none"
    /\ \A k \in r.unsealed : r.execs[k] = "LOST"

\* A log is sealed by the service only when its writer, the process tree, is gone.
SealsDeadOnly(s) ==
  db'[s].unsealed # db[s].unsealed => proc'[s] = "no" \/ db[s].unsealed \subseteq db'[s].unsealed

Final == [create |-> {"SUCCEEDED", "FAILED"}, session |-> {"CLOSED"}, runtime |-> {"STOPPED"}]

\* What ended stays ended, whoever reports late: an outcome that a client was told of is
\* the outcome. A lost runtime may only be stopped. Retention may delete, never change.
OutcomesStay(s) ==
  /\ \A field \in DOMAIN Final :
       db[s][field] \in Final[field] => db'[s][field] \in {db[s][field], "none"}
  /\ db[s].runtime = "LOST" => db'[s].runtime \in {"LOST", "STOPPED", "none"}
  /\ \A k \in ExecIds :
       db[s].execs[k] \in {"DONE", "LOST"} => db'[s].execs[k] \in {db[s].execs[k], "none"}

\* What a client reads of an ended execution is final: its outcome, and its log.
EndedIsFinal == [][\A s \in SessionIds : SealsDeadOnly(s) /\ OutcomesStay(s)]_vars

\* Threads of the daemon go on, the sweep comes round, workers see that their parent is
\* gone. Requests, faults, deaths and restarts happen when they like.
FairSpec ==
  /\ Spec
  /\ \A s \in SessionIds :
       /\ WF_vars(TaskStep(s)) /\ WF_vars(ReleaseStep(s)) /\ WF_vars(JobStep(s))
       /\ WF_vars(MonitorStep(s)) /\ WF_vars(DestroyStep(s)) /\ WF_vars(ProcessStep(s))
       /\ WF_vars(RestartStep(s)) /\ WF_vars(StopStep(s)) /\ WF_vars(SweepStep(s))
  /\ WF_vars(SweepBegins) /\ WF_vars(SweepMoves) /\ WF_vars(Stopped) /\ WF_vars(Serves)

\* wait_for_create_terminal returns: a create request ends, or its daemon has.
CreateEnds ==
  \A s \in SessionIds : db[s].create = "PENDING" ~> (db[s].create # "PENDING" \/ daemon = "down")

\* A session that ended gives its permit back and its logs are sealed, whatever failed
\* on the way, unless the daemon ends first.
EndedIsReleased ==
  \A s \in SessionIds :
    (db[s].session = "CLOSED" \/ db[s].create = "FAILED") ~>
      \/ leases[s] = "none" /\ db[s].unsealed = {} /\ ~db[s].owned
      \/ daemon = "down"
=============================================================================
