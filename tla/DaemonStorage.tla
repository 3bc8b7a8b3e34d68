--------------------------- MODULE DaemonStorage ---------------------------
(***************************************************************************)
(* Requests to execute code in one workspace session, and what becomes of  *)
(* their logs, through daemons that start, are refused, stop and crash     *)
(* (service.py, service_execution.py, service_lifecycle.py), over the      *)
(* locks of DaemonLocks and the tables of ExecutionLogs.                   *)
(*                                                                         *)
(* A daemon is one process and lives once. Creation is one step here, and  *)
(* so is _release_controller: InteractiveService takes both apart, and has *)
(* the capacity, the idle time and retention that are left out here.       *)
(***************************************************************************)
EXTENDS DaemonLocks, ExecutionLogs, FiniteSets

CONSTANTS
  Database,   \* the directory of the registry: its daemons have it among their roots
  Calls,      \* request threads of a daemon
  MaxFaults   \* bound: failures, deaths and unconfirmed kills; executions may take too long besides

ASSUME StorageAssumption ==
  /\ Database \in Paths /\ MaxFaults \in Nat
  /\ {"free", "kill"} \cap Calls = {}

VARIABLES
  mem,         \* what the process of a daemon has in memory
  tool,        \* the process tree of the runtime, and the execution it is at
  dispatched,  \* history: how often the code of a request was given to the tool
  reader,      \* a client that lists the history, page by page
  faults

vars == <<lockVars, reg, log, mem, tool, dispatched, reader, faults>>

NoCall == [at |-> "idle", exec |-> 0]
NoJob  == [at |-> "none", exec |-> 0, out |-> "LOST"]

Memory(execs) == [
  stage  : {"none", "adopt", "up", "stopping", "waiting"},
  call   : [Calls -> [at : {"idle", "prepare", "mark", "undo", "finish", "wait", "told"},
                      exec : execs]],               \* told: its event is set
  lock   : Calls \cup {"free", "kill"},            \* holder of the session lock
  job    : [at : {"none", "dispatch", "await", "record", "discard", "release", "complete"},
            exec : execs, out : {"DONE", "TIMED_OUT", "LOST"}],
  ctrl   : {"none", "listed", "pending", "released"},
  orphan : BOOLEAN,                                \* in _orphan_runtimes
  dirty  : BOOLEAN,                                \* in _pending_ownership_cleanup
  mon    : {"none", "watch", "mark", "release", "ended"},
  kill   : {"none", "release", "orphan", "closeT", "closeF", "closeN"}]

NoMemory == [stage |-> "none", call |-> [c \in Calls |-> NoCall], lock |-> "free",
             job |-> NoJob, ctrl |-> "none", orphan |-> FALSE, dirty |-> FALSE,
             mon |-> "none", kill |-> "none"]

AllRows   == [k \in DOMAIN reg.rows |-> k]
NoListing == [cursor |-> 0, list |-> <<>>, whole |-> TRUE]

Init ==
  /\ LocksInit /\ LogsInit
  /\ mem = [d \in Daemons |-> NoMemory]
  /\ tool = [proc |-> "no", exec |-> 0]
  /\ dispatched = [r \in Requests |-> 0]
  /\ reader = NoListing
  /\ faults = 0

-----------------------------------------------------------------------------
Fault == faults < MaxFaults /\ faults' = faults + 1
Fine  == UNCHANGED faults

Set(d, m) == mem' = [mem EXCEPT ![d] = m]

Served        == \E d \in Daemons : mem[d].stage # "none"
Working(d)    == mem[d].stage \in {"up", "stopping", "waiting"}
Controlled(d) == mem[d].ctrl \in {"listed", "pending"}
\* is_alive: a runtime that was told to terminate is not.
IsAlive(d)    == mem[d].ctrl = "listed" /\ tool.proc # "no"
Stray         == \A d \in Daemons : ~Controlled(d)

OnlyMemory   == UNCHANGED <<lockVars, reg, log, tool, dispatched, reader>>
OnlyRegistry == UNCHANGED <<lockVars, log, tool, dispatched, reader>>
Elsewhere    == UNCHANGED <<lockVars, log, dispatched, reader>>

CallTo(m, c, at) == [m EXCEPT !.call[c].at = at]
\* The thread answers its client; the session lock is free again if it has it.
Answers(m, c) == [m EXCEPT !.call[c] = NoCall, !.lock = IF @ = c THEN "free" ELSE @]
\* event.set() for some executions
Tell(m, which) ==
  [m EXCEPT !.call = [c \in Calls |-> IF @[c].at = "wait" /\ @[c].exec \in which
                                     THEN [@[c] EXCEPT !.at = "told"] ELSE @[c]]]
JobTo(m, at) == [m EXCEPT !.job.at = at]
JobEnds(m)   == [Tell(m, {m.job.exec}) EXCEPT !.job = NoJob]

\* _finish_durable_cleanup seals the logs, removes the scratch directory and forgets the
\* process ids; what fails is left to the sweep.
Cleanup(d, m) ==
  \/ reg' = Disowned(Sealed(reg)) /\ Set(d, [m EXCEPT !.dirty = FALSE]) /\ Fine
  \/ reg' = Sealed(reg) /\ Set(d, [m EXCEPT !.dirty = TRUE]) /\ Fault
  \/ Unsealed(reg) # {} /\ UNCHANGED reg /\ Set(d, [m EXCEPT !.dirty = TRUE]) /\ Fault

\* _release_controller; yes and no are the memory after a confirmed end and without one.
Release(d, yes, no) ==
  \/ ~Controlled(d) /\ Set(d, yes) /\ Fine /\ UNCHANGED <<reg, tool>>
  \/ Controlled(d) /\ tool' = [proc |-> "no", exec |-> 0] /\ Cleanup(d, [yes EXCEPT !.ctrl = "released"])
  \/ /\ Controlled(d) /\ tool.proc # "no" /\ Fault
     /\ Set(d, [no EXCEPT !.ctrl = "pending"])
     /\ UNCHANGED <<reg, tool>>

\* _release_orphan, likewise.
ReleaseOrphan(d, yes, no) ==
  \/ tool' = [proc |-> "no", exec |-> 0] /\ Cleanup(d, [yes EXCEPT !.orphan = FALSE])
  \/ tool.proc # "no" /\ Fault /\ Set(d, no) /\ UNCHANGED <<reg, tool>>

\* Mutant: without a summary only what was found on disk is accounted.
CompletesFound(d, k, state, m) ==
  /\ \/ reg' = Completed(reg, k, state, Found(reg, k), FALSE, FALSE) /\ Fine
     \/ reg' = Completed(reg, k, state, Null, FALSE, TRUE) /\ Fault
  /\ Set(d, m)

\* _complete_without_summary: the log can be read or not, its reservation stays accounted.
CompletesWithoutSummary(d, k, state, m) ==
  /\ \/ reg' = Completed(reg, k, state, Found(reg, k), FALSE, TRUE) /\ Fine
     \/ reg' = Completed(reg, k, state, Null, FALSE, TRUE) /\ Fault
  /\ Set(d, m)

-----------------------------------------------------------------------------
(* The request thread: execute_workspace_session *)

\* Bound: one session, published when no daemon is on its way, and before one that has
\* another registry has come and gone (it has no part in what follows, MayStart).
Publish(d) ==
  /\ mem[d].stage = "up" /\ reg.session = "none"
  /\ \A e \in Daemons \ {d} :
       phase[e] \in {"off", "owner"} \/ (phase[e] = "gone" /\ Database \in Roots[e])
  /\ reg' = Published(reg)
  /\ Set(d, [mem[d] EXCEPT !.ctrl = "listed", !.mon = "watch"])
  /\ tool' = [proc |-> "ready", exec |-> 0]
  /\ Elsewhere /\ Fine

\* A new execution, under the session lock; a thread that waits for the lock may have passed
\* _ensure_open a while ago. A request that has its row, or is refused, is answered and
\* changes nothing: its log file was created before the transaction, and is removed.
Execute(d, c) ==
  /\ Working(d) /\ mem[d].call[c].at = "idle" /\ mem[d].lock = "free"
  /\ reg.session # "none"
  /\ \E r \in Requests :
       /\ Existing(r) = {} /\ Admits
       /\ reg' = Begun(reg, r) /\ log' = Append(log, 0)
       /\ Set(d, [mem[d] EXCEPT
                  !.call[c] = [at |-> IF Controlled(d) THEN "prepare" ELSE "finish",
                               exec |-> Len(reg.rows) + 1],
                  !.lock = c])
  /\ UNCHANGED <<lockVars, tool, dispatched, reader>> /\ Fine

\* The worker has opened the log.
Prepares(d, c) ==
  /\ mem[d].call[c].at = "prepare" /\ IsAlive(d)
  /\ tool' = [proc |-> "prepared", exec |-> mem[d].call[c].exec]
  /\ Set(d, CallTo(mem[d], c, "mark"))
  /\ Elsewhere /\ Fine /\ UNCHANGED reg

\* It cannot open the log and answers the health check.
SinkFails(d, c) ==
  /\ mem[d].call[c].at = "prepare" /\ IsAlive(d) /\ Fault
  /\ reg' = Completed(reg, mem[d].call[c].exec, "DONE", 0, FALSE, FALSE)
  /\ Set(d, Answers(mem[d], c))
  /\ OnlyRegistry

\* It is gone, late or sick.
PrepareFails(d, c) ==
  /\ mem[d].call[c].at = "prepare"
  /\ IF IsAlive(d) THEN Fault ELSE Fine
  /\ Set(d, CallTo(mem[d], c, "undo"))
  /\ OnlyMemory

\* Marked as running and submitted, unless the runtime was lost meanwhile, or the executor
\* takes no more work.
Marks(d, c) ==
  LET k == mem[d].call[c].exec
  IN  /\ mem[d].call[c].at = "mark"
      /\ reg' = IF MayRun(k) THEN MarkedRunning(reg, k) ELSE reg
      /\ Set(d, IF MayRun(k) /\ mem[d].stage # "waiting"
                THEN [CallTo(mem[d], c, "wait")
                       EXCEPT !.lock = "free", !.job = [NoJob EXCEPT !.at = "dispatch", !.exec = k]]
                ELSE CallTo(mem[d], c, "undo"))
      /\ OnlyRegistry /\ Fine

Undoes(d, c) ==
  /\ mem[d].call[c].at = "undo"
  /\ Release(d, CallTo(mem[d], c, "finish"), CallTo(mem[d], c, "finish"))
  /\ Elsewhere

Finishes(d, c) ==
  /\ mem[d].call[c].at = "finish"
  /\ CompletesWithoutSummary(d, mem[d].call[c].exec, "LOST", Answers(mem[d], c))
  /\ OnlyRegistry

Returns(d, c) ==
  /\ mem[d].call[c].at = "told"
  /\ Set(d, Answers(mem[d], c))
  /\ OnlyMemory /\ Fine

-----------------------------------------------------------------------------
(* The background thread: _execute_task *)

Dispatches(d) ==
  /\ mem[d].job.at = "dispatch"
  /\ IF IsAlive(d)
     THEN /\ tool' = [tool EXCEPT !.proc = "running"]
          /\ dispatched' = [dispatched EXCEPT ![reg.rows[mem[d].job.exec].req] = @ + 1]
          /\ Set(d, JobTo(mem[d], "await"))
     ELSE Set(d, JobTo(mem[d], "release")) /\ UNCHANGED <<tool, dispatched>>
  /\ UNCHANGED <<lockVars, reg, log, reader>> /\ Fine

Summary(d, outs) ==
  /\ mem[d].job.at = "await"
  /\ \E out \in outs : Set(d, [JobTo(mem[d], "record") EXCEPT !.job.out = out])
  /\ tool' = IF tool.proc = "no" THEN tool ELSE [proc |-> "ready", exec |-> 0]
  /\ Elsewhere /\ UNCHANGED reg

\* The worker has closed the log and tells of an exit status, of a tool that died, or of
\* one it had to stop.
SummaryComes(d)  == Summary(d, {"DONE"}) /\ IsAlive(d) /\ Fine
SummaryOfLoss(d) == Summary(d, {"TIMED_OUT", "LOST"}) /\ tool.proc # "no" /\ Fine

\* It does not answer in time, or not at all.
NoSummary(d) ==
  /\ mem[d].job.at = "await"
  /\ \E out \in {"TIMED_OUT", "LOST"} : Set(d, [JobTo(mem[d], "release") EXCEPT !.job.out = out])
  /\ OnlyMemory /\ Fine

\* Recorded as told, then let go. Bytes that the sink dropped make a log incomplete, the
\* outcome alone does not: the pipes may have ended after a time-out.
Records(d) ==
  LET k == mem[d].job.exec
      out == mem[d].job.out
  IN  /\ mem[d].job.at = "record"
      /\ \E complete \in BOOLEAN :
           reg' = Completed(reg, k, out, log[k], complete, FALSE)
      /\ Set(d, IF out = "DONE" THEN JobEnds(mem[d]) ELSE JobTo(mem[d], "discard"))
      /\ OnlyRegistry /\ Fine

Discards(d) ==
  /\ mem[d].job.at = "discard"
  /\ Release(d, JobEnds(mem[d]), JobEnds(mem[d]))
  /\ Elsewhere

\* Nothing was told: let go, whether or not that is confirmed, then recorded.
Releases(d) ==
  /\ mem[d].job.at = "release"
  /\ Release(d, JobTo(mem[d], "complete"), JobTo(mem[d], "complete"))
  /\ Elsewhere

\* Mutant: an exception ends the thread, and nobody hears of it.
CompletesInSilence(d) ==
  /\ mem[d].job.at = "complete"
  /\ CompletesWithoutSummary(d, mem[d].job.exec, mem[d].job.out, [mem[d] EXCEPT !.job = NoJob])
  /\ OnlyRegistry

Completes(d) ==
  /\ mem[d].job.at = "complete"
  /\ CompletesWithoutSummary(d, mem[d].job.exec, mem[d].job.out, JobEnds(mem[d]))
  /\ OnlyRegistry

-----------------------------------------------------------------------------
(* The tool, and the monitor of its runtime *)

\* The sink of the worker stops at its budget, which is the reservation.
ToolWrites ==
  /\ tool.proc = "running" /\ log[tool.exec] < reg.rows[tool.exec].reserved
  /\ log' = [log EXCEPT ![tool.exec] = @ + 1]
  /\ UNCHANGED <<lockVars, reg, mem, tool, dispatched, reader, faults>>

\* One that nobody controls follows its parent, in its own time.
ToolDies ==
  /\ tool.proc # "no"
  /\ IF Stray THEN Fine ELSE Fault
  /\ tool' = [proc |-> "no", exec |-> 0]
  /\ UNCHANGED <<lockVars, reg, log, mem, dispatched, reader>>

\* _runtime_lost_callback: an execution ends its runtime itself.
MonitorCalls(d) ==
  /\ mem[d].mon = "watch" /\ mem[d].job.at \in {"none", "dispatch"}
  /\ tool.proc = "no" \/ mem[d].ctrl # "listed"
  /\ Set(d, [mem[d] EXCEPT !.mon = IF mem[d].ctrl = "listed" /\ reg.current = 0
                                   THEN "mark" ELSE "ended"])
  /\ OnlyMemory /\ Fine

\* An execution may have begun since.
MonitorMarks(d) ==
  /\ mem[d].mon = "mark"
  /\ reg' = RuntimeLost(reg)
  /\ Set(d, [mem[d] EXCEPT !.mon = "release"])
  /\ OnlyRegistry /\ Fine

MonitorReleases(d) ==
  /\ mem[d].mon = "release"
  /\ LET m == [mem[d] EXCEPT !.mon = "ended"] IN Release(d, m, m)
  /\ Elsewhere

-----------------------------------------------------------------------------
(* destroy_workspace_session, the sweep *)

Destroy(d) ==
  /\ Working(d) /\ mem[d].lock = "free" /\ reg.session = "ACTIVE"
  /\ Set(d, [mem[d] EXCEPT !.lock = "kill",
                           !.kill = IF Controlled(d) THEN "release"
                                    ELSE IF mem[d].orphan THEN "orphan" ELSE "closeN"])
  /\ OnlyMemory /\ Fine

Kill(m, to) == [m EXCEPT !.kill = to]

DestroyReleases(d) ==
  /\ \/ /\ mem[d].kill = "release"
        /\ Release(d, Kill(mem[d], "closeT"), Kill(mem[d], "closeF"))
     \/ /\ mem[d].kill = "orphan"
        /\ ReleaseOrphan(d, Kill(mem[d], "closeT"), Kill(mem[d], "closeF"))
  /\ Elsewhere

\* Open logs are sealed if the process tree is gone; who waits for the current execution
\* is told.
DestroyCloses(d) ==
  LET gone == \/ mem[d].kill = "closeT"
              \/ mem[d].kill = "closeN" /\ ~mem[d].orphan /\ tool.proc = "no"
      done == Closed(reg, mem[d].kill = "closeT")
  IN  /\ mem[d].kill \in {"closeT", "closeF", "closeN"}
      /\ \/ reg' = (IF gone THEN Sealed(done) ELSE done) /\ Fine
         \/ gone /\ Unsealed(done) # {} /\ reg' = done /\ Fault
      /\ Set(d, [Tell(Kill(mem[d], "none"), {reg.current}) EXCEPT !.lock = "free"])
      /\ OnlyRegistry

SweepReleases(d) ==
  /\ mem[d].stage = "up"
  /\ \/ mem[d].ctrl = "pending" /\ Release(d, mem[d], mem[d])
     \/ mem[d].orphan /\ ReleaseOrphan(d, mem[d], mem[d])
  /\ Elsewhere

SweepCleans(d) ==
  /\ mem[d].stage = "up" /\ mem[d].dirty
  /\ Cleanup(d, mem[d])
  /\ OnlyRegistry

SweepSeals(d) ==
  /\ mem[d].stage = "up" /\ SafeToSeal(reg)
  /\ reg' = Sealed(reg)
  /\ OnlyRegistry /\ Fine /\ UNCHANGED mem

-----------------------------------------------------------------------------
(* Start, shutdown, crash *)

Reconcile(d) ==
  /\ phase[d] = "owner" /\ Database \in Roots[d] /\ mem[d].stage = "none"
  /\ reg' = Reconciled(reg)
  /\ Set(d, [mem[d] EXCEPT !.stage = "adopt"])
  /\ OnlyRegistry /\ Fine

\* A process that is recorded and alive becomes an orphan, what is left of a dead one is
\* cleaned up, logs without a writer are sealed.
Adopts(d) ==
  LET m == [mem[d] EXCEPT !.stage = "up"]
  IN  /\ mem[d].stage = "adopt"
      /\ \/ reg.owned /\ tool.proc # "no" /\ Set(d, [m EXCEPT !.orphan = TRUE])
            /\ Fine /\ UNCHANGED reg
         \/ reg.owned /\ tool.proc = "no" /\ Cleanup(d, m)
         \/ ~reg.owned /\ reg' = Sealed(reg) /\ Set(d, m) /\ Fine
      /\ OnlyRegistry

Stops(d) ==
  /\ mem[d].stage = "up"
  /\ reg' = IF Controlled(d) THEN RuntimeLost(reg) ELSE reg
  /\ Set(d, [mem[d] EXCEPT !.stage = "stopping"])
  /\ OnlyRegistry /\ Fine

\* Everybody who waits is told, and the executor takes no more work.
StopReleases(d) ==
  /\ mem[d].stage = "stopping"
  /\ LET m == [Tell(mem[d], DOMAIN reg.rows) EXCEPT !.stage = "waiting"]
     IN  IF mem[d].orphan THEN ReleaseOrphan(d, m, m) ELSE Release(d, m, m)
  /\ Elsewhere

\* It waits for the background threads, not for the requests.
StopEnds(d) ==
  /\ mem[d].stage = "waiting" /\ mem[d].job.at = "none"
  /\ BeginClosing(d)
  /\ Set(d, NoMemory)
  /\ UNCHANGED <<reg, log, tool, dispatched, reader>> /\ Fine

Crash(d) ==
  /\ CrashProcess(d)
  /\ Set(d, NoMemory)
  /\ UNCHANGED <<reg, log, tool, dispatched, reader>> /\ Fine

\* Bound: once there is a session, a daemon starts only to serve it, and only if none does.
MayStart(d) == reg.session = "none" \/ (~Served /\ Database \in Roots[d])

LockSteps ==
  /\ \E d \in Daemons : LockStep(d) /\ (phase[d] = "off" => MayStart(d))
  /\ UNCHANGED <<reg, log, mem, tool, dispatched, reader>> /\ Fine

\* A daemon with another registry ends when it likes.
OtherEnds(d) ==
  /\ Database \notin Roots[d] /\ BeginClosing(d)
  /\ UNCHANGED <<reg, log, mem, tool, dispatched, reader>> /\ Fine

-----------------------------------------------------------------------------
(* A client that lists the history *)

ReadsPage(d) ==
  /\ Working(d) /\ reg.rows # <<>> /\ reader.whole
  /\ \E page \in Pages(reader.cursor) :
       reader' = IF HasMore(reader.cursor, page)
                 THEN [reader EXCEPT !.cursor = NextCursor(@, page), !.list = @ \o page]
                 ELSE [NoListing EXCEPT !.whole = reader.list \o page = AllRows]
  /\ UNCHANGED <<lockVars, reg, log, mem, tool, dispatched>> /\ Fine

-----------------------------------------------------------------------------
CallStep(d, c) ==
  \/ Prepares(d, c) \/ SinkFails(d, c) \/ PrepareFails(d, c)
  \/ Marks(d, c) \/ Undoes(d, c) \/ Finishes(d, c) \/ Returns(d, c)
JobStep(d) ==
  \/ Dispatches(d) \/ SummaryComes(d) \/ SummaryOfLoss(d) \/ NoSummary(d) \/ Records(d)
  \/ Discards(d) \/ Releases(d) \/ Completes(d)
MonitorStep(d) == MonitorCalls(d) \/ MonitorMarks(d) \/ MonitorReleases(d)
KillStep(d)  == DestroyReleases(d) \/ DestroyCloses(d)
SweepStep(d) == SweepReleases(d) \/ SweepCleans(d) \/ SweepSeals(d)
StopStep(d)  == StopReleases(d) \/ StopEnds(d)

Next ==
  \/ \E d \in Daemons :
       \/ Publish(d) \/ Destroy(d) \/ ReadsPage(d) \/ Reconcile(d) \/ Adopts(d) \/ Stops(d)
       \/ Crash(d) \/ OtherEnds(d)
       \/ JobStep(d) \/ MonitorStep(d) \/ KillStep(d) \/ SweepStep(d) \/ StopStep(d)
       \/ \E c \in Calls : Execute(d, c) \/ CallStep(d, c)
  \/ LockSteps \/ ToolWrites \/ ToolDies

Spec == Init /\ [][Next]_vars

-----------------------------------------------------------------------------
(* Properties *)

\* The variables have their types (the type invariant of this module, with the locks and
\* the rows, whose CHECKs the database enforces).
TypeOK ==
  /\ LocksTypeOK /\ LogsTypeOK
  /\ mem \in [Daemons -> Memory(0..Len(reg.rows))]
  /\ tool \in [proc : {"no", "ready", "prepared", "running"}, exec : 0..Len(reg.rows)]
  /\ faults \in 0..MaxFaults

\* A request is carried out at most once, whatever fails or restarts and however often it
\* is sent, and is in the history once: in one row, and in one page of a listing.
OnceEach ==
  /\ \A r \in Requests : dispatched[r] <= 1 /\ Cardinality(Existing(r)) <= 1
  /\ reader.whole

\* Nobody waits for nothing: a request that waits has its background thread, which will
\* tell it, and the session lock has a holder that is on its way.
NoneForgotten ==
  \A d \in Daemons : LET m == mem[d] IN
    /\ \A c \in Calls : m.call[c].at = "wait" => m.job.exec = m.call[c].exec
    /\ m.lock \in Calls => m.call[m.lock].at \in {"prepare", "mark", "undo", "finish"}
    /\ m.lock = "kill" => m.kill # "none"
=============================================================================
