------------------------ MODULE InteractiveRegistry ------------------------
(***************************************************************************)
(* The durable state of the interactive daemon (registry_*.py): for every  *)
(* session id the rows of the create request, of the unpublished start-up, *)
(* of the session, its runtime and its executions. An operator is one      *)
(* SQLite transaction; transactions are atomic and survive a crash.        *)
(*                                                                         *)
(* Events, times and the log quota are left out. TIMED_OUT is LOST here,   *)
(* SUCCEEDED and FAILED are DONE: the code treats them alike.              *)
(***************************************************************************)
EXTENDS Naturals

CONSTANTS
  SessionIds,  \* keys of the tables; a create request has its session's id
  MaxExecs     \* bound: executions of one session

VARIABLE db

ExecIds == 1..MaxExecs
Active  == {"QUEUED", "RUNNING"}

Row == [
  create   : {"none", "PENDING", "SUCCEEDED", "FAILED"},
  startup  : {"none", "registered", "attempted", "worker", "tool"},
             \* runtime_startups: spawn_attempted, then the pids it holds
  session  : {"none", "ACTIVE", "CLOSED"},
  runtime  : {"none", "READY", "BUSY", "LOST", "STOPPED"},
  owned    : BOOLEAN,             \* the runtime's process ids are not NULL
  current  : 0..MaxExecs,         \* current_execution_id
  execs    : [ExecIds -> {"none", "QUEUED", "RUNNING", "DONE", "LOST"}],
  unsealed : SUBSET ExecIds]      \* LOST, with full_log_written_bytes NULL

NoRow == [create |-> "none", startup |-> "none", session |-> "none", runtime |-> "none",
          owned |-> FALSE, current |-> 0, execs |-> [k \in ExecIds |-> "none"],
          unsealed |-> {}]

RegistryInit == db = [s \in SessionIds |-> NoRow]

Put(s, row) == db' = [db EXCEPT ![s] = row]

-----------------------------------------------------------------------------
(* Create requests and start-ups *)

BeginCreateRequest(s) ==
  /\ db[s].create = "none"
  /\ Put(s, [db[s] EXCEPT !.create = "PENDING"])

\* A path that cannot be, or as many pending requests as there may be sessions.
RefuseCreateRequest(s) ==
  /\ db[s].create = "none"
  /\ Put(s, [db[s] EXCEPT !.create = "FAILED"])

FailCreateRequest(s) ==
  Put(s, IF db[s].create = "PENDING" THEN [db[s] EXCEPT !.create = "FAILED"] ELSE db[s])

RegisterRuntimeStartup(s) == Put(s, [db[s] EXCEPT !.startup = "registered"])

MarkSpawnAttempted(s) == Put(s, [db[s] EXCEPT !.startup = "attempted"])

\* update_runtime_startup_processes finds no row after clear_runtime_startup.
UpdateStartupProcesses(s, which) ==
  Put(s, IF db[s].startup = "none" THEN db[s] ELSE [db[s] EXCEPT !.startup = which])

ClearRuntimeStartup(s) == Put(s, [db[s] EXCEPT !.startup = "none"])

PublishWorkspaceSession(s) ==
  Put(s, [db[s] EXCEPT !.create = "SUCCEEDED", !.startup = "none", !.session = "ACTIVE",
                       !.runtime = "READY", !.owned = TRUE])

-----------------------------------------------------------------------------
(* Executions *)

\* begin_execution, admitted: all other cases raise and leave the tables alone.
BeginExecution(s, k) ==
  /\ db[s].session = "ACTIVE" /\ db[s].runtime = "READY" /\ db[s].current = 0
  /\ db[s].execs[k] = "none" /\ \A j \in 1..(k - 1) : db[s].execs[j] # "none"
  /\ Put(s, [db[s] EXCEPT !.execs[k] = "QUEUED", !.current = k])

MayRun(s, k) ==
  db[s].execs[k] = "QUEUED" /\ db[s].current = k /\ db[s].runtime = "READY"

MarkExecutionRunning(s, k) ==
  Put(s, [db[s] EXCEPT !.execs[k] = "RUNNING", !.runtime = "BUSY"])

\* Mutant: whoever comes last decides, also after a close or a loss.
CompleteAnyway(s, k, preserved) ==
  Put(s, [db[s] EXCEPT !.execs[k] = IF preserved THEN "DONE" ELSE "LOST",
                       !.runtime  = IF preserved THEN "READY" ELSE "LOST",
                       !.current  = 0])

\* complete_execution: the first terminal state of an execution stays.
CompleteExecution(s, k, preserved) ==
  Put(s, IF db[s].execs[k] \notin Active THEN db[s]
         ELSE [db[s] EXCEPT !.execs[k] = IF preserved THEN "DONE" ELSE "LOST",
                            !.runtime  = IF preserved THEN "READY" ELSE "LOST",
                            !.current  = 0])

\* A row whose current execution, if it is active, is lost with its log open.
WithoutCurrent(row) ==
  IF row.current # 0 /\ row.execs[row.current] \in Active
  THEN [row EXCEPT !.execs[row.current] = "LOST", !.unsealed = @ \cup {row.current},
                   !.current = 0]
  ELSE [row EXCEPT !.current = 0]

SealLostLogs(s) == Put(s, [db[s] EXCEPT !.unsealed = {}])

-----------------------------------------------------------------------------
(* The end of runtimes and sessions *)

\* Mutant: the runtime is lost, its execution is forgotten.
LoseRuntimeOnly(s) ==
  Put(s, IF db[s].runtime \notin {"READY", "BUSY"} THEN db[s]
         ELSE [db[s] EXCEPT !.runtime = "LOST", !.current = 0])

MarkRuntimeLost(s) ==
  Put(s, IF db[s].runtime \notin {"READY", "BUSY"} THEN db[s]
         ELSE [WithoutCurrent(db[s]) EXCEPT !.runtime = "LOST"])

\* mark_runtime_stopped raises for a runtime with an execution, and leaves LOST.
MarkRuntimeStopped(s) ==
  Put(s, IF db[s].runtime = "READY" /\ db[s].current = 0
         THEN [db[s] EXCEPT !.runtime = "STOPPED", !.owned = FALSE] ELSE db[s])

\* Mutant: process ids are forgotten whether or not the processes are gone.
CloseAndForget(s, terminated) ==
  Put(s, [WithoutCurrent(db[s]) EXCEPT !.session = "CLOSED", !.runtime = "STOPPED",
                                       !.owned = FALSE])

CloseWorkspaceSession(s, terminated) ==
  Put(s, [WithoutCurrent(db[s]) EXCEPT !.session = "CLOSED", !.runtime = "STOPPED",
                                       !.owned = @ /\ ~terminated])

\* gc_retention deletes a create request, finalize_session_gc the other rows.
CreateIsGarbage(s) ==
  db[s].create \in {"SUCCEEDED", "FAILED"} /\ db[s].session = "none" /\ db[s].startup = "none"
SessionIsGarbage(s) == db[s].session = "CLOSED" /\ ~db[s].owned

DeleteCreate(s)  == Put(s, NoRow)
DeleteSession(s) == Put(s, [NoRow EXCEPT !.create = db[s].create])

-----------------------------------------------------------------------------
(* A restart *)

\* reconcile_after_restart, in one transaction.
ReconcileTables ==
  db' = [s \in SessionIds |->
    [db[s] EXCEPT
      !.create   = IF @ = "PENDING" THEN "FAILED" ELSE @,
      !.execs    = [k \in ExecIds |-> IF @[k] \in Active THEN "LOST" ELSE @[k]],
      !.unsealed = @ \cup {k \in ExecIds : db[s].execs[k] \in Active},
      !.runtime  = IF @ \in {"READY", "BUSY"} THEN "LOST" ELSE @,
      !.current  = IF db[s].runtime \in {"READY", "BUSY"} THEN 0 ELSE @]]

\* The records it returns: processes that the tables know of.
SurvivorKind(s) ==
  CASE db[s].startup \in {"attempted", "worker"}    -> "unknown"
    [] db[s].startup \in {"registered", "tool"}     -> "request"
    [] db[s].startup = "none" /\ db[s].owned        -> "session"
    [] OTHER                                        -> "none"

\* list_safe_unsealed_lost_sessions
SafeToSeal(s) ==
  db[s].unsealed # {} /\ db[s].runtime \in {"LOST", "STOPPED"} /\ ~db[s].owned
=============================================================================
