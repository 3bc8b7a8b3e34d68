--------------------------- MODULE SessionManager ---------------------------
(***************************************************************************)
(* SessionManager (session.py): the registry of logical sessions over a    *)
(* bounded tool pool. Client threads create, execute in and close          *)
(* sessions, the sweeper closes expired ones, close_all closes every one.  *)
(*                                                                         *)
(* Ids name sessions, objects are Session instances: an id that is closed  *)
(* and created again gets a new object. The pool is abstract: a set of ids *)
(* that hold a lease, at most PoolSize of them, and its close generation.  *)
(***************************************************************************)
EXTENDS Integers, FiniteSets

CONSTANTS
  Ids,          \* session ids
  Objects,      \* Session instances; one that nothing mentions is used again
  Clients,      \* threads of the HTTP server or of an importing program
  Closers,      \* threads that call close_all
  Sweeper,      \* the TTL thread
  NoObject,     \* the None of _sessions.get
  NoId,         \* a thread works on no id
  Nobody,       \* the holder of a free exec_lock
  PoolSize,     \* pool_size
  QueueTimeout, \* whether queue_timeout > 0
  MaxRequests,  \* bound: calls that clients start
  MaxCloses,    \* bound: calls of close_all
  MaxFaults     \* bound: deaths of workers, failed starts and failed mkdirs

Threads == Clients \cup Closers \cup {Sweeper}

ASSUME ManagerAssumption ==
  /\ NoObject \notin Objects /\ NoId \notin Ids
  /\ Nobody \notin Threads
  /\ Sweeper \notin Clients \cup Closers
  /\ Clients \cap Closers = {}
  /\ PoolSize \in Nat \ {0}
  /\ QueueTimeout \in BOOLEAN
  /\ MaxRequests \in Nat /\ MaxCloses \in Nat /\ MaxFaults \in Nat

VARIABLES
  sessions,        \* _sessions: the object registered for an id
  startingIds,     \* _starting_session_ids
  closingIds,      \* _closing_session_ids
  closeGeneration, \* _close_generation
  closingAll,      \* _closing_all
  execLock,        \* exec_lock of an object: the thread that holds it
  expired,         \* objects idle for longer than their ttl
  attempted,       \* objects with innovus_execute_attempted
  hasWorker,       \* objects whose worker_process is a live worker
  dir,             \* working directories: the object an id's directory was made for
  leased,          \* pool: ids with a lease
  poolGeneration,  \* pool: _close_generation
  pc,              \* a thread's step
  on,              \* the object it works on
  name,            \* the id it works on
  seenAll,         \* the manager's _close_generation, as the thread read it
  seenPool,        \* the pool's _close_generation, as the thread read it
  toClose,         \* close_all: the ids it has still to close
  toSweep,         \* _sweep_idle: the candidates it has still to look at
  requests, closes, faults   \* bounds

registryVars == <<sessions, startingIds, closingIds, closeGeneration, closingAll>>
objectVars   == <<execLock, expired, attempted, hasWorker, dir>>
poolVars     == <<leased, poolGeneration>>
locals       == <<on, name, seenAll, seenPool>>
workLists    == <<toClose, toSweep>>
bounds       == <<requests, closes, faults>>
vars == <<registryVars, objectVars, poolVars, pc, locals, workLists, bounds>>

Creating  == {"mkdir", "create_lease", "create_wait", "create_prepare", "publish",
              "undo", "undo_dir", "undo_id"}
Executing == {"check", "exec_lease", "exec_wait", "exec_prepare", "run"}
Filing    == {"files_check", "files"}
Closing   == {"claim", "release", "rmtree", "unclaim"}
Looping   == {"sweep", "sweep_check", "cancel", "loop", "pool_close", "reset"}
Steps     == {"idle", "exec_lock", "files_lock", "close_lock", "unlock"}
               \cup Creating \cup Executing \cup Filing \cup Closing \cup Looping

Registered == {sessions[i] : i \in {j \in Ids : sessions[j] # NoObject}}

\* Objects that no table and no thread mentions: what Session() may return.
FreshObjects ==
  {o \in Objects : /\ o \notin Registered
                   /\ \A t \in Threads : on[t] # o
                   /\ \A i \in Ids : <<i, o>> \notin toSweep}

Init ==
  /\ sessions = [i \in Ids |-> NoObject]
  /\ startingIds = {} /\ closingIds = {}
  /\ closeGeneration = 0 /\ closingAll = FALSE
  /\ execLock = [o \in Objects |-> Nobody]
  /\ expired = {} /\ attempted = {} /\ hasWorker = {}
  /\ dir = [i \in Ids |-> NoObject]
  /\ leased = {} /\ poolGeneration = 0
  /\ pc = [t \in Threads |-> "idle"]
  /\ on = [t \in Threads |-> NoObject]
  /\ name = [t \in Threads |-> NoId]
  /\ seenAll = [t \in Threads |-> 0] /\ seenPool = [t \in Threads |-> 0]
  /\ toClose = [t \in Closers |-> {}] /\ toSweep = {}
  /\ requests = 0 /\ closes = 0 /\ faults = 0

-----------------------------------------------------------------------------
At(t, step)   == pc[t] = step
Goto(t, step) == pc' = [pc EXCEPT ![t] = step]

\* A call returns: the thread forgets what it worked on.
Home(t) == IF t \in Clients THEN "idle" ELSE IF t = Sweeper THEN "sweep" ELSE "loop"
Leave(t) ==
  /\ Goto(t, Home(t))
  /\ on' = [on EXCEPT ![t] = NoObject]
  /\ name' = [name EXCEPT ![t] = NoId]
  /\ seenAll' = [seenAll EXCEPT ![t] = 0]
  /\ seenPool' = [seenPool EXCEPT ![t] = 0]

\* The thread works on object o of id i.
Takes(t, i, o) == on' = [on EXCEPT ![t] = o] /\ name' = [name EXCEPT ![t] = i]

IsRegistered(t) == sessions[name[t]] = on[t]
Request == requests < MaxRequests /\ requests' = requests + 1 /\ UNCHANGED <<closes, faults>>
Fault   == faults < MaxFaults /\ faults' = faults + 1 /\ UNCHANGED <<requests, closes>>

-----------------------------------------------------------------------------
(* create_session *)

\* Mutant: an id is free again while its session is still being released.
IdTakenUnlessClosing(i) == sessions[i] # NoObject \/ i \in startingIds


IdTaken(i) == sessions[i] # NoObject \/ i \in startingIds \cup closingIds

\* The new object's exec_lock, held during the lease, is known to no other thread.
CreateSession(t, i) ==
  /\ At(t, "idle")
  /\ Request
  /\ ~closingAll /\ ~IdTaken(i)
  /\ startingIds' = startingIds \cup {i}
  /\ seenAll' = [seenAll EXCEPT ![t] = closeGeneration]
  /\ \E o \in FreshObjects : Takes(t, i, o)
  /\ Goto(t, "mkdir")
  /\ UNCHANGED <<sessions, closingIds, closeGeneration, closingAll, objectVars, poolVars,
                 seenPool, workLists>>

MakeDir(t) ==
  /\ At(t, "mkdir")
  /\ dir' = [dir EXCEPT ![name[t]] = on[t]]
  /\ expired' = expired \ {on[t]}
  /\ attempted' = attempted \ {on[t]}
  /\ Goto(t, "create_lease")
  /\ UNCHANGED <<registryVars, execLock, hasWorker, poolVars, locals, workLists, bounds>>

\* No directory, no Session object: only the path and the id are cleaned up.
MakeDirFails(t) ==
  /\ At(t, "mkdir")
  /\ Fault
  /\ Goto(t, "undo_dir")
  /\ UNCHANGED <<registryVars, objectVars, poolVars, locals, workLists>>

\* Mutant: no look at the generation, a close_all that came and went is missed.
PublishUnfenced(t) ==
  /\ At(t, "publish")
  /\ IF closingAll
     THEN Goto(t, "undo") /\ UNCHANGED <<sessions, startingIds, locals>>
     ELSE /\ startingIds' = startingIds \ {name[t]}
          /\ sessions' = [sessions EXCEPT ![name[t]] = on[t]]
          /\ Leave(t)
  /\ UNCHANGED <<closingIds, closeGeneration, closingAll, objectVars, poolVars, workLists, bounds>>


Publish(t) ==
  /\ At(t, "publish")
  /\ IF closingAll \/ closeGeneration # seenAll[t]
     THEN Goto(t, "undo") /\ UNCHANGED <<sessions, startingIds, locals>>
     ELSE /\ startingIds' = startingIds \ {name[t]}
          /\ sessions' = [sessions EXCEPT ![name[t]] = on[t]]
          /\ Leave(t)
  /\ UNCHANGED <<closingIds, closeGeneration, closingAll, objectVars, poolVars, workLists, bounds>>

\* The except clause: discard the lease, remove the directory, free the id.
UndoLease(t) ==
  /\ At(t, "undo")
  /\ leased' = leased \ {name[t]}
  /\ hasWorker' = hasWorker \ {on[t]}
  /\ Goto(t, "undo_dir")
  /\ UNCHANGED <<registryVars, execLock, expired, attempted, dir, poolGeneration, locals, workLists, bounds>>

UndoDir(t) ==
  /\ At(t, "undo_dir")
  /\ dir' = [dir EXCEPT ![name[t]] = NoObject]
  /\ Goto(t, "undo_id")
  /\ UNCHANGED <<registryVars, execLock, expired, attempted, hasWorker, poolVars, locals, workLists, bounds>>

UndoId(t) ==
  /\ At(t, "undo_id")
  /\ startingIds' = startingIds \ {name[t]}
  /\ Leave(t)
  /\ UNCHANGED <<sessions, closingIds, closeGeneration, closingAll, objectVars, poolVars,
                 workLists, bounds>>

-----------------------------------------------------------------------------
(* The pool's lease, in a call of create_session or of execute *)

LeaseStep(t, creating, executing, toCreating, toExecuting) ==
  \/ At(t, creating)  /\ Goto(t, toCreating)
  \/ At(t, executing) /\ Goto(t, toExecuting)

LeaseBegins(t) ==
  /\ LeaseStep(t, "create_lease", "exec_lease", "create_wait", "exec_wait")
  /\ seenPool' = [seenPool EXCEPT ![t] = poolGeneration]
  /\ UNCHANGED <<registryVars, objectVars, poolVars, on, name, seenAll, workLists, bounds>>

\* A worker is reserved, idle or newly started; prepare_session is still to come.
LeaseGranted(t) ==
  /\ LeaseStep(t, "create_wait", "exec_wait", "create_prepare", "exec_prepare")
  /\ seenPool[t] = poolGeneration
  /\ Cardinality(leased) < PoolSize
  /\ leased' = leased \cup {name[t]}
  /\ UNCHANGED <<registryVars, objectVars, poolGeneration, locals, workLists, bounds>>

\* Cancelled by a close, or out of time (the slots may be taken by workers that
\* are only starting), or the start of a worker failed.
LeaseFails(t) ==
  /\ LeaseStep(t, "create_wait", "exec_wait", "undo", "unlock")
  /\ \/ seenPool[t] # poolGeneration /\ UNCHANGED bounds
     \/ QueueTimeout /\ UNCHANGED bounds
     \/ Fault
  /\ UNCHANGED <<registryVars, objectVars, poolVars, locals, workLists>>

LeaseReturns(t) ==
  /\ seenPool[t] = poolGeneration
  /\ LeaseStep(t, "create_prepare", "exec_prepare", "publish", "run")
  /\ hasWorker' = hasWorker \cup {on[t]}
  /\ UNCHANGED <<registryVars, execLock, expired, attempted, dir, poolVars, locals, workLists, bounds>>

\* prepare_session fails, or a close came between: the pool takes the worker back.
PrepareFails(t) ==
  /\ LeaseStep(t, "create_prepare", "exec_prepare", "undo", "unlock")
  /\ \/ seenPool[t] # poolGeneration /\ UNCHANGED bounds
     \/ Fault
  /\ leased' = leased \ {name[t]}
  /\ UNCHANGED <<registryVars, objectVars, poolGeneration, locals, workLists>>

-----------------------------------------------------------------------------
(* execute_in_session, locked_session and close_session: the lock *)

\* Mutant: the lookup's None is not turned into SessionNotFoundError.
LookUpUnchecked(t, i, step) ==
  /\ At(t, "idle") /\ t \in Clients
  /\ Request
  /\ Takes(t, i, sessions[i])
  /\ Goto(t, step)
  /\ UNCHANGED <<registryVars, objectVars, poolVars, seenAll, seenPool, workLists>>

\* The lookup without the lock: the object may be closed before it is locked.
LookUp(t, i, step) ==
  /\ At(t, "idle") /\ t \in Clients
  /\ Request
  /\ sessions[i] # NoObject
  /\ Takes(t, i, sessions[i])
  /\ Goto(t, step)
  /\ UNCHANGED <<registryVars, objectVars, poolVars, seenAll, seenPool, workLists>>

Execute(t, i)      == LookUp(t, i, "exec_lock")
UseFiles(t, i)     == LookUp(t, i, "files_lock")
CloseSession(t, i) == LookUp(t, i, "close_lock")

Lock(t) ==
  /\ pc[t] \in {"exec_lock", "files_lock", "close_lock"} /\ execLock[on[t]] = Nobody
  /\ \/ At(t, "exec_lock")  /\ Goto(t, "check")
     \/ At(t, "files_lock") /\ Goto(t, "files_check")
     \/ At(t, "close_lock") /\ Goto(t, "claim")
  /\ execLock' = [execLock EXCEPT ![on[t]] = t]
  /\ UNCHANGED <<registryVars, expired, attempted, hasWorker, dir, poolVars, locals,
                 workLists, bounds>>

Unlock(t) ==
  /\ At(t, "unlock")
  /\ execLock' = [execLock EXCEPT ![on[t]] = Nobody]
  /\ Leave(t)
  /\ UNCHANGED <<registryVars, expired, attempted, hasWorker, dir, poolVars, workLists,
                 bounds>>

\* last_active = now, as _touch_session does it: only for a registered object.
Touch(t) == expired' = IF IsRegistered(t) THEN expired \ {on[t]} ELSE expired

\* pool.discard and clear_worker
DropLease(t) ==
  /\ leased' = leased \ {name[t]}
  /\ hasWorker' = hasWorker \ {on[t]}

KeepLease == UNCHANGED <<leased, hasWorker>>

-----------------------------------------------------------------------------
(* The execute of the pooled adapters, and locked_session *)

\* Mutant: the registry is not looked at again under the lock.
ExecUnchecked(t) ==
  /\ At(t, "check")
  /\ IF on[t] \in hasWorker THEN Goto(t, "run") /\ KeepLease
                            ELSE Goto(t, "exec_lease") /\ DropLease(t)
  /\ UNCHANGED <<registryVars, execLock, expired, attempted, dir, poolGeneration, locals,
                 workLists, bounds>>


ExecCheck(t) ==
  /\ At(t, "check")
  /\ \/ /\ ~IsRegistered(t)
        /\ Goto(t, "unlock") /\ KeepLease
     \/ /\ IsRegistered(t) /\ on[t] \in hasWorker
        /\ Goto(t, "run") /\ KeepLease
     \/ /\ IsRegistered(t) /\ on[t] \notin hasWorker
        /\ Goto(t, "exec_lease") /\ DropLease(t)
  /\ UNCHANGED <<registryVars, execLock, expired, attempted, dir, poolGeneration, locals,
                 workLists, bounds>>

Run(t) ==
  /\ At(t, "run") /\ on[t] \in hasWorker
  /\ attempted' = attempted \cup {on[t]}
  /\ Touch(t)
  /\ Goto(t, "unlock")
  /\ UNCHANGED <<registryVars, execLock, hasWorker, dir, poolVars, locals, workLists, bounds>>

\* The worker dies or times out: the lease is dropped. The first execute of a
\* session whose worker an incomplete reset left suspect gets a new worker once.
RunFails(t) ==
  /\ At(t, "run")
  /\ \/ on[t] \notin hasWorker /\ UNCHANGED bounds
     \/ on[t] \in hasWorker /\ Fault
  /\ attempted' = attempted \cup {on[t]}
  /\ DropLease(t)
  /\ \/ Goto(t, "unlock") /\ Touch(t)
     \/ on[t] \notin attempted /\ Goto(t, "exec_lease") /\ UNCHANGED expired
  /\ UNCHANGED <<registryVars, execLock, dir, poolGeneration, locals, workLists>>

\* Mutant: a session that is gone raises without freeing the lock.
FilesKeepLock(t) ==
  /\ At(t, "files_check")
  /\ IF IsRegistered(t) THEN Goto(t, "files") /\ UNCHANGED locals ELSE Leave(t)
  /\ Touch(t)
  /\ UNCHANGED <<registryVars, execLock, attempted, hasWorker, dir, poolVars, workLists, bounds>>


FilesCheck(t) ==
  /\ At(t, "files_check")
  /\ Goto(t, IF IsRegistered(t) THEN "files" ELSE "unlock")
  /\ Touch(t)
  /\ UNCHANGED <<registryVars, execLock, attempted, hasWorker, dir, poolVars, locals,
                 workLists, bounds>>

FilesDone(t) ==
  /\ At(t, "files")
  /\ Goto(t, "unlock")
  /\ UNCHANGED <<registryVars, objectVars, poolVars, locals, workLists, bounds>>

-----------------------------------------------------------------------------
(* _claim_session_for_close and _close_claimed_session *)

Claim(t) ==
  /\ At(t, "claim")
  /\ IF IsRegistered(t)
     THEN /\ sessions' = [sessions EXCEPT ![name[t]] = NoObject]
          /\ closingIds' = closingIds \cup {name[t]}
          /\ Goto(t, "release")
     ELSE Goto(t, "unlock") /\ UNCHANGED <<sessions, closingIds>>
  /\ UNCHANGED <<startingIds, closeGeneration, closingAll, objectVars, poolVars, locals,
                 workLists, bounds>>

ReleaseLease(t) ==
  /\ At(t, "release")
  /\ DropLease(t)
  /\ Goto(t, "rmtree")
  /\ UNCHANGED <<registryVars, execLock, expired, attempted, dir, poolGeneration, locals,
                 workLists, bounds>>

RemoveTree(t) ==
  /\ At(t, "rmtree")
  /\ dir' = [dir EXCEPT ![name[t]] = NoObject]
  /\ Goto(t, "unclaim")
  /\ UNCHANGED <<registryVars, execLock, expired, attempted, hasWorker, poolVars, locals,
                 workLists, bounds>>

Unclaim(t) ==
  /\ At(t, "unclaim")
  /\ closingIds' = closingIds \ {name[t]}
  /\ Goto(t, "unlock")
  /\ UNCHANGED <<sessions, startingIds, closeGeneration, closingAll, objectVars, poolVars,
                 locals, workLists, bounds>>

-----------------------------------------------------------------------------
(* _sweep_idle *)

SweepBegins ==
  /\ At(Sweeper, "idle")
  /\ toSweep' = {<<i, sessions[i]>> : i \in {j \in Ids : sessions[j] # NoObject}}
  /\ toSweep' # {}    \* an empty sweep changes nothing
  /\ Goto(Sweeper, "sweep")
  /\ UNCHANGED <<registryVars, objectVars, poolVars, locals, toClose, bounds>>

\* The lock is only tried: a session in use is left for the next sweep.
SweepNext ==
  /\ At(Sweeper, "sweep")
  /\ \E c \in toSweep :
       /\ toSweep' = toSweep \ {c}
       /\ IF execLock[c[2]] = Nobody
          THEN /\ execLock' = [execLock EXCEPT ![c[2]] = Sweeper]
               /\ Takes(Sweeper, c[1], c[2])
               /\ Goto(Sweeper, "sweep_check")
          ELSE UNCHANGED <<execLock, on, name, pc>>
  /\ UNCHANGED <<registryVars, expired, attempted, hasWorker, dir, poolVars, seenAll,
                 seenPool, toClose, bounds>>

\* Mutants: the ttl is not looked at under the lock; a session that is not
\* expired is passed over without freeing its lock.
SweepUnchecked ==
  /\ At(Sweeper, "sweep_check")
  /\ Goto(Sweeper, IF IsRegistered(Sweeper) THEN "claim" ELSE "unlock")
  /\ UNCHANGED <<registryVars, objectVars, poolVars, locals, workLists, bounds>>

SweepKeepsLock ==
  /\ At(Sweeper, "sweep_check")
  /\ IF IsRegistered(Sweeper) /\ on[Sweeper] \in expired
     THEN Goto(Sweeper, "claim") /\ UNCHANGED locals
     ELSE Leave(Sweeper)
  /\ UNCHANGED <<registryVars, objectVars, poolVars, workLists, bounds>>

SweepCheck ==
  /\ At(Sweeper, "sweep_check")
  /\ Goto(Sweeper, IF IsRegistered(Sweeper) /\ on[Sweeper] \in expired
                   THEN "claim" ELSE "unlock")
  /\ UNCHANGED <<registryVars, objectVars, poolVars, locals, workLists, bounds>>

SweepEnds ==
  /\ At(Sweeper, "sweep") /\ toSweep = {}
  /\ Goto(Sweeper, "idle")
  /\ UNCHANGED <<registryVars, objectVars, poolVars, locals, workLists, bounds>>

-----------------------------------------------------------------------------
(* close_all *)

\* Mutant: creations are not refused while the list is worked off.
CloseAllOpen(t) ==
  /\ At(t, "idle")
  /\ closes < MaxCloses /\ closes' = closes + 1
  /\ closeGeneration' = closeGeneration + 1
  /\ toClose' = [toClose EXCEPT ![t] = {i \in Ids : sessions[i] # NoObject}]
  /\ Goto(t, "cancel")
  /\ UNCHANGED <<sessions, startingIds, closingIds, closingAll, objectVars, poolVars, locals,
                 toSweep, requests, faults>>


CloseAllBegins(t) ==
  /\ At(t, "idle")
  /\ closes < MaxCloses /\ closes' = closes + 1
  /\ closingAll' = TRUE
  /\ closeGeneration' = closeGeneration + 1
  /\ toClose' = [toClose EXCEPT ![t] = {i \in Ids : sessions[i] # NoObject}]
  /\ Goto(t, "cancel")
  /\ UNCHANGED <<sessions, startingIds, closingIds, objectVars, poolVars, locals, toSweep,
                 requests, faults>>

CancelPendingLeases(t) ==
  /\ At(t, "cancel")
  /\ poolGeneration' = poolGeneration + 1
  /\ Goto(t, "loop")
  /\ UNCHANGED <<registryVars, objectVars, leased, locals, workLists, bounds>>

\* close_session for the next id; one that is gone is passed over.
CloseNext(t) ==
  /\ At(t, "loop")
  /\ \E i \in toClose[t] :
       /\ toClose' = [toClose EXCEPT ![t] = @ \ {i}]
       /\ IF sessions[i] = NoObject
          THEN UNCHANGED <<on, name, pc>>
          ELSE Takes(t, i, sessions[i]) /\ Goto(t, "close_lock")
  /\ UNCHANGED <<registryVars, objectVars, poolVars, seenAll, seenPool, toSweep, bounds>>

LoopEnds(t) ==
  /\ At(t, "loop") /\ toClose[t] = {}
  /\ Goto(t, "pool_close")
  /\ UNCHANGED <<registryVars, objectVars, poolVars, locals, workLists, bounds>>

PoolCloseAll(t) ==
  /\ At(t, "pool_close")
  /\ poolGeneration' = poolGeneration + 1
  /\ leased' = {} /\ hasWorker' = {}
  /\ Goto(t, "reset")
  /\ UNCHANGED <<registryVars, execLock, expired, attempted, dir, locals, workLists, bounds>>

CloseAllEnds(t) ==
  /\ At(t, "reset")
  /\ closingAll' = FALSE
  /\ Goto(t, "idle")
  /\ UNCHANGED <<sessions, startingIds, closingIds, closeGeneration, objectVars, poolVars,
                 locals, workLists, bounds>>

-----------------------------------------------------------------------------
(* The environment *)

\* An object, also one that is still being created, has been idle for its ttl.
TimePasses ==
  /\ \E o \in Objects \ expired :
       /\ o \in Registered \/ \E t \in Clients : on[t] = o /\ pc[t] \in Creating \ {"mkdir"}
       /\ expired' = expired \cup {o}
  /\ UNCHANGED <<registryVars, execLock, attempted, hasWorker, dir, poolVars, pc, locals,
                 workLists, bounds>>

WorkerDies ==
  /\ Fault
  /\ \E o \in hasWorker : hasWorker' = hasWorker \ {o}
  /\ UNCHANGED <<registryVars, execLock, expired, attempted, dir, poolVars, pc, locals,
                 workLists>>

-----------------------------------------------------------------------------
\* The steps a thread takes inside a call; the scheduler runs every thread.
Step(t) ==
  \/ MakeDir(t) \/ MakeDirFails(t) \/ Publish(t) \/ UndoLease(t) \/ UndoDir(t) \/ UndoId(t)
  \/ LeaseBegins(t) \/ LeaseGranted(t) \/ LeaseFails(t) \/ LeaseReturns(t)
  \/ PrepareFails(t)
  \/ Lock(t) \/ Unlock(t)
  \/ ExecCheck(t) \/ Run(t) \/ RunFails(t) \/ FilesCheck(t) \/ FilesDone(t)
  \/ Claim(t) \/ ReleaseLease(t) \/ RemoveTree(t) \/ Unclaim(t)

Sweep == SweepBegins \/ SweepNext \/ SweepCheck \/ SweepEnds

CloseAllStep(t) ==
  CancelPendingLeases(t) \/ CloseNext(t) \/ LoopEnds(t) \/ PoolCloseAll(t) \/ CloseAllEnds(t)

Call(t, i) == CreateSession(t, i) \/ Execute(t, i) \/ UseFiles(t, i) \/ CloseSession(t, i)

Next ==
  \/ \E t \in Clients, i \in Ids : Call(t, i)
  \/ \E t \in Threads : Step(t)
  \/ Sweep
  \/ \E t \in Closers : CloseAllBegins(t) \/ CloseAllStep(t)
  \/ TimePasses \/ WorkerDies

Spec == Init /\ [][Next]_vars

\* Threads run and the ttl loop wakes up again. Strong fairness for the lock: the
\* sweep frees every exec_lock it took and then sleeps for at least five seconds.
\* No fairness for calls, for deaths of workers or for the passing of time.
Fairness ==
  /\ \A t \in Threads : WF_vars(Step(t))
  /\ \A t \in Clients \cup Closers : SF_vars(Lock(t))
  /\ WF_vars(Sweep)
  /\ \A t \in Closers : WF_vars(CloseAllStep(t))

FairSpec == Spec /\ Fairness

-----------------------------------------------------------------------------
(* Properties *)

\* Every variable keeps its shape, and a thread inside a call works on an object
\* of an id.
TypeOK ==
  /\ sessions \in [Ids -> Objects \cup {NoObject}]
  /\ startingIds \subseteq Ids /\ closingIds \subseteq Ids
  /\ closeGeneration \in Nat /\ closingAll \in BOOLEAN
  /\ execLock \in [Objects -> Threads \cup {Nobody}]
  /\ expired \subseteq Objects /\ attempted \subseteq Objects /\ hasWorker \subseteq Objects
  /\ dir \in [Ids -> Objects \cup {NoObject}]
  /\ leased \subseteq Ids /\ poolGeneration \in Nat
  /\ pc \in [Threads -> Steps]
  /\ on \in [Threads -> Objects \cup {NoObject}]
  /\ name \in [Threads -> Ids \cup {NoId}]
  /\ \A t \in Threads : pc[t] \notin {"idle"} \cup (Looping \ {"sweep_check"}) =>
                          on[t] \in Objects /\ name[t] \in Ids
  /\ seenAll \in [Threads -> Nat] /\ seenPool \in [Threads -> Nat]
  /\ toClose \in [Closers -> SUBSET Ids] /\ toSweep \subseteq Ids \X Objects
  /\ requests \in Nat /\ closes \in Nat /\ faults \in Nat

\* Steps that work on the pool's lease of the thread's id.
PoolSteps == (Creating \ {"mkdir", "undo_dir", "undo_id"}) \cup (Executing \ {"check"})
               \cup {"release"}

\* Two threads never work on the pool's lease of the same id at once: what the
\* pool takes for granted, since its own lock does not order a lease, an
\* execute and a release of one id.
PoolCallsExclusive ==
  \A t, u \in Threads :
    t # u /\ pc[t] \in PoolSteps /\ pc[u] \in PoolSteps => name[t] # name[u]

\* A lease belongs to a session that is registered, being created or being
\* closed: no path of create, close or sweep leaks a slot of the pool.
LeaseAccounted ==
  leased \subseteq {i \in Ids : sessions[i] # NoObject} \cup startingIds \cup closingIds

\* Only the failure of a worker or of a start can take the lease of a
\* registered session: a creation that close_all has overtaken is not registered.
RegisteredHasLease ==
  faults = 0 => \A i \in Ids : sessions[i] # NoObject => i \in leased

\* The registry and the pool agree on who holds a slot.
LeasesMatch == LeaseAccounted /\ RegisteredHasLease

\* A registered session's directory is its own: the removal of an earlier
\* session of the same id never reaches it.
SessionKeepsDir ==
  \A i \in Ids : sessions[i] # NoObject => dir[i] = sessions[i]

\* While a call runs code or touches files under the lock, its session stays
\* the registered one: neither close nor the sweep pulls it away.
UsedIsRegistered ==
  \A t \in Threads :
    pc[t] \in (Executing \ {"check"}) \cup {"files"} => sessions[name[t]] = on[t]

\* No close, sweep or creation under the same id takes a session's directory or its place
\* in the registry away from a call that uses it.
SessionIntact == SessionKeepsDir /\ UsedIsRegistered

\* The sweep only closes a session that is expired and registered under its
\* lock: a request between the snapshot and the lock keeps the session.
SweepsExpired ==
  pc[Sweeper] \in {"claim", "release"} => on[Sweeper] \in expired

\* When close_all has gone through its list, no session is registered, whatever
\* was being created when it began.
AllClosed ==
  \A t \in Closers :
    pc[t] \in {"pool_close", "reset"} => \A i \in Ids : sessions[i] = NoObject

\* Every call of a client and every close_all returns.
CallsReturn == \A t \in Clients \cup Closers : []<>(pc[t] = "idle")

\* An expired session is closed or used again.
ExpiredIsSwept ==
  \A o \in Objects : (o \in expired \cap Registered) ~> (o \notin expired \cap Registered)
=============================================================================
