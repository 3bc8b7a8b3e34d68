----------------------- MODULE SessionManager_proofs -----------------------
(***************************************************************************)
(* Theorems about SessionManager, for every set of ids, objects, clients   *)
(* and closing threads, every pool size and every number of calls, closes  *)
(* and faults.                                                             *)
(***************************************************************************)
EXTENDS SessionManager, TLAPS

(* The parts of the inductive invariant *)

Claimed   == {"release", "rmtree", "unclaim"}
Placed    == {"create_lease", "create_wait", "create_prepare", "publish"}
Using     == (Executing \ {"check"}) \cup {"files"}
Locking   == Executing \cup Filing \cup Closing \cup {"sweep_check", "unlock"}
InTransit == Creating \cup Claimed

\* Clients, the sweeper and close_all take their own steps.
Roles ==
  /\ \A t \in Clients : pc[t] \notin Looping
  /\ pc[Sweeper] \in {"idle", "sweep", "sweep_check", "unlock"} \cup Closing
  /\ \A t \in Closers : pc[t] \in {"idle", "cancel", "loop", "pool_close", "reset", "close_lock",
                                   "unlock"} \cup Closing

\* An id that is being created or closed has one thread for it, and no session.
TransitInv ==
  /\ \A t \in Threads : pc[t] \in Creating => name[t] \in startingIds
  /\ \A t \in Threads : pc[t] \in Claimed => name[t] \in closingIds
  /\ \A t, u \in Threads :
       t # u /\ pc[t] \in InTransit /\ pc[u] \in InTransit => name[t] # name[u]
  /\ startingIds \cap closingIds = {}
  /\ \A i \in startingIds \cup closingIds : sessions[i] = NoObject

\* Past the lock a thread has it, and while it uses a session that is the registered one.
LockInv ==
  /\ \A t \in Threads : pc[t] \in Locking => execLock[on[t]] = t
  /\ \A t \in Threads : pc[t] \in Using => sessions[name[t]] = on[t]

\* A new object is known to its creator only; one that is being closed is in no table; one
\* that is registered is so under one id.
PrivateInv ==
  \A t \in Threads : pc[t] \in Creating =>
    /\ \A i \in Ids : sessions[i] # on[t] /\ <<i, on[t]>> \notin toSweep
    /\ \A u \in Threads : u # t => on[u] # on[t]

SingleInv == \A i, j \in Ids : sessions[i] = sessions[j] /\ i # j => sessions[i] = NoObject

DetachedInv ==
  \A t \in Threads : pc[t] \in Claimed => \A i \in Ids : sessions[i] # on[t]

DirInv ==
  /\ SessionKeepsDir
  /\ \A t \in Threads : pc[t] \in Placed => dir[name[t]] = on[t]

\* An id that is free, or about to be, has no lease.
LeaseInv ==
  /\ LeaseAccounted
  /\ \A t \in Threads :
       pc[t] \in {"mkdir", "undo_dir", "undo_id", "rmtree", "unclaim"} => name[t] \notin leased

\* What a close_all has still to close is on its list, or in its hands.
ListInv ==
  \A t \in Closers :
    /\ pc[t] # "idle" =>
         /\ closingAll
         /\ \A i \in Ids : sessions[i] # NoObject =>
              \/ i \in toClose[t]
              \/ pc[t] \in {"close_lock", "claim"} /\ name[t] = i /\ on[t] = sessions[i]
    /\ pc[t] \in {"pool_close", "reset"} => toClose[t] = {}

\* As long as nothing failed a session has its worker, and a creation that no close_all has
\* overtaken gets one.
FaultlessInv ==
  faults = 0 =>
    /\ \A i \in Ids : sessions[i] # NoObject => i \in leased /\ sessions[i] \in hasWorker
    /\ \A t \in Threads : pc[t] \notin {"exec_lease", "exec_wait", "exec_prepare"}
    /\ \A t \in Threads :
         seenAll[t] = closeGeneration =>
           /\ pc[t] \in {"create_prepare", "publish"} => name[t] \in leased
           /\ pc[t] = "publish" => on[t] \in hasWorker

GenerationInv ==
  \A t \in Threads : pc[t] \in Creating =>
    /\ seenAll[t] <= closeGeneration
    /\ seenAll[t] = closeGeneration => ~closingAll

-----------------------------------------------------------------------------
(* The steps of a thread inside a call, by what they are about *)

CreationStep(t) ==
  MakeDir(t) \/ MakeDirFails(t) \/ Publish(t) \/ UndoLease(t) \/ UndoDir(t) \/ UndoId(t)
LeasingStep(t) ==
  LeaseBegins(t) \/ LeaseGranted(t) \/ LeaseFails(t) \/ LeaseReturns(t) \/ PrepareFails(t)
UsingStep(t) ==
  \/ Lock(t) \/ Unlock(t) \/ ExecCheck(t) \/ Run(t) \/ RunFails(t) \/ FilesCheck(t)
  \/ FilesDone(t)
ClosingStep(t) == Claim(t) \/ ReleaseLease(t) \/ RemoveTree(t) \/ Unclaim(t)

\* What the leaves below need of the helpers: how a thread moves and what stays.
USE ManagerAssumption
USE DEF Threads, At, Goto, Leave, Takes, Home, Request, Fault,
        registryVars, objectVars, poolVars, locals, workLists, bounds

-----------------------------------------------------------------------------
(* Every step keeps every part *)

\* Every step keeps the types.
LEMMA TypeStep ==
  ASSUME TypeOK, [Next]_vars
  PROVE  TypeOK'
<1>. USE DEF TypeOK, Steps, Creating, Executing, Filing, Closing, Looping
<1>1. ASSUME NEW t \in Clients, NEW i \in Ids, Call(t, i) PROVE TypeOK'
  BY <1>1 DEF Call, CreateSession, Execute, UseFiles, CloseSession, LookUp, IdTaken,
              FreshObjects, Registered
<1>2. ASSUME NEW t \in Threads, CreationStep(t) PROVE TypeOK'
  BY <1>2 DEF CreationStep, MakeDir, MakeDirFails, Publish, UndoLease, UndoDir, UndoId
<1>3. ASSUME NEW t \in Threads, LeasingStep(t) PROVE TypeOK'
  BY <1>3 DEF LeasingStep, LeaseBegins, LeaseGranted, LeaseFails, LeaseReturns, PrepareFails,
              LeaseStep
<1>4. ASSUME NEW t \in Threads, UsingStep(t) PROVE TypeOK'
  BY <1>4 DEF UsingStep, Lock, Unlock, ExecCheck, Run, RunFails, FilesCheck, FilesDone,
              IsRegistered, Touch, DropLease, KeepLease
<1>5. ASSUME NEW t \in Threads, ClosingStep(t) PROVE TypeOK'
  BY <1>5 DEF ClosingStep, Claim, ReleaseLease, RemoveTree, Unclaim, IsRegistered, DropLease
<1>6. ASSUME Sweep PROVE TypeOK'
  BY <1>6 DEF Sweep, SweepBegins, SweepNext, SweepCheck, SweepEnds, IsRegistered
<1>7. ASSUME NEW t \in Closers, CloseAllBegins(t) \/ CloseAllStep(t) PROVE TypeOK'
  <2>1. CASE CloseAllBegins(t)
    BY <2>1 DEF CloseAllBegins
  <2>2. CASE CloseNext(t)
    <3>1. toClose' \in [Closers -> SUBSET Ids]
      BY <2>2 DEF CloseNext
    <3>. QED BY <2>2, <3>1 DEF CloseNext
  <2>3. CASE CancelPendingLeases(t) \/ LoopEnds(t)
    BY <2>3 DEF CancelPendingLeases, LoopEnds
  <2>4. CASE PoolCloseAll(t)
    BY <2>4 DEF PoolCloseAll
  <2>5. CASE CloseAllEnds(t)
    BY <2>5 DEF CloseAllEnds
  <2>. QED BY <1>7, <2>1, <2>2, <2>3, <2>4, <2>5 DEF CloseAllStep
<1>8. ASSUME TimePasses \/ WorkerDies \/ UNCHANGED vars PROVE TypeOK'
  BY <1>8 DEF TimePasses, WorkerDies, vars, Registered
<1>. QED BY <1>1, <1>2, <1>3, <1>4, <1>5, <1>6, <1>7, <1>8
         DEF Next, Step, CreationStep, LeasingStep, UsingStep, ClosingStep

\* Every thread keeps to its own steps.
LEMMA RolesStep ==
  ASSUME TypeOK, Roles, [Next]_vars
  PROVE  Roles'
<1>. USE DEF TypeOK, Roles, Steps, Creating, Executing, Filing, Closing, Looping
<1>1. ASSUME NEW t \in Clients, NEW i \in Ids, Call(t, i) PROVE Roles'
  BY <1>1 DEF Call, CreateSession, Execute, UseFiles, CloseSession, LookUp, IdTaken,
              FreshObjects, Registered
<1>2. ASSUME NEW t \in Threads, CreationStep(t) PROVE Roles'
  BY <1>2 DEF CreationStep, MakeDir, MakeDirFails, Publish, UndoLease, UndoDir, UndoId
<1>3. ASSUME NEW t \in Threads, LeasingStep(t) PROVE Roles'
  BY <1>3 DEF LeasingStep, LeaseBegins, LeaseGranted, LeaseFails, LeaseReturns, PrepareFails,
              LeaseStep
<1>4. ASSUME NEW t \in Threads, UsingStep(t) PROVE Roles'
  BY <1>4 DEF UsingStep, Lock, Unlock, ExecCheck, Run, RunFails, FilesCheck, FilesDone,
              IsRegistered, Touch, DropLease, KeepLease
<1>5. ASSUME NEW t \in Threads, ClosingStep(t) PROVE Roles'
  BY <1>5 DEF ClosingStep, Claim, ReleaseLease, RemoveTree, Unclaim, IsRegistered, DropLease
<1>6. ASSUME Sweep PROVE Roles'
  BY <1>6 DEF Sweep, SweepBegins, SweepNext, SweepCheck, SweepEnds, IsRegistered
<1>7. ASSUME NEW t \in Closers, CloseAllBegins(t) \/ CloseAllStep(t) PROVE Roles'
  BY <1>7 DEF CloseAllBegins, CloseAllStep, CancelPendingLeases, CloseNext, LoopEnds,
              PoolCloseAll, CloseAllEnds
<1>8. ASSUME TimePasses \/ WorkerDies \/ UNCHANGED vars PROVE Roles'
  BY <1>8 DEF TimePasses, WorkerDies, vars, Registered
<1>. QED BY <1>1, <1>2, <1>3, <1>4, <1>5, <1>6, <1>7, <1>8
         DEF Next, Step, CreationStep, LeasingStep, UsingStep, ClosingStep

\* Every step keeps ids in transit apart.
LEMMA TransitStep ==
  ASSUME TypeOK, TransitInv, [Next]_vars
  PROVE  TransitInv'
<1>. USE DEF TypeOK, TransitInv, InTransit, Claimed, Steps, Creating, Executing, Filing,
             Closing, Looping
<1>1. ASSUME NEW t \in Clients, NEW i \in Ids, Call(t, i) PROVE TransitInv'
  BY <1>1 DEF Call, CreateSession, Execute, UseFiles, CloseSession, LookUp, IdTaken,
              FreshObjects, Registered
<1>2. ASSUME NEW t \in Threads, CreationStep(t) PROVE TransitInv'
  BY <1>2 DEF CreationStep, MakeDir, MakeDirFails, Publish, UndoLease, UndoDir, UndoId
<1>3. ASSUME NEW t \in Threads, LeasingStep(t) PROVE TransitInv'
  BY <1>3 DEF LeasingStep, LeaseBegins, LeaseGranted, LeaseFails, LeaseReturns, PrepareFails,
              LeaseStep
<1>4. ASSUME NEW t \in Threads, UsingStep(t) PROVE TransitInv'
  BY <1>4 DEF UsingStep, Lock, Unlock, ExecCheck, Run, RunFails, FilesCheck, FilesDone,
              IsRegistered, Touch, DropLease, KeepLease
<1>5. ASSUME NEW t \in Threads, ClosingStep(t) PROVE TransitInv'
  BY SMTT(30), <1>5
     DEF ClosingStep, Claim, ReleaseLease, RemoveTree, Unclaim, IsRegistered, DropLease
<1>6. ASSUME Sweep PROVE TransitInv'
  BY <1>6 DEF Sweep, SweepBegins, SweepNext, SweepCheck, SweepEnds, IsRegistered
<1>7. ASSUME NEW t \in Closers, CloseAllBegins(t) \/ CloseAllStep(t) PROVE TransitInv'
  BY <1>7 DEF CloseAllBegins, CloseAllStep, CancelPendingLeases, CloseNext, LoopEnds,
              PoolCloseAll, CloseAllEnds
<1>8. ASSUME TimePasses \/ WorkerDies \/ UNCHANGED vars PROVE TransitInv'
  BY <1>8 DEF TimePasses, WorkerDies, vars, Registered
<1>. QED BY <1>1, <1>2, <1>3, <1>4, <1>5, <1>6, <1>7, <1>8
         DEF Next, Step, CreationStep, LeasingStep, UsingStep, ClosingStep

\* Every step keeps what is locked and used.
LEMMA LockStep ==
  ASSUME TypeOK, TransitInv, LockInv, [Next]_vars
  PROVE  LockInv'
<1>. USE DEF TypeOK, TransitInv, LockInv, Locking, Using, InTransit, Claimed, Steps, Creating,
             Executing, Filing, Closing, Looping
<1>1. ASSUME NEW t \in Clients, NEW i \in Ids, Call(t, i) PROVE LockInv'
  BY <1>1 DEF Call, CreateSession, Execute, UseFiles, CloseSession, LookUp, IdTaken,
              FreshObjects, Registered
<1>2. ASSUME NEW t \in Threads, CreationStep(t) PROVE LockInv'
  BY <1>2 DEF CreationStep, MakeDir, MakeDirFails, Publish, UndoLease, UndoDir, UndoId
<1>3. ASSUME NEW t \in Threads, LeasingStep(t) PROVE LockInv'
  BY <1>3 DEF LeasingStep, LeaseBegins, LeaseGranted, LeaseFails, LeaseReturns, PrepareFails,
              LeaseStep
<1>4. ASSUME NEW t \in Threads, UsingStep(t) PROVE LockInv'
  BY <1>4 DEF UsingStep, Lock, Unlock, ExecCheck, Run, RunFails, FilesCheck, FilesDone,
              IsRegistered, Touch, DropLease, KeepLease
<1>5. ASSUME NEW t \in Threads, ClosingStep(t) PROVE LockInv'
  BY <1>5 DEF ClosingStep, Claim, ReleaseLease, RemoveTree, Unclaim, IsRegistered, DropLease
<1>6. ASSUME Sweep PROVE LockInv'
  BY <1>6 DEF Sweep, SweepBegins, SweepNext, SweepCheck, SweepEnds, IsRegistered
<1>7. ASSUME NEW t \in Closers, CloseAllBegins(t) \/ CloseAllStep(t) PROVE LockInv'
  BY <1>7 DEF CloseAllBegins, CloseAllStep, CancelPendingLeases, CloseNext, LoopEnds,
              PoolCloseAll, CloseAllEnds
<1>8. ASSUME TimePasses \/ WorkerDies \/ UNCHANGED vars PROVE LockInv'
  BY <1>8 DEF TimePasses, WorkerDies, vars, Registered
<1>. QED BY <1>1, <1>2, <1>3, <1>4, <1>5, <1>6, <1>7, <1>8
         DEF Next, Step, CreationStep, LeasingStep, UsingStep, ClosingStep

\* A thread that takes up a registered session leaves new objects alone.
LEMMA TakesRegistered ==
  ASSUME TypeOK, PrivateInv, NEW t \in Threads, NEW i \in Ids, NEW step, step \notin Creating,
         Takes(t, i, sessions[i]), Goto(t, step), UNCHANGED <<sessions, toSweep>>
  PROVE  PrivateInv'
<1> SUFFICES ASSUME NEW u \in Threads, pc'[u] \in Creating
             PROVE  /\ \A j \in Ids : sessions[j] # on'[u] /\ <<j, on'[u]>> \notin toSweep
                    /\ \A v \in Threads : v # u => on'[v] # on'[u]
  BY DEF PrivateInv
<1>1. u # t /\ pc[u] \in Creating /\ on'[u] = on[u]
  BY DEF TypeOK
<1>. QED BY <1>1 DEF PrivateInv, TypeOK

\* Every step keeps new objects unknown to others.
LEMMA PrivateStep ==
  ASSUME TypeOK, PrivateInv, [Next]_vars
  PROVE  PrivateInv'
<1>. USE DEF TypeOK, PrivateInv, Steps, Creating, Executing, Filing, Closing, Looping
<1>1. ASSUME NEW t \in Clients, NEW i \in Ids, Call(t, i) PROVE PrivateInv'
  <2>1. CASE CreateSession(t, i)
    BY <2>1 DEF CreateSession, FreshObjects, Registered
  <2>2. CASE Execute(t, i) \/ UseFiles(t, i) \/ CloseSession(t, i)
    <3>1. PICK step \in {"exec_lock", "files_lock", "close_lock"} : LookUp(t, i, step)
      BY <2>2 DEF Execute, UseFiles, CloseSession
    <3>. QED BY <3>1, TakesRegistered DEF LookUp
  <2>. QED BY <1>1, <2>1, <2>2 DEF Call
<1>2. ASSUME NEW t \in Threads, CreationStep(t) PROVE PrivateInv'
  BY <1>2 DEF CreationStep, MakeDir, MakeDirFails, Publish, UndoLease, UndoDir, UndoId
<1>3. ASSUME NEW t \in Threads, LeasingStep(t) PROVE PrivateInv'
  BY <1>3 DEF LeasingStep, LeaseBegins, LeaseGranted, LeaseFails, LeaseReturns, PrepareFails,
              LeaseStep
<1>4. ASSUME NEW t \in Threads, UsingStep(t) PROVE PrivateInv'
  BY <1>4 DEF UsingStep, Lock, Unlock, ExecCheck, Run, RunFails, FilesCheck, FilesDone,
              IsRegistered, Touch, DropLease, KeepLease
<1>5. ASSUME NEW t \in Threads, ClosingStep(t) PROVE PrivateInv'
  BY <1>5 DEF ClosingStep, Claim, ReleaseLease, RemoveTree, Unclaim, IsRegistered, DropLease
<1>6. ASSUME Sweep PROVE PrivateInv'
  BY <1>6 DEF Sweep, SweepBegins, SweepNext, SweepCheck, SweepEnds, IsRegistered
<1>7. ASSUME NEW t \in Closers, CloseAllBegins(t) \/ CloseAllStep(t) PROVE PrivateInv'
  <2>1. CASE CloseNext(t)
    <3>1. UNCHANGED <<sessions, toSweep>> /\ toClose[t] \subseteq Ids
      BY <2>1 DEF CloseNext
    <3>2. CASE UNCHANGED <<on, pc>>
      BY <3>1, <3>2
    <3>3. ASSUME NEW i \in toClose[t], Takes(t, i, sessions[i]), Goto(t, "close_lock")
          PROVE  PrivateInv'
      BY <3>1, <3>3, TakesRegistered
    <3>. QED BY <2>1, <3>2, <3>3 DEF CloseNext
  <2>2. CASE \/ CloseAllBegins(t) \/ CancelPendingLeases(t) \/ LoopEnds(t) \/ PoolCloseAll(t)
             \/ CloseAllEnds(t)
    BY <2>2 DEF CloseAllBegins, CancelPendingLeases, LoopEnds, PoolCloseAll, CloseAllEnds
  <2>. QED BY <1>7, <2>1, <2>2 DEF CloseAllStep
<1>8. ASSUME TimePasses \/ WorkerDies \/ UNCHANGED vars PROVE PrivateInv'
  BY <1>8 DEF TimePasses, WorkerDies, vars, Registered
<1>. QED BY <1>1, <1>2, <1>3, <1>4, <1>5, <1>6, <1>7, <1>8
         DEF Next, Step, CreationStep, LeasingStep, UsingStep, ClosingStep

\* Only Publish registers an object, and its object is new.
LEMMA SingleStep ==
  ASSUME TypeOK, PrivateInv, SingleInv, [Next]_vars
  PROVE  SingleInv'
<1>. USE DEF TypeOK, PrivateInv, SingleInv, Steps, Creating, Executing, Filing, Closing, Looping
<1>1. ASSUME NEW t \in Clients, NEW i \in Ids, Call(t, i) PROVE SingleInv'
  BY <1>1 DEF Call, CreateSession, Execute, UseFiles, CloseSession, LookUp, IdTaken,
              FreshObjects, Registered
<1>2. ASSUME NEW t \in Threads, CreationStep(t) PROVE SingleInv'
  <2>1. CASE Publish(t) /\ sessions' = [sessions EXCEPT ![name[t]] = on[t]]
    <3>1. \A i \in Ids : sessions[i] # on[t]
      BY <2>1 DEF Publish
    <3>. QED BY <2>1, <3>1
  <2>2. CASE UNCHANGED sessions
    BY <2>2
  <2>. QED BY <1>2, <2>1, <2>2
           DEF CreationStep, MakeDir, MakeDirFails, Publish, UndoLease, UndoDir, UndoId
<1>3. ASSUME NEW t \in Threads, LeasingStep(t) PROVE SingleInv'
  BY <1>3 DEF LeasingStep, LeaseBegins, LeaseGranted, LeaseFails, LeaseReturns, PrepareFails,
              LeaseStep
<1>4. ASSUME NEW t \in Threads, UsingStep(t) PROVE SingleInv'
  BY <1>4 DEF UsingStep, Lock, Unlock, ExecCheck, Run, RunFails, FilesCheck, FilesDone,
              IsRegistered, Touch, DropLease, KeepLease
<1>5. ASSUME NEW t \in Threads, ClosingStep(t) PROVE SingleInv'
  BY <1>5 DEF ClosingStep, Claim, ReleaseLease, RemoveTree, Unclaim, IsRegistered, DropLease
<1>6. ASSUME Sweep PROVE SingleInv'
  BY <1>6 DEF Sweep, SweepBegins, SweepNext, SweepCheck, SweepEnds, IsRegistered
<1>7. ASSUME NEW t \in Closers, CloseAllBegins(t) \/ CloseAllStep(t) PROVE SingleInv'
  BY <1>7 DEF CloseAllBegins, CloseAllStep, CancelPendingLeases, CloseNext, LoopEnds,
              PoolCloseAll, CloseAllEnds
<1>8. ASSUME TimePasses \/ WorkerDies \/ UNCHANGED vars PROVE SingleInv'
  BY <1>8 DEF TimePasses, WorkerDies, vars, Registered
<1>. QED BY <1>1, <1>2, <1>3, <1>4, <1>5, <1>6, <1>7, <1>8
         DEF Next, Step, CreationStep, LeasingStep, UsingStep, ClosingStep

\* What was claimed is not registered again.
LEMMA DetachedStep ==
  ASSUME TypeOK, TransitInv, LockInv, PrivateInv, SingleInv, DetachedInv, [Next]_vars
  PROVE  DetachedInv'
<1>. USE DEF TypeOK, TransitInv, PrivateInv, SingleInv, DetachedInv, InTransit, Claimed,
             Locking, Steps, Creating, Executing, Filing, Closing, Looping
<1>1. ASSUME NEW t \in Clients, NEW i \in Ids, Call(t, i) PROVE DetachedInv'
  BY <1>1 DEF Call, CreateSession, Execute, UseFiles, CloseSession, LookUp, IdTaken,
              FreshObjects, Registered
<1>2. ASSUME NEW t \in Threads, CreationStep(t) PROVE DetachedInv'
  BY <1>2 DEF CreationStep, MakeDir, MakeDirFails, Publish, UndoLease, UndoDir, UndoId
<1>3. ASSUME NEW t \in Threads, LeasingStep(t) PROVE DetachedInv'
  BY <1>3 DEF LeasingStep, LeaseBegins, LeaseGranted, LeaseFails, LeaseReturns, PrepareFails,
              LeaseStep
<1>4. ASSUME NEW t \in Threads, UsingStep(t) PROVE DetachedInv'
  BY <1>4 DEF UsingStep, Lock, Unlock, ExecCheck, Run, RunFails, FilesCheck, FilesDone,
              IsRegistered, Touch, DropLease, KeepLease
<1>5. ASSUME NEW t \in Threads, ClosingStep(t) PROVE DetachedInv'
  BY <1>5 DEF ClosingStep, Claim, ReleaseLease, RemoveTree, Unclaim, IsRegistered, DropLease
<1>6. ASSUME Sweep PROVE DetachedInv'
  BY <1>6 DEF Sweep, SweepBegins, SweepNext, SweepCheck, SweepEnds, IsRegistered
<1>7. ASSUME NEW t \in Closers, CloseAllBegins(t) \/ CloseAllStep(t) PROVE DetachedInv'
  BY <1>7 DEF CloseAllBegins, CloseAllStep, CancelPendingLeases, CloseNext, LoopEnds,
              PoolCloseAll, CloseAllEnds
<1>8. ASSUME TimePasses \/ WorkerDies \/ UNCHANGED vars PROVE DetachedInv'
  BY <1>8 DEF TimePasses, WorkerDies, vars, Registered
<1>. QED BY <1>1, <1>2, <1>3, <1>4, <1>5, <1>6, <1>7, <1>8
         DEF Next, Step, CreationStep, LeasingStep, UsingStep, ClosingStep

\* A directory is made and removed while its id is in transit.
LEMMA DirStep ==
  ASSUME TypeOK, TransitInv, LockInv, PrivateInv, DetachedInv, SingleInv, DirInv, [Next]_vars
  PROVE  DirInv'
<1>. USE DEF TypeOK, TransitInv, LockInv, PrivateInv, DetachedInv, SingleInv, DirInv,
             SessionKeepsDir, Placed, InTransit, Claimed, Steps, Creating, Executing, Filing,
             Closing, Looping
<1>1. ASSUME NEW t \in Clients, NEW i \in Ids, Call(t, i) PROVE DirInv'
  BY <1>1 DEF Call, CreateSession, Execute, UseFiles, CloseSession, LookUp, IdTaken,
              FreshObjects, Registered
<1>2. ASSUME NEW t \in Threads, CreationStep(t) PROVE DirInv'
  BY <1>2 DEF CreationStep, MakeDir, MakeDirFails, Publish, UndoLease, UndoDir, UndoId
<1>3. ASSUME NEW t \in Threads, LeasingStep(t) PROVE DirInv'
  BY <1>3 DEF LeasingStep, LeaseBegins, LeaseGranted, LeaseFails, LeaseReturns, PrepareFails,
              LeaseStep
<1>4. ASSUME NEW t \in Threads, UsingStep(t) PROVE DirInv'
  BY <1>4 DEF UsingStep, Lock, Unlock, ExecCheck, Run, RunFails, FilesCheck, FilesDone,
              IsRegistered, Touch, DropLease, KeepLease
<1>5. ASSUME NEW t \in Threads, ClosingStep(t) PROVE DirInv'
  BY <1>5 DEF ClosingStep, Claim, ReleaseLease, RemoveTree, Unclaim, IsRegistered, DropLease
<1>6. ASSUME Sweep PROVE DirInv'
  BY <1>6 DEF Sweep, SweepBegins, SweepNext, SweepCheck, SweepEnds, IsRegistered
<1>7. ASSUME NEW t \in Closers, CloseAllBegins(t) \/ CloseAllStep(t) PROVE DirInv'
  BY <1>7 DEF CloseAllBegins, CloseAllStep, CancelPendingLeases, CloseNext, LoopEnds,
              PoolCloseAll, CloseAllEnds
<1>8. ASSUME TimePasses \/ WorkerDies \/ UNCHANGED vars PROVE DirInv'
  BY <1>8 DEF TimePasses, WorkerDies, vars, Registered
<1>. QED BY <1>1, <1>2, <1>3, <1>4, <1>5, <1>6, <1>7, <1>8
         DEF Next, Step, CreationStep, LeasingStep, UsingStep, ClosingStep

\* An id gets its lease while it is in transit or registered, and loses it before it is free.
LEMMA LeaseInvStep ==
  ASSUME TypeOK, TransitInv, LockInv, LeaseInv, [Next]_vars
  PROVE  LeaseInv'
<1>. USE DEF TypeOK, TransitInv, LockInv, LeaseInv, LeaseAccounted, Locking, Using, InTransit,
             Claimed, Steps, Creating, Executing, Filing, Closing, Looping
<1>1. ASSUME NEW t \in Clients, NEW i \in Ids, Call(t, i) PROVE LeaseInv'
  BY <1>1 DEF Call, CreateSession, Execute, UseFiles, CloseSession, LookUp, IdTaken,
              FreshObjects, Registered
<1>2. ASSUME NEW t \in Threads, CreationStep(t) PROVE LeaseInv'
  BY <1>2 DEF CreationStep, MakeDir, MakeDirFails, Publish, UndoLease, UndoDir, UndoId
<1>3. ASSUME NEW t \in Threads, LeasingStep(t) PROVE LeaseInv'
  BY <1>3 DEF LeasingStep, LeaseBegins, LeaseGranted, LeaseFails, LeaseReturns, PrepareFails,
              LeaseStep
<1>4. ASSUME NEW t \in Threads, UsingStep(t) PROVE LeaseInv'
  BY <1>4 DEF UsingStep, Lock, Unlock, ExecCheck, Run, RunFails, FilesCheck, FilesDone,
              IsRegistered, Touch, DropLease, KeepLease
<1>5. ASSUME NEW t \in Threads, ClosingStep(t) PROVE LeaseInv'
  BY <1>5 DEF ClosingStep, Claim, ReleaseLease, RemoveTree, Unclaim, IsRegistered, DropLease
<1>6. ASSUME Sweep PROVE LeaseInv'
  BY <1>6 DEF Sweep, SweepBegins, SweepNext, SweepCheck, SweepEnds, IsRegistered
<1>7. ASSUME NEW t \in Closers, CloseAllBegins(t) \/ CloseAllStep(t) PROVE LeaseInv'
  BY <1>7 DEF CloseAllBegins, CloseAllStep, CancelPendingLeases, CloseNext, LoopEnds,
              PoolCloseAll, CloseAllEnds
<1>8. ASSUME TimePasses \/ WorkerDies \/ UNCHANGED vars PROVE LeaseInv'
  BY <1>8 DEF TimePasses, WorkerDies, vars, Registered
<1>. QED BY <1>1, <1>2, <1>3, <1>4, <1>5, <1>6, <1>7, <1>8
         DEF Next, Step, CreationStep, LeasingStep, UsingStep, ClosingStep

\* What the sweep found expired under its lock stays so.
LEMMA SweepsStep ==
  ASSUME TypeOK, Roles, LockInv, PrivateInv, DetachedInv, SingleInv, SweepsExpired, [Next]_vars
  PROVE  SweepsExpired'
<1>. USE DEF TypeOK, Roles, LockInv, PrivateInv, DetachedInv, SingleInv, SweepsExpired, Locking,
             Using, Steps, Creating, Executing, Filing, Closing, Looping
<1>1. ASSUME NEW t \in Clients, NEW i \in Ids, Call(t, i) PROVE SweepsExpired'
  BY <1>1 DEF Call, CreateSession, Execute, UseFiles, CloseSession, LookUp, IdTaken,
              FreshObjects, Registered
<1>2. ASSUME NEW t \in Threads, CreationStep(t) PROVE SweepsExpired'
  BY <1>2 DEF CreationStep, MakeDir, MakeDirFails, Publish, UndoLease, UndoDir, UndoId
<1>3. ASSUME NEW t \in Threads, LeasingStep(t) PROVE SweepsExpired'
  BY <1>3 DEF LeasingStep, LeaseBegins, LeaseGranted, LeaseFails, LeaseReturns, PrepareFails,
              LeaseStep
<1>4. ASSUME NEW t \in Threads, UsingStep(t) PROVE SweepsExpired'
  BY <1>4 DEF UsingStep, Lock, Unlock, ExecCheck, Run, RunFails, FilesCheck, FilesDone,
              IsRegistered, Touch, DropLease, KeepLease
<1>5. ASSUME NEW t \in Threads, ClosingStep(t) PROVE SweepsExpired'
  BY <1>5 DEF ClosingStep, Claim, ReleaseLease, RemoveTree, Unclaim, IsRegistered, DropLease
<1>6. ASSUME Sweep PROVE SweepsExpired'
  BY <1>6 DEF Sweep, SweepBegins, SweepNext, SweepCheck, SweepEnds, IsRegistered
<1>7. ASSUME NEW t \in Closers, CloseAllBegins(t) \/ CloseAllStep(t) PROVE SweepsExpired'
  BY <1>7 DEF CloseAllBegins, CloseAllStep, CancelPendingLeases, CloseNext, LoopEnds,
              PoolCloseAll, CloseAllEnds
<1>8. ASSUME TimePasses \/ WorkerDies \/ UNCHANGED vars PROVE SweepsExpired'
  BY <1>8 DEF TimePasses, WorkerDies, vars, Registered
<1>. QED BY <1>1, <1>2, <1>3, <1>4, <1>5, <1>6, <1>7, <1>8
         DEF Next, Step, CreationStep, LeasingStep, UsingStep, ClosingStep

\* Every step keeps the list of the only close_all.
LEMMA ListStep ==
  ASSUME TypeOK, Roles, TransitInv, ListInv, \A t, u \in Closers : t = u, [Next]_vars
  PROVE  ListInv'
<1>. USE DEF TypeOK, TransitInv, Roles, ListInv, InTransit, Claimed, Steps, Creating, Executing,
             Filing, Closing, Looping
<1>1. ASSUME NEW t \in Clients, NEW i \in Ids, Call(t, i) PROVE ListInv'
  BY <1>1 DEF Call, CreateSession, Execute, UseFiles, CloseSession, LookUp, IdTaken,
              FreshObjects, Registered
<1>2. ASSUME NEW t \in Threads, CreationStep(t) PROVE ListInv'
  BY <1>2 DEF CreationStep, MakeDir, MakeDirFails, Publish, UndoLease, UndoDir, UndoId
<1>3. ASSUME NEW t \in Threads, LeasingStep(t) PROVE ListInv'
  BY <1>3 DEF LeasingStep, LeaseBegins, LeaseGranted, LeaseFails, LeaseReturns, PrepareFails,
              LeaseStep
<1>4. ASSUME NEW t \in Threads, UsingStep(t) PROVE ListInv'
  BY <1>4 DEF UsingStep, Lock, Unlock, ExecCheck, Run, RunFails, FilesCheck, FilesDone,
              IsRegistered, Touch, DropLease, KeepLease
<1>5. ASSUME NEW t \in Threads, ClosingStep(t) PROVE ListInv'
  BY <1>5 DEF ClosingStep, Claim, ReleaseLease, RemoveTree, Unclaim, IsRegistered, DropLease
<1>6. ASSUME Sweep PROVE ListInv'
  BY <1>6 DEF Sweep, SweepBegins, SweepNext, SweepCheck, SweepEnds, IsRegistered
<1>7. ASSUME NEW t \in Closers, CloseAllBegins(t) \/ CloseAllStep(t) PROVE ListInv'
  BY <1>7 DEF CloseAllBegins, CloseAllStep, CancelPendingLeases, CloseNext, LoopEnds,
              PoolCloseAll, CloseAllEnds
<1>8. ASSUME TimePasses \/ WorkerDies \/ UNCHANGED vars PROVE ListInv'
  BY <1>8 DEF TimePasses, WorkerDies, vars, Registered
<1>. QED BY <1>1, <1>2, <1>3, <1>4, <1>5, <1>6, <1>7, <1>8
         DEF Next, Step, CreationStep, LeasingStep, UsingStep, ClosingStep

\* A creation that began before the last close_all shows it.
LEMMA GenerationStep ==
  ASSUME TypeOK, GenerationInv, [Next]_vars
  PROVE  GenerationInv'
<1>. USE DEF TypeOK, GenerationInv, Steps, Creating, Executing, Filing, Closing, Looping
<1>1. ASSUME NEW t \in Clients, NEW i \in Ids, Call(t, i) PROVE GenerationInv'
  BY <1>1 DEF Call, CreateSession, Execute, UseFiles, CloseSession, LookUp, IdTaken,
              FreshObjects, Registered
<1>2. ASSUME NEW t \in Threads, CreationStep(t) PROVE GenerationInv'
  BY <1>2 DEF CreationStep, MakeDir, MakeDirFails, Publish, UndoLease, UndoDir, UndoId
<1>3. ASSUME NEW t \in Threads, LeasingStep(t) PROVE GenerationInv'
  BY <1>3 DEF LeasingStep, LeaseBegins, LeaseGranted, LeaseFails, LeaseReturns, PrepareFails,
              LeaseStep
<1>4. ASSUME NEW t \in Threads, UsingStep(t) PROVE GenerationInv'
  BY <1>4 DEF UsingStep, Lock, Unlock, ExecCheck, Run, RunFails, FilesCheck, FilesDone,
              IsRegistered, Touch, DropLease, KeepLease
<1>5. ASSUME NEW t \in Threads, ClosingStep(t) PROVE GenerationInv'
  BY <1>5 DEF ClosingStep, Claim, ReleaseLease, RemoveTree, Unclaim, IsRegistered, DropLease
<1>6. ASSUME Sweep PROVE GenerationInv'
  BY <1>6 DEF Sweep, SweepBegins, SweepNext, SweepCheck, SweepEnds, IsRegistered
<1>7. ASSUME NEW t \in Closers, CloseAllBegins(t) \/ CloseAllStep(t) PROVE GenerationInv'
  BY <1>7 DEF CloseAllBegins, CloseAllStep, CancelPendingLeases, CloseNext, LoopEnds,
              PoolCloseAll, CloseAllEnds
<1>8. ASSUME TimePasses \/ WorkerDies \/ UNCHANGED vars PROVE GenerationInv'
  BY <1>8 DEF TimePasses, WorkerDies, vars, Registered
<1>. QED BY <1>1, <1>2, <1>3, <1>4, <1>5, <1>6, <1>7, <1>8
         DEF Next, Step, CreationStep, LeasingStep, UsingStep, ClosingStep

\* Without a failure no session loses its worker.
LEMMA FaultlessStep ==
  ASSUME TypeOK, Roles, TransitInv, LockInv, PrivateInv, DetachedInv, SingleInv, ListInv,
         GenerationInv, FaultlessInv, \A t, u \in Closers : t = u, [Next]_vars
  PROVE  FaultlessInv'
<1>. USE DEF TypeOK, TransitInv, LockInv, PrivateInv, DetachedInv, SingleInv, ListInv,
             GenerationInv, FaultlessInv, Locking, Using, InTransit, Claimed, Steps, Creating,
             Executing, Filing, Closing, Looping
<1>1. ASSUME NEW t \in Clients, NEW i \in Ids, Call(t, i) PROVE FaultlessInv'
  BY <1>1 DEF Call, CreateSession, Execute, UseFiles, CloseSession, LookUp, IdTaken,
              FreshObjects, Registered
<1>2. ASSUME NEW t \in Threads, CreationStep(t) PROVE FaultlessInv'
  <2>1. CASE UndoLease(t)
    <3>1. /\ leased' = leased \ {name[t]} /\ hasWorker' = hasWorker \ {on[t]}
          /\ Goto(t, "undo_dir")
          /\ UNCHANGED <<sessions, name, on, seenAll, closeGeneration, faults>>
      BY <2>1 DEF UndoLease
    <3>2. sessions[name[t]] = NoObject /\ \A i \in Ids : sessions[i] # on[t]
      BY <2>1 DEF UndoLease
    <3>3. \A u \in Threads : u # t /\ pc[u] \in Creating => name[u] # name[t] /\ on[u] # on[t]
      BY <2>1 DEF UndoLease
    <3>. QED BY <3>1, <3>2, <3>3
  <2>2. CASE \/ MakeDir(t) \/ MakeDirFails(t) \/ Publish(t) \/ UndoDir(t) \/ UndoId(t)
    BY <2>2 DEF MakeDir, MakeDirFails, Publish, UndoDir, UndoId
  <2>. QED BY <1>2, <2>1, <2>2 DEF CreationStep
<1>3. ASSUME NEW t \in Threads, LeasingStep(t) PROVE FaultlessInv'
  BY <1>3 DEF LeasingStep, LeaseBegins, LeaseGranted, LeaseFails, LeaseReturns, PrepareFails,
              LeaseStep
<1>4. ASSUME NEW t \in Threads, UsingStep(t) PROVE FaultlessInv'
  BY <1>4 DEF UsingStep, Lock, Unlock, ExecCheck, Run, RunFails, FilesCheck, FilesDone,
              IsRegistered, Touch, DropLease, KeepLease
<1>5. ASSUME NEW t \in Threads, ClosingStep(t) PROVE FaultlessInv'
  BY <1>5 DEF ClosingStep, Claim, ReleaseLease, RemoveTree, Unclaim, IsRegistered, DropLease
<1>6. ASSUME Sweep PROVE FaultlessInv'
  BY <1>6 DEF Sweep, SweepBegins, SweepNext, SweepCheck, SweepEnds, IsRegistered
<1>7. ASSUME NEW t \in Closers, CloseAllBegins(t) \/ CloseAllStep(t) PROVE FaultlessInv'
  BY <1>7 DEF CloseAllBegins, CloseAllStep, CancelPendingLeases, CloseNext, LoopEnds,
              PoolCloseAll, CloseAllEnds
<1>8. ASSUME TimePasses \/ WorkerDies \/ UNCHANGED vars PROVE FaultlessInv'
  BY <1>8 DEF TimePasses, WorkerDies, vars, Registered
<1>. QED BY <1>1, <1>2, <1>3, <1>4, <1>5, <1>6, <1>7, <1>8
         DEF Next, Step, CreationStep, LeasingStep, UsingStep, ClosingStep
-----------------------------------------------------------------------------
(* The theorems *)

\* Nobody has called yet.
LEMMA ManagerInitial ==
  Init => TypeOK /\ Roles /\ TransitInv /\ LockInv /\ PrivateInv /\ SingleInv /\ DetachedInv
          /\ DirInv /\ LeaseInv /\ SweepsExpired /\ ListInv /\ GenerationInv /\ FaultlessInv
<1> SUFFICES ASSUME Init
             PROVE  TypeOK /\ Roles /\ TransitInv /\ LockInv /\ PrivateInv /\ SingleInv
                    /\ DetachedInv /\ DirInv /\ LeaseInv /\ SweepsExpired /\ ListInv
                    /\ GenerationInv /\ FaultlessInv
  OBVIOUS
<1>. USE DEF Init, Steps, Creating, Executing, Filing, Closing, Looping
<1>1. TypeOK
  BY DEF TypeOK
<1>2. Roles /\ SweepsExpired /\ ListInv /\ GenerationInv
  BY DEF Roles, SweepsExpired, ListInv, GenerationInv
<1>3. TransitInv /\ LockInv
  BY DEF TransitInv, LockInv, InTransit, Claimed, Locking, Using
<1>4. PrivateInv /\ SingleInv /\ DetachedInv
  BY DEF PrivateInv, SingleInv, DetachedInv, Claimed
<1>5. DirInv /\ LeaseInv
  BY DEF DirInv, SessionKeepsDir, LeaseInv, LeaseAccounted, Placed
<1>6. FaultlessInv
  BY DEF FaultlessInv
<1>. QED BY <1>1, <1>2, <1>3, <1>4, <1>5, <1>6

\* The types hold, for every number of threads and sessions.
THEOREM TypeCorrect == Spec => []TypeOK
BY ManagerInitial, TypeStep, PTL DEF Spec

\* The inductive invariant.
ManagerInv ==
  /\ TypeOK /\ Roles /\ TransitInv /\ LockInv
  /\ PrivateInv /\ SingleInv /\ DetachedInv
  /\ DirInv /\ LeaseInv /\ SweepsExpired /\ GenerationInv

\* Threads, tables, locks, directories and leases always agree as ManagerInv says.
THEOREM ManagerInvariant == Spec => []ManagerInv
<1>1. ManagerInv /\ [Next]_vars => ManagerInv'
  BY TypeStep, RolesStep, TransitStep, LockStep, PrivateStep, SingleStep, DetachedStep, DirStep,
     LeaseInvStep, SweepsStep, GenerationStep DEF ManagerInv
<1>2. Init => ManagerInv
  BY ManagerInitial DEF ManagerInv
<1>. QED BY <1>1, <1>2, PTL DEF Spec

\* Two threads are never at the lease of one id at once: the pool is never asked to lease,
\* run or release for one id twice at the same time.
THEOREM CallsExclusive == Spec => []PoolCallsExclusive
<1>1. ManagerInv => PoolCallsExclusive
  <2> SUFFICES ASSUME ManagerInv, NEW t \in Threads, NEW u \in Threads, t # u,
                      pc[t] \in PoolSteps, pc[u] \in PoolSteps, name[t] = name[u]
               PROVE  FALSE
    BY DEF PoolCallsExclusive
  <2>. USE DEF ManagerInv, PoolSteps, Creating, Executing
  <2>1. pc[t] \in InTransit \cup Using /\ pc[u] \in InTransit \cup Using
    BY DEF InTransit, Claimed, Using
  <2>2. CASE pc[t] \in InTransit /\ pc[u] \in InTransit
    BY <2>2 DEF TransitInv
  <2>3. CASE pc[t] \in Using /\ pc[u] \in Using
    BY <2>3 DEF LockInv, Using, Locking
  <2>4. ASSUME NEW v \in Threads, NEW w \in Threads, name[v] = name[w],
               pc[v] \in InTransit, pc[w] \in Using
        PROVE  FALSE
    <3>1. sessions[name[v]] = NoObject
      BY <2>4 DEF TransitInv, InTransit, Claimed
    <3>2. sessions[name[w]] = on[w] /\ on[w] \in Objects
      BY <2>4 DEF LockInv, TypeOK, Using, Filing, Looping
    <3>. QED BY <2>4, <3>1, <3>2, ManagerAssumption
  <2>. QED BY <2>1, <2>2, <2>3, <2>4
<1>. QED BY <1>1, ManagerInvariant, PTL

\* A call that uses a session keeps its place in the registry and its directory.
THEOREM SessionsIntact == Spec => []SessionIntact
<1>1. ManagerInv => SessionIntact
  BY DEF ManagerInv, DirInv, LockInv, Using, SessionIntact, UsedIsRegistered
<1>. QED BY <1>1, ManagerInvariant, PTL

\* The sweep closes only what is expired.
THEOREM OnlyExpiredSwept == Spec => []SweepsExpired
<1>1. ManagerInv => SweepsExpired
  BY DEF ManagerInv
<1>. QED BY <1>1, ManagerInvariant, PTL

\* If there is only one thread that calls close_all, nothing is registered once it has gone
\* through its list.
THEOREM NothingLeft ==
  ASSUME \A t, u \in Closers : t = u
  PROVE  Spec => []AllClosed
<1>1. ManagerInv /\ ListInv /\ [Next]_vars => ListInv'
  BY ListStep DEF ManagerInv
<1>2. ListInv => AllClosed
  BY DEF ListInv, AllClosed
<1>. QED BY <1>1, <1>2, ManagerInitial, ManagerInvariant, PTL DEF Spec

\* With one such thread the pool's slots are those of the sessions there are: none is lost,
\* and none is missing unless something failed.
THEOREM SlotsMatch ==
  ASSUME \A t, u \in Closers : t = u
  PROVE  Spec => []LeasesMatch
<1>1. ManagerInv /\ ListInv /\ [Next]_vars => ListInv'
  BY ListStep DEF ManagerInv
<1>2. ManagerInv /\ ListInv /\ FaultlessInv /\ [Next]_vars => FaultlessInv'
  BY FaultlessStep DEF ManagerInv
<1>3. ManagerInv /\ FaultlessInv => LeasesMatch
  BY DEF ManagerInv, LeaseInv, FaultlessInv, LeasesMatch, RegisteredHasLease
<1>. QED BY <1>1, <1>2, <1>3, ManagerInitial, ManagerInvariant, PTL DEF Spec
=============================================================================
