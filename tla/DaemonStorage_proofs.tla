----------------------- MODULE DaemonStorage_proofs -----------------------
(***************************************************************************)
(* Theorems about DaemonStorage: what the locks promise holds for daemons  *)
(* that serve, nobody is forgotten, no request is carried out twice, the   *)
(* quota covers what is on disk and every variable has its type, for every *)
(* set of daemons, directories, calls and requests.                        *)
(***************************************************************************)
EXTENDS FiniteSets, DaemonStorage, FiniteSetTheorems, DaemonLocks_proofs,
        ExecutionLogs_proofs

\* No step of a request, a background thread, a monitor, a destroy, the sweep or the tool
\* touches the locks.
LEMMA ServingKeepsLocks ==
  ASSUME NEW d \in Daemons,
         \/ Publish(d) \/ Destroy(d) \/ ReadsPage(d) \/ Reconcile(d) \/ Adopts(d) \/ Stops(d)
         \/ JobStep(d) \/ MonitorStep(d) \/ KillStep(d) \/ SweepStep(d) \/ StopReleases(d)
         \/ \E c \in Calls : Execute(d, c) \/ CallStep(d, c)
  PROVE  UNCHANGED lockVars
<1>. USE DEF OnlyMemory, OnlyRegistry, Elsewhere
<1>1. CASE Publish(d) \/ Destroy(d) \/ ReadsPage(d) \/ Reconcile(d) \/ Adopts(d) \/ Stops(d)
           \/ StopReleases(d)
  BY <1>1 DEF Publish, Destroy, ReadsPage, Reconcile, Adopts, Stops, StopReleases
<1>2. CASE JobStep(d)
  BY <1>2 DEF JobStep, Dispatches, SummaryComes, SummaryOfLoss, Summary, NoSummary, Records,
              Discards, Releases, Completes
<1>3. CASE MonitorStep(d) \/ KillStep(d) \/ SweepStep(d)
  BY <1>3 DEF MonitorStep, MonitorCalls, MonitorMarks, MonitorReleases, KillStep,
              DestroyReleases, DestroyCloses, SweepStep, SweepReleases, SweepCleans, SweepSeals
<1>4. ASSUME NEW c \in Calls, Execute(d, c) \/ CallStep(d, c) PROVE UNCHANGED lockVars
  BY <1>4 DEF Execute, CallStep, Prepares, SinkFails, PrepareFails, Marks, Undoes, Finishes,
              Returns
<1>. QED BY <1>1, <1>2, <1>3, <1>4

\* The daemons that serve implement the protocol of the locks: every step of one is a step of
\* LocksSpec or leaves the locks alone.
THEOREM ServingFollowsLocks == Spec => LocksSpec
<1>1. Init => LocksInit
  BY DEF Init
<1>2. [Next]_vars => [LocksNext]_lockVars
  <2> SUFFICES ASSUME [Next]_vars PROVE [LocksNext]_lockVars
    OBVIOUS
  <2>1. ASSUME NEW d \in Daemons, StopEnds(d) \/ OtherEnds(d) PROVE LocksNext
    BY <2>1 DEF StopEnds, OtherEnds, LocksNext
  <2>2. ASSUME NEW d \in Daemons, Crash(d) PROVE LocksNext
    BY <2>2 DEF Crash, LocksNext
  <2>3. CASE LockSteps
    BY <2>3 DEF LockSteps, LocksNext
  <2>4. CASE ToolWrites \/ ToolDies \/ UNCHANGED vars
    BY <2>4 DEF ToolWrites, ToolDies, vars
  <2>. QED BY <2>1, <2>2, <2>3, <2>4, ServingKeepsLocks DEF Next, StopStep
<1>. QED BY <1>1, <1>2, PTL DEF Spec, LocksSpec

\* Whatever requests, losses, shutdowns and crashes do, one daemon at most serves a directory.
THEOREM ServersElected == Spec => []ElectsOne
BY ServingFollowsLocks, OneElected, PTL

-----------------------------------------------------------------------------
(* The inductive invariant behind NoneForgotten *)

\* A thread between its row and its answer has the session lock, and only a thread that got
\* it starts the tool; who waits has the background thread, and as long as there is one the
\* runtime takes no other execution.
Sound(m, g) ==
  /\ m \in Memory(Nat) /\ m.stage # "none"
  /\ \A c \in Calls :
       /\ m.call[c].at # "idle" => m.call[c].exec \in DOMAIN g.rows
       /\ m.call[c].at \in {"prepare", "mark", "undo", "finish"} <=> m.lock = c
       /\ m.call[c].at = "prepare" => g.rows[m.call[c].exec].state # "RUNNING"
       /\ m.call[c].at = "wait" => m.job.at # "none" /\ m.job.exec = m.call[c].exec
  /\ m.job.at # "none" => m.job.exec \in DOMAIN g.rows /\ g.runtime # "READY"
  /\ m.lock = "kill" <=> m.kill # "none"

\* A step that adds no row and queues none again, and prepares to send to the tool at most
\* what is queued.
Settled ==
  /\ Len(reg'.rows) = Len(reg.rows)
  /\ \A k \in DOMAIN reg.rows :
       /\ reg'.rows[k].req = reg.rows[k].req
       /\ reg'.rows[k].state = "QUEUED" => reg.rows[k].state = "QUEUED"
  /\ \A d \in Daemons : mem'[d].job.at = "dispatch" =>
       \/ mem'[d].job = mem[d].job
       \/ /\ mem'[d].job.exec \in DOMAIN reg.rows
          /\ reg.rows[mem'[d].job.exec].state = "QUEUED"

KeepsJob(d, m) == m.job.at = "dispatch" => m.job = mem[d].job

Serves(d) == phase[d] = "owner" /\ Database \in Roots[d]

\* One daemon at most has anything in memory: the one that owns the registry.
StorageInv ==
  /\ RegInv(reg)
  /\ mem = [d \in Daemons |-> mem[d]]
  /\ \A d \in Daemons : mem[d] = NoMemory \/ (Serves(d) /\ Sound(mem[d], reg))

-----------------------------------------------------------------------------
(* What a process has in memory stays sound *)

\* What is sound stays so through a step of the registry.
LEMMA SoundKept ==
  ASSUME NEW m, NEW g, NEW h, RegInv(g), Sound(m, g), Steady(g, h),
         m.job.at # "none" /\ h.runtime = "READY" => g.runtime = "READY"
  PROVE  Sound(m, h)
<1>1. DOMAIN h.rows = DOMAIN g.rows
  BY DEF Steady, RegInv, Shaped, IsTable
<1>2. \A c \in Calls : m.call[c].at # "idle" => m.call[c].exec \in DOMAIN h.rows
  BY <1>1 DEF Sound
<1>3. \A c \in Calls : m.call[c].at = "prepare" => h.rows[m.call[c].exec].state # "RUNNING"
  BY DEF Sound, Steady, Active
<1>. QED BY <1>1, <1>2, <1>3 DEF Sound

\* So does a memory of which only flags change.
LEMMA SoundFlags ==
  ASSUME NEW m, NEW n, NEW g, Sound(m, g), n \in Memory(Nat), n.stage # "none",
         n.call = m.call, n.lock = m.lock, n.job = m.job,
         n.kill = "none" <=> m.kill = "none"
  PROVE  Sound(n, g)
BY DEF Sound

\* What a thread does to the memory when it goes on, answers, tells others or ends.
LEMMA SoundAfter ==
  ASSUME NEW m, NEW g, Sound(m, g)
  PROVE  /\ \A which : Sound(Tell(m, which), g) /\ Tell(m, which).job = m.job
         /\ Sound(JobEnds(m), g) /\ JobEnds(m).job.at = "none"
         /\ \A at \in {"await", "record", "discard", "release", "complete"} :
              m.job.at # "none" => Sound(JobTo(m, at), g) /\ JobTo(m, at).job.at = at
         /\ \A c \in Calls : m.call[c].at \in {"prepare", "mark", "undo", "finish"} =>
              /\ \A at \in {"mark", "undo", "finish"} : Sound(CallTo(m, c, at), g)
              /\ \A at \in {"mark", "undo", "finish"} : CallTo(m, c, at).job = m.job
         /\ \A c \in Calls : Sound(Answers(m, c), g) /\ Answers(m, c).job = m.job
<1>1. ASSUME NEW which PROVE Sound(Tell(m, which), g) /\ Tell(m, which).job = m.job
  BY DEF Sound, Tell, Memory
<1>2. Sound(JobEnds(m), g) /\ JobEnds(m).job.at = "none"
  <2>1. Sound(Tell(m, {m.job.exec}), g) /\ Tell(m, {m.job.exec}).job = m.job
    BY <1>1
  <2>2. \A c \in Calls : Tell(m, {m.job.exec}).call[c].at # "wait"
    BY DEF Tell, Sound, Memory
  <2>. DEFINE n == Tell(m, {m.job.exec})
  <2>. HIDE DEF n
  <2>. DEFINE o == [n EXCEPT !.job = NoJob]
  <2>3. /\ n \in Memory(Nat) /\ Sound(n, g)
        /\ \A c \in Calls : n.call[c].at # "wait"
    BY <2>1, <2>2 DEF Sound, n
  <2>4. NoJob \in [at : {"none", "dispatch", "await", "record", "discard", "release", "complete"},
                   exec : Nat, out : {"DONE", "TIMED_OUT", "LOST"}] /\ NoJob.at = "none"
    BY DEF NoJob
  <2>. HIDE DEF NoJob
  <2>5. /\ o \in Memory(Nat) /\ o.job = NoJob /\ o.call = n.call /\ o.lock = n.lock
        /\ o.kill = n.kill /\ o.stage = n.stage
    BY <2>3, <2>4 DEF Memory
  <2>. HIDE DEF o
  <2>6. Sound(o, g) /\ o.job.at = "none"
    BY <2>3, <2>4, <2>5 DEF Sound
  <2>. QED BY <2>6 DEF JobEnds, n, o
<1>3. ASSUME NEW at \in {"await", "record", "discard", "release", "complete"},
             m.job.at # "none"
      PROVE  Sound(JobTo(m, at), g) /\ JobTo(m, at).job.at = at
  BY <1>3 DEF JobTo, Sound, Memory
<1>4. ASSUME NEW c \in Calls, m.call[c].at \in {"prepare", "mark", "undo", "finish"},
             NEW at \in {"mark", "undo", "finish"}
      PROVE  Sound(CallTo(m, c, at), g) /\ CallTo(m, c, at).job = m.job
  BY <1>4 DEF CallTo, Sound, Memory
<1>5. ASSUME NEW c \in Calls PROVE Sound(Answers(m, c), g) /\ Answers(m, c).job = m.job
  <2>. DEFINE n == Answers(m, c)
  <2>1. m \in Memory(Nat) /\ NoCall.at = "idle" /\ NoCall.exec = 0
        /\ NoCall \in [at : {"idle", "prepare", "mark", "undo", "finish", "wait", "told"},
                       exec : Nat]
    BY DEF Sound, NoCall
  <2>. HIDE DEF NoCall
  <2>2. /\ n.job = m.job /\ n.kill = m.kill /\ n.stage = m.stage
        /\ n.lock = IF m.lock = c THEN "free" ELSE m.lock
        /\ n.call[c] = NoCall /\ \A e \in Calls : e # c => n.call[e] = m.call[e]
    BY <2>1 DEF Answers, Memory
  <2>3. n \in Memory(Nat)
    BY <2>1 DEF Answers, Memory
  <2>4. n.lock = "kill" <=> n.kill # "none"
    BY <2>2, StorageAssumption DEF Sound
  <2>5. \A e \in Calls : n.call[e].at \in {"prepare", "mark", "undo", "finish"} <=> n.lock = e
    BY <2>1, <2>2, StorageAssumption DEF Sound
  <2>. HIDE DEF n
  <2>6. Sound(n, g)
    BY <2>1, <2>2, <2>3, <2>4, <2>5 DEF Sound
  <2>. QED BY <2>2, <2>6 DEF n
<1>. QED BY <1>1, <1>2, <1>3, <1>4, <1>5

-----------------------------------------------------------------------------
(* Every step keeps the invariant *)

\* One daemon serves: what the others have is nothing.
LEMMA OneServes ==
  ASSUME StorageInv, RootsExclusive, LocksTypeOK, NEW d \in Daemons, Serves(d),
         NEW e \in Daemons, e # d
  PROVE  mem[e] = NoMemory
BY StorageAssumption, LocksAssumption DEF StorageInv, RootsExclusive, Serves, Overlap

\* Whoever has anything in memory serves, and is sound.
LEMMA Serving ==
  ASSUME StorageInv, NEW d \in Daemons, mem[d] # NoMemory
  PROVE  Serves(d) /\ Sound(mem[d], reg)
BY DEF StorageInv

\* A step of the daemon that serves.
LEMMA StepOf ==
  ASSUME StorageInv, RootsExclusive, LocksTypeOK, NEW d \in Daemons, Serves(d), phase' = phase,
         NEW m, Set(d, m), RegInv(reg'), Sound(m, reg')
  PROVE  StorageInv'
<1>1. mem' = [e \in Daemons |-> IF e = d THEN m ELSE NoMemory]
  BY OneServes DEF Set, StorageInv
<1>. QED BY <1>1 DEF StorageInv, Serves

\* A step of the one that serves, over rows that stay, sends nothing that was not queued.
LEMMA SettledStep ==
  ASSUME StorageInv, RootsExclusive, LocksTypeOK, NEW d \in Daemons, Serves(d), phase' = phase,
         NEW m, Set(d, m), Steady(reg, reg'), Sound(m, reg'), KeepsJob(d, m)
  PROVE  StorageInv' /\ Settled
<1>1. StorageInv'
  BY StepOf DEF Steady
<1>2. \A e \in Daemons : mem'[e] = IF e = d THEN m ELSE mem[e]
  BY DEF Set, StorageInv
<1>. QED BY <1>1, <1>2 DEF Settled, KeepsJob, Steady, Active

\* Whatever the registry makes of its rows, as long as it offers the runtime to nobody.
LEMMA GentleStep ==
  ASSUME StorageInv, RootsExclusive, LocksTypeOK, NEW d \in Daemons, Serves(d), phase' = phase,
         NEW m, Set(d, m), Sound(m, reg), KeepsJob(d, m), Gentle(reg, reg')
  PROVE  StorageInv' /\ Settled
<1>1. RegInv(reg) /\ Steady(reg, reg') /\ Sound(m, reg')
  BY SoundKept DEF StorageInv, Gentle
<1>. QED BY <1>1, SettledStep

\* And if it does nothing.
LEMMA QuietStep ==
  ASSUME StorageInv, RootsExclusive, LocksTypeOK, NEW d \in Daemons, Serves(d), phase' = phase,
         NEW m, Set(d, m), Sound(m, reg), KeepsJob(d, m), reg' = reg
  PROVE  StorageInv' /\ Settled
<1>1. Gentle(reg, reg')
  BY DEF Gentle, Steady, StorageInv
<1>. QED BY <1>1, GentleStep

\* _finish_durable_cleanup, complete or put off.
LEMMA CleanupStep ==
  ASSUME StorageInv, RootsExclusive, LocksTypeOK, NEW d \in Daemons, Serves(d), phase' = phase,
         NEW m, Sound(m, reg), KeepsJob(d, m), Cleanup(d, m)
  PROVE  StorageInv' /\ Settled
<1>1. \A b \in BOOLEAN : Sound([m EXCEPT !.dirty = b], reg) /\ KeepsJob(d, [m EXCEPT !.dirty = b])
  <2> SUFFICES ASSUME NEW b \in BOOLEAN
               PROVE  Sound([m EXCEPT !.dirty = b], reg) /\ KeepsJob(d, [m EXCEPT !.dirty = b])
    OBVIOUS
  <2>. DEFINE n == [m EXCEPT !.dirty = b]
  <2>1. /\ n \in Memory(Nat) /\ n.stage = m.stage /\ n.call = m.call /\ n.lock = m.lock
        /\ n.job = m.job /\ n.kill = m.kill
    BY DEF Sound, Memory
  <2>2. m.stage # "none"
    BY DEF Sound
  <2>. HIDE DEF n
  <2>3. Sound(n, reg) /\ KeepsJob(d, n)
    BY <2>1, <2>2, SoundFlags DEF KeepsJob
  <2>. QED BY <2>3 DEF n
<1>2. RegInv(reg)
  BY DEF StorageInv
<1>3. Gentle(reg, Sealed(reg)) /\ RegInv(Sealed(reg))
  BY <1>2, SealedGentle DEF Gentle, Steady
<1>4. Gentle(reg, Disowned(Sealed(reg)))
  <2>1. Gentle(Sealed(reg), Disowned(Sealed(reg)))
    BY <1>3, DisownedGentle
  <2>. QED BY <1>2, <1>3, <2>1 DEF Gentle, Steady, RegInv, Shaped, IsTable
<1>5. CASE reg' = Disowned(Sealed(reg)) /\ Set(d, [m EXCEPT !.dirty = FALSE])
  BY <1>1, <1>4, <1>5, GentleStep
<1>6. CASE reg' = Sealed(reg) /\ Set(d, [m EXCEPT !.dirty = TRUE])
  BY <1>1, <1>3, <1>6, GentleStep
<1>7. CASE UNCHANGED reg /\ Set(d, [m EXCEPT !.dirty = TRUE])
  BY <1>1, <1>7, QuietStep
<1>. QED BY <1>5, <1>6, <1>7 DEF Cleanup

\* _release_controller and _release_orphan, confirmed or not.
LEMMA ReleaseStep ==
  ASSUME StorageInv, RootsExclusive, LocksTypeOK, NEW d \in Daemons, Serves(d), phase' = phase,
         NEW yes, NEW no, Sound(yes, reg), Sound(no, reg), KeepsJob(d, yes), KeepsJob(d, no),
         Release(d, yes, no) \/ ReleaseOrphan(d, yes, no)
  PROVE  StorageInv' /\ Settled
<1>1. \A m : Sound(m, reg) /\ KeepsJob(d, m) =>
        \A n \in {[m EXCEPT !.ctrl = "released"], [m EXCEPT !.ctrl = "pending"],
                  [m EXCEPT !.orphan = FALSE]} : Sound(n, reg) /\ KeepsJob(d, n)
  <2> SUFFICES ASSUME NEW m, Sound(m, reg), KeepsJob(d, m),
                      NEW n \in {[m EXCEPT !.ctrl = "released"], [m EXCEPT !.ctrl = "pending"],
                                 [m EXCEPT !.orphan = FALSE]}
               PROVE  Sound(n, reg) /\ KeepsJob(d, n)
    OBVIOUS
  <2>1. CASE n = [m EXCEPT !.ctrl = "released"]
    <3>1. m \in Memory(Nat) /\ m.stage # "none"
      BY DEF Sound
    <3>2. /\ n \in Memory(Nat) /\ n.stage = m.stage /\ n.call = m.call /\ n.lock = m.lock
          /\ n.job = m.job /\ n.kill = m.kill
      BY SMTT(30), <3>1, <2>1 DEF Memory
    <3>. QED BY <3>1, <3>2, SoundFlags DEF KeepsJob
  <2>2. CASE n = [m EXCEPT !.ctrl = "pending"]
    <3>1. m \in Memory(Nat) /\ m.stage # "none"
      BY DEF Sound
    <3>2. /\ n \in Memory(Nat) /\ n.stage = m.stage /\ n.call = m.call /\ n.lock = m.lock
          /\ n.job = m.job /\ n.kill = m.kill
      BY SMTT(30), <3>1, <2>2 DEF Memory
    <3>. QED BY <3>1, <3>2, SoundFlags DEF KeepsJob
  <2>3. CASE n = [m EXCEPT !.orphan = FALSE]
    <3>1. m \in Memory(Nat) /\ m.stage # "none"
      BY DEF Sound
    <3>2. /\ n \in Memory(Nat) /\ n.stage = m.stage /\ n.call = m.call /\ n.lock = m.lock
          /\ n.job = m.job /\ n.kill = m.kill
      BY ZenonT(30), <3>1, <2>3 DEF Memory
    <3>. QED BY <3>1, <3>2, SoundFlags DEF KeepsJob
  <2>. QED BY <2>1, <2>2, <2>3
<1>2. CASE Set(d, yes) /\ UNCHANGED reg
  BY <1>2, QuietStep
<1>3. CASE Cleanup(d, [yes EXCEPT !.ctrl = "released"])
  BY <1>1, <1>3, CleanupStep
<1>4. CASE Cleanup(d, [yes EXCEPT !.orphan = FALSE])
  BY <1>1, <1>4, CleanupStep
<1>5. CASE Set(d, [no EXCEPT !.ctrl = "pending"]) /\ UNCHANGED reg
  BY <1>1, <1>5, QuietStep
<1>6. CASE Set(d, no) /\ UNCHANGED reg
  BY <1>6, QuietStep
<1>. QED BY <1>2, <1>3, <1>4, <1>5, <1>6 DEF Release, ReleaseOrphan

\* A row that ends as lost offers the runtime to nobody, and no more does the end of one that
\* does not run.
LEMMA CompletedGentle ==
  ASSUME NEW g, NEW k \in DOMAIN g.rows, NEW state \in Outcomes, NEW written, NEW complete,
         NEW full, RegInv(g), state # "DONE" \/ g.rows[k].state # "RUNNING"
  PROVE  Gentle(g, Completed(g, k, state, written, complete, full))
<1>. DEFINE h == Completed(g, k, state, written, complete, full)
<1>1. Steady(g, h) /\ (h.runtime = "READY" => g.runtime = "READY")
  <2>. HIDE DEF h
  <2>. QED BY CompletedSteps DEF h
<1>. QED BY <1>1 DEF Gentle

\* A process that has not begun to serve has nothing under way.
LEMMA Nothing ==
  /\ NoMemory.stage = "none" /\ NoMemory.ctrl = "none" /\ NoMemory.mon = "none"
  /\ NoMemory.job.at = "none" /\ NoMemory.kill = "none" /\ NoMemory.lock = "free"
  /\ \A c \in Calls : NoMemory.call[c].at = "idle"
BY DEF NoMemory, NoJob, NoCall

\* The request thread.
Admitted(r) ==
  /\ Existing(r) = {}
  /\ Len(reg'.rows) = Len(reg.rows) + 1 /\ reg'.rows[Len(reg.rows) + 1].req = r
  /\ \A k \in DOMAIN reg.rows : reg'.rows[k] = reg.rows[k]
  /\ \A d \in Daemons : mem'[d].job = mem[d].job

\* A new execution gets a row, and there was none for its request.
LEMMA ExecuteKeeps ==
  ASSUME StorageInv, RootsExclusive, LocksTypeOK, NEW d \in Daemons, NEW c \in Calls,
         phase' = phase, Execute(d, c)
  PROVE  StorageInv' /\ \E r \in Requests : Admitted(r)
<1>. DEFINE m == mem[d]
<1>0. Serves(d) /\ Sound(m, reg) /\ RegInv(reg)
  BY Nothing, Serving DEF Execute, Working, StorageInv
<1>. DEFINE new == [at |-> IF Controlled(d) THEN "prepare" ELSE "finish",
                    exec |-> Len(reg.rows) + 1]
            n == [m EXCEPT !.call[c] = new, !.lock = c]
<1>1. PICK r \in Requests : /\ Existing(r) = {} /\ Admits /\ reg.session # "none"
                            /\ m.call[c].at = "idle" /\ m.lock = "free"
                            /\ reg' = Begun(reg, r) /\ Set(d, n)
  BY DEF Execute
<1>2. /\ RegInv(reg') /\ Len(reg'.rows) = Len(reg.rows) + 1
      /\ reg'.rows[Len(reg.rows) + 1].state = "QUEUED"
      /\ reg'.rows[Len(reg.rows) + 1].req = r
      /\ \A i \in DOMAIN reg.rows : reg'.rows[i] = reg.rows[i]
  BY <1>0, <1>1, BegunSteps DEF Admits
<1>3. /\ DOMAIN reg.rows = 1..Len(reg.rows) /\ DOMAIN reg'.rows = 1..Len(reg'.rows)
      /\ Len(reg.rows) \in Nat
  BY <1>0, <1>2 DEF RegInv, Shaped, IsTable
<1>4. new \in [at : {"prepare", "finish"}, exec : Nat] /\ new.exec \in DOMAIN reg'.rows
  BY <1>2, <1>3
<1>5. m.job.at = "none"
  BY <1>0, <1>1 DEF Sound, Admits
<1>. HIDE DEF new
<1>6. /\ n \in Memory(Nat) /\ n.stage = m.stage /\ n.lock = c /\ n.job = m.job
      /\ n.kill = m.kill /\ n.call[c] = new
      /\ \A e \in Calls : e # c => n.call[e] = m.call[e]
  BY <1>0, <1>4 DEF Sound, Memory
<1>. HIDE DEF n
<1>7. \A e \in Calls :
        /\ n.call[e].at # "idle" => n.call[e].exec \in DOMAIN reg'.rows
        /\ n.call[e].at = "prepare" => reg'.rows[n.call[e].exec].state # "RUNNING"
  <2>1. ASSUME NEW e \in Calls, e = c, n.call[e].at = "prepare"
        PROVE  reg'.rows[n.call[e].exec].state # "RUNNING"
    BY <1>2, <1>6, <2>1 DEF new
  <2>2. ASSUME NEW e \in Calls, e # c, n.call[e].at # "idle"
        PROVE  /\ n.call[e].exec \in DOMAIN reg.rows /\ n.call[e].exec \in DOMAIN reg'.rows
               /\ reg'.rows[n.call[e].exec] = reg.rows[n.call[e].exec]
               /\ n.call[e].at # "prepare"
    <3>1. n.call[e] = m.call[e] /\ n.call[e].exec \in DOMAIN reg.rows
      BY <1>0, <1>6, <2>2 DEF Sound
    <3>2. n.call[e].at # "prepare"
      BY <1>0, <1>1, <3>1, StorageAssumption DEF Sound
    <3>. QED BY <1>2, <1>3, <3>1, <3>2
  <2>. QED BY <1>4, <1>6, <2>1, <2>2
<1>8. \A e \in Calls :
        /\ n.call[e].at \in {"prepare", "mark", "undo", "finish"} <=> n.lock = e
        /\ n.call[e].at # "wait"
  BY <1>0, <1>1, <1>4, <1>5, <1>6, StorageAssumption DEF Sound
<1>9. Sound(n, reg')
  BY <1>0, <1>1, <1>5, <1>6, <1>7, <1>8, StorageAssumption DEF Sound
<1>10. \A e \in Daemons : mem'[e].job = mem[e].job
  BY <1>1, <1>6 DEF Set, StorageInv
<1>11. StorageInv' /\ Admitted(r)
  BY <1>0, <1>1, <1>2, <1>9, <1>10, StepOf DEF Admitted
<1>. QED BY <1>11

\* What is queued is marked as running, and given to the background thread or given up.
LEMMA MarksKeep ==
  ASSUME StorageInv, RootsExclusive, LocksTypeOK, NEW d \in Daemons, NEW c \in Calls,
         phase' = phase, Marks(d, c)
  PROVE  StorageInv' /\ Settled
<1>. DEFINE m == mem[d]
            k == m.call[c].exec
<1>0. Serves(d) /\ Sound(m, reg) /\ RegInv(reg)
  BY Nothing, Serving DEF Marks, StorageInv
<1>. DEFINE job == [NoJob EXCEPT !.at = "dispatch", !.exec = k]
            n == [CallTo(m, c, "wait") EXCEPT !.lock = "free", !.job = job]
<1>1. m.call[c].at = "mark" /\ k \in DOMAIN reg.rows
  BY <1>0 DEF Marks, Sound
<1>2. CASE ~MayRun(k)
  <2>1. reg' = reg /\ Set(d, CallTo(m, c, "undo"))
    BY <1>2 DEF Marks
  <2>. QED BY <1>0, <1>1, <2>1, SoundAfter, QuietStep DEF KeepsJob
<1>3. CASE MayRun(k)
  <2>1. reg' = MarkedRunning(reg, k)
    BY <1>3 DEF Marks
  <2>2. /\ RegInv(reg') /\ Len(reg'.rows) = Len(reg.rows) /\ reg'.runtime = "BUSY"
        /\ reg'.rows[k].state = "RUNNING" /\ reg'.rows[k].req = reg.rows[k].req
        /\ \A i \in DOMAIN reg.rows : i # k => reg'.rows[i] = reg.rows[i]
    BY SMTT(30), <1>0, <1>1, <1>3, <2>1, MarkedSteps DEF MayRun
  <2>3. DOMAIN reg'.rows = DOMAIN reg.rows /\ DOMAIN reg.rows \subseteq Nat
    BY <1>0, <2>2 DEF RegInv, Shaped, IsTable
  <2>4. m.job.at = "none" /\ m.lock = c
    BY <1>0, <1>1, <1>3 DEF MayRun, Sound
  <2>5. \A e \in Calls : m.call[e].at # "prepare" /\ m.call[e].at # "wait"
    BY <1>0, <1>1, <2>4 DEF Sound
  <2>6. CASE m.stage = "waiting"
    <3>. DEFINE o == CallTo(m, c, "undo")
    <3>1. Set(d, o)
      BY <1>3, <2>6 DEF Marks
    <3>2. Sound(o, reg) /\ o.job.at = "none"
      BY <1>0, <1>1, <2>4, SoundAfter
    <3>3. \A e \in Calls : o.call[e].at # "prepare"
      BY <1>0, <2>5 DEF CallTo, Sound, Memory
    <3>. HIDE DEF o
    <3>4. Sound(o, reg')
      BY <2>3, <3>2, <3>3 DEF Sound
    <3>5. \A e \in Daemons : mem'[e].job.at = "dispatch" => mem'[e].job = mem[e].job
      BY <3>1, <3>2 DEF Set, StorageInv
    <3>. QED BY <1>0, <2>2, <3>1, <3>4, <3>5, StepOf DEF Settled
  <2>7. CASE m.stage # "waiting"
    <3>1. Set(d, n)
      BY <1>3, <2>7 DEF Marks
    <3>2. job \in [at : {"dispatch"}, exec : DOMAIN reg.rows,
                   out : {"DONE", "TIMED_OUT", "LOST"}] /\ job.exec = k
      BY <1>1 DEF NoJob
    <3>. HIDE DEF job
    <3>3. /\ n \in Memory(Nat) /\ n.stage = m.stage /\ n.lock = "free" /\ n.job = job
          /\ n.kill = m.kill /\ n.call[c].at = "wait" /\ n.call[c].exec = k
          /\ \A e \in Calls : e # c => n.call[e] = m.call[e]
      <4>. DEFINE p == CallTo(m, c, "wait")
      <4>1. /\ p \in Memory(Nat) /\ p.stage = m.stage /\ p.kill = m.kill
            /\ p.call[c].at = "wait" /\ p.call[c].exec = k
            /\ \A e \in Calls : e # c => p.call[e] = m.call[e]
        BY <1>0 DEF CallTo, Sound, Memory
      <4>2. job \in [at : {"none", "dispatch", "await", "record", "discard", "release",
                           "complete"}, exec : Nat, out : {"DONE", "TIMED_OUT", "LOST"}]
        BY <2>3, <3>2
      <4>. HIDE DEF p
      <4>3. /\ n.stage = p.stage /\ n.lock = "free" /\ n.job = job /\ n.kill = p.kill
            /\ n.call = p.call /\ n \in Memory(Nat)
        BY <4>1, <4>2 DEF Memory, p
      <4>. QED BY <4>1, <4>3
    <3>. HIDE DEF n
    <3>4. \A e \in Calls :
            /\ n.call[e].at # "idle" => n.call[e].exec \in DOMAIN reg'.rows
            /\ n.call[e].at \in {"prepare", "mark", "undo", "finish"} <=> n.lock = e
            /\ n.call[e].at # "prepare"
            /\ n.call[e].at = "wait" => e = c
      BY <1>0, <1>1, <2>3, <2>4, <2>5, <3>3, StorageAssumption DEF Sound
    <3>5. n.lock # "kill" /\ n.kill = "none"
      BY <1>0, <2>4, <3>3, StorageAssumption DEF Sound
    <3>6. Sound(n, reg')
      BY <1>0, <2>2, <2>3, <3>2, <3>3, <3>4, <3>5 DEF Sound
    <3>7. \A e \in Daemons : mem'[e].job = mem[e].job \/ mem'[e].job.exec = k
      BY <3>1, <3>2, <3>3 DEF Set, StorageInv
    <3>8. Settled
      BY <1>1, <1>3, <2>2, <3>7 DEF Settled, MayRun
    <3>. QED BY <1>0, <2>2, <3>1, <3>6, <3>8, StepOf
  <2>. QED BY <2>6, <2>7
<1>. QED BY <1>2, <1>3

\* Every step of a request thread after its row.
LEMMA CallKeeps ==
  ASSUME StorageInv, RootsExclusive, LocksTypeOK, NEW d \in Daemons, NEW c \in Calls,
         phase' = phase, CallStep(d, c)
  PROVE  StorageInv' /\ Settled
<1>. DEFINE m == mem[d]
            k == m.call[c].exec
<1>1. mem[d] # NoMemory
  BY Nothing DEF CallStep, Prepares, SinkFails, PrepareFails, Marks, Undoes, Finishes, Returns
<1>2. Serves(d) /\ Sound(m, reg) /\ RegInv(reg)
  BY <1>1, Serving DEF StorageInv
<1>4. CASE Prepares(d, c) \/ PrepareFails(d, c)
  <2>1. m.call[c].at = "prepare" /\ reg' = reg
        /\ \E at \in {"mark", "undo"} : Set(d, CallTo(m, c, at))
    BY <1>4 DEF Prepares, PrepareFails, OnlyMemory
  <2>. QED BY <1>2, <2>1, SoundAfter, QuietStep DEF KeepsJob
<1>5. CASE SinkFails(d, c)
  <2>1. m.call[c].at = "prepare" /\ reg' = Completed(reg, k, "DONE", 0, FALSE, FALSE)
        /\ Set(d, Answers(m, c))
    BY <1>5 DEF SinkFails
  <2>2. k \in DOMAIN reg.rows /\ reg.rows[k].state # "RUNNING"
    BY <1>2, <2>1 DEF Sound
  <2>3. Gentle(reg, reg')
    BY <1>2, <2>1, <2>2, CompletedGentle DEF Outcomes
  <2>. QED BY <1>2, <2>1, <2>3, SoundAfter, GentleStep DEF KeepsJob
<1>7. CASE Undoes(d, c)
  <2>1. m.call[c].at = "undo" /\ Release(d, CallTo(m, c, "finish"), CallTo(m, c, "finish"))
    BY <1>7 DEF Undoes
  <2>2. Sound(CallTo(m, c, "finish"), reg) /\ KeepsJob(d, CallTo(m, c, "finish"))
    BY <1>2, <2>1, SoundAfter DEF KeepsJob
  <2>. QED BY <1>2, <2>1, <2>2, ReleaseStep
<1>8. CASE Finishes(d, c)
  <2>1. m.call[c].at = "finish" /\ CompletesWithoutSummary(d, k, "LOST", Answers(m, c))
    BY <1>8 DEF Finishes
  <2>2. k \in DOMAIN reg.rows
    BY <1>2, <2>1 DEF Sound
  <2>3. Gentle(reg, reg') /\ Set(d, Answers(m, c))
    BY <1>2, <2>1, <2>2, CompletedGentle DEF CompletesWithoutSummary, Outcomes
  <2>. QED BY <1>2, <2>3, SoundAfter, GentleStep DEF KeepsJob
<1>9. CASE Returns(d, c)
  <2>1. Set(d, Answers(m, c)) /\ reg' = reg
    BY <1>9 DEF Returns, OnlyMemory
  <2>. QED BY <1>2, <2>1, SoundAfter, QuietStep DEF KeepsJob
<1>. QED BY <1>4, <1>5, <1>7, <1>8, <1>9, MarksKeep DEF CallStep

\* The background thread of an execution.
LEMMA JobKeeps ==
  ASSUME StorageInv, RootsExclusive, LocksTypeOK, NEW d \in Daemons, phase' = phase, JobStep(d)
  PROVE  StorageInv' /\ Settled
<1>. DEFINE m == mem[d]
            k == m.job.exec
<1>1. m.job.at # "none"
  BY DEF JobStep, Dispatches, SummaryComes, SummaryOfLoss, Summary, NoSummary, Records, Discards,
         Releases, Completes
<1>2. Serves(d) /\ Sound(m, reg) /\ RegInv(reg)
  BY <1>1, Nothing, Serving DEF StorageInv
<1>3. k \in DOMAIN reg.rows /\ m.job.out \in Outcomes
  BY <1>1, <1>2 DEF Sound, Memory, Outcomes
<1>4. ASSUME NEW out \in Outcomes, NEW at \in {"record", "release"}
      PROVE  /\ Sound([JobTo(m, at) EXCEPT !.job.out = out], reg)
             /\ KeepsJob(d, [JobTo(m, at) EXCEPT !.job.out = out])
  <2>. DEFINE n == [JobTo(m, at) EXCEPT !.job.out = out]
  <2>1. /\ n \in Memory(Nat) /\ n.stage = m.stage /\ n.lock = m.lock /\ n.kill = m.kill
        /\ n.call = m.call /\ n.job.at = at /\ n.job.exec = k
    BY <1>2 DEF JobTo, Sound, Memory, Outcomes
  <2>. HIDE DEF n
  <2>2. Sound(n, reg) /\ KeepsJob(d, n)
    BY <1>1, <1>2, <2>1 DEF Sound, KeepsJob
  <2>. QED BY <2>2 DEF n
<1>5. CASE Dispatches(d)
  <2>1. reg' = reg /\ \E at \in {"await", "release"} : Set(d, JobTo(m, at))
    BY <1>5 DEF Dispatches
  <2>. QED BY <1>1, <1>2, <2>1, SoundAfter, QuietStep DEF KeepsJob
<1>6. CASE SummaryComes(d) \/ SummaryOfLoss(d) \/ NoSummary(d)
  <2>1. /\ reg' = reg
        /\ \E out \in Outcomes, at \in {"record", "release"} :
             Set(d, [JobTo(m, at) EXCEPT !.job.out = out])
    BY <1>6 DEF SummaryComes, SummaryOfLoss, Summary, NoSummary, OnlyMemory, Outcomes
  <2>. QED BY <1>2, <1>4, <2>1, QuietStep
<1>7. CASE Records(d)
  <2>1. PICK complete \in BOOLEAN :
          reg' = Completed(reg, k, m.job.out, log[k], complete, FALSE)
    BY <1>7 DEF Records
  <2>2. Steady(reg, reg')
    BY <1>2, <1>3, <2>1, CompletedSteps
  <2>3. CASE m.job.out = "DONE"
    <3>1. Set(d, JobEnds(m))
      BY <1>7, <2>3 DEF Records
    <3>2. Sound(JobEnds(m), reg) /\ JobEnds(m).job.at = "none"
      BY <1>2, SoundAfter
    <3>3. Sound(JobEnds(m), reg')
      BY <1>2, <2>2, <3>2, SoundKept
    <3>. QED BY <1>2, <2>2, <3>1, <3>2, <3>3, SettledStep DEF KeepsJob
  <2>4. CASE m.job.out # "DONE"
    <3>1. Set(d, JobTo(m, "discard"))
      BY <1>7, <2>4 DEF Records
    <3>2. Gentle(reg, reg')
      BY <1>2, <1>3, <2>1, <2>4, CompletedGentle
    <3>. QED BY <1>1, <1>2, <3>1, <3>2, SoundAfter, GentleStep DEF KeepsJob
  <2>. QED BY <2>3, <2>4
<1>8. CASE Discards(d)
  <2>1. Release(d, JobEnds(m), JobEnds(m))
    BY <1>8 DEF Discards
  <2>. QED BY <1>2, <2>1, SoundAfter, ReleaseStep DEF KeepsJob
<1>9. CASE Releases(d)
  <2>1. Release(d, JobTo(m, "complete"), JobTo(m, "complete"))
    BY <1>9 DEF Releases
  <2>2. Sound(JobTo(m, "complete"), reg) /\ KeepsJob(d, JobTo(m, "complete"))
    BY <1>1, <1>2, SoundAfter DEF KeepsJob
  <2>. QED BY <1>2, <2>1, <2>2, ReleaseStep
<1>10. CASE Completes(d)
  <2>1. PICK written : /\ reg' = Completed(reg, k, m.job.out, written, FALSE, TRUE)
                       /\ Set(d, JobEnds(m))
    BY <1>10 DEF Completes, CompletesWithoutSummary
  <2>2. Steady(reg, reg')
    BY <1>2, <1>3, <2>1, CompletedSteps
  <2>3. Sound(JobEnds(m), reg) /\ JobEnds(m).job.at = "none"
    BY <1>2, SoundAfter
  <2>4. Sound(JobEnds(m), reg')
    BY <1>2, <2>2, <2>3, SoundKept
  <2>. QED BY <1>2, <2>1, <2>2, <2>3, <2>4, SettledStep DEF KeepsJob
<1>. QED BY <1>5, <1>6, <1>7, <1>8, <1>9, <1>10 DEF JobStep

\* What a sound memory becomes when only its flags change.
LEMMA FlagsSet ==
  ASSUME NEW m, NEW g, Sound(m, g)
  PROVE  /\ \A mon \in {"mark", "release", "ended"} :
              Sound([m EXCEPT !.mon = mon], g) /\ [m EXCEPT !.mon = mon].job = m.job
         /\ \A stage \in {"up", "stopping", "waiting"} :
              Sound([m EXCEPT !.stage = stage], g) /\ [m EXCEPT !.stage = stage].job = m.job
         /\ \A stage \in {"up", "stopping", "waiting"} :
              /\ Sound([m EXCEPT !.stage = stage, !.orphan = TRUE], g)
              /\ [m EXCEPT !.stage = stage, !.orphan = TRUE].job = m.job
         /\ m.kill # "none" => \A kill \in {"closeT", "closeF"} :
              Sound(Kill(m, kill), g) /\ Kill(m, kill).job = m.job
<1>. /\ m \in Memory(Nat)
  BY DEF Sound
<1>1. ASSUME NEW mon \in {"mark", "release", "ended"}
      PROVE  Sound([m EXCEPT !.mon = mon], g) /\ [m EXCEPT !.mon = mon].job = m.job
  BY SMTT(30), SoundFlags DEF Sound, Memory
<1>2. ASSUME NEW stage \in {"up", "stopping", "waiting"}
      PROVE  Sound([m EXCEPT !.stage = stage], g) /\ [m EXCEPT !.stage = stage].job = m.job
  BY SMTT(30), SoundFlags DEF Sound, Memory
<1>3. ASSUME NEW stage \in {"up", "stopping", "waiting"}
      PROVE  /\ Sound([m EXCEPT !.stage = stage, !.orphan = TRUE], g)
             /\ [m EXCEPT !.stage = stage, !.orphan = TRUE].job = m.job
  <2>. DEFINE n == [m EXCEPT !.stage = stage, !.orphan = TRUE]
  <2>1. /\ n \in Memory(Nat) /\ n.stage = stage /\ n.lock = m.lock /\ n.kill = m.kill
        /\ n.call = m.call /\ n.job = m.job
    BY DEF Memory
  <2>. HIDE DEF n
  <2>2. Sound(n, g)
    BY <2>1, SoundFlags
  <2>. QED BY <2>1, <2>2 DEF n
<1>4. ASSUME m.kill # "none", NEW kill \in {"closeT", "closeF"}
      PROVE  Sound(Kill(m, kill), g) /\ Kill(m, kill).job = m.job
  BY SMTT(30), <1>4, SoundFlags DEF Sound, Memory, Kill
<1>. QED BY <1>1, <1>2, <1>3, <1>4

\* The monitor of a runtime.
LEMMA MonitorKeeps ==
  ASSUME StorageInv, RootsExclusive, LocksTypeOK, NEW d \in Daemons, phase' = phase, MonitorStep(d)
  PROVE  StorageInv' /\ Settled
<1>. DEFINE m == mem[d]
<1>1. m.mon # "none"
  BY DEF MonitorStep, MonitorCalls, MonitorMarks, MonitorReleases
<1>2. Serves(d) /\ Sound(m, reg) /\ RegInv(reg)
  BY <1>1, Nothing, Serving DEF StorageInv
<1>3. CASE MonitorCalls(d)
  <2>1. reg' = reg /\ \E mon \in {"mark", "ended"} : Set(d, [m EXCEPT !.mon = mon])
    BY <1>3 DEF MonitorCalls, OnlyMemory
  <2>. QED BY <1>2, <2>1, FlagsSet, QuietStep DEF KeepsJob
<1>4. CASE MonitorMarks(d)
  <2>1. reg' = RuntimeLost(reg) /\ Set(d, [m EXCEPT !.mon = "release"])
    BY <1>4 DEF MonitorMarks
  <2>. QED BY <1>2, <2>1, FlagsSet, RuntimeLostGentle, GentleStep DEF KeepsJob
<1>5. CASE MonitorReleases(d)
  <2>. DEFINE n == [m EXCEPT !.mon = "ended"]
  <2>1. Release(d, n, n)
    BY <1>5 DEF MonitorReleases
  <2>2. Sound(n, reg) /\ KeepsJob(d, n)
    BY <1>2, FlagsSet DEF KeepsJob
  <2>. HIDE DEF n
  <2>. QED BY <1>2, <2>1, <2>2, ReleaseStep
<1>. QED BY <1>3, <1>4, <1>5 DEF MonitorStep

\* A request to destroy the session.
LEMMA KillKeeps ==
  ASSUME StorageInv, RootsExclusive, LocksTypeOK, NEW d \in Daemons, phase' = phase,
         Destroy(d) \/ KillStep(d)
  PROVE  StorageInv' /\ Settled
<1>. DEFINE m == mem[d]
<1>1. m # NoMemory
  BY Nothing DEF Destroy, Working, KillStep, DestroyReleases, DestroyCloses
<1>2. Serves(d) /\ Sound(m, reg) /\ RegInv(reg)
  BY <1>1, Serving DEF StorageInv
<1>3. CASE Destroy(d)
  <2>1. PICK kill \in {"release", "orphan", "closeN"} :
          reg' = reg /\ m.lock = "free" /\ Set(d, [m EXCEPT !.lock = "kill", !.kill = kill])
    BY <1>3 DEF Destroy, OnlyMemory
  <2>. DEFINE n == [m EXCEPT !.lock = "kill", !.kill = kill]
  <2>2. /\ n \in Memory(Nat) /\ n.stage = m.stage /\ n.call = m.call /\ n.job = m.job
        /\ n.lock = "kill" /\ n.kill # "none"
    BY <1>2 DEF Sound, Memory
  <2>3. \A c \in Calls : n.call[c].at \in {"prepare", "mark", "undo", "finish"} <=> n.lock = c
    BY <1>2, <2>1, <2>2, StorageAssumption DEF Sound
  <2>. HIDE DEF n
  <2>4. Sound(n, reg)
    BY <1>2, <2>2, <2>3 DEF Sound
  <2>5. KeepsJob(d, n)
    BY <2>2 DEF KeepsJob
  <2>. QED BY <1>2, <2>1, <2>4, <2>5, QuietStep DEF n
<1>4. CASE DestroyReleases(d)
  <2>1. /\ m.kill # "none"
        /\ \/ Release(d, Kill(m, "closeT"), Kill(m, "closeF"))
           \/ ReleaseOrphan(d, Kill(m, "closeT"), Kill(m, "closeF"))
    BY <1>4 DEF DestroyReleases
  <2>2. /\ Sound(Kill(m, "closeT"), reg) /\ Sound(Kill(m, "closeF"), reg)
        /\ KeepsJob(d, Kill(m, "closeT")) /\ KeepsJob(d, Kill(m, "closeF"))
    BY <1>2, <2>1, FlagsSet DEF KeepsJob
  <2>. QED BY <1>2, <2>1, <2>2, ReleaseStep
<1>5. CASE DestroyCloses(d)
  <2>. DEFINE p == Kill(m, "none")
              q == Tell(p, {reg.current})
              n == [q EXCEPT !.lock = "free"]
  <2>1. m.kill # "none" /\ Set(d, n)
    BY <1>5 DEF DestroyCloses
  <2>2. \E terminated : reg' \in {Closed(reg, terminated), Sealed(Closed(reg, terminated))}
    BY <1>5 DEF DestroyCloses
  <2>3. m.lock = "kill"
    BY <1>2, <2>1 DEF Sound
  <2>4. Gentle(reg, reg')
    <3>1. PICK terminated : reg' \in {Closed(reg, terminated), Sealed(Closed(reg, terminated))}
      BY <2>2
    <3>2. Gentle(reg, Closed(reg, terminated)) /\ RegInv(Closed(reg, terminated))
      BY <1>2, ClosedGentle DEF Gentle, Steady
    <3>3. Gentle(Closed(reg, terminated), Sealed(Closed(reg, terminated)))
      BY <3>2, SealedGentle
    <3>4. Gentle(reg, Sealed(Closed(reg, terminated)))
      BY <1>2, <3>2, <3>3 DEF Gentle, Steady, RegInv, Shaped, IsTable
    <3>. QED BY <3>1, <3>2, <3>4
  <2>5. /\ p \in Memory(Nat) /\ p.stage = m.stage /\ p.call = m.call /\ p.job = m.job
        /\ p.kill = "none"
    BY <1>2 DEF Kill, Sound, Memory
  <2>. HIDE DEF p
  <2>6. /\ q \in Memory(Nat) /\ q.stage = m.stage /\ q.job = m.job /\ q.kill = "none"
        /\ \A c \in Calls : /\ q.call[c].exec = m.call[c].exec
                            /\ q.call[c].at = m.call[c].at \/ (/\ q.call[c].at = "told"
                                                              /\ m.call[c].at = "wait")
    BY ZenonT(30), <2>5 DEF Tell, Memory
  <2>. HIDE DEF q
  <2>7. /\ n \in Memory(Nat) /\ n.stage = m.stage /\ n.job = m.job /\ n.kill = "none"
        /\ n.call = q.call /\ n.lock = "free"
    BY <2>6 DEF Memory
  <2>. HIDE DEF n
  <2>8. \A c \in Calls : n.call[c].at \notin {"prepare", "mark", "undo", "finish"}
    BY <1>2, <2>3, <2>6, <2>7, StorageAssumption DEF Sound
  <2>9. Sound(n, reg)
    BY <1>2, <2>6, <2>7, <2>8, StorageAssumption DEF Sound
  <2>10. KeepsJob(d, n)
    BY <2>7 DEF KeepsJob
  <2>. QED BY <1>2, <2>1, <2>4, <2>9, <2>10, GentleStep
<1>. QED BY <1>3, <1>4, <1>5 DEF KillStep

\* The sweep.
LEMMA SweepKeeps ==
  ASSUME StorageInv, RootsExclusive, LocksTypeOK, NEW d \in Daemons, phase' = phase, SweepStep(d)
  PROVE  StorageInv' /\ Settled
<1>1. mem[d] # NoMemory
  BY Nothing DEF SweepStep, SweepReleases, SweepCleans, SweepSeals
<1>2. Serves(d) /\ Sound(mem[d], reg) /\ RegInv(reg)
  BY <1>1, Serving DEF StorageInv
<1>3. CASE SweepReleases(d)
  <2>1. Release(d, mem[d], mem[d]) \/ ReleaseOrphan(d, mem[d], mem[d])
    BY <1>3 DEF SweepReleases
  <2>. QED BY <1>2, <2>1, ReleaseStep DEF KeepsJob
<1>4. CASE SweepCleans(d)
  <2>1. Cleanup(d, mem[d])
    BY <1>4 DEF SweepCleans
  <2>. QED BY <1>2, <2>1, CleanupStep DEF KeepsJob
<1>5. CASE SweepSeals(d)
  <2>1. reg' = Sealed(reg) /\ Set(d, mem[d])
    BY <1>5 DEF SweepSeals, Set, StorageInv
  <2>. QED BY <1>2, <2>1, SealedGentle, GentleStep DEF KeepsJob
<1>. QED BY <1>3, <1>4, <1>5 DEF SweepStep

\* A session is published, a daemon starts or stops.
LEMMA LifeKeeps ==
  ASSUME StorageInv, RootsExclusive, LocksTypeOK, NEW d \in Daemons, phase' = phase,
         Publish(d) \/ Reconcile(d) \/ Adopts(d) \/ Stops(d) \/ StopReleases(d)
  PROVE  StorageInv' /\ Settled
<1>. DEFINE m == mem[d]
<1>0. RegInv(reg)
  BY DEF StorageInv
<1>1. m # NoMemory => Serves(d) /\ Sound(m, reg)
  BY Serving
<1>2. CASE Publish(d)
  <2>. DEFINE n == [m EXCEPT !.ctrl = "listed", !.mon = "watch"]
  <2>1. /\ m.stage = "up" /\ reg.session = "none" /\ reg' = Published(reg)
        /\ Set(d, n)
    BY <1>2 DEF Publish
  <2>2. Serves(d) /\ Sound(m, reg)
    BY <1>1, <2>1, Nothing
  <2>3. RegInv(reg') /\ reg'.rows = reg.rows /\ DOMAIN reg.rows = {} /\ Steady(reg, reg')
    BY <1>0, <2>1, PublishedSteps DEF RegInv, Shaped, IsTable, Steady
  <2>4. /\ n \in Memory(Nat) /\ n.stage = m.stage /\ n.call = m.call /\ n.job = m.job
        /\ n.lock = m.lock /\ n.kill = m.kill
    BY <2>2 DEF Sound, Memory
  <2>. HIDE DEF n
  <2>5. Sound(n, reg')
    BY <2>2, <2>3, <2>4 DEF Sound
  <2>6. KeepsJob(d, n)
    BY <2>4 DEF KeepsJob
  <2>. QED BY <2>1, <2>2, <2>3, <2>5, <2>6, SettledStep
<1>3. CASE Reconcile(d)
  <2>. DEFINE n == [NoMemory EXCEPT !.stage = "adopt"]
  <2>1. /\ Serves(d) /\ m.stage = "none" /\ reg' = Reconciled(reg)
        /\ Set(d, [m EXCEPT !.stage = "adopt"])
    BY <1>3 DEF Reconcile, Serves
  <2>2. m = NoMemory
    BY <1>1, <2>1 DEF Sound
  <2>3. /\ n \in Memory(Nat) /\ n.stage # "none" /\ n.lock = "free" /\ n.kill = "none"
        /\ n.job.at = "none" /\ \A c \in Calls : n.call[c].at = "idle"
    BY DEF NoMemory, Memory, NoCall, NoJob
  <2>. HIDE DEF n
  <2>4. Sound(n, reg)
    BY <2>3, StorageAssumption DEF Sound
  <2>5. KeepsJob(d, n)
    BY <2>3 DEF KeepsJob
  <2>. QED BY <1>0, <2>1, <2>2, <2>4, <2>5, ReconciledGentle, GentleStep DEF n
<1>4. CASE Adopts(d)
  <2>. DEFINE n == [m EXCEPT !.stage = "up"]
  <2>1. m.stage = "adopt"
    BY <1>4 DEF Adopts
  <2>2. Serves(d) /\ Sound(m, reg)
    BY <1>1, <2>1, Nothing
  <2>3. /\ Sound(n, reg) /\ Sound([m EXCEPT !.stage = "up", !.orphan = TRUE], reg)
        /\ KeepsJob(d, n) /\ KeepsJob(d, [m EXCEPT !.stage = "up", !.orphan = TRUE])
    BY <2>2, FlagsSet DEF KeepsJob
  <2>4. \/ reg' = reg /\ Set(d, [n EXCEPT !.orphan = TRUE])
        \/ Cleanup(d, n)
        \/ reg' = Sealed(reg) /\ Set(d, n)
    BY <1>4 DEF Adopts
  <2>5. [n EXCEPT !.orphan = TRUE] = [m EXCEPT !.stage = "up", !.orphan = TRUE]
    OBVIOUS
  <2>. HIDE DEF n
  <2>. QED BY <1>0, <2>2, <2>3, <2>4, <2>5, QuietStep, CleanupStep, SealedGentle, GentleStep
<1>5. CASE Stops(d)
  <2>1. /\ m.stage = "up" /\ reg' \in {reg, RuntimeLost(reg)}
        /\ Set(d, [m EXCEPT !.stage = "stopping"])
    BY <1>5 DEF Stops
  <2>2. /\ Serves(d) /\ Sound([m EXCEPT !.stage = "stopping"], reg)
        /\ KeepsJob(d, [m EXCEPT !.stage = "stopping"])
    BY <1>1, <2>1, Nothing, FlagsSet DEF KeepsJob
  <2>. QED BY <1>0, <2>1, <2>2, RuntimeLostGentle, GentleStep, QuietStep
<1>6. CASE StopReleases(d)
  <2>. DEFINE p == Tell(m, DOMAIN reg.rows)
              n == [p EXCEPT !.stage = "waiting"]
  <2>1. m.stage = "stopping" /\ (ReleaseOrphan(d, n, n) \/ Release(d, n, n))
    BY <1>6 DEF StopReleases
  <2>2. Serves(d) /\ Sound(p, reg) /\ p.job = m.job
    BY <1>1, <2>1, Nothing, SoundAfter
  <2>. HIDE DEF p
  <2>3. Sound(n, reg) /\ KeepsJob(d, n)
    BY <2>2, FlagsSet DEF KeepsJob
  <2>. QED BY <2>1, <2>2, <2>3, ReleaseStep
<1>. QED BY <1>2, <1>3, <1>4, <1>5, <1>6

\* A process ends, or the locks move.
LEMMA ProcessKeeps ==
  ASSUME StorageInv, RootsExclusive, LocksTypeOK, NEW d \in Daemons,
         StopEnds(d) \/ Crash(d) \/ OtherEnds(d) \/ LockSteps
  PROVE  StorageInv' /\ Settled
<1>0. reg' = reg /\ RegInv(reg)
  BY DEF StopEnds, Crash, OtherEnds, LockSteps, StorageInv
<1>1. CASE StopEnds(d) \/ Crash(d)
  <2>1. mem' = [mem EXCEPT ![d] = NoMemory]
    BY <1>1 DEF StopEnds, Crash, Set
  <2>2. \A e \in Daemons : e # d => phase'[e] = phase[e]
    BY <1>1 DEF StopEnds, Crash, BeginClosing, CrashProcess, Enters, LocksTypeOK
  <2>. QED BY <1>0, <2>1, <2>2, Nothing DEF StorageInv, Serves, Settled
<1>2. CASE OtherEnds(d)
  <2>1. mem' = mem /\ ~Serves(d) /\ \A e \in Daemons : e # d => phase'[e] = phase[e]
    BY <1>2 DEF OtherEnds, BeginClosing, Enters, LocksTypeOK, Serves
  <2>. QED BY <1>0, <2>1 DEF StorageInv, Serves, Settled
<1>3. CASE LockSteps
  <2>1. PICK e \in Daemons : LockStep(e) /\ mem' = mem
    BY <1>3 DEF LockSteps
  <2>2. \A f \in Daemons : phase[f] = "owner" => phase'[f] = "owner"
    BY <2>1 DEF LockStep, BeginLocking, TakeLock, Refused, Own, DropLock, EndProcess, Enters,
                LocksTypeOK
  <2>. QED BY <1>0, <2>1, <2>2, Nothing DEF StorageInv, Serves, Settled
<1>. QED BY <1>1, <1>2, <1>3

\* Before anybody has started there is nothing to forget.
LEMMA StorageInitial == Init => StorageInv
<1> SUFFICES ASSUME Init PROVE StorageInv
  OBVIOUS
<1>1. mem = [d \in Daemons |-> NoMemory]
  BY DEF Init
<1>2. /\ {"session", "runtime", "current", "rows"} \subseteq DOMAIN reg
      /\ reg.rows = <<>>
  BY DEF Init, LogsInit
<1>3. IsTable(<<>>) /\ Len(<<>>) = 0
  <2>1. <<>> \in Seq({})
    OBVIOUS
  <2>2. Len(<<>>) = 0 /\ DOMAIN <<>> = {}
    OBVIOUS
  <2>. QED BY <2>1, <2>2 DEF IsTable
<1>4. RegInv(reg)
  BY <1>2, <1>3 DEF RegInv, Shaped, OneCurrent
<1>. QED BY <1>1, <1>4 DEF StorageInv

\* What the steps of the daemons do to the rows and to what is sent to the tool.
LEMMA StorageStep ==
  ASSUME StorageInv, RootsExclusive, LocksTypeOK, [Next]_vars
  PROVE  StorageInv' /\ (Settled \/ \E r \in Requests : Admitted(r))
<1>1. ASSUME UNCHANGED <<mem, reg, phase>> PROVE StorageInv' /\ Settled
  BY <1>1 DEF StorageInv, Serves, Settled
<1>2. CASE UNCHANGED vars
  BY <1>1, <1>2 DEF vars, lockVars
<1>3. CASE ToolWrites \/ ToolDies
  BY <1>1, <1>3 DEF ToolWrites, ToolDies, lockVars
<1>4. CASE LockSteps
  <2>1. \E d \in Daemons : TRUE
    BY <1>4 DEF LockSteps
  <2>. QED BY <1>4, <2>1, ProcessKeeps
<1>5. ASSUME NEW d \in Daemons, StopEnds(d) \/ Crash(d) \/ OtherEnds(d)
      PROVE  StorageInv' /\ Settled
  BY <1>5, ProcessKeeps
<1>6. ASSUME NEW d \in Daemons,
             \/ Publish(d) \/ Destroy(d) \/ ReadsPage(d) \/ Reconcile(d) \/ Adopts(d) \/ Stops(d)
             \/ JobStep(d) \/ MonitorStep(d) \/ KillStep(d) \/ SweepStep(d) \/ StopReleases(d)
             \/ \E c \in Calls : Execute(d, c) \/ CallStep(d, c)
      PROVE  StorageInv' /\ (Settled \/ \E r \in Requests : Admitted(r))
  <2>1. phase' = phase
    BY <1>6, ServingKeepsLocks DEF lockVars
  <2>2. CASE ReadsPage(d)
    BY <1>1, <2>1, <2>2 DEF ReadsPage
  <2>. QED BY <1>6, <2>1, <2>2, CallKeeps, ExecuteKeeps, JobKeeps, MonitorKeeps, KillKeeps,
              SweepKeeps, LifeKeeps
<1>. QED BY <1>2, <1>3, <1>4, <1>5, <1>6 DEF Next, StopStep

\* Every state of the daemons and of the registry is as StorageInv says.
THEOREM StorageInvariant == Spec => []StorageInv
<1>1. StorageInv /\ (RootsExclusive /\ LocksTypeOK) /\ [Next]_vars => StorageInv'
  BY StorageStep
<1>2. Spec => [](RootsExclusive /\ LocksTypeOK)
  BY ServingFollowsLocks, OwnersDisjoint, LocksTypeCorrect, PTL
<1>. QED BY <1>1, <1>2, StorageInitial, PTL DEF Spec

\* Nobody waits for nothing: who waits for an execution has its background thread, and the
\* session lock is with somebody who will let go of it.
THEOREM NobodyForgotten == Spec => []NoneForgotten
<1>1. StorageInv => NoneForgotten
  <2> SUFFICES ASSUME StorageInv, NEW d \in Daemons
               PROVE  LET m == mem[d] IN
                        /\ \A c \in Calls : m.call[c].at = "wait" => m.job.exec = m.call[c].exec
                        /\ m.lock \in Calls =>
                             m.call[m.lock].at \in {"prepare", "mark", "undo", "finish"}
                        /\ m.lock = "kill" => m.kill # "none"
    BY DEF NoneForgotten
  <2>1. CASE mem[d] = NoMemory
    BY <2>1, Nothing, StorageAssumption
  <2>2. CASE Sound(mem[d], reg)
    BY <2>2 DEF Sound
  <2>. QED BY <2>1, <2>2 DEF StorageInv
<1>. QED BY <1>1, StorageInvariant, PTL

-----------------------------------------------------------------------------
(* At most once *)

\* One row for a request, and what is queued or about to be dispatched was not sent before.
OnceInv ==
  /\ dispatched \in [Requests -> {0, 1}]
  /\ \A j, k \in DOMAIN reg.rows : reg.rows[j].req = reg.rows[k].req => j = k
  /\ \A r \in Requests : Existing(r) = {} => dispatched[r] = 0
  /\ \A k \in DOMAIN reg.rows : reg.rows[k].state = "QUEUED" => dispatched[reg.rows[k].req] = 0
  /\ \A d \in Daemons :
       mem[d].job.at = "dispatch" => dispatched[reg.rows[mem[d].job.exec].req] = 0

\* The pages read so far are the rows up to the cursor.
ReaderInv ==
  /\ {"cursor", "list", "whole"} \subseteq DOMAIN reader
  /\ reader.cursor \in 0..Len(reg.rows)
  /\ reader.list = [i \in 1..reader.cursor |-> i] /\ reader.whole = TRUE

\* A step that sends nothing leaves it so.
LEMMA OnceSettled ==
  ASSUME StorageInv, StorageInv', OnceInv, Settled, dispatched' = dispatched
  PROVE  OnceInv'
<1>1. /\ DOMAIN reg.rows = 1..Len(reg.rows) /\ DOMAIN reg'.rows = DOMAIN reg.rows
  BY DEF StorageInv, RegInv, Shaped, IsTable, Settled
<1>2. \A r \in Requests : Existing(r)' = Existing(r)
  BY <1>1 DEF Existing, Settled
<1>3. ASSUME NEW d \in Daemons, mem'[d].job.at = "dispatch"
      PROVE  dispatched[reg'.rows[mem'[d].job.exec].req] = 0
  <2>1. mem'[d].job.exec \in DOMAIN reg.rows
    BY <1>1, <1>3, Nothing DEF StorageInv, Sound
  <2>2. reg'.rows[mem'[d].job.exec].req = reg.rows[mem'[d].job.exec].req
    BY <2>1 DEF Settled
  <2>. QED BY SMTT(30), <1>3, <2>1, <2>2 DEF Settled, OnceInv
<1>. QED BY <1>1, <1>2, <1>3 DEF Settled, OnceInv

\* A new row is for a request that had none.
LEMMA OnceAdmitted ==
  ASSUME StorageInv, StorageInv', OnceInv, NEW r \in Requests, Admitted(r),
         dispatched' = dispatched
  PROVE  OnceInv'
<1>. DEFINE new == Len(reg.rows) + 1
<1>1. /\ DOMAIN reg.rows = 1..Len(reg.rows) /\ Len(reg.rows) \in Nat
      /\ DOMAIN reg'.rows = 1..new
  BY DEF StorageInv, RegInv, Shaped, IsTable, Admitted
<1>2. \A k \in DOMAIN reg.rows : reg.rows[k].req # r
  BY DEF Admitted, Existing
<1>3. /\ reg'.rows[new].req = r
      /\ \A k \in DOMAIN reg.rows : reg'.rows[k] = reg.rows[k]
  BY DEF Admitted
<1>4. \A k \in DOMAIN reg'.rows : k \in DOMAIN reg.rows \/ k = new
  BY <1>1
<1>5. dispatched[r] = 0
  BY DEF Admitted, OnceInv
<1>6. \A q \in Requests : Existing(q)' = {} => Existing(q) = {}
  BY <1>1, <1>3 DEF Existing
<1>7. ASSUME NEW d \in Daemons, mem'[d].job.at = "dispatch"
      PROVE  dispatched[reg'.rows[mem'[d].job.exec].req] = 0
  <2>1. mem[d].job.at = "dispatch" /\ mem'[d].job = mem[d].job
    BY <1>7 DEF Admitted
  <2>2. mem[d].job.exec \in DOMAIN reg.rows
    BY <2>1, Nothing DEF StorageInv, Sound
  <2>. QED BY <1>3, <2>1, <2>2 DEF OnceInv
<1>. HIDE DEF new
<1>. QED BY <1>2, <1>3, <1>4, <1>5, <1>6, <1>7 DEF OnceInv

\* What is sent was not sent before, and will not be again: nobody else is about to send it,
\* and its row is not queued.
LEMMA OnceDispatches ==
  ASSUME StorageInv, StorageInv', RootsExclusive, LocksTypeOK, OnceInv, Settled,
         NEW d \in Daemons, Dispatches(d)
  PROVE  OnceInv'
<1>. DEFINE k == mem[d].job.exec
            r == reg.rows[k].req
<1>1. mem[d].job.at = "dispatch" /\ Serves(d) /\ Sound(mem[d], reg)
  BY Nothing, Serving DEF Dispatches
<1>2. k \in DOMAIN reg.rows /\ r \in Requests /\ reg.rows[k].state # "QUEUED"
  BY <1>1 DEF Sound, StorageInv, RegInv, Shaped, IsTable, IsRow, OneCurrent
<1>3. dispatched[r] = 0 /\ r \in Requests
  BY <1>1, <1>2 DEF OnceInv
<1>4. reg' = reg /\ mem'[d].job.at # "dispatch"
  <2>1. Sound(mem[d], reg) /\ mem[d].job.at # "none"
    BY <1>1
  <2>2. reg' = reg /\ \E at \in {"await", "release"} : mem' = [mem EXCEPT ![d] = JobTo(mem[d], at)]
    BY DEF Dispatches, Set
  <2>3. \A at : JobTo(mem[d], at).job.at = at
    BY <2>1 DEF JobTo, Sound, Memory
  <2>. QED BY <2>2, <2>3 DEF StorageInv
<1>5. \A e \in Daemons : mem'[e].job.at # "dispatch"
  <2>1. \A e \in Daemons : e # d => mem[e] = NoMemory
    BY <1>1, OneServes
  <2>2. \A e \in Daemons : e # d => mem'[e] = mem[e]
    BY DEF Dispatches, Set, StorageInv
  <2>. QED BY <1>4, <2>1, <2>2, Nothing
<1>6. dispatched' \in {dispatched, [dispatched EXCEPT ![r] = @ + 1]}
  BY DEF Dispatches
<1>7. /\ dispatched' \in [Requests -> {0, 1}]
      /\ \A q \in Requests : q # r => dispatched'[q] = dispatched[q]
  <2>. HIDE DEF r
  <2>1. CASE dispatched' = dispatched
    BY <2>1 DEF OnceInv
  <2>2. CASE dispatched' = [dispatched EXCEPT ![r] = @ + 1]
    <3>1. dispatched' = [dispatched EXCEPT ![r] = 1]
      BY <1>3, <2>2
    <3>. QED BY <1>3, <3>1 DEF OnceInv
  <2>. QED BY <1>6, <2>1, <2>2
<1>8. k \in Existing(r)
  BY <1>2 DEF Existing
<1>9. \A j \in DOMAIN reg.rows :
        /\ reg.rows[j].req \in Requests
        /\ reg.rows[j].state = "QUEUED" => reg.rows[j].req # r
  BY <1>2 DEF OnceInv, StorageInv, RegInv, Shaped, IsTable, IsRow
<1>. HIDE DEF r, k
<1>10. \A q \in Requests : Existing(q)' = {} => dispatched'[q] = 0
  <2>1. \A q \in Requests : Existing(q)' = Existing(q)
    BY <1>4 DEF Existing
  <2>. QED BY <1>7, <1>8, <2>1 DEF OnceInv
<1>11. \A j \in DOMAIN reg'.rows :
         reg'.rows[j].state = "QUEUED" => dispatched'[reg'.rows[j].req] = 0
  <2>1. \A j \in DOMAIN reg.rows : reg.rows[j].state = "QUEUED" => dispatched[reg.rows[j].req] = 0
    BY DEF OnceInv
  <2>2. \A j \in DOMAIN reg.rows : reg.rows[j].state = "QUEUED" => dispatched'[reg.rows[j].req] = 0
    BY <1>7, <1>9, <2>1
  <2>. QED BY <1>4, <2>2
<1>12. \A i, j \in DOMAIN reg'.rows : reg'.rows[i].req = reg'.rows[j].req => i = j
  BY <1>4 DEF OnceInv
<1>. QED BY <1>5, <1>7, <1>10, <1>11, <1>12 DEF OnceInv

\* A page continues the list, and the last one completes it.
LEMMA ReaderReads ==
  ASSUME StorageInv, ReaderInv, NEW d \in Daemons, ReadsPage(d)
  PROVE  ReaderInv'
<1>. DEFINE n == Len(reg.rows)
            after == reader.cursor
<1>1. n \in Nat /\ DOMAIN reg.rows = 1..n /\ after \in 0..n /\ reg' = reg
  BY DEF StorageInv, RegInv, Shaped, IsTable, ReaderInv, ReadsPage
<1>2. PICK page \in Pages(after) :
        reader' = IF HasMore(after, page)
                  THEN [reader EXCEPT !.cursor = NextCursor(@, page), !.list = @ \o page]
                  ELSE [NoListing EXCEPT !.whole = reader.list \o page = AllRows]
  BY DEF ReadsPage
<1>3. PICK m \in 0..n - after : page = [i \in 1..m |-> after + i] /\ (m = 0 => after = n)
  BY <1>1, <1>2, LogsAssumption DEF Pages
<1>4. page \in Seq(Nat) /\ Len(page) = m /\ reader.list \in Seq(Nat) /\ Len(reader.list) = after
  <2>1. page \in [1..m -> Nat] /\ reader.list \in [1..after -> Nat] /\ m \in Nat /\ after \in Nat
    BY <1>1, <1>3 DEF ReaderInv
  <2>2. page \in Seq(Nat) /\ reader.list \in Seq(Nat)
    BY <2>1, SeqDef
  <2>. QED BY <2>1, <2>2, LenProperties
<1>. DEFINE list == reader.list
            more == list \o page
<1>5. more = [i \in 1..after + m |-> i]
  <2>1. /\ more \in Seq(Nat) /\ Len(more) = after + m
        /\ \A i \in 1..after + m : more[i] = IF i <= after THEN reader.list[i] ELSE page[i - after]
    <3>1. list \in Seq(Nat) /\ page \in Seq(Nat) /\ Len(list) = after /\ Len(page) = m
      BY <1>4
    <3>. HIDE DEF list
    <3>2. /\ list \o page \in Seq(Nat) /\ Len(list \o page) = Len(list) + Len(page)
          /\ \A i \in 1..Len(list) + Len(page) :
               (list \o page)[i] = IF i <= Len(list) THEN list[i] ELSE page[i - Len(list)]
      BY <3>1, ConcatProperties
    <3>3. /\ more \in Seq(Nat) /\ Len(more) = after + m
          /\ \A i \in 1..after + m : more[i] = IF i <= after THEN list[i] ELSE page[i - after]
      BY <3>1, <3>2
    <3>. QED BY <3>3 DEF list
  <2>2. \A i \in 1..after + m : more[i] = i
    <3> SUFFICES ASSUME NEW i \in 1..after + m PROVE more[i] = i
      OBVIOUS
    <3>1. CASE i <= after
      BY <1>1, <2>1, <3>1 DEF ReaderInv
    <3>2. CASE ~(i <= after)
      <4>1. i - after \in 1..m
        BY <1>1, <1>3, <3>2
      <4>. QED BY SMTT(30), <1>1, <1>3, <2>1, <3>2, <4>1
    <3>. QED BY <3>1, <3>2
  <2>3. DOMAIN more = 1..after + m
    BY <2>1, LenProperties
  <2>4. more = [i \in DOMAIN more |-> more[i]]
    BY <2>1, SeqDef
  <2>. HIDE DEF more
  <2>. QED BY <2>2, <2>3, <2>4
<1>6. CASE HasMore(after, page)
  BY SMTT(30), <1>1, <1>2, <1>3, <1>4, <1>5, <1>6 DEF HasMore, NextCursor, ReaderInv
<1>7. CASE ~HasMore(after, page)
  <2>1. after + m = n
    BY <1>1, <1>3, <1>4, <1>7 DEF HasMore
  <2>2. more = AllRows
    BY <1>1, <1>5, <2>1 DEF AllRows
  <2>3. reader' = [NoListing EXCEPT !.whole = TRUE]
    BY <1>2, <1>7, <2>2
  <2>4. <<>> = [i \in 1..0 |-> i]
    OBVIOUS
  <2>. QED BY <1>1, <2>3, <2>4 DEF NoListing, ReaderInv
<1>. QED BY <1>6, <1>7

\* Only a dispatch changes what was sent, and only a page what was read.
LEMMA HistoryKept ==
  ASSUME [Next]_vars
  PROVE  /\ dispatched' = dispatched \/ \E d \in Daemons : Dispatches(d)
         /\ reader' = reader \/ \E d \in Daemons : ReadsPage(d)
<1>. USE DEF OnlyMemory, OnlyRegistry, Elsewhere
<1>. DEFINE Kept == dispatched' = dispatched /\ reader' = reader
<1>1. CASE LockSteps \/ ToolWrites \/ ToolDies \/ UNCHANGED vars
  BY <1>1 DEF LockSteps, ToolWrites, ToolDies, vars
<1>2. ASSUME NEW d \in Daemons,
             \/ Publish(d) \/ Destroy(d) \/ Reconcile(d) \/ Adopts(d) \/ Stops(d)
             \/ Crash(d) \/ OtherEnds(d) \/ StopStep(d)
      PROVE  Kept
  BY <1>2 DEF Publish, Destroy, Reconcile, Adopts, Stops, Crash, OtherEnds, StopStep,
              StopReleases, StopEnds
<1>3. ASSUME NEW d \in Daemons, MonitorStep(d) \/ KillStep(d) \/ SweepStep(d)
      PROVE  Kept
  BY <1>3 DEF MonitorStep, MonitorCalls, MonitorMarks, MonitorReleases, KillStep,
              DestroyReleases, DestroyCloses, SweepStep, SweepReleases, SweepCleans, SweepSeals
<1>4. ASSUME NEW d \in Daemons, NEW c \in Calls, Execute(d, c) \/ CallStep(d, c)
      PROVE  Kept
  BY <1>4 DEF Execute, CallStep, Prepares, SinkFails, PrepareFails, Marks, Undoes, Finishes,
              Returns
<1>5. ASSUME NEW d \in Daemons, JobStep(d)
      PROVE  reader' = reader /\ (dispatched' = dispatched \/ Dispatches(d))
  BY <1>5 DEF JobStep, Dispatches, SummaryComes, SummaryOfLoss, Summary, NoSummary, Records,
              Discards, Releases, Completes
<1>6. ASSUME NEW d \in Daemons, ReadsPage(d) PROVE dispatched' = dispatched
  BY <1>6 DEF ReadsPage
<1>. HIDE DEF Kept
<1>7. Kept => dispatched' = dispatched /\ reader' = reader
  BY DEF Kept
<1>. QED BY <1>1, <1>2, <1>3, <1>4, <1>5, <1>6, <1>7 DEF Next

\* Nothing has been sent, and nothing read.
LEMMA OnceInitial == Init => OnceInv /\ ReaderInv
<1> SUFFICES ASSUME Init PROVE OnceInv /\ ReaderInv
  OBVIOUS
<1>1. reg.rows = <<>> /\ reader = NoListing
  BY DEF Init, LogsInit
<1>2. Len(reg.rows) = 0 /\ DOMAIN reg.rows = {} /\ <<>> = [i \in 1..0 |-> i]
  BY <1>1
<1>3. ReaderInv
  BY <1>1, <1>2 DEF ReaderInv, NoListing
<1>4. \A d \in Daemons : mem[d].job.at = "none"
  BY Nothing DEF Init
<1>. QED BY <1>2, <1>3, <1>4 DEF Init, OnceInv

\* Every step keeps both.
LEMMA OnceStep ==
  ASSUME StorageInv, StorageInv', RootsExclusive, LocksTypeOK, OnceInv, ReaderInv, [Next]_vars
  PROVE  OnceInv' /\ ReaderInv'
<1>1. Settled \/ \E r \in Requests : Admitted(r)
  BY StorageStep
<1>2. Len(reg'.rows) \in Nat /\ Len(reg.rows) \in Nat /\ Len(reg'.rows) >= Len(reg.rows)
  BY <1>1 DEF Settled, Admitted, StorageInv, RegInv, Shaped, IsTable
<1>3. ASSUME reader' = reader PROVE ReaderInv'
  <2>1. reader.cursor \in 0..Len(reg'.rows)
    BY <1>2 DEF ReaderInv
  <2>. QED BY <1>3, <2>1 DEF ReaderInv
<1>4. ReaderInv'
  BY <1>3, HistoryKept, ReaderReads
<1>5. ASSUME NEW d \in Daemons, Dispatches(d) PROVE OnceInv'
  <2>1. reg' = reg
    BY <1>5 DEF Dispatches
  <2>2. Settled
    BY <1>1, <2>1, <1>2 DEF Admitted
  <2>. QED BY <1>5, <2>2, OnceDispatches
<1>6. ASSUME dispatched' = dispatched PROVE OnceInv'
  <2>1. ASSUME Settled PROVE OnceInv'
    BY <1>6, <2>1, OnceSettled
  <2>2. ASSUME NEW r \in Requests, Admitted(r) PROVE OnceInv'
    BY <1>6, <2>2, OnceAdmitted
  <2>. QED BY <1>1, <2>1, <2>2
<1>. QED BY <1>4, <1>5, <1>6, HistoryKept

\* A request is carried out at most once, and is in the history once.
THEOREM OnlyOnce == Spec => []OnceEach
<1>1. OnceInv /\ ReaderInv => OnceEach
  <2> SUFFICES ASSUME OnceInv, ReaderInv PROVE OnceEach
    OBVIOUS
  <2>1. ASSUME NEW r \in Requests PROVE dispatched[r] <= 1 /\ Cardinality(Existing(r)) <= 1
    <3>1. dispatched[r] <= 1
      BY DEF OnceInv
    <3>2. CASE Existing(r) = {}
      <4>1. Cardinality({}) = 0
        BY FS_EmptySet
      <4>. QED BY <3>1, <3>2, <4>1
    <3>3. ASSUME NEW k \in Existing(r) PROVE Cardinality(Existing(r)) = 1
      <4>1. Existing(r) = {k}
        BY <3>3 DEF OnceInv, Existing
      <4>2. Cardinality({k}) = 1
        BY FS_Singleton
      <4>. QED BY <4>1, <4>2
    <3>. QED BY <3>1, <3>2, <3>3
  <2>. QED BY <2>1 DEF OnceEach, ReaderInv
<1>2. StorageInv /\ StorageInv' /\ (RootsExclusive /\ LocksTypeOK) /\ (OnceInv /\ ReaderInv)
      /\ [Next]_vars => (OnceInv /\ ReaderInv)'
  BY OnceStep
<1>3. Spec => [](RootsExclusive /\ LocksTypeOK)
  BY ServingFollowsLocks, OwnersDisjoint, LocksTypeCorrect, PTL
<1>. QED BY <1>1, <1>2, <1>3, OnceInitial, StorageInvariant, PTL DEF Spec

-----------------------------------------------------------------------------
(* The quota is kept *)

\* What a process has under way, and the tree of its tool. A thread that is about to start the
\* tool has prepared it; a log whose writer may still be there was not given back; what is
\* told of the end was told by a worker that has closed the log.
Fit(m, g, t) ==
  /\ \A c \in Calls :
       /\ m.call[c].at = "idle" => m.call[c].exec = 0
       /\ m.call[c].at \in {"prepare", "mark"} => m.job.at = "none"
       /\ m.call[c].at = "mark" =>
            t.proc = "no" \/ t = [proc |-> "prepared", exec |-> m.call[c].exec]
  /\ m.job.at = "none" => m.job.exec = 0
  /\ m.job.at = "dispatch" =>
       /\ t.proc = "no" \/ t = [proc |-> "prepared", exec |-> m.job.exec]
       /\ Writable(g.rows[m.job.exec])
  /\ m.job.at = "record" => t.proc # "running"
  /\ m.job.at \in {"dispatch", "release", "complete"} => m.job.out # "DONE"

\* A tool that runs writes to a log that is open, and its runtime takes nothing else.
Tree(g, t) ==
  /\ t \in [proc : {"no", "ready", "prepared", "running"}, exec : 0..Len(g.rows)]
  /\ t.proc = "running" => /\ t.exec \in DOMAIN g.rows /\ Writable(g.rows[t.exec])
                           /\ g.runtime # "READY"

QuotaInv ==
  /\ LogsInv(reg, log) /\ Tree(reg, tool)
  /\ \A d \in Daemons : Fit(mem[d], reg, tool)

NoTree == [proc |-> "no", exec |-> 0]

\* Books are kept by two transactions if each keeps them.
LEMMA BooksCompose ==
  ASSUME NEW g, NEW h, NEW i, NEW bytes, LogsInv(g, bytes), Books(g, h, bytes), Books(h, i, bytes)
  PROVE  Books(g, i, bytes)
<1>1. DOMAIN h.rows = DOMAIN g.rows
  <2>1. g.rows \in Seq(Executions) /\ h.rows \in Seq(Executions) /\ Len(h.rows) = Len(g.rows)
    BY DEF Books, LogsInv, Registry
  <2>. QED BY <2>1, LenProperties
<1>. QED BY <1>1 DEF Books

\* The rows of a registry are numbered.
LEMMA LogsNumbered ==
  ASSUME NEW g, NEW bytes, LogsInv(g, bytes)
  PROVE  /\ DOMAIN g.rows = 1..Len(g.rows) /\ Len(g.rows) \in Nat
         /\ \A k \in DOMAIN g.rows : g.rows[k].state \in Active => Writable(g.rows[k])
<1>1. DOMAIN g.rows = 1..Len(g.rows) /\ Len(g.rows) \in Nat
  BY LenProperties DEF LogsInv, Registry
<1>2. ASSUME NEW k \in DOMAIN g.rows, g.rows[k].state \in Active PROVE Writable(g.rows[k])
  <2>. DEFINE row == g.rows[k]
  <2>1. RowKept(row, bytes[k]) /\ row \in Executions
    BY DEF LogsInv, RowKept
  <2>. HIDE DEF row
  <2>2. row.accounted = row.reserved /\ row.written = Null /\ bytes[k] <= row.accounted
        /\ bytes[k] \in Nat
    BY <1>2, <2>1, LogsAssumption DEF RowKept, row, Executions
  <2>3. row.reserved \in Nat /\ row.reserved < Null /\ Null \in Nat
    BY <2>1, LogsAssumption DEF Executions, Null
  <2>4. ~row.complete
    BY <2>1, <2>2, <2>3 DEF RowKept
  <2>5. Writable(row)
    BY <2>2, <2>4 DEF Writable
  <2>. QED BY <2>5 DEF row
<1>. QED BY <1>1, <1>2

\* Nobody has anything under way in a process that has not begun to serve.
LEMMA FitNothing == ASSUME NEW g, NEW t PROVE Fit(NoMemory, g, t)
BY DEF Fit, NoMemory, NoCall, NoJob

\* What fits does so after a transaction that keeps the books, and when the tree is gone.
LEMMA FitKept ==
  ASSUME NEW m, NEW g, NEW h, NEW bytes, NEW t, NEW u \in {t, NoTree}, LogsInv(g, bytes),
         Books(g, h, bytes), Sound(m, g), Fit(m, g, t)
  PROVE  Fit(m, h, u)
<1>1. m.job.at = "dispatch" => m.job.exec \in DOMAIN g.rows
  BY DEF Sound
<1>2. NoTree.proc = "no"
  BY DEF NoTree
<1>. QED BY <1>1, <1>2 DEF Fit, Books

\* So does what is not about to start the tool, or to record its end.
LEMMA FitLoose ==
  ASSUME NEW m, NEW g, NEW t,
         \A c \in Calls : /\ m.call[c].at = "idle" => m.call[c].exec = 0
                          /\ m.call[c].at # "mark"
                          /\ m.call[c].at = "prepare" => m.job.at = "none",
         m.job.at = "none" => m.job.exec = 0, m.job.at \notin {"dispatch", "record"},
         m.job.at \in {"release", "complete"} => m.job.out # "DONE"
  PROVE  Fit(m, g, t)
BY DEF Fit

\* The tree is as the registry says after a transaction that does not offer the runtime.
LEMMA TreeKept ==
  ASSUME NEW g, NEW h, NEW bytes, NEW t, NEW u \in {t, NoTree}, LogsInv(g, bytes),
         Books(g, h, bytes), h.runtime = "READY" => g.runtime = "READY", Tree(g, t)
  PROVE  Tree(h, u)
<1>1. DOMAIN h.rows = DOMAIN g.rows /\ Len(h.rows) = Len(g.rows) /\ Len(g.rows) \in Nat
  BY LogsNumbered DEF Books
<1>2. CASE u = t
  BY <1>1, <1>2 DEF Tree, Books
<1>3. CASE u = NoTree
  BY <1>1, <1>3 DEF Tree, NoTree
<1>. QED BY <1>2, <1>3

\* A step of the daemon that serves.
LEMMA QuotaStep ==
  ASSUME StorageInv, RootsExclusive, LocksTypeOK, NEW d \in Daemons, Serves(d), NEW m,
         Set(d, m), LogsInv(reg', log'), Tree(reg', tool'), Fit(m, reg', tool')
  PROVE  QuotaInv'
<1>1. \A e \in Daemons : mem'[e] = IF e = d THEN m ELSE NoMemory
  BY OneServes DEF Set, StorageInv
<1>. QED BY <1>1, FitNothing DEF QuotaInv

\* One that offers the runtime to nobody, and leaves the tree alone or has it gone.
LEMMA QuotaGentle ==
  ASSUME StorageInv, RootsExclusive, LocksTypeOK, QuotaInv, NEW d \in Daemons, Serves(d), NEW m,
         Set(d, m), Books(reg, reg', log), reg'.runtime = "READY" => reg.runtime = "READY",
         log' = log, tool' \in {tool, NoTree}, Sound(m, reg), Fit(m, reg, tool)
  PROVE  QuotaInv'
<1>1. LogsInv(reg, log) /\ LogsInv(reg', log) /\ Tree(reg, tool)
  BY DEF QuotaInv, Books
<1>2. Tree(reg', tool')
  BY <1>1, TreeKept
<1>3. Fit(m, reg', tool')
  BY <1>1, FitKept
<1>. QED BY <1>1, <1>2, <1>3, QuotaStep

\* One that leaves the registry alone too.
LEMMA QuotaQuiet ==
  ASSUME StorageInv, RootsExclusive, LocksTypeOK, QuotaInv, NEW d \in Daemons, Serves(d), NEW m,
         Set(d, m), reg' = reg, log' = log, tool' \in {tool, NoTree}, Sound(m, reg),
         Fit(m, reg, tool)
  PROVE  QuotaInv'
<1>1. Books(reg, reg', log)
  BY DEF QuotaInv, Books
<1>. QED BY <1>1, QuotaGentle

\* What threads do to the memory when they go on, answer, tell others or end.
LEMMA FitAfter ==
  ASSUME NEW m, NEW g, NEW t, Sound(m, g), Fit(m, g, t)
  PROVE  /\ \A which : Fit(Tell(m, which), g, t)
         /\ Fit(JobEnds(m), g, t)
         /\ \A c \in Calls : JobEnds(m).call[c].at = "mark" => m.call[c].at = "mark"
         /\ \A at \in {"discard", "complete", "await"} :
              m.job.at # "none" /\ (at = "complete" => m.job.out # "DONE")
                => Fit(JobTo(m, at), g, t)
         /\ \A c \in Calls : \A at \in {"undo", "finish"} : Fit(CallTo(m, c, at), g, t)
         /\ \A c \in Calls : Fit(Answers(m, c), g, t)
<1>1. ASSUME NEW which PROVE Fit(Tell(m, which), g, t)
  <2>1. /\ Tell(m, which).job = m.job
        /\ \A c \in Calls : /\ Tell(m, which).call[c].exec = m.call[c].exec
                            /\ \/ Tell(m, which).call[c].at = m.call[c].at
                               \/ Tell(m, which).call[c].at = "told"
    BY DEF Tell, Sound, Memory
  <2>. QED BY <2>1 DEF Fit
<1>2. /\ Fit(JobEnds(m), g, t)
      /\ \A c \in Calls : JobEnds(m).call[c].at = "mark" => m.call[c].at = "mark"
  <2>. DEFINE n == JobEnds(m)
  <2>1. /\ n.job = NoJob
        /\ \A c \in Calls : /\ n.call[c].exec = m.call[c].exec
                            /\ n.call[c].at = m.call[c].at \/ n.call[c].at = "told"
    BY DEF JobEnds, Tell, Sound, Memory
  <2>2. NoJob.at = "none" /\ NoJob.exec = 0
    BY DEF NoJob
  <2>. HIDE DEF n
  <2>3. Fit(n, g, t) /\ \A c \in Calls : n.call[c].at = "mark" => m.call[c].at = "mark"
    BY <2>1, <2>2 DEF Fit
  <2>. QED BY <2>3 DEF n
<1>3. ASSUME NEW at \in {"discard", "complete", "await"}, m.job.at # "none",
             at = "complete" => m.job.out # "DONE"
      PROVE  Fit(JobTo(m, at), g, t)
  <2>. DEFINE n == JobTo(m, at)
  <2>1. n.call = m.call /\ n.job.at = at /\ n.job.exec = m.job.exec /\ n.job.out = m.job.out
    BY DEF JobTo, Sound, Memory
  <2>. HIDE DEF n
  <2>2. Fit(n, g, t)
    BY <1>3, <2>1 DEF Fit
  <2>. QED BY <2>2 DEF n
<1>4. ASSUME NEW c \in Calls, NEW at \in {"undo", "finish"} PROVE Fit(CallTo(m, c, at), g, t)
  <2>. DEFINE n == CallTo(m, c, at)
  <2>1. /\ n.job = m.job /\ n.call[c].at = at
        /\ \A e \in Calls : e # c => n.call[e] = m.call[e]
    BY DEF CallTo, Sound, Memory
  <2>. HIDE DEF n
  <2>2. Fit(n, g, t)
    BY <2>1 DEF Fit
  <2>. QED BY <2>2 DEF n
<1>5. ASSUME NEW c \in Calls PROVE Fit(Answers(m, c), g, t)
  <2>. DEFINE n == Answers(m, c)
  <2>1. /\ n.job = m.job /\ n.call[c] = NoCall
        /\ \A e \in Calls : e # c => n.call[e] = m.call[e]
    BY DEF Answers, Sound, Memory
  <2>2. NoCall.at = "idle" /\ NoCall.exec = 0
    BY DEF NoCall
  <2>. HIDE DEF n
  <2>3. Fit(n, g, t)
    BY <2>1, <2>2 DEF Fit
  <2>. QED BY <2>3 DEF n
<1>. QED BY <1>1, <1>2, <1>3, <1>4, <1>5

\* Flags are nothing to it.
LEMMA FitFlags ==
  ASSUME NEW m, NEW n, NEW g, NEW t, Fit(m, g, t), n.call = m.call, n.job = m.job
  PROVE  Fit(n, g, t)
BY DEF Fit

\* A cleanup, complete or put off, keeps the quota.
LEMMA QuotaCleanup ==
  ASSUME StorageInv, RootsExclusive, LocksTypeOK, QuotaInv, NEW d \in Daemons, Serves(d), NEW m,
         Sound(m, reg), Fit(m, reg, tool), log' = log, tool' \in {tool, NoTree}, Cleanup(d, m)
  PROVE  QuotaInv'
<1>1. \A b \in BOOLEAN : /\ Sound([m EXCEPT !.dirty = b], reg)
                         /\ Fit([m EXCEPT !.dirty = b], reg, tool)
  <2> SUFFICES ASSUME NEW b \in BOOLEAN
               PROVE  /\ Sound([m EXCEPT !.dirty = b], reg)
                      /\ Fit([m EXCEPT !.dirty = b], reg, tool)
    OBVIOUS
  <2>. DEFINE n == [m EXCEPT !.dirty = b]
  <2>1. /\ n \in Memory(Nat) /\ n.stage = m.stage /\ n.call = m.call /\ n.lock = m.lock
        /\ n.job = m.job /\ n.kill = m.kill
    BY DEF Sound, Memory
  <2>2. m.stage # "none"
    BY DEF Sound
  <2>. HIDE DEF n
  <2>3. Sound(n, reg) /\ Fit(n, reg, tool)
    BY <2>1, <2>2, SoundFlags, FitFlags
  <2>. QED BY <2>3 DEF n
<1>2. RegInv(reg) /\ LogsInv(reg, log)
  BY DEF StorageInv, QuotaInv
<1>3. Gentle(reg, Sealed(reg)) /\ RegInv(Sealed(reg)) /\ Books(reg, Sealed(reg), log)
  BY <1>2, SealedGentle, SealedKept DEF Gentle, Steady
<1>4. /\ Disowned(Sealed(reg)).runtime = "READY" => reg.runtime = "READY"
      /\ Books(reg, Disowned(Sealed(reg)), log)
  <2>1. LogsInv(Sealed(reg), log)
    BY <1>3 DEF Books
  <2>2. Gentle(Sealed(reg), Disowned(Sealed(reg))) /\ Books(Sealed(reg), Disowned(Sealed(reg)), log)
    BY <1>3, <2>1, DisownedGentle, BooksKept
  <2>. QED BY <1>2, <1>3, <2>2, BooksCompose DEF Gentle
<1>5. CASE reg' = Disowned(Sealed(reg)) /\ Set(d, [m EXCEPT !.dirty = FALSE])
  BY <1>1, <1>4, <1>5, QuotaGentle
<1>6. CASE reg' = Sealed(reg) /\ Set(d, [m EXCEPT !.dirty = TRUE])
  BY <1>1, <1>3, <1>6, QuotaGentle DEF Gentle
<1>7. CASE UNCHANGED reg /\ Set(d, [m EXCEPT !.dirty = TRUE])
  BY <1>1, <1>7, QuotaQuiet
<1>. QED BY <1>5, <1>6, <1>7 DEF Cleanup

\* So does the release of a runtime or an orphan, confirmed or not.
LEMMA QuotaRelease ==
  ASSUME StorageInv, RootsExclusive, LocksTypeOK, QuotaInv, NEW d \in Daemons, Serves(d),
         NEW yes, NEW no, Sound(yes, reg), Sound(no, reg), Fit(yes, reg, tool),
         Fit(no, reg, tool), log' = log, Release(d, yes, no) \/ ReleaseOrphan(d, yes, no)
  PROVE  QuotaInv'
<1>1. \A m : Sound(m, reg) /\ Fit(m, reg, tool) =>
        \A n \in {[m EXCEPT !.ctrl = "released"], [m EXCEPT !.ctrl = "pending"],
                  [m EXCEPT !.orphan = FALSE]} : Sound(n, reg) /\ Fit(n, reg, tool)
  <2> SUFFICES ASSUME NEW m, Sound(m, reg), Fit(m, reg, tool),
                      NEW n \in {[m EXCEPT !.ctrl = "released"], [m EXCEPT !.ctrl = "pending"],
                                 [m EXCEPT !.orphan = FALSE]}
               PROVE  Sound(n, reg) /\ Fit(n, reg, tool)
    OBVIOUS
  <2>1. /\ n \in Memory(Nat) /\ n.stage = m.stage /\ n.call = m.call /\ n.lock = m.lock
        /\ n.job = m.job /\ n.kill = m.kill
    <3>0. m \in Memory(Nat)
      BY DEF Sound
    <3>1. CASE n = [m EXCEPT !.ctrl = "released"]
      BY <3>0, <3>1 DEF Memory
    <3>2. CASE n = [m EXCEPT !.ctrl = "pending"]
      BY <3>0, <3>2 DEF Memory
    <3>3. CASE n = [m EXCEPT !.orphan = FALSE]
      BY <3>0, <3>3 DEF Memory
    <3>. QED BY <3>1, <3>2, <3>3
  <2>2. m.stage # "none"
    BY DEF Sound
  <2>. QED BY <2>1, <2>2, SoundFlags, FitFlags
<1>2. CASE Set(d, yes) /\ UNCHANGED <<reg, tool>>
  BY <1>2, QuotaQuiet
<1>3. CASE tool' = NoTree /\ Cleanup(d, [yes EXCEPT !.ctrl = "released"])
  BY <1>1, <1>3, QuotaCleanup
<1>4. CASE tool' = NoTree /\ Cleanup(d, [yes EXCEPT !.orphan = FALSE])
  BY <1>1, <1>4, QuotaCleanup
<1>5. CASE Set(d, [no EXCEPT !.ctrl = "pending"]) /\ UNCHANGED <<reg, tool>>
  BY <1>1, <1>5, QuotaQuiet
<1>6. CASE Set(d, no) /\ UNCHANGED <<reg, tool>>
  BY <1>6, QuotaQuiet
<1>. QED BY <1>2, <1>3, <1>4, <1>5, <1>6 DEF Release, ReleaseOrphan, NoTree

-----------------------------------------------------------------------------
(* Every step keeps the quota *)

\* Completing without a summary accounts for the whole reservation.
LEMMA CompletedFully ==
  ASSUME StorageInv, QuotaInv, NEW d \in Daemons, NEW k \in DOMAIN reg.rows,
         NEW state \in Outcomes \ {"DONE"}, NEW m, CompletesWithoutSummary(d, k, state, m)
  PROVE  /\ Books(reg, reg', log) /\ (reg'.runtime = "READY" => reg.runtime = "READY")
         /\ Set(d, m)
<1>1. RegInv(reg) /\ LogsInv(reg, log)
  BY DEF StorageInv, QuotaInv
<1>2. PICK written \in {log[k], Null} : reg' = Completed(reg, k, state, written, FALSE, TRUE)
  BY <1>1, FoundAll DEF CompletesWithoutSummary
<1>3. Books(reg, reg', log)
  BY <1>1, <1>2, CompletedOpen
<1>4. Gentle(reg, reg')
  BY <1>1, <1>2, CompletedGentle
<1>. QED BY <1>2, <1>3, <1>4 DEF Gentle, CompletesWithoutSummary

\* A new execution reserves its quota.
LEMMA QuotaExecute ==
  ASSUME StorageInv, RootsExclusive, LocksTypeOK, QuotaInv, NEW d \in Daemons, NEW c \in Calls,
         Execute(d, c)
  PROVE  QuotaInv'
<1>. DEFINE m == mem[d]
            new == [at |-> IF Controlled(d) THEN "prepare" ELSE "finish",
                    exec |-> Len(reg.rows) + 1]
            n == [m EXCEPT !.call[c] = new, !.lock = c]
<1>1. Serves(d) /\ Sound(m, reg) /\ LogsInv(reg, log)
  BY Nothing, Serving DEF Execute, Working, QuotaInv
<1>2. PICK r \in Requests : /\ Admits /\ reg' = Begun(reg, r) /\ log' = Append(log, 0)
                            /\ Set(d, n) /\ m.lock = "free" /\ tool' = tool
  BY DEF Execute
<1>3. /\ LogsInv(reg', log') /\ Len(reg'.rows) = Len(reg.rows) + 1
      /\ reg.runtime = "READY" /\ Len(reg.rows) \in Nat
  BY <1>1, <1>2, BegunKept, LogsNumbered DEF Admits
<1>4. Tree(reg', tool')
  BY <1>2, <1>3 DEF QuotaInv, Tree
<1>5. /\ new.at \in {"prepare", "finish"} /\ m.job.at = "none"
      /\ \A e \in Calls : m.call[e].at \notin {"prepare", "mark"}
  BY <1>1, <1>2, <1>3, StorageAssumption DEF Sound
<1>. HIDE DEF new
<1>6. /\ n.job = m.job /\ n.call[c] = new /\ \A e \in Calls : e # c => n.call[e] = m.call[e]
  BY <1>1 DEF Sound, Memory
<1>7. Fit(m, reg, tool)
  BY DEF QuotaInv
<1>. HIDE DEF n
<1>8. Fit(n, reg', tool')
  BY <1>5, <1>6, <1>7, FitLoose DEF Fit
<1>. QED BY <1>1, <1>2, <1>3, <1>4, <1>8, QuotaStep

\* What is marked as running may be written to.
LEMMA QuotaMarks ==
  ASSUME StorageInv, RootsExclusive, LocksTypeOK, QuotaInv, NEW d \in Daemons, NEW c \in Calls,
         Marks(d, c)
  PROVE  QuotaInv'
<1>. DEFINE m == mem[d]
            k == m.call[c].exec
            job == [NoJob EXCEPT !.at = "dispatch", !.exec = k]
            n == [CallTo(m, c, "wait") EXCEPT !.lock = "free", !.job = job]
<1>1. /\ Serves(d) /\ Sound(m, reg) /\ LogsInv(reg, log) /\ Fit(m, reg, tool)
      /\ m.call[c].at = "mark" /\ log' = log /\ tool' = tool
  BY Nothing, Serving DEF Marks, QuotaInv, OnlyRegistry
<1>2. k \in DOMAIN reg.rows /\ Fit(CallTo(m, c, "undo"), reg, tool)
      /\ Sound(CallTo(m, c, "undo"), reg)
  <2>1. k \in DOMAIN reg.rows
    BY <1>1 DEF Sound
  <2>2. Fit(CallTo(m, c, "undo"), reg, tool)
    BY <1>1, FitAfter
  <2>3. Sound(CallTo(m, c, "undo"), reg)
    BY <1>1, SoundAfter
  <2>. QED BY <2>1, <2>2, <2>3
<1>3. CASE ~MayRun(k)
  <2>1. reg' = reg /\ Set(d, CallTo(m, c, "undo"))
    BY <1>3 DEF Marks
  <2>. QED BY <1>1, <1>2, <2>1, QuotaQuiet
<1>4. CASE MayRun(k)
  <2>1. reg' = MarkedRunning(reg, k) /\ reg.rows[k].state = "QUEUED"
    BY <1>4 DEF Marks, MayRun
  <2>2. Books(reg, reg', log) /\ reg'.runtime = "BUSY"
    <3>1. Books(reg, reg', log)
      BY <1>1, <1>2, <2>1, MarkedKept
    <3>2. RegInv(reg)
      BY DEF StorageInv
    <3>. QED BY <1>2, <2>1, <3>1, <3>2, MarkedSteps
  <2>3. CASE m.stage = "waiting"
    <3>1. Set(d, CallTo(m, c, "undo"))
      BY <1>4, <2>3 DEF Marks
    <3>. QED BY <1>1, <1>2, <2>2, <3>1, QuotaGentle
  <2>4. CASE m.stage # "waiting"
    <3>1. Set(d, n)
      BY <1>4, <2>4 DEF Marks
    <3>2. /\ job.at = "dispatch" /\ job.exec = k /\ job.out # "DONE"
      BY DEF NoJob
    <3>. HIDE DEF job
    <3>3. /\ n.job = job /\ n.call[c].at = "wait"
          /\ \A e \in Calls : e # c => n.call[e] = m.call[e]
      BY <1>1 DEF CallTo, Sound, Memory
    <3>4. m.lock = c
      BY <1>1 DEF Sound
    <3>5. \A e \in Calls : e # c => m.call[e].at \notin {"prepare", "mark"}
      BY <1>1, <3>4 DEF Sound
    <3>6. Writable(reg'.rows[k])
      BY <1>1, <1>2, <2>1, <2>2, LogsNumbered DEF Active, Books
    <3>. HIDE DEF n
    <3>7. Fit(n, reg', tool')
      BY <1>1, <3>2, <3>3, <3>5, <3>6 DEF Fit
    <3>8. Tree(reg', tool')
      BY <1>1, <2>2, TreeKept DEF QuotaInv
    <3>. QED BY <1>1, <2>2, <3>1, <3>7, <3>8, QuotaStep DEF Books
  <2>. QED BY <2>3, <2>4
<1>. QED BY <1>3, <1>4

\* Every step of a request thread after its row.
LEMMA QuotaCall ==
  ASSUME StorageInv, RootsExclusive, LocksTypeOK, QuotaInv, NEW d \in Daemons, NEW c \in Calls,
         CallStep(d, c)
  PROVE  QuotaInv'
<1>. DEFINE m == mem[d]
            k == m.call[c].exec
<1>1. mem[d] # NoMemory
  BY Nothing DEF CallStep, Prepares, SinkFails, PrepareFails, Marks, Undoes, Finishes, Returns
<1>2. /\ Serves(d) /\ Sound(m, reg) /\ RegInv(reg) /\ LogsInv(reg, log) /\ Fit(m, reg, tool)
      /\ Tree(reg, tool)
  BY <1>1, Serving DEF StorageInv, QuotaInv
<1>3. CASE Prepares(d, c)
  <2>. DEFINE n == CallTo(m, c, "mark")
  <2>1. /\ m.call[c].at = "prepare" /\ tool' = [proc |-> "prepared", exec |-> k]
        /\ Set(d, n) /\ reg' = reg /\ log' = log
    BY <1>3 DEF Prepares, Elsewhere
  <2>2. k \in DOMAIN reg.rows /\ m.lock = c /\ m.job.at = "none"
    BY <1>2, <2>1 DEF Sound, Fit
  <2>3. Tree(reg', tool')
    BY <1>2, <2>1, <2>2, LogsNumbered DEF Tree
  <2>4. \A e \in Calls : e # c => m.call[e].at # "mark"
    BY <1>2, <2>2 DEF Sound
  <2>5. n.job = m.job /\ n.call[c] = [m.call[c] EXCEPT !.at = "mark"]
        /\ \A e \in Calls : e # c => n.call[e] = m.call[e]
    BY <1>2 DEF CallTo, Sound, Memory
  <2>6. n.call[c].exec = k /\ n.call[c].at = "mark"
    BY <1>2 DEF CallTo, Sound, Memory
  <2>. HIDE DEF n
  <2>7. Fit(n, reg', tool')
    <3>1. ASSUME NEW e \in Calls
          PROVE  /\ n.call[e].at = "idle" => n.call[e].exec = 0
                 /\ n.call[e].at \in {"prepare", "mark"} => n.job.at = "none"
                 /\ n.call[e].at = "mark" => tool' = [proc |-> "prepared", exec |-> n.call[e].exec]
      <4>1. CASE e = c
        BY <2>1, <2>2, <2>5, <2>6, <4>1
      <4>2. CASE e # c
        BY <1>2, <2>2, <2>4, <2>5, <4>2 DEF Fit
      <4>. QED BY <4>1, <4>2
    <3>2. n.job.at = "none" /\ n.job.exec = 0
      BY <1>2, <2>2, <2>5 DEF Fit
    <3>. QED BY <3>1, <3>2 DEF Fit
  <2>. QED BY <1>2, <2>1, <2>3, <2>7, QuotaStep
<1>4. CASE SinkFails(d, c)
  <2>. DEFINE n == Answers(m, c)
  <2>1. /\ m.call[c].at = "prepare" /\ reg' = Completed(reg, k, "DONE", 0, FALSE, FALSE)
        /\ Set(d, n) /\ log' = log /\ tool' = tool
    BY <1>4 DEF SinkFails, OnlyRegistry
  <2>2. k \in DOMAIN reg.rows /\ reg.rows[k].state # "RUNNING" /\ m.job.at = "none"
    BY <1>2, <2>1 DEF Sound, Fit
  <2>3. CASE reg.rows[k].state \notin Active
    <3>1. reg' = reg
      BY <2>1, <2>3 DEF Completed
    <3>. QED BY <1>2, <2>1, <3>1, FitAfter, SoundAfter, QuotaQuiet
  <2>4. CASE reg.rows[k].state \in Active
    <3>1. reg.rows[k].state = "QUEUED"
      BY <2>2, <2>4 DEF Active
    <3>2. log[k] = 0 /\ reg.runtime = "READY"
      BY <1>2, <2>2, <3>1 DEF LogsInv, RowKept, RegInv, OneCurrent
    <3>3. LogsInv(reg', log) /\ Len(reg'.rows) = Len(reg.rows)
      <4>1. "DONE" \in Outcomes /\ FALSE \in BOOLEAN
        BY DEF Outcomes
      <4>2. reg' = Completed(reg, k, "DONE", log[k], FALSE, FALSE)
        BY <2>1, <3>2
      <4>3. LogsInv(reg', log) /\ SameRows(reg, reg')
        BY <1>2, <2>2, <4>1, <4>2, CompletedRead, Zenon
      <4>. QED BY <4>3 DEF SameRows
    <3>4. Tree(reg', tool')
      BY <1>2, <2>1, <3>2, <3>3 DEF Tree
    <3>5. /\ n.job = m.job /\ n.call[c] = NoCall
          /\ \A e \in Calls : e # c => n.call[e] = m.call[e]
      BY <1>2 DEF Answers, Sound, Memory
    <3>6. \A e \in Calls : e # c => m.call[e].at # "mark"
      BY <1>2, <2>1 DEF Sound
    <3>7. NoCall.at = "idle" /\ NoCall.exec = 0
      BY DEF NoCall
    <3>. HIDE DEF n
    <3>8. Fit(n, reg', tool')
      BY <1>2, <2>2, <3>5, <3>6, <3>7, FitLoose DEF Fit
    <3>. QED BY <1>2, <2>1, <3>3, <3>4, <3>8, QuotaStep
  <2>. QED BY <2>3, <2>4
<1>5. CASE PrepareFails(d, c)
  <2>1. /\ m.call[c].at = "prepare" /\ reg' = reg /\ log' = log /\ tool' = tool
        /\ Set(d, CallTo(m, c, "undo"))
    BY <1>5 DEF PrepareFails, OnlyMemory
  <2>. QED BY <1>2, <2>1, FitAfter, SoundAfter, QuotaQuiet
<1>6. CASE Undoes(d, c)
  <2>. DEFINE n == CallTo(m, c, "finish")
  <2>1. m.call[c].at = "undo" /\ Release(d, n, n) /\ log' = log
    BY <1>6 DEF Undoes, Elsewhere
  <2>2. Sound(n, reg) /\ Fit(n, reg, tool)
    BY <1>2, <2>1, FitAfter, SoundAfter
  <2>. HIDE DEF n
  <2>. QED BY <1>2, <2>1, <2>2, QuotaRelease
<1>7. CASE Finishes(d, c)
  <2>1. /\ m.call[c].at = "finish" /\ CompletesWithoutSummary(d, k, "LOST", Answers(m, c))
        /\ log' = log /\ tool' = tool
    BY <1>7 DEF Finishes, OnlyRegistry
  <2>2. k \in DOMAIN reg.rows
    BY <1>2, <2>1 DEF Sound
  <2>3. /\ Books(reg, reg', log) /\ (reg'.runtime = "READY" => reg.runtime = "READY")
        /\ Set(d, Answers(m, c))
    BY <2>1, <2>2, CompletedFully DEF Outcomes
  <2>. QED BY <1>2, <2>1, <2>3, FitAfter, SoundAfter, QuotaGentle
<1>8. CASE Returns(d, c)
  <2>1. Set(d, Answers(m, c)) /\ reg' = reg /\ log' = log /\ tool' = tool
    BY <1>8 DEF Returns, OnlyMemory
  <2>. QED BY <1>2, <2>1, FitAfter, SoundAfter, QuotaQuiet
<1>. QED BY <1>3, <1>4, <1>5, <1>6, <1>7, <1>8, QuotaMarks DEF CallStep

\* The background thread.
LEMMA QuotaJob ==
  ASSUME StorageInv, RootsExclusive, LocksTypeOK, QuotaInv, NEW d \in Daemons, JobStep(d)
  PROVE  QuotaInv'
<1>. DEFINE m == mem[d]
            k == m.job.exec
<1>1. m.job.at # "none"
  BY DEF JobStep, Dispatches, SummaryComes, SummaryOfLoss, Summary, NoSummary, Records, Discards,
         Releases, Completes
<1>2. /\ Serves(d) /\ Sound(m, reg) /\ RegInv(reg) /\ LogsInv(reg, log) /\ Fit(m, reg, tool)
      /\ Tree(reg, tool)
  BY <1>1, Nothing, Serving DEF StorageInv, QuotaInv
<1>3. /\ k \in DOMAIN reg.rows /\ reg.runtime # "READY" /\ m.job.out \in Outcomes
      /\ \A c \in Calls : m.call[c].at \notin {"prepare", "mark"}
  BY <1>1, <1>2 DEF Sound, Fit, Memory, Outcomes
<1>4. ASSUME NEW at \in {"record", "release", "await", "complete", "discard"}, NEW out,
             at \in {"release", "complete"} => out # "DONE",
             NEW t, at = "record" => t.proc # "running",
             NEW n, n = [JobTo(m, at) EXCEPT !.job.out = out]
      PROVE  Fit(n, reg, t)
  <2>1. n.call = m.call /\ n.job.at = at /\ n.job.out = out
    BY <1>2, <1>4 DEF JobTo, Sound, Memory
  <2>. QED BY <1>2, <1>3, <1>4, <2>1 DEF Fit
<1>5. CASE Dispatches(d)
  <2>1. m.job.at = "dispatch" /\ reg' = reg /\ log' = log
    BY <1>5 DEF Dispatches
  <2>2. CASE IsAlive(d)
    <3>1. tool' = [tool EXCEPT !.proc = "running"] /\ Set(d, JobTo(m, "await"))
      BY <1>5, <2>2 DEF Dispatches
    <3>2. tool = [proc |-> "prepared", exec |-> k] /\ Writable(reg.rows[k])
      BY <1>2, <2>1, <2>2 DEF Fit, IsAlive
    <3>3. Tree(reg', tool')
      BY <1>2, <1>3, <2>1, <3>1, <3>2, LogsNumbered DEF Tree
    <3>4. JobTo(m, "await").call = m.call /\ JobTo(m, "await").job.at = "await"
      BY <1>2 DEF JobTo, Sound, Memory
    <3>5. Fit(JobTo(m, "await"), reg', tool')
      BY <1>2, <1>3, <3>4, FitLoose DEF Fit
    <3>. QED BY <1>2, <2>1, <3>1, <3>3, <3>5, QuotaStep
  <2>3. CASE ~IsAlive(d)
    <3>. DEFINE n == JobTo(m, "release")
    <3>1. tool' = tool /\ Set(d, n)
      BY <1>5, <2>3 DEF Dispatches
    <3>2. n.call = m.call /\ n.job.at = "release" /\ n.job.out = m.job.out
      BY <1>2 DEF JobTo, Sound, Memory
    <3>3. Sound(n, reg)
      BY <1>1, <1>2, SoundAfter
    <3>. HIDE DEF n
    <3>4. Fit(n, reg, tool)
      BY <1>2, <1>3, <2>1, <3>2, FitLoose DEF Fit
    <3>. QED BY <1>2, <2>1, <3>1, <3>3, <3>4, QuotaQuiet
  <2>. QED BY <2>2, <2>3
<1>6. CASE SummaryComes(d) \/ SummaryOfLoss(d)
  <2>1. PICK out : /\ Set(d, [JobTo(m, "record") EXCEPT !.job.out = out])
                   /\ tool' = IF tool.proc = "no" THEN tool ELSE [proc |-> "ready", exec |-> 0]
                   /\ reg' = reg /\ log' = log
    BY <1>6 DEF SummaryComes, SummaryOfLoss, Summary, Elsewhere
  <2>. DEFINE n == [JobTo(m, "record") EXCEPT !.job.out = out]
  <2>2. tool'.proc # "running" /\ Tree(reg', tool')
    BY <1>2, <2>1, LogsNumbered DEF Tree
  <2>3. Fit(n, reg', tool')
    BY <1>4, <2>1, <2>2
  <2>. HIDE DEF n
  <2>. QED BY <1>2, <2>1, <2>2, <2>3, QuotaStep DEF n
<1>7. CASE NoSummary(d)
  <2>1. PICK out \in {"TIMED_OUT", "LOST"} :
          Set(d, [JobTo(m, "release") EXCEPT !.job.out = out])
          /\ reg' = reg /\ log' = log /\ tool' = tool
    BY <1>7 DEF NoSummary, OnlyMemory
  <2>. DEFINE n == [JobTo(m, "release") EXCEPT !.job.out = out]
  <2>2. Fit(n, reg', tool')
    BY <1>4, <2>1
  <2>3. Tree(reg', tool') /\ LogsInv(reg', log')
    BY <1>2, <2>1
  <2>. HIDE DEF n
  <2>. QED BY <1>2, <2>1, <2>2, <2>3, QuotaStep DEF n
<1>8. CASE Records(d)
  <2>1. PICK complete \in BOOLEAN :
          reg' = Completed(reg, k, m.job.out, log[k], complete, FALSE)
    BY <1>8 DEF Records
  <2>2. m.job.at = "record" /\ log' = log /\ tool' = tool /\ tool.proc # "running"
    BY <1>2, <1>8 DEF Records, OnlyRegistry, Fit
  <2>3. LogsInv(reg', log') /\ Len(reg'.rows) = Len(reg.rows)
    <3>1. LogsInv(reg', log) /\ SameRows(reg, reg')
      BY <1>2, <1>3, <2>1, CompletedRead, Zenon
    <3>. QED BY <2>2, <3>1 DEF SameRows
  <2>4. Tree(reg', tool')
    BY <1>2, <2>2, <2>3 DEF Tree
  <2>5. CASE m.job.out = "DONE"
    <3>1. Set(d, JobEnds(m))
      BY <1>8, <2>5 DEF Records
    <3>2. Fit(JobEnds(m), reg, tool) /\ JobEnds(m).job.at = "none"
          /\ \A c \in Calls : JobEnds(m).call[c].at # "mark"
      BY ZenonT(30), <1>2, <1>3, FitAfter, SoundAfter
    <3>3. Fit(JobEnds(m), reg', tool')
      BY <3>2 DEF Fit
    <3>. QED BY <1>2, <2>3, <2>4, <3>1, <3>3, QuotaStep
  <2>6. CASE m.job.out # "DONE"
    <3>. DEFINE n == JobTo(m, "discard")
    <3>1. Set(d, n)
      BY <1>8, <2>6 DEF Records
    <3>2. n.call = m.call /\ n.job.at = "discard"
      BY <1>2 DEF JobTo, Sound, Memory
    <3>. HIDE DEF n
    <3>3. Fit(n, reg', tool')
      BY <1>2, <1>3, <3>2, FitLoose DEF Fit
    <3>. QED BY <1>2, <2>3, <2>4, <3>1, <3>3, QuotaStep
  <2>. QED BY <2>5, <2>6
<1>9. CASE Discards(d)
  <2>1. Release(d, JobEnds(m), JobEnds(m)) /\ log' = log
    BY <1>9 DEF Discards, Elsewhere
  <2>2. Sound(JobEnds(m), reg) /\ Fit(JobEnds(m), reg, tool)
    BY <1>2, FitAfter, SoundAfter
  <2>. QED BY <1>2, <2>1, <2>2, QuotaRelease
<1>10. CASE Releases(d)
  <2>. DEFINE n == JobTo(m, "complete")
  <2>1. m.job.at = "release" /\ Release(d, n, n) /\ log' = log
    BY <1>10 DEF Releases, Elsewhere
  <2>2. m.job.out # "DONE"
    BY <1>2, <2>1 DEF Fit
  <2>3. Sound(n, reg) /\ Fit(n, reg, tool)
    BY <1>1, <1>2, <2>2, FitAfter, SoundAfter
  <2>. HIDE DEF n
  <2>. QED BY <1>2, <2>1, <2>3, QuotaRelease
<1>11. CASE Completes(d)
  <2>1. m.job.at = "complete" /\ CompletesWithoutSummary(d, k, m.job.out, JobEnds(m))
        /\ log' = log /\ tool' = tool
    BY <1>11 DEF Completes, OnlyRegistry
  <2>2. m.job.out \in Outcomes \ {"DONE"}
    BY <1>2, <1>3, <2>1 DEF Fit
  <2>3. /\ Books(reg, reg', log) /\ (reg'.runtime = "READY" => reg.runtime = "READY")
        /\ Set(d, JobEnds(m))
    BY <1>3, <2>1, <2>2, CompletedFully
  <2>4. Sound(JobEnds(m), reg) /\ Fit(JobEnds(m), reg, tool)
    BY <1>2, FitAfter, SoundAfter
  <2>. QED BY <1>2, <2>1, <2>3, <2>4, QuotaGentle
<1>. QED BY <1>5, <1>6, <1>7, <1>8, <1>9, <1>10, <1>11 DEF JobStep

\* The monitor of a runtime.
LEMMA QuotaMonitor ==
  ASSUME StorageInv, RootsExclusive, LocksTypeOK, QuotaInv, NEW d \in Daemons, MonitorStep(d)
  PROVE  QuotaInv'
<1>. DEFINE m == mem[d]
<1>1. m.mon # "none"
  BY DEF MonitorStep, MonitorCalls, MonitorMarks, MonitorReleases
<1>2. /\ Serves(d) /\ Sound(m, reg) /\ RegInv(reg) /\ LogsInv(reg, log) /\ Fit(m, reg, tool)
  BY <1>1, Nothing, Serving DEF StorageInv, QuotaInv
<1>3. ASSUME NEW mon \in {"mark", "release", "ended"}
      PROVE  Sound([m EXCEPT !.mon = mon], reg) /\ Fit([m EXCEPT !.mon = mon], reg, tool)
  <2>. DEFINE n == [m EXCEPT !.mon = mon]
  <2>1. n.call = m.call /\ n.job = m.job
    BY <1>2 DEF Sound, Memory
  <2>2. Sound(n, reg)
    BY <1>2, FlagsSet
  <2>. HIDE DEF n
  <2>3. Fit(n, reg, tool)
    BY <1>2, <2>1, FitFlags
  <2>. QED BY <2>2, <2>3 DEF n
<1>4. CASE MonitorCalls(d)
  <2>1. PICK mon \in {"mark", "ended"} : Set(d, [m EXCEPT !.mon = mon])
    BY <1>4 DEF MonitorCalls
  <2>2. reg' = reg /\ log' = log /\ tool' = tool
    BY <1>4 DEF MonitorCalls, OnlyMemory
  <2>. QED BY <1>2, <1>3, <2>1, <2>2, QuotaQuiet
<1>5. CASE MonitorMarks(d)
  <2>1. /\ reg' = RuntimeLost(reg) /\ Set(d, [m EXCEPT !.mon = "release"])
        /\ log' = log /\ tool' = tool
    BY <1>5 DEF MonitorMarks, OnlyRegistry
  <2>2. Books(reg, reg', log) /\ (reg'.runtime = "READY" => reg.runtime = "READY")
    BY <1>2, <2>1, BooksKept, RuntimeLostGentle DEF Gentle
  <2>. QED BY <1>2, <1>3, <2>1, <2>2, QuotaGentle
<1>6. CASE MonitorReleases(d)
  <2>. DEFINE n == [m EXCEPT !.mon = "ended"]
  <2>1. Release(d, n, n) /\ log' = log
    BY <1>6 DEF MonitorReleases, Elsewhere
  <2>2. Sound(n, reg) /\ Fit(n, reg, tool)
    BY <1>3
  <2>. HIDE DEF n
  <2>. QED BY <1>2, <2>1, <2>2, QuotaRelease
<1>. QED BY <1>4, <1>5, <1>6 DEF MonitorStep

\* A request to destroy the session.
LEMMA QuotaKill ==
  ASSUME StorageInv, RootsExclusive, LocksTypeOK, QuotaInv, NEW d \in Daemons,
         Destroy(d) \/ KillStep(d)
  PROVE  QuotaInv'
<1>. DEFINE m == mem[d]
<1>1. m # NoMemory
  BY Nothing DEF Destroy, Working, KillStep, DestroyReleases, DestroyCloses
<1>2. /\ Serves(d) /\ Sound(m, reg) /\ RegInv(reg) /\ LogsInv(reg, log) /\ Fit(m, reg, tool)
      /\ Tree(reg, tool) /\ m \in Memory(Nat)
  BY <1>1, Serving DEF StorageInv, QuotaInv, Sound
<1>3. CASE Destroy(d)
  <2>1. PICK kill \in {"release", "orphan", "closeN"} :
          Set(d, [m EXCEPT !.lock = "kill", !.kill = kill])
    BY <1>3 DEF Destroy
  <2>. DEFINE n == [m EXCEPT !.lock = "kill", !.kill = kill]
  <2>2. n.call = m.call /\ n.job = m.job
    BY <1>2 DEF Memory
  <2>3. reg' = reg /\ log' = log /\ tool' = tool
    BY <1>3 DEF Destroy, OnlyMemory
  <2>. HIDE DEF n
  <2>4. Fit(n, reg', tool') /\ LogsInv(reg', log') /\ Tree(reg', tool')
    BY <1>2, <2>2, <2>3, FitFlags
  <2>. QED BY <1>2, <2>1, <2>4, QuotaStep DEF n
<1>4. CASE DestroyReleases(d)
  <2>1. /\ m.kill # "none" /\ log' = log
        /\ \/ Release(d, Kill(m, "closeT"), Kill(m, "closeF"))
           \/ ReleaseOrphan(d, Kill(m, "closeT"), Kill(m, "closeF"))
    BY <1>4 DEF DestroyReleases, Elsewhere
  <2>2. ASSUME NEW kill \in {"closeT", "closeF"}
        PROVE  Sound(Kill(m, kill), reg) /\ Fit(Kill(m, kill), reg, tool)
    <3>. DEFINE n == Kill(m, kill)
    <3>1. n.call = m.call /\ n.job = m.job
      BY <1>2 DEF Kill, Memory
    <3>2. Sound(n, reg)
      BY <1>2, <2>1, FlagsSet
    <3>. HIDE DEF n
    <3>3. Fit(n, reg, tool)
      BY <1>2, <3>1, FitFlags
    <3>. QED BY <3>2, <3>3 DEF n
  <2>3. /\ Sound(Kill(m, "closeT"), reg) /\ Sound(Kill(m, "closeF"), reg)
        /\ Fit(Kill(m, "closeT"), reg, tool) /\ Fit(Kill(m, "closeF"), reg, tool)
    BY <2>2
  <2>. QED BY <1>2, <2>1, <2>3, QuotaRelease
<1>5. CASE DestroyCloses(d)
  <2>. DEFINE p == Kill(m, "none")
              q == Tell(p, {reg.current})
              n == [q EXCEPT !.lock = "free"]
              done == Closed(reg, m.kill = "closeT")
  <2>1. Set(d, n) /\ reg' \in {done, Sealed(done)} /\ log' = log /\ tool' = tool
    BY <1>5 DEF DestroyCloses, OnlyRegistry
  <2>2. Books(reg, done, log) /\ Gentle(reg, done)
    BY <1>2, BooksKept, ClosedGentle
  <2>. HIDE DEF done
  <2>3. Books(done, Sealed(done), log) /\ Gentle(done, Sealed(done))
    BY <2>2, SealedKept, SealedGentle DEF Books, Gentle, Steady
  <2>4. Books(reg, reg', log) /\ (reg'.runtime = "READY" => reg.runtime = "READY")
    BY <1>2, <2>1, <2>2, <2>3, BooksCompose DEF Gentle
  <2>5. p.call = m.call /\ p.job = m.job /\ p \in Memory(Nat)
    BY <1>2 DEF Kill, Memory
  <2>. HIDE DEF p
  <2>6. /\ q.job = m.job /\ q \in Memory(Nat)
        /\ \A c \in Calls : /\ q.call[c].exec = m.call[c].exec
                            /\ q.call[c].at = m.call[c].at \/ q.call[c].at = "told"
    BY ZenonT(30), <2>5 DEF Tell, Memory
  <2>. HIDE DEF q
  <2>7. n.call = q.call /\ n.job = m.job
    BY <2>6 DEF Memory
  <2>. HIDE DEF n
  <2>8. Fit(n, reg, tool)
    BY <1>2, <2>6, <2>7 DEF Fit
  <2>9. Fit(n, reg', tool')
    <3>1. /\ m.job.at = "dispatch" => m.job.exec \in DOMAIN reg.rows
      BY <1>2 DEF Sound
    <3>. QED BY <2>1, <2>4, <2>7, <2>8, <3>1 DEF Fit, Books
  <2>10. Tree(reg', tool') /\ LogsInv(reg', log')
    BY <1>2, <2>1, <2>4, TreeKept DEF Books
  <2>. QED BY <1>2, <2>1, <2>9, <2>10, QuotaStep
<1>. QED BY <1>3, <1>4, <1>5 DEF KillStep

\* The sweep.
LEMMA QuotaSweep ==
  ASSUME StorageInv, RootsExclusive, LocksTypeOK, QuotaInv, NEW d \in Daemons, SweepStep(d)
  PROVE  QuotaInv'
<1>. DEFINE m == mem[d]
<1>1. m # NoMemory
  BY Nothing DEF SweepStep, SweepReleases, SweepCleans, SweepSeals
<1>2. /\ Serves(d) /\ Sound(m, reg) /\ RegInv(reg) /\ LogsInv(reg, log) /\ Fit(m, reg, tool)
  BY <1>1, Serving DEF StorageInv, QuotaInv
<1>3. CASE SweepReleases(d)
  <2>1. (Release(d, m, m) \/ ReleaseOrphan(d, m, m)) /\ log' = log
    BY <1>3 DEF SweepReleases, Elsewhere
  <2>. QED BY <1>2, <2>1, QuotaRelease
<1>4. CASE SweepCleans(d)
  <2>1. Cleanup(d, m) /\ log' = log /\ tool' = tool
    BY <1>4 DEF SweepCleans, OnlyRegistry
  <2>. QED BY <1>2, <2>1, QuotaCleanup
<1>5. CASE SweepSeals(d)
  <2>1. reg' = Sealed(reg) /\ Set(d, m) /\ log' = log /\ tool' = tool
    BY <1>5 DEF SweepSeals, Set, StorageInv, OnlyRegistry
  <2>2. Books(reg, reg', log) /\ (reg'.runtime = "READY" => reg.runtime = "READY")
    BY <1>2, <2>1, SealedKept, SealedGentle DEF Gentle
  <2>. QED BY <1>2, <2>1, <2>2, QuotaGentle
<1>. QED BY <1>3, <1>4, <1>5 DEF SweepStep

\* A session is published, a daemon starts or stops.
LEMMA QuotaLife ==
  ASSUME StorageInv, RootsExclusive, LocksTypeOK, QuotaInv, NEW d \in Daemons,
         Publish(d) \/ Reconcile(d) \/ Adopts(d) \/ Stops(d) \/ StopReleases(d)
  PROVE  QuotaInv'
<1>. DEFINE m == mem[d]
<1>0. RegInv(reg) /\ LogsInv(reg, log) /\ Fit(m, reg, tool)
  BY DEF StorageInv, QuotaInv
<1>1. m # NoMemory => Serves(d) /\ Sound(m, reg) /\ m \in Memory(Nat)
  BY Serving DEF Sound
<1>2. CASE Publish(d)
  <2>. DEFINE n == [m EXCEPT !.ctrl = "listed", !.mon = "watch"]
  <2>1. /\ m.stage = "up" /\ reg.session = "none" /\ reg' = Published(reg)
        /\ Set(d, n) /\ tool' = [proc |-> "ready", exec |-> 0] /\ log' = log
    BY <1>2 DEF Publish, Elsewhere
  <2>2. Serves(d) /\ Sound(m, reg) /\ m \in Memory(Nat)
    BY <1>1, <2>1, Nothing
  <2>3. DOMAIN reg.rows = {}
    BY <1>0, <2>1 DEF RegInv, Shaped, IsTable
  <2>4. n.call = m.call /\ n.job = m.job
    BY <2>2 DEF Memory
  <2>. HIDE DEF n
  <2>5. m.job.at = "none" /\ \A c \in Calls : m.call[c].at = "idle"
    BY <2>2, <2>3 DEF Sound
  <2>6. Fit(n, reg', tool')
    BY <1>0, <2>4, <2>5, FitLoose DEF Fit
  <2>7. LogsInv(reg', log')
    BY <1>0, <2>1, BooksKept DEF Books
  <2>8. Tree(reg', tool')
    BY <2>1, <2>7, LogsNumbered DEF Tree
  <2>. QED BY <2>1, <2>2, <2>6, <2>7, <2>8, QuotaStep
<1>3. CASE Reconcile(d)
  <2>. DEFINE n == [NoMemory EXCEPT !.stage = "adopt"]
  <2>1. /\ Serves(d) /\ m.stage = "none" /\ reg' = Reconciled(reg)
        /\ Set(d, [m EXCEPT !.stage = "adopt"]) /\ log' = log /\ tool' = tool
    BY <1>3 DEF Reconcile, Serves, OnlyRegistry
  <2>2. m = NoMemory
    BY <1>1, <2>1 DEF Sound
  <2>3. n.call = NoMemory.call /\ n.job = NoMemory.job
    BY DEF NoMemory
  <2>. HIDE DEF n
  <2>4. Fit(n, reg', tool')
    BY <2>3, FitNothing, FitFlags
  <2>5. Books(reg, reg', log) /\ (reg'.runtime = "READY" => reg.runtime = "READY")
    BY <1>0, <2>1, BooksKept, ReconciledGentle DEF Gentle
  <2>6. LogsInv(reg', log') /\ Tree(reg', tool')
    BY <1>0, <2>1, <2>5, TreeKept DEF QuotaInv, Books
  <2>. QED BY <2>1, <2>2, <2>4, <2>6, QuotaStep DEF n
<1>4. CASE Adopts(d)
  <2>. DEFINE n == [m EXCEPT !.stage = "up"]
              o == [m EXCEPT !.stage = "up", !.orphan = TRUE]
  <2>1. m.stage = "adopt" /\ log' = log /\ tool' = tool
    BY <1>4 DEF Adopts, OnlyRegistry
  <2>2. Serves(d) /\ Sound(m, reg) /\ m \in Memory(Nat)
    BY <1>1, <2>1, Nothing
  <2>3. Sound(n, reg) /\ Sound(o, reg)
    BY <2>2, FlagsSet
  <2>4. n.call = m.call /\ n.job = m.job /\ o.call = m.call /\ o.job = m.job
    BY <2>2 DEF Memory
  <2>5. \/ reg' = reg /\ Set(d, o)
        \/ Cleanup(d, n)
        \/ reg' = Sealed(reg) /\ Set(d, n)
    BY <1>4 DEF Adopts
  <2>. HIDE DEF n, o
  <2>6. Fit(n, reg, tool) /\ Fit(o, reg, tool)
    BY <1>0, <2>4, FitFlags
  <2>7. Books(reg, Sealed(reg), log) /\ (Sealed(reg).runtime = "READY" => reg.runtime = "READY")
    BY <1>0, SealedKept, SealedGentle DEF Gentle
  <2>8. CASE reg' = reg /\ Set(d, o)
    BY <2>1, <2>2, <2>3, <2>6, <2>8, QuotaQuiet
  <2>9. CASE Cleanup(d, n)
    BY <2>1, <2>2, <2>3, <2>6, <2>9, QuotaCleanup
  <2>10. CASE reg' = Sealed(reg) /\ Set(d, n)
    BY <2>1, <2>2, <2>3, <2>6, <2>7, <2>10, QuotaGentle
  <2>. QED BY <2>5, <2>8, <2>9, <2>10
<1>5. CASE Stops(d)
  <2>. DEFINE n == [m EXCEPT !.stage = "stopping"]
  <2>1. /\ m.stage = "up" /\ reg' \in {reg, RuntimeLost(reg)} /\ Set(d, n)
        /\ log' = log /\ tool' = tool
    BY <1>5 DEF Stops, OnlyRegistry
  <2>2. Serves(d) /\ Sound(m, reg) /\ Sound(n, reg) /\ m \in Memory(Nat)
    BY <1>1, <2>1, Nothing, FlagsSet
  <2>3. n.call = m.call /\ n.job = m.job
    BY <2>2 DEF Memory
  <2>. HIDE DEF n
  <2>4. Fit(n, reg, tool)
    BY <1>0, <2>3, FitFlags
  <2>5. Books(reg, RuntimeLost(reg), log)
        /\ (RuntimeLost(reg).runtime = "READY" => reg.runtime = "READY")
    BY <1>0, BooksKept, RuntimeLostGentle DEF Gentle
  <2>6. CASE reg' = reg
    BY <2>1, <2>2, <2>4, <2>6, QuotaQuiet
  <2>7. CASE reg' = RuntimeLost(reg)
    BY <2>1, <2>2, <2>4, <2>5, <2>7, QuotaGentle
  <2>. QED BY <2>1, <2>6, <2>7
<1>6. CASE StopReleases(d)
  <2>. DEFINE p == Tell(m, DOMAIN reg.rows)
              n == [p EXCEPT !.stage = "waiting"]
  <2>1. /\ m.stage = "stopping" /\ (ReleaseOrphan(d, n, n) \/ Release(d, n, n)) /\ log' = log
    BY <1>6 DEF StopReleases, Elsewhere
  <2>2. Serves(d) /\ Sound(m, reg)
    BY <1>1, <2>1, Nothing
  <2>3. Sound(p, reg) /\ Fit(p, reg, tool)
    BY <1>0, <2>2, SoundAfter, FitAfter
  <2>. HIDE DEF p
  <2>4. Sound(n, reg) /\ n.call = p.call /\ n.job = p.job
    <3>1. Sound(n, reg)
      BY <2>3, FlagsSet
    <3>2. p \in Memory(Nat)
      BY <2>3 DEF Sound
    <3>. QED BY <3>1, <3>2 DEF Memory
  <2>. HIDE DEF n
  <2>5. Fit(n, reg, tool)
    BY <2>3, <2>4, FitFlags
  <2>. QED BY <2>1, <2>2, <2>4, <2>5, QuotaRelease
<1>. QED BY <1>2, <1>3, <1>4, <1>5, <1>6

\* A process ends, or the locks move.
LEMMA QuotaProcess ==
  ASSUME QuotaInv, NEW d \in Daemons, StorageInv,
         StopEnds(d) \/ Crash(d) \/ OtherEnds(d) \/ LockSteps \/ ReadsPage(d)
  PROVE  QuotaInv'
<1>1. reg' = reg /\ log' = log /\ tool' = tool
  BY DEF StopEnds, Crash, OtherEnds, LockSteps, ReadsPage
<1>2. mem' = mem \/ mem' = [mem EXCEPT ![d] = NoMemory]
  BY DEF StopEnds, Crash, OtherEnds, LockSteps, ReadsPage, Set
<1>3. \A e \in Daemons : mem'[e] = mem[e] \/ mem'[e] = NoMemory
  BY <1>2 DEF StorageInv
<1>. QED BY <1>1, <1>3, FitNothing DEF QuotaInv

\* The tool writes what was reserved, and dies.
LEMMA QuotaTool ==
  ASSUME StorageInv, QuotaInv, ToolWrites \/ ToolDies
  PROVE  QuotaInv'
<1>1. /\ RegInv(reg) /\ LogsInv(reg, log) /\ Tree(reg, tool) /\ reg' = reg /\ mem' = mem
  BY DEF StorageInv, QuotaInv, ToolWrites, ToolDies
<1>2. CASE ToolWrites
  <2>. DEFINE k == tool.exec
  <2>1. /\ tool.proc = "running" /\ log[k] < reg.rows[k].reserved
        /\ log' = [log EXCEPT ![k] = @ + 1] /\ tool' = tool
    BY <1>2 DEF ToolWrites
  <2>2. k \in DOMAIN reg.rows /\ Writable(reg.rows[k]) /\ reg.runtime # "READY"
    BY <1>1, <2>1 DEF Tree
  <2>3. reg.rows[k].state # "QUEUED"
    BY <1>1, <2>2 DEF RegInv, OneCurrent
  <2>. HIDE DEF k
  <2>4. LogsInv(reg', log')
    BY <1>1, <2>1, <2>2, <2>3, WrittenKept
  <2>. QED BY <1>1, <2>1, <2>4 DEF QuotaInv
<1>3. CASE ToolDies
  <2>1. tool' = NoTree /\ log' = log
    BY <1>3 DEF ToolDies, NoTree
  <2>2. Books(reg, reg, log)
    BY <1>1 DEF Books
  <2>3. Tree(reg', tool')
    BY <1>1, <2>1, <2>2, TreeKept
  <2>4. NoTree.proc = "no"
    BY DEF NoTree
  <2>5. \A d \in Daemons : Fit(mem[d], reg, NoTree)
    BY <2>4 DEF QuotaInv, Fit
  <2>. QED BY <1>1, <2>1, <2>3, <2>5 DEF QuotaInv
<1>. QED BY <1>2, <1>3

\* At first nothing is written and nothing promised.
LEMMA QuotaInitial == Init => QuotaInv
<1> SUFFICES ASSUME Init PROVE QuotaInv
  OBVIOUS
<1>1. LogsInv(reg, log) /\ reg.rows = <<>> /\ reg = [reg EXCEPT !.rows = <<>>]
  BY LogsImplied DEF Init, LogsInit
<1>2. Tree(reg, tool)
  <2>1. tool.proc = "no" /\ tool.exec = 0 /\ tool = [proc |-> "no", exec |-> 0]
    BY DEF Init
  <2>. QED BY <1>1, <2>1, LogsNumbered DEF Tree
<1>3. \A d \in Daemons : mem[d] = NoMemory
  BY DEF Init
<1>. QED BY <1>1, <1>2, <1>3, FitNothing DEF QuotaInv

\* Every step of the daemons, the tool and the readers keeps it.
LEMMA QuotaNext ==
  ASSUME StorageInv, RootsExclusive, LocksTypeOK, QuotaInv, [Next]_vars
  PROVE  QuotaInv'
<1>1. CASE UNCHANGED vars
  BY <1>1 DEF vars, lockVars, QuotaInv
<1>2. CASE ToolWrites \/ ToolDies
  BY <1>2, QuotaTool
<1>3. CASE LockSteps
  <2>1. \E d \in Daemons : TRUE
    BY <1>3 DEF LockSteps
  <2>. QED BY <1>3, <2>1, QuotaProcess
<1>4. ASSUME NEW d \in Daemons, StopEnds(d) \/ Crash(d) \/ OtherEnds(d) \/ ReadsPage(d)
      PROVE  QuotaInv'
  BY <1>4, QuotaProcess
<1>5. ASSUME NEW d \in Daemons,
             \/ Publish(d) \/ Destroy(d) \/ Reconcile(d) \/ Adopts(d) \/ Stops(d)
             \/ JobStep(d) \/ MonitorStep(d) \/ KillStep(d) \/ SweepStep(d) \/ StopReleases(d)
             \/ \E c \in Calls : Execute(d, c) \/ CallStep(d, c)
      PROVE  QuotaInv'
  BY <1>5, QuotaCall, QuotaExecute, QuotaJob, QuotaMonitor, QuotaKill, QuotaSweep, QuotaLife
<1>. QED BY <1>1, <1>2, <1>3, <1>4, <1>5 DEF Next, StopStep

\* In every state the books are kept, and nothing can be written that is not accounted for.
THEOREM QuotaInvariant == Spec => []QuotaInv
<1>1. StorageInv /\ (RootsExclusive /\ LocksTypeOK) /\ QuotaInv /\ [Next]_vars => QuotaInv'
  BY QuotaNext
<1>2. Spec => [](RootsExclusive /\ LocksTypeOK)
  BY ServingFollowsLocks, OwnersDisjoint, LocksTypeCorrect, PTL
<1>. QED BY <1>1, <1>2, QuotaInitial, StorageInvariant, PTL DEF Spec

\* The quota of a session covers every byte its executions wrote, those of a tool that nobody
\* could kill too, and a log that a client is told is complete is.
THEOREM QuotaCovers == Spec => []QuotaKept
<1>1. QuotaInv => QuotaKept
  BY LogsImplied DEF QuotaInv
<1>. QED BY <1>1, QuotaInvariant, PTL

-----------------------------------------------------------------------------
(* The types *)

\* What fails is counted, and no more often than the bound allows.
LEMMA FaultsBounded ==
  ASSUME faults \in 0..MaxFaults, [Next]_vars
  PROVE  faults' \in 0..MaxFaults
<1>1. (Fault \/ Fine) => faults' \in 0..MaxFaults
  BY StorageAssumption DEF Fault, Fine
<1>2. CASE UNCHANGED vars
  BY <1>2 DEF vars
<1>3. CASE LockSteps \/ ToolWrites \/ ToolDies
  BY <1>1, <1>3 DEF LockSteps, ToolWrites, ToolDies, Fine
<1>4. ASSUME NEW d \in Daemons, NEW c \in Calls, Execute(d, c) \/ CallStep(d, c)
      PROVE  Fault \/ Fine
  BY <1>4 DEF Execute, CallStep, Prepares, SinkFails, PrepareFails, Marks, Undoes, Finishes,
              Returns, Release, Cleanup, CompletesWithoutSummary
<1>5. ASSUME NEW d \in Daemons,
             \/ Publish(d) \/ Destroy(d) \/ ReadsPage(d) \/ Reconcile(d) \/ Adopts(d) \/ Stops(d)
             \/ Crash(d) \/ OtherEnds(d)
      PROVE  Fault \/ Fine
  BY <1>5 DEF Publish, Destroy, ReadsPage, Reconcile, Adopts, Stops, Crash, OtherEnds, Cleanup
<1>6. ASSUME NEW d \in Daemons, JobStep(d)
      PROVE  Fault \/ Fine
  BY <1>6 DEF JobStep, Dispatches, SummaryComes, SummaryOfLoss, NoSummary, Records, Discards,
              Releases, Completes, Release, Cleanup, CompletesWithoutSummary
<1>7. ASSUME NEW d \in Daemons, MonitorStep(d) \/ KillStep(d) \/ SweepStep(d) \/ StopStep(d)
      PROVE  Fault \/ Fine
  <2>1. ASSUME NEW yes, NEW no, Release(d, yes, no) \/ ReleaseOrphan(d, yes, no)
        PROVE  Fault \/ Fine
    BY <2>1 DEF Release, ReleaseOrphan, Cleanup
  <2>2. CASE MonitorStep(d)
    BY <2>1, <2>2 DEF MonitorStep, MonitorCalls, MonitorMarks, MonitorReleases
  <2>3. CASE KillStep(d)
    BY <2>1, <2>3 DEF KillStep, DestroyReleases, DestroyCloses
  <2>4. CASE SweepStep(d)
    BY <2>1, <2>4 DEF SweepStep, SweepReleases, SweepCleans, SweepSeals, Cleanup
  <2>5. CASE StopStep(d)
    BY <2>1, <2>5 DEF StopStep, StopReleases, StopEnds
  <2>. QED BY <1>7, <2>2, <2>3, <2>4, <2>5
<1>. QED BY <1>1, <1>2, <1>3, <1>4, <1>5, <1>6, <1>7 DEF Next

\* The executions that a process has in memory are in the tables.
LEMMA MemoryTyped ==
  ASSUME StorageInv, QuotaInv
  PROVE  mem \in [Daemons -> Memory(0..Len(reg.rows))]
<1>. DEFINE E == 0..Len(reg.rows)
<1>1. DOMAIN reg.rows = 1..Len(reg.rows) /\ Len(reg.rows) \in Nat
  BY LogsNumbered DEF QuotaInv
<1>2. 0 \in E /\ \A k \in DOMAIN reg.rows : k \in E
  BY <1>1
<1>. HIDE DEF E
<1>3. ASSUME NEW d \in Daemons PROVE mem[d] \in Memory(E)
  <2>1. CASE mem[d] = NoMemory
    BY <1>2, <2>1 DEF NoMemory, NoCall, NoJob, Memory
  <2>2. CASE mem[d] # NoMemory
    <3>. DEFINE m == mem[d]
    <3>1. Sound(m, reg) /\ Fit(m, reg, tool)
      BY <2>2, Serving DEF QuotaInv
    <3>. HIDE DEF m
    <3>2. m \in Memory(Nat)
      BY <3>1 DEF Sound
    <3>3. m.job.exec \in E /\ \A c \in Calls : m.call[c].exec \in E
      BY <1>2, <3>1 DEF Sound, Fit
    <3>4. m.job \in [at : {"none", "dispatch", "await", "record", "discard", "release", "complete"},
                     exec : E, out : {"DONE", "TIMED_OUT", "LOST"}]
      BY <3>2, <3>3 DEF Memory
    <3>5. m.call \in [Calls -> [at : {"idle", "prepare", "mark", "undo", "finish", "wait", "told"},
                                exec : E]]
      <4>1. m.call \in [Calls ->
              [at : {"idle", "prepare", "mark", "undo", "finish", "wait", "told"}, exec : Nat]]
        BY <3>2 DEF Memory
      <4>. QED BY <3>3, <4>1
    <3>6. m \in Memory(E)
      BY <3>2, <3>4, <3>5 DEF Memory
    <3>. QED BY <3>6 DEF m
  <2>. QED BY <2>1, <2>2
<1>. QED BY <1>3 DEF StorageInv, E

\* The variables have their types.
THEOREM StorageTypeCorrect == Spec => []TypeOK
<1>1. Init => faults \in 0..MaxFaults
  BY StorageAssumption DEF Init
<1>2. faults \in 0..MaxFaults /\ [Next]_vars => (faults \in 0..MaxFaults)'
  BY FaultsBounded
<1>3. StorageInv /\ QuotaInv /\ LocksTypeOK /\ faults \in 0..MaxFaults => TypeOK
  BY MemoryTyped, LogsImplied DEF TypeOK, QuotaInv, Tree
<1>4. Spec => []LocksTypeOK
  BY ServingFollowsLocks, LocksTypeCorrect, PTL
<1>. QED BY <1>1, <1>2, <1>3, <1>4, StorageInvariant, QuotaInvariant, PTL DEF Spec
=============================================================================
