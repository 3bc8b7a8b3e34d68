--------------------- MODULE InteractiveService_proofs ---------------------
(***************************************************************************)
(* Theorems about InteractiveService, for every set of session ids, every  *)
(* capacity and every number of executions, faults and restarts.           *)
(*                                                                         *)
(* An action of a session writes the entries of that session alone, so     *)
(* that the invariant is a conjunction over sessions of what their row,    *)
(* memory, lease and process have to do with each other, with what the     *)
(* sweep and a shutdown have noted, and a count of the processes there may *)
(* be. The lemmas say what a transaction makes of a sound row, then what   *)
(* each action makes of its session (Sound), then what that means for all. *)
(***************************************************************************)
EXTENDS InteractiveService, FiniteSetTheorems, TLAPS

-----------------------------------------------------------------------------
(* The inductive invariant *)

\* The stages of a create before it is given up, those with a permit and without a process,
\* and those of a release that follow the confirmed end of the processes.
Early   == {"acquire", "register", "build", "attempt", "spawn", "boot", "publish"}
Granted == {"register", "build", "attempt", "spawn"}
Ended   == {"retire", "clean", "yes"}
Holding == {"private", "listed", "pending"}

\* The rows of one session agree.
RowSound(r) ==
  /\ \A k \in ExecIds : r.execs[k] \in Active => r.current = k
  /\ r.current # 0 => /\ r.execs[r.current] \in Active
                      /\ r.session = "ACTIVE" /\ r.runtime \in {"READY", "BUSY"}
  /\ r.runtime = "BUSY" <=> \E k \in ExecIds : r.execs[k] = "RUNNING"
  /\ r.session = "CLOSED" => r.runtime = "STOPPED"
  /\ r.session # "none" => r.create = "SUCCEEDED" /\ r.startup = "none" /\ r.runtime # "none"
  /\ r.session = "none" => /\ r.runtime = "none" /\ r.current = 0 /\ ~r.owned
                           /\ \A k \in ExecIds : r.execs[k] = "none"
  /\ r.create = "none" => r.startup = "none"
  /\ \A k \in r.unsealed : r.execs[k] = "LOST"

\* The create works for a request that is pending, the other threads for a session that was
\* published; who holds the lock of a release wants it.
AtWork(m, r) ==
  /\ m.task # "none" => r.session = "none" /\ r.create = "PENDING"
  /\ m.kill # "none" \/ m.job # "none" \/ m.mon \in {"mark", "release"} => r.session # "none"
  /\ m.job # "none" => m.exec \in ExecIds
  /\ m.rel = "task" => m.task = "cleanup"
  /\ m.rel = "kill" => m.kill = "release"
  /\ m.kill # "none" => m.lock = "kill"

\* Who has the processes of a session in hand, for as long as there may be some.
InHand(m, r, p) ==
  /\ m.task \in Early => m.rel = "free" /\ m.dirty = "none" /\ m.orphan = "none" /\ m.found = "none"
  /\ m.task \in {"acquire", "register", "build"} => m.ctrl \in {"none", "released"}
  /\ m.task \in {"attempt", "spawn", "boot", "publish"} => m.ctrl = "private"
  /\ m.task = "cleanup" => m.ctrl \in {"private", "pending", "released"}
  /\ m.ctrl = "private" => m.task \in {"attempt", "spawn", "boot", "publish", "cleanup"}
  /\ m.ctrl = "listed" => r.session # "none"
  /\ m.rel # "free" => /\ m.step \in Ended => p = "no"
                       /\ m.step \in {"clean", "yes"} <=> m.ctrl = "released"
                       /\ m.step = "no" => m.ctrl = "pending"
  /\ m.rel # "free" \/ m.job \notin {"none", "complete"} \/ "release" \in {m.kill, m.mon} =>
       m.ctrl # "none"
  /\ m.ctrl = "released" => p = "no"
  /\ m.dirty # "none" =>
       p = "no" /\ m.ctrl \in {"none", "released"} /\ m.orphan = "none" /\ m.found = "none"
  /\ m.orphan # "none" => m.found = "none"
  /\ m.orphan # "none" \/ m.found # "none" =>
       m.ctrl = "none" /\ m.task = "none" /\ r.runtime \notin {"READY", "BUSY"}
  /\ m.kill \in {"closeT", "seal"} => p = "no"
  /\ m.kill = "closeT" => m.ctrl \notin Holding /\ m.orphan = "none"
  /\ m.kill = "orphan" => m.ctrl \notin Holding /\ (m.orphan = "none" => p = "no")
  /\ m.kill \in {"closeF", "closeN", "seal"} \/ m.job = "complete" => m.ctrl # "listed"

\* What the registry records of them.
OnRecord(m, r, p) ==
  /\ m.task \in {"acquire", "register", "build", "attempt", "spawn"} => p = "no"
  /\ m.task \in {"spawn", "boot", "publish"} => r.startup \in {"attempted", "worker", "tool"}
  /\ m.task = "build" \/ m.ctrl \in Holding => r.startup # "none" \/ r.owned
  /\ "session" \in {m.orphan, m.found} => r.owned
  /\ {m.orphan, m.found} \cap {"request", "unknown"} # {} => r.startup # "none"
  /\ p # "no" => r.owned \/ r.startup \in {"attempted", "worker", "tool"}

\* The controller of a runtime in use, or one that somebody is about to release.
Watched(m, r, told) ==
  \/ r.runtime \in {"READY", "BUSY"} \/ m.job \in {"release", "discard"} \/ m.mon = "release"
  \/ m.kill = "release" \/ m.rel # "free" \/ told

\* Who has a permit, and who will give it back.
Permitted(m, r, l, told) ==
  /\ m.task = "acquire" => l = "none"
  /\ m.task \in Granted \cup {"boot", "publish"} => l # "none"
  /\ m.task = "fail" => l = "none" \/ m.ctrl = "pending"
  /\ m.ctrl = "released" /\ m.task \notin {"register", "build"} => l = "none"
  /\ m.found # "none" => l = "none"
  /\ l # "none" => \/ m.task # "none" \/ m.ctrl = "pending" \/ m.orphan # "none"
                   \/ m.ctrl = "listed" /\ Watched(m, r, told)

\* An id that no request has named, or that retention has let go, is at rest.
Fresh(m, r) == r.create = "none" =>
  /\ m.ctrl \in {"none", "released"} /\ (m.rel # "free" => m.rel = "stop" /\ m.step = "yes")
  /\ m.dirty = "none" /\ m.orphan = "none" /\ m.found = "none"

\* No thread is at work for a session, and no controller is there.
Idle(m) ==
  /\ m.ctrl = "none" /\ m.task = "none" /\ m.job = "none" /\ m.kill = "none" /\ m.mon = "none"
  /\ m.rel = "free" /\ ~m.suppressed

\* What the daemon holds in the phases of its life.
Phases ==
  /\ daemon = "down" => mem = Nothing /\ \A s \in SessionIds : leases[s] = "none"
  /\ daemon = "reconciling" => \A s \in SessionIds : Idle(mem[s])
  /\ daemon # "reconciling" => \A s \in SessionIds : mem[s].found = "none"
  /\ ~Serving => sweep = Resting
  /\ daemon # "stopping" => stop = Running

\* What a snapshot of the sweep, or of a shutdown, says of a session stays true.
Listed(s) ==
  /\ s \in sweep.clean => mem[s].dirty # "none"
  /\ s \in sweep.pending =>
       mem[s].task \notin Early /\ mem[s].ctrl # "none" /\ db[s].create # "none"
  /\ sweep.at = "stopIdle" /\ s \in sweep.todo => mem[s].ctrl # "none" /\ db[s].session # "none"
  /\ s \in stop.ctrls => mem[s].task \notin Early /\ mem[s].ctrl # "none"
  /\ mem[s].rel = "stop" => s \in stop.ctrls

\* What the snapshots are about, and that they are true.
Snapshots ==
  /\ sweep.pending # {} => sweep.at = "snapshots"
  /\ stop.on \subseteq stop.ctrls
  /\ \A s \in SessionIds : Listed(s)

\* Where there is a process, or will be one with the permit that a create has.
Places == Trees \cup {s \in SessionIds : mem[s].task \in Granted}

\* What holds of every session, whatever fails.
Basic(m, r) == RowSound(r) /\ AtWork(m, r)

\* What holds of every session, unless a directory that was left is an obstacle to a session
\* that comes after it under the same id.
Owned(m, r, l, p, told) ==
  /\ InHand(m, r, p) /\ OnRecord(m, r, p) /\ Permitted(m, r, l, told) /\ Fresh(m, r)
  /\ MaxIoFaults = 0 => m.dirty = "none"

\* A process that is not left to reconciliation has a permit.
Covered(m, l, p) == p # "no" /\ m.found = "none" => l # "none"

\* What holds whatever fails and whatever ids are used again.
RecordsInv ==
  /\ Phases
  /\ \A s \in SessionIds : Basic(mem[s], db[s])

\* What holds as long as no directory is left in the way of an id that is used again.
ServiceInv ==
  /\ Snapshots
  /\ \A s \in SessionIds :
       /\ Owned(mem[s], db[s], leases[s], proc[s], s \in stop.ctrls)
       /\ daemon # "down" => Covered(mem[s], leases[s], proc[s])
  /\ Cardinality(Places) <= Capacity

\* Retention lets no id go, or every directory can be removed. Without it a cleanup that was
\* put off may be done to the next session of the same id: see OwnershipDurable in the run
\* interactive_reuse.
NoReuse == MaxForgets = 0 \/ MaxIoFaults = 0

\* The inductive invariant.
Invariant == TypeOK /\ RecordsInv /\ (NoReuse => ServiceInv)

-----------------------------------------------------------------------------
(* The operators on rows *)

\* What the service and a client may find in a row after a transaction.
Later(r, q) ==
  /\ r.create \in {"SUCCEEDED", "FAILED"} => q.create \in {r.create, "none"}
  /\ r.session = "CLOSED" => q.session \in {"CLOSED", "none"}
  /\ r.runtime = "STOPPED" => q.runtime \in {"STOPPED", "none"}
  /\ r.runtime = "LOST" => q.runtime \in {"LOST", "STOPPED", "none"}
  /\ \A k \in ExecIds : r.execs[k] \in {"DONE", "LOST"} => q.execs[k] \in {r.execs[k], "none"}

\* A transaction leaves a sound row, which does not take back what was told.
RowStep(r, q) == q \in Row /\ RowSound(q) /\ Later(r, q)

\* The rows of a published session, and its execution, are as they were.
SameRuntime(r, q) ==
  q.session = r.session /\ q.runtime = r.runtime /\ q.owned = r.owned /\ q.unsealed = r.unsealed

\* Later is what OutcomesStay asks of the rows of a session.
LEMMA LaterStays ==
  ASSUME NEW s \in SessionIds, Later(db[s], db'[s])
  PROVE  OutcomesStay(s)
BY DEF OutcomesStay, Later, Final

\* A row that stays says what it said.
LEMMA StaysLater == \A r : Later(r, r)
BY DEF Later

\* The transactions on a create request keep a sound row sound.
LEMMA CreateRows ==
  ASSUME NEW r \in Row, RowSound(r), NEW q,
         \/ r.create = "none" /\ q = [r EXCEPT !.create = "PENDING"]
         \/ r.create = "none" /\ q = [r EXCEPT !.create = "FAILED"]
         \/ r.create = "PENDING" /\ q = [r EXCEPT !.create = "FAILED"]
  PROVE  RowStep(r, q) /\ SameRuntime(r, q) /\ q.startup = r.startup
<1>1. q \in Row BY DEF Row
<1>2. /\ q.create \in {"PENDING", "FAILED"} /\ q.startup = r.startup /\ q.session = r.session
      /\ q.runtime = r.runtime /\ q.owned = r.owned /\ q.current = r.current
      /\ q.execs = r.execs /\ q.unsealed = r.unsealed
      /\ r.create \in {"none", "PENDING"}
  BY DEF Row
<1>. QED BY <1>1, <1>2 DEF RowStep, RowSound, Later, SameRuntime

\* So do those on a start-up.
LEMMA StartupRows ==
  ASSUME NEW r \in Row, RowSound(r),
         NEW v \in {"none", "registered", "attempted", "worker", "tool"},
         v # "none" => r.session = "none" /\ r.create = "PENDING",
         NEW q, q = [r EXCEPT !.startup = v]
  PROVE  RowStep(r, q) /\ SameRuntime(r, q) /\ q.startup = v /\ q.create = r.create
<1>1. q \in Row BY DEF Row
<1>2. /\ q.create = r.create /\ q.startup = v /\ q.session = r.session
      /\ q.runtime = r.runtime /\ q.owned = r.owned /\ q.current = r.current
      /\ q.execs = r.execs /\ q.unsealed = r.unsealed
  BY DEF Row
<1>. QED BY <1>1, <1>2 DEF RowStep, RowSound, Later, SameRuntime

\* The row of a session that is published.
Published(r) == [r EXCEPT !.create = "SUCCEEDED", !.startup = "none", !.session = "ACTIVE",
                          !.runtime = "READY", !.owned = TRUE]

\* So does the publication of a session.
LEMMA PublishRows ==
  ASSUME NEW r \in Row, RowSound(r), r.session = "none", r.create = "PENDING",
         NEW q, q = Published(r)
  PROVE  /\ RowStep(r, q) /\ q.unsealed = r.unsealed
         /\ q.create = "SUCCEEDED" /\ q.startup = "none" /\ q.session = "ACTIVE"
         /\ q.runtime = "READY" /\ q.owned
<1>1. q \in Row BY DEF Row, Published
<1>2. /\ q.create = "SUCCEEDED" /\ q.startup = "none" /\ q.session = "ACTIVE"
      /\ q.runtime = "READY" /\ q.owned = TRUE /\ q.current = r.current
      /\ q.execs = r.execs /\ q.unsealed = r.unsealed
  BY DEF Row, Published
<1>. QED BY <1>1, <1>2 DEF RowStep, RowSound, Later

\* Nothing else of the row of a session is touched.
SameCreate(r, q) ==
  q.create = r.create /\ q.startup = r.startup /\ q.session = r.session

\* An admitted execution keeps a sound row sound.
LEMMA BeginRows ==
  ASSUME NEW r \in Row, RowSound(r), NEW k \in ExecIds,
         r.session = "ACTIVE", r.runtime = "READY", r.current = 0, r.execs[k] = "none",
         NEW q, q = [r EXCEPT !.execs[k] = "QUEUED", !.current = k]
  PROVE  RowStep(r, q) /\ SameCreate(r, q) /\ SameRuntime(r, q)
<1>1. k \in 0..MaxExecs /\ 0 \notin ExecIds BY ServiceAssumption DEF ExecIds
<1>2. /\ q.create = r.create /\ q.startup = r.startup /\ q.session = r.session
      /\ q.runtime = r.runtime /\ q.owned = r.owned /\ q.current = k
      /\ q.execs = [r.execs EXCEPT ![k] = "QUEUED"] /\ q.unsealed = r.unsealed
  BY DEF Row
<1>3. q \in Row BY <1>1 DEF Row
<1>4. r.execs \in [ExecIds -> {"none", "QUEUED", "RUNNING", "DONE", "LOST"}]
      /\ r.unsealed \subseteq ExecIds
  BY DEF Row
<1>5. /\ q.execs[k] = "QUEUED" /\ \A j \in ExecIds : j # k => q.execs[j] = r.execs[j]
  BY <1>2, <1>4
<1>6. RowSound(q) BY <1>1, <1>2, <1>4, <1>5 DEF RowSound, Active
<1>7. Later(r, q) BY <1>2, <1>5 DEF Later
<1>. QED BY <1>2, <1>3, <1>6, <1>7 DEF RowStep, SameCreate, SameRuntime

\* The row of a session whose execution starts.
RunningRow(r, k) == [r EXCEPT !.execs[k] = "RUNNING", !.runtime = "BUSY"]

\* So does the start of an execution.
LEMMA RunRows ==
  ASSUME NEW r \in Row, RowSound(r), NEW k \in ExecIds,
         r.execs[k] = "QUEUED", r.current = k, r.runtime = "READY",
         NEW q, q = RunningRow(r, k)
  PROVE  /\ RowStep(r, q) /\ SameCreate(r, q) /\ r.session = "ACTIVE" /\ q.runtime = "BUSY"
         /\ q.owned = r.owned /\ q.unsealed = r.unsealed
<1>1. k \in 0..MaxExecs /\ 0 \notin ExecIds BY ServiceAssumption DEF ExecIds
<1>2. /\ q.create = r.create /\ q.startup = r.startup /\ q.session = r.session
      /\ q.runtime = "BUSY" /\ q.owned = r.owned /\ q.current = r.current
      /\ q.execs = [r.execs EXCEPT ![k] = "RUNNING"] /\ q.unsealed = r.unsealed
  BY DEF Row, RunningRow
<1>3. q \in Row BY <1>1 DEF Row, RunningRow
<1>4. r.execs \in [ExecIds -> {"none", "QUEUED", "RUNNING", "DONE", "LOST"}]
      /\ r.unsealed \subseteq ExecIds
  BY DEF Row
<1>5. /\ q.execs[k] = "RUNNING" /\ \A j \in ExecIds : j # k => q.execs[j] = r.execs[j]
  BY <1>2, <1>4
<1>6. RowSound(q) BY <1>1, <1>2, <1>4, <1>5 DEF RowSound, Active
<1>7. Later(r, q) BY <1>2, <1>5 DEF Later
<1>8. r.session = "ACTIVE" BY <1>1 DEF RowSound
<1>. QED BY <1>2, <1>3, <1>6, <1>7, <1>8 DEF RowStep, SameCreate

\* The row of a session whose execution ends.
Completed(r, e, outcome, state) ==
  IF r.execs[e] \notin Active THEN r
  ELSE [r EXCEPT !.execs[e] = outcome, !.runtime = state, !.current = 0]

\* So does the end of an execution, which changes an active one only.
LEMMA CompleteRows ==
  ASSUME NEW r \in Row, RowSound(r), NEW e \in ExecIds, NEW outcome, NEW state,
         (outcome = "DONE" /\ state = "READY") \/ (outcome = "LOST" /\ state = "LOST"),
         NEW q, q = Completed(r, e, outcome, state)
  PROVE  /\ RowStep(r, q) /\ SameCreate(r, q) /\ q.owned = r.owned /\ q.unsealed = r.unsealed
         /\ q.runtime \in {"READY", "BUSY"} => r.runtime \in {"READY", "BUSY"}
         /\ state = "READY" /\ r.runtime \in {"READY", "BUSY"} => q.runtime \in {"READY", "BUSY"}
<1>0. CASE r.execs[e] \notin Active
  BY <1>0, StaysLater DEF RowStep, SameCreate, Completed
<1>a. CASE r.execs[e] \in Active
  <2>1. q = [r EXCEPT !.execs[e] = outcome, !.runtime = state, !.current = 0]
    BY <1>a DEF Completed
  <2>2. 0 \in 0..MaxExecs /\ 0 \notin ExecIds BY ServiceAssumption DEF ExecIds
  <2>3. /\ q.create = r.create /\ q.startup = r.startup /\ q.session = r.session
        /\ q.runtime = state /\ q.owned = r.owned /\ q.current = 0
        /\ q.execs = [r.execs EXCEPT ![e] = outcome] /\ q.unsealed = r.unsealed
    BY <2>1 DEF Row
  <2>4. q \in Row
    <3>1. [r EXCEPT !.execs[e] = outcome] \in Row BY DEF Row
    <3>2. [[r EXCEPT !.execs[e] = outcome] EXCEPT !.runtime = state] \in Row BY <3>1 DEF Row
    <3>. QED BY ZenonT(30), <2>1, <2>2, <3>2 DEF Row
  <2>5. r.execs \in [ExecIds -> {"none", "QUEUED", "RUNNING", "DONE", "LOST"}]
        /\ r.unsealed \subseteq ExecIds
    BY DEF Row
  <2>6. /\ q.execs[e] = outcome /\ \A j \in ExecIds : j # e => q.execs[j] = r.execs[j]
    BY <2>3, <2>5
  <2>7. r.current = e /\ r.session = "ACTIVE" /\ r.runtime \in {"READY", "BUSY"}
    BY <1>a, <2>2 DEF RowSound
  <2>8. RowSound(q) BY <1>a, <2>3, <2>5, <2>6, <2>7 DEF RowSound, Active
  <2>9. Later(r, q) BY <1>a, <2>3, <2>6, <2>7 DEF Later, Active
  <2>. QED BY <2>3, <2>4, <2>7, <2>8, <2>9 DEF RowStep, SameCreate
<1>. QED BY <1>0, <1>a

\* Without its current execution a row has no active one; the lost one keeps its log open.
LEMMA WithoutCurrentRow ==
  ASSUME NEW r \in Row, RowSound(r), NEW q, q = WithoutCurrent(r)
  PROVE  /\ q \in Row /\ SameCreate(r, q) /\ q.runtime = r.runtime /\ q.owned = r.owned
         /\ q.current = 0 /\ r.unsealed \subseteq q.unsealed
         /\ \A k \in ExecIds : q.execs[k] \notin Active
         /\ \A k \in q.unsealed : q.execs[k] = "LOST"
         /\ \A k \in ExecIds : r.execs[k] \notin Active => q.execs[k] = r.execs[k]
         /\ r.session = "none" => q = [r EXCEPT !.current = 0]
<1>0. 0 \in 0..MaxExecs /\ 0 \notin ExecIds BY ServiceAssumption DEF ExecIds
<1>t. /\ r.execs \in [ExecIds -> {"none", "QUEUED", "RUNNING", "DONE", "LOST"}]
      /\ r.unsealed \subseteq ExecIds /\ r.current \in 0..MaxExecs
  BY DEF Row
<1>1. CASE r.current = 0
  <2>1. q = [r EXCEPT !.current = 0] BY <1>1 DEF WithoutCurrent
  <2>2. /\ q \in Row /\ q.create = r.create /\ q.startup = r.startup /\ q.session = r.session
        /\ q.runtime = r.runtime /\ q.owned = r.owned /\ q.current = 0
        /\ q.execs = r.execs /\ q.unsealed = r.unsealed
    BY <2>1, <1>0 DEF Row
  <2>3. \A k \in ExecIds : r.execs[k] \notin Active BY <1>0, <1>1 DEF RowSound
  <2>. QED BY <2>1, <2>2, <2>3 DEF RowSound, SameCreate
<1>2. CASE r.current # 0
  <2>. DEFINE k == r.current
  <2>1. k \in ExecIds /\ r.execs[k] \in Active /\ r.session # "none"
    BY <1>2, <1>t, ServiceAssumption DEF RowSound, ExecIds
  <2>2. q = [r EXCEPT !.execs[k] = "LOST", !.unsealed = @ \cup {k}, !.current = 0]
    BY <1>2, <2>1 DEF WithoutCurrent
  <2>3. k = r.current OBVIOUS
  <2>. HIDE DEF k
  <2>4. [r EXCEPT !.execs[k] = "LOST"] \in Row BY <2>1 DEF Row
  <2>5. [[r EXCEPT !.execs[k] = "LOST"] EXCEPT !.unsealed = r.unsealed \cup {k}] \in Row
    BY <2>1, <2>4, <1>t DEF Row
  <2>6. q = [[[r EXCEPT !.execs[k] = "LOST"] EXCEPT !.unsealed = r.unsealed \cup {k}]
              EXCEPT !.current = 0]
    BY <2>2 DEF Row
  <2>7. q \in Row BY ZenonT(30), <2>5, <2>6, <1>0 DEF Row
  <2>8. /\ q.create = r.create /\ q.startup = r.startup /\ q.session = r.session
        /\ q.runtime = r.runtime /\ q.owned = r.owned /\ q.current = 0
        /\ q.execs = [r.execs EXCEPT ![k] = "LOST"] /\ q.unsealed = r.unsealed \cup {k}
    BY <2>2 DEF Row
  <2>9. q.execs[k] = "LOST" /\ \A j \in ExecIds : j # k => q.execs[j] = r.execs[j]
    BY <2>1, <2>8, <1>t
  <2>10. \A j \in ExecIds : j # k => r.execs[j] \notin Active BY <2>3 DEF RowSound
  <2>11. \A j \in r.unsealed : r.execs[j] = "LOST" BY DEF RowSound
  <2>. QED BY <2>1, <2>7, <2>8, <2>9, <2>10, <2>11, <1>t DEF SameCreate, Active
<1>. QED BY <1>1, <1>2

\* The row of a session whose runtime is lost.
LostRow(r) ==
  IF r.runtime \notin {"READY", "BUSY"} THEN r ELSE [WithoutCurrent(r) EXCEPT !.runtime = "LOST"]

\* The loss of a runtime keeps a sound row sound.
LEMMA LostRows ==
  ASSUME NEW r \in Row, RowSound(r), NEW q, q = LostRow(r)
  PROVE  /\ RowStep(r, q) /\ SameCreate(r, q) /\ q.owned = r.owned
         /\ r.unsealed \subseteq q.unsealed /\ q.runtime \notin {"READY", "BUSY"}
<1>1. CASE r.runtime \notin {"READY", "BUSY"}
  BY <1>1, StaysLater DEF RowStep, SameCreate, LostRow
<1>2. CASE r.runtime \in {"READY", "BUSY"}
  <2>. DEFINE w == WithoutCurrent(r)
  <2>1. q = [w EXCEPT !.runtime = "LOST"] BY <1>2 DEF LostRow
  <2>2. /\ w \in Row /\ SameCreate(r, w) /\ w.runtime = r.runtime /\ w.owned = r.owned
        /\ w.current = 0 /\ r.unsealed \subseteq w.unsealed
        /\ \A k \in ExecIds : w.execs[k] \notin Active
        /\ \A k \in w.unsealed : w.execs[k] = "LOST"
        /\ \A k \in ExecIds : r.execs[k] \notin Active => w.execs[k] = r.execs[k]
    BY WithoutCurrentRow
  <2>. HIDE DEF w
  <2>3. /\ q \in Row /\ q.create = w.create /\ q.startup = w.startup /\ q.session = w.session
        /\ q.runtime = "LOST" /\ q.owned = w.owned /\ q.current = 0
        /\ q.execs = w.execs /\ q.unsealed = w.unsealed
    BY <2>1, <2>2 DEF Row
  <2>. HIDE <2>1
  <2>4. RowSound(q) BY <1>2, <2>2, <2>3 DEF RowSound, Active, SameCreate
  <2>5. Later(r, q) BY <1>2, <2>2, <2>3 DEF Later, RowSound, Active, SameCreate
  <2>. QED BY <2>2, <2>3, <2>4, <2>5 DEF RowStep, SameCreate
<1>. QED BY <1>1, <1>2

\* The row of a session that is closed.
ClosedRow(r, owned) ==
  [WithoutCurrent(r) EXCEPT !.session = "CLOSED", !.runtime = "STOPPED", !.owned = owned]

\* So does the end of a session.
LEMMA CloseRows ==
  ASSUME NEW r \in Row, RowSound(r), r.session # "none",
         NEW owned \in BOOLEAN, owned => r.owned, NEW q, q = ClosedRow(r, owned)
  PROVE  /\ RowStep(r, q) /\ q.create = r.create /\ q.startup = r.startup
         /\ q.session = "CLOSED" /\ q.runtime = "STOPPED"
         /\ q.owned = owned /\ r.unsealed \subseteq q.unsealed
<1>. DEFINE w == WithoutCurrent(r)
<1>2. /\ w \in Row /\ SameCreate(r, w) /\ w.runtime = r.runtime /\ w.owned = r.owned
      /\ w.current = 0 /\ r.unsealed \subseteq w.unsealed
      /\ \A k \in ExecIds : w.execs[k] \notin Active
      /\ \A k \in w.unsealed : w.execs[k] = "LOST"
      /\ \A k \in ExecIds : r.execs[k] \notin Active => w.execs[k] = r.execs[k]
  BY WithoutCurrentRow
<1>1. q = [w EXCEPT !.session = "CLOSED", !.runtime = "STOPPED", !.owned = owned]
  BY DEF ClosedRow
<1>. HIDE DEF w
<1>4. /\ q.create = w.create /\ q.startup = w.startup /\ q.session = "CLOSED"
      /\ q.runtime = "STOPPED" /\ q.owned = owned /\ q.current = 0
      /\ q.execs = w.execs /\ q.unsealed = w.unsealed
  BY <1>1, <1>2 DEF Row
<1>5. q \in Row
  <2>1. [w EXCEPT !.session = "CLOSED"] \in Row BY <1>2 DEF Row
  <2>2. [[w EXCEPT !.session = "CLOSED"] EXCEPT !.runtime = "STOPPED"] \in Row BY <2>1 DEF Row
  <2>. QED BY ZenonT(30), <2>2, <1>1 DEF Row
<1>. HIDE <1>1
<1>6. RowSound(q) BY <1>2, <1>4 DEF RowSound, Active, SameCreate
<1>7. Later(r, q) BY <1>2, <1>4 DEF Later, RowSound, Active, SameCreate
<1>. QED BY <1>2, <1>4, <1>5, <1>6, <1>7 DEF RowStep, SameCreate

\* The row of a session whose idle runtime was stopped.
StoppedRow(r) ==
  IF r.runtime = "READY" /\ r.current = 0
  THEN [r EXCEPT !.runtime = "STOPPED", !.owned = FALSE] ELSE r

\* So does the end of an idle runtime.
LEMMA StoppedRows ==
  ASSUME NEW r \in Row, RowSound(r), NEW q, q = StoppedRow(r)
  PROVE  /\ RowStep(r, q) /\ SameCreate(r, q) /\ q.unsealed = r.unsealed
         /\ q.runtime = "READY" => r.current # 0
         /\ (q.owned = r.owned /\ q.runtime = r.runtime) \/ (~q.owned /\ q.runtime = "STOPPED")
<1>1. CASE ~(r.runtime = "READY" /\ r.current = 0)
  BY <1>1, StaysLater DEF RowStep, SameCreate, StoppedRow
<1>2. CASE r.runtime = "READY" /\ r.current = 0
  <2>1. /\ q \in Row /\ q.create = r.create /\ q.startup = r.startup /\ q.session = r.session
        /\ q.runtime = "STOPPED" /\ q.owned = FALSE /\ q.current = r.current
        /\ q.execs = r.execs /\ q.unsealed = r.unsealed
    BY <1>2 DEF Row, StoppedRow
  <2>2. r.session = "ACTIVE" \/ r.session = "CLOSED" BY <1>2 DEF Row, RowSound
  <2>3. r.session = "ACTIVE" BY <1>2, <2>2 DEF RowSound
  <2>4. RowSound(q) BY <1>2, <2>1, <2>3 DEF RowSound
  <2>5. Later(r, q) BY <1>2, <2>1, <2>3 DEF Later
  <2>. QED BY <2>1, <2>4, <2>5 DEF RowStep, SameCreate
<1>. QED BY <1>1, <1>2

\* The row of a session whose logs are sealed, and of one whose processes are off the record.
SealedRow(r)  == [r EXCEPT !.unsealed = {}]
CleanedRow(r) == [r EXCEPT !.unsealed = {}, !.owned = FALSE]

\* So do the sealing of its logs, and the end of what it holds on record.
LEMMA SealRows ==
  ASSUME NEW r \in Row, RowSound(r), NEW q,
         q \in {SealedRow(r), CleanedRow(r)}
  PROVE  /\ RowStep(r, q) /\ SameCreate(r, q) /\ q.runtime = r.runtime /\ q.unsealed = {}
         /\ q = SealedRow(r) => q.owned = r.owned
         /\ q = CleanedRow(r) => ~q.owned
<1>1. /\ q \in Row /\ q.create = r.create /\ q.startup = r.startup /\ q.session = r.session
      /\ q.runtime = r.runtime /\ q.owned \in {r.owned, FALSE} /\ q.current = r.current
      /\ q.execs = r.execs /\ q.unsealed = {}
      /\ q = SealedRow(r) => q.owned = r.owned
      /\ q = CleanedRow(r) => ~q.owned
  BY DEF Row, SealedRow, CleanedRow
<1>. QED BY <1>1 DEF RowStep, RowSound, Later, SameCreate

\* So do the deletions: the row of a create that was never published, or of a closed session.
LEMMA DeletedRows ==
  ASSUME NEW r \in Row, RowSound(r), NEW q,
         \/ q = NoRow /\ r.session = "none"
         \/ q = [NoRow EXCEPT !.create = r.create] /\ r.session = "CLOSED"
  PROVE  /\ RowStep(r, q) /\ q.session = "none" /\ q.startup = "none" /\ q.runtime = "none"
         /\ ~q.owned /\ q.unsealed = {} /\ q.create \in {"none", r.create}
<1>0. 0 \in 0..MaxExecs /\ NoRow \in Row BY ServiceAssumption DEF NoRow, Row
<1>1. /\ q \in Row /\ q.create \in {"none", r.create} /\ q.startup = "none" /\ q.session = "none"
      /\ q.runtime = "none" /\ q.owned = FALSE /\ q.current = 0
      /\ q.execs = [k \in ExecIds |-> "none"] /\ q.unsealed = {}
  <2>1. CASE q = NoRow BY <1>0, <2>1 DEF NoRow
  <2>2. CASE q = [NoRow EXCEPT !.create = r.create]
    <3>1. r.create \in {"none", "PENDING", "SUCCEEDED", "FAILED"} BY DEF Row
    <3>2. q \in Row BY <1>0, <2>2, <3>1 DEF Row
    <3>. QED BY <2>2, <3>2 DEF NoRow
  <2>. QED BY <2>1, <2>2
<1>2. \A k \in ExecIds : q.execs[k] = "none" BY <1>1
<1>3. RowSound(q) BY <1>1, <1>2 DEF RowSound, Active
<1>4. Later(r, q) BY <1>1, <1>2 DEF Later
<1>. QED BY <1>1, <1>3, <1>4 DEF RowStep

\* A restart fails what was pending and loses what was active, in every row.
Restarted(r) ==
  [r EXCEPT
      !.create   = IF @ = "PENDING" THEN "FAILED" ELSE @,
      !.execs    = [k \in ExecIds |-> IF @[k] \in Active THEN "LOST" ELSE @[k]],
      !.unsealed = @ \cup {k \in ExecIds : r.execs[k] \in Active},
      !.runtime  = IF @ \in {"READY", "BUSY"} THEN "LOST" ELSE @,
      !.current  = IF r.runtime \in {"READY", "BUSY"} THEN 0 ELSE @]

\* So does a restart, which leaves the record of the processes alone.
LEMMA RestartRows ==
  ASSUME NEW r \in Row, RowSound(r), NEW q, q = Restarted(r)
  PROVE  /\ RowStep(r, q) /\ q.startup = r.startup /\ q.session = r.session
         /\ q.owned = r.owned /\ q.create # "PENDING" /\ q.runtime \notin {"READY", "BUSY"}
         /\ q.create = "none" <=> r.create = "none"
         /\ r.unsealed \subseteq q.unsealed
<1>0. 0 \in 0..MaxExecs /\ 0 \notin ExecIds BY ServiceAssumption DEF ExecIds
<1>. DEFINE c == IF r.create = "PENDING" THEN "FAILED" ELSE r.create
            e == [k \in ExecIds |-> IF r.execs[k] \in Active THEN "LOST" ELSE r.execs[k]]
            u == r.unsealed \cup {k \in ExecIds : r.execs[k] \in Active}
            t == IF r.runtime \in {"READY", "BUSY"} THEN "LOST" ELSE r.runtime
            n == IF r.runtime \in {"READY", "BUSY"} THEN 0 ELSE r.current
<1>1. q = [r EXCEPT !.create = c, !.execs = e, !.unsealed = u, !.runtime = t, !.current = n]
  BY DEF Restarted, Row
<1>t. /\ r.execs \in [ExecIds -> {"none", "QUEUED", "RUNNING", "DONE", "LOST"}]
      /\ r.unsealed \subseteq ExecIds /\ r.current \in 0..MaxExecs
      /\ r.create \in {"none", "PENDING", "SUCCEEDED", "FAILED"}
      /\ r.runtime \in {"none", "READY", "BUSY", "LOST", "STOPPED"}
  BY DEF Row
<1>2. /\ c \in {"none", "SUCCEEDED", "FAILED"} /\ (c # r.create => r.create = "PENDING")
      /\ (r.create = "PENDING" => c = "FAILED")
  BY <1>t
<1>3. /\ e \in [ExecIds -> {"none", "DONE", "LOST"}]
      /\ \A k \in ExecIds : IF r.execs[k] \in Active THEN e[k] = "LOST" ELSE e[k] = r.execs[k]
  BY <1>t DEF Active
<1>4. u \subseteq ExecIds /\ r.unsealed \subseteq u
      /\ \A k \in u : k \in r.unsealed \/ r.execs[k] \in Active
  BY <1>t
<1>5. t \in {"none", "LOST", "STOPPED"} /\ n \in 0..MaxExecs
      /\ (t # r.runtime => r.runtime \in {"READY", "BUSY"} /\ t = "LOST")
  BY <1>t, <1>0
<1>6. n = 0 BY <1>t DEF RowSound
<1>. HIDE DEF c, e, u, t, n
<1>7. /\ q.create = c /\ q.startup = r.startup /\ q.session = r.session /\ q.runtime = t
      /\ q.owned = r.owned /\ q.current = n /\ q.execs = e /\ q.unsealed = u
  BY <1>1 DEF Row
<1>8. q \in Row
  <2>1. [r EXCEPT !.create = c] \in Row BY <1>2 DEF Row
  <2>2. [[r EXCEPT !.create = c] EXCEPT !.execs = e] \in Row BY ZenonT(30), <2>1, <1>3 DEF Row
  <2>3. [[[r EXCEPT !.create = c] EXCEPT !.execs = e] EXCEPT !.unsealed = u] \in Row
    BY <2>2, <1>4 DEF Row
  <2>4. [[[[r EXCEPT !.create = c] EXCEPT !.execs = e] EXCEPT !.unsealed = u]
           EXCEPT !.runtime = t] \in Row
    BY <2>3, <1>5 DEF Row
  <2>. DEFINE w == [[[[r EXCEPT !.create = c] EXCEPT !.execs = e] EXCEPT !.unsealed = u]
                      EXCEPT !.runtime = t]
  <2>5. q = [w EXCEPT !.current = n] BY <1>1 DEF Row
  <2>6. w \in Row BY <2>4
  <2>. HIDE DEF w
  <2>. QED BY <1>5, <2>5, <2>6 DEF Row
<1>. HIDE <1>1
<1>9. RowSound(q)
  BY <1>0, <1>2, <1>3, <1>4, <1>5, <1>6, <1>7, <1>t DEF RowSound, Active
<1>10. Later(r, q) BY <1>2, <1>3, <1>5, <1>7 DEF Later, Active
<1>. QED BY <1>2, <1>4, <1>5, <1>7, <1>8, <1>9, <1>10 DEF RowStep

-----------------------------------------------------------------------------
(* What the daemon holds for one id *)

\* An assignment to a field keeps the type of the memory.
LEMMA MemoryUpdates ==
  ASSUME NEW m \in Memory
  PROVE  /\ \A v \in {"none", "private", "listed", "pending", "released"} :
              [m EXCEPT !.ctrl = v] \in Memory
         /\ \A v \in BOOLEAN : [m EXCEPT !.stopping = v] \in Memory
         /\ \A v \in BOOLEAN : [m EXCEPT !.suppressed = v] \in Memory
         /\ \A v \in {"none", "request", "session", "unknown"} :
              [m EXCEPT !.orphan = v] \in Memory
         /\ \A v \in {"none", "request", "session", "unknown"} :
              [m EXCEPT !.found = v] \in Memory
         /\ \A v \in {"none", "request", "session"} : [m EXCEPT !.dirty = v] \in Memory
         /\ \A v \in {"none", "acquire", "register", "build", "attempt", "spawn", "boot",
                     "publish", "cleanup", "fail"} : [m EXCEPT !.task = v] \in Memory
         /\ \A v \in {"none", "prepare", "mark", "run", "record", "release", "complete",
                     "discard"} :
              [m EXCEPT !.job = v] \in Memory
         /\ \A v \in 0..MaxExecs : [m EXCEPT !.exec = v] \in Memory
         /\ \A v \in {"none", "release", "orphan", "closeT", "closeF", "closeN", "seal"} :
              [m EXCEPT !.kill = v] \in Memory
         /\ \A v \in {"none", "watch", "look", "call", "mark", "release", "ended"} :
              [m EXCEPT !.mon = v] \in Memory
         /\ \A v \in Threads \cup {"free"} : [m EXCEPT !.rel = v] \in Memory
         /\ \A v \in {"kill", "retire", "clean", "yes", "no"} :
              [m EXCEPT !.step = v] \in Memory
         /\ \A v \in {"free", "job", "kill", "sweep"} : [m EXCEPT !.lock = v] \in Memory
<1>1. ASSUME NEW v \in {"none", "private", "listed", "pending", "released"}
      PROVE  [m EXCEPT !.ctrl = v] \in Memory
  BY DEF Memory
<1>2. ASSUME NEW v \in BOOLEAN
      PROVE  [m EXCEPT !.stopping = v] \in Memory
  BY DEF Memory
<1>3. ASSUME NEW v \in BOOLEAN
      PROVE  [m EXCEPT !.suppressed = v] \in Memory
  BY DEF Memory
<1>4. ASSUME NEW v \in {"none", "request", "session", "unknown"}
      PROVE  [m EXCEPT !.orphan = v] \in Memory
  BY DEF Memory
<1>5. ASSUME NEW v \in {"none", "request", "session", "unknown"}
      PROVE  [m EXCEPT !.found = v] \in Memory
  BY DEF Memory
<1>6. ASSUME NEW v \in {"none", "request", "session"}
      PROVE  [m EXCEPT !.dirty = v] \in Memory
  BY DEF Memory
<1>7. ASSUME NEW v \in {"none", "acquire", "register", "build", "attempt", "spawn", "boot",
                       "publish", "cleanup", "fail"}
      PROVE  [m EXCEPT !.task = v] \in Memory
  BY DEF Memory
<1>8. ASSUME NEW v \in {"none", "prepare", "mark", "run", "record", "release",
                       "complete", "discard"}
      PROVE  [m EXCEPT !.job = v] \in Memory
  BY DEF Memory
<1>9. ASSUME NEW v \in 0..MaxExecs
      PROVE  [m EXCEPT !.exec = v] \in Memory
  BY DEF Memory
<1>10. ASSUME NEW v \in {"none", "release", "orphan", "closeT", "closeF", "closeN", "seal"}
      PROVE  [m EXCEPT !.kill = v] \in Memory
  BY DEF Memory
<1>11. ASSUME NEW v \in {"none", "watch", "look", "call", "mark", "release", "ended"}
      PROVE  [m EXCEPT !.mon = v] \in Memory
  BY DEF Memory
<1>12. ASSUME NEW v \in Threads \cup {"free"}
      PROVE  [m EXCEPT !.rel = v] \in Memory
  BY DEF Memory
<1>13. ASSUME NEW v \in {"kill", "retire", "clean", "yes", "no"}
      PROVE  [m EXCEPT !.step = v] \in Memory
  BY DEF Memory
<1>14. ASSUME NEW v \in {"free", "job", "kill", "sweep"}
      PROVE  [m EXCEPT !.lock = v] \in Memory
  BY DEF Memory
<1>. QED BY <1>1, <1>2, <1>3, <1>4, <1>5, <1>6, <1>7, <1>8, <1>9, <1>10, <1>11, <1>12, <1>13, <1>14

\* The next memory differs in these fields only, of those the invariant looks at.
SameBut(m, n, fields) ==
  /\ n \in Memory
  /\ "ctrl" \in fields \/ n.ctrl = m.ctrl
  /\ "orphan" \in fields \/ n.orphan = m.orphan
  /\ "found" \in fields \/ n.found = m.found
  /\ "dirty" \in fields \/ n.dirty = m.dirty
  /\ "task" \in fields \/ n.task = m.task
  /\ "job" \in fields \/ n.job = m.job
  /\ "exec" \in fields \/ n.exec = m.exec
  /\ "kill" \in fields \/ n.kill = m.kill
  /\ "mon" \in fields \/ n.mon = m.mon
  /\ "rel" \in fields \/ n.rel = m.rel
  /\ "step" \in fields \/ n.step = m.step
  /\ "lock" \in fields \/ n.lock = m.lock

\* A thread that leaves the session lock changes nothing else.
LEMMA UnlockKeeps ==
  ASSUME NEW m \in Memory, NEW by, NEW u, u = Unlock(m, by)
  PROVE  SameBut(m, u, {"lock"}) /\ (u.lock = m.lock \/ m.lock = by)
<1>1. (IF m.lock = by THEN "free" ELSE m.lock) \in {"free", "job", "kill", "sweep"} BY DEF Memory
<1>2. u \in Memory BY <1>1, MemoryUpdates DEF Unlock
<1>. QED BY <1>2 DEF SameBut, Unlock, Memory

-----------------------------------------------------------------------------
(* One session *)

\* What is common to the actions of a session: only its own entries change.
Local(s) ==
  /\ mem'    = [mem EXCEPT ![s] = mem'[s]]
  /\ db'     = [db EXCEPT ![s] = db'[s]]
  /\ leases' = [leases EXCEPT ![s] = leases'[s]]
  /\ proc'   = [proc EXCEPT ![s] = proc'[s]]

\* A transaction writes one row, an assignment one memory, an exit one process.
LEMMA OneEntry ==
  ASSUME TypeOK, NEW s \in SessionIds
  PROVE  /\ \A m : Set(s, m) => mem' = [mem EXCEPT ![s] = mem'[s]] /\ mem'[s] = m
         /\ \A row : Put(s, row) => db' = [db EXCEPT ![s] = db'[s]] /\ db'[s] = row
         /\ Exits(s) => proc' = [proc EXCEPT ![s] = proc'[s]] /\ proc'[s] = "no"
         /\ Release(s) => leases' = [leases EXCEPT ![s] = leases'[s]] /\ leases'[s] = "none"
         /\ MarkReady(s) => leases' = [leases EXCEPT ![s] = leases'[s]] /\ leases'[s] = "active"
         /\ Acquire(s) => leases' = [leases EXCEPT ![s] = leases'[s]] /\ leases'[s] = "starting"
         /\ ReserveExisting(s) =>
              leases' = [leases EXCEPT ![s] = leases'[s]] /\ leases'[s] = "quarantined"
         /\ UnchangedProcess => proc' = [proc EXCEPT ![s] = proc'[s]] /\ proc'[s] = proc[s]
         /\ UnchangedScheduler =>
              leases' = [leases EXCEPT ![s] = leases'[s]] /\ leases'[s] = leases[s]
         /\ UNCHANGED db => db' = [db EXCEPT ![s] = db'[s]] /\ db'[s] = db[s]
         /\ UNCHANGED mem => mem' = [mem EXCEPT ![s] = mem'[s]] /\ mem'[s] = mem[s]
BY DEF TypeOK, Set, Put, Exits, Release, MarkReady, Acquire, ReserveExisting, UnchangedProcess,
       UnchangedScheduler, schedulerVars

\* The invariant, for one session.
LEMMA AtSession ==
  ASSUME Invariant, NEW s \in SessionIds
  PROVE  /\ mem[s] \in Memory /\ db[s] \in Row /\ leases[s] \in LeaseStates
         /\ proc[s] \in {"no", "worker", "tool"}
         /\ RowSound(db[s]) /\ AtWork(mem[s], db[s]) /\ Phases
         /\ NoReuse => /\ Owned(mem[s], db[s], leases[s], proc[s], s \in stop.ctrls)
                       /\ daemon # "down" => Covered(mem[s], leases[s], proc[s])
                       /\ Listed(s) /\ Snapshots
BY DEF Invariant, TypeOK, RecordsInv, ServiceInv, Basic, Snapshots

\* Of the places for processes, a step takes one only when a create acquires it; records to
\* reconcile do not come up.
Within(s) ==
  /\ \/ TaskAcquires(s)
     \/ mem'[s].task \in Granted \/ proc'[s] # "no" => mem[s].task \in Granted \/ proc[s] # "no"
  /\ mem'[s].found # "none" => mem[s].found # "none"

\* An action of a session leaves it sound: its row and its memory in any case, and
\* without reuse of ids its processes in hand, on record and under a permit, too.
Sound(s) ==
  /\ mem'[s] \in Memory /\ leases'[s] \in LeaseStates /\ proc'[s] \in {"no", "worker", "tool"}
  /\ RowStep(db[s], db'[s]) /\ AtWork(mem'[s], db'[s])
  /\ Within(s)
  /\ NoReuse => /\ Owned(mem'[s], db'[s], leases'[s], proc'[s], s \in stop'.ctrls)
                /\ daemon # "down" => Covered(mem'[s], leases'[s], proc'[s])
                /\ SealsDeadOnly(s) /\ Listed(s)'

\* A row that stays is sound.
LEMMA SameRow == ASSUME NEW r \in Row, RowSound(r) PROVE RowStep(r, r)
BY StaysLater DEF RowStep

\* A step of the create task changes the entries of its session.
LEMMA TaskIsLocal ==
  ASSUME TypeOK, NEW s \in SessionIds, TaskStep(s)
  PROVE  Local(s) /\ UnchangedControl
<1>. USE OneEntry DEF Local, OnlyMemory, Task, Free
<1>1. CASE TaskAcquires(s) \/ TaskGivesUp(s) \/ TaskRegisters(s) \/ TaskBuilds(s)
  BY <1>1 DEF TaskAcquires, TaskGivesUp, TaskRegisters, TaskBuilds, RegisterRuntimeStartup
<1>2. CASE BuildFails(s) \/ TaskAttempts(s)
  BY <1>2 DEF BuildFails, TaskAttempts, MarkSpawnAttempted, ClearRuntimeStartup
<1>3. CASE TaskSpawns(s)
  BY <1>3 DEF TaskSpawns, TypeOK
<1>4. CASE SpawnFails(s) \/ TaskReports(s) \/ TaskBoots(s) \/ BootFails(s)
  BY <1>4 DEF SpawnFails, TaskReports, TaskBoots, BootFails, UpdateStartupProcesses
<1>5. CASE TaskPublishes(s) \/ PublishRefused(s) \/ TaskFails(s) \/ TaskCleanedUp(s)
  BY <1>5 DEF TaskPublishes, PublishRefused, TaskFails, TaskCleanedUp, PublishWorkspaceSession,
     FailCreateRequest
<1>. QED BY <1>1, <1>2, <1>3, <1>4, <1>5 DEF TaskStep

\* The create task until it has a runtime.
LEMMA TaskBegins ==
  ASSUME Invariant, NEW s \in SessionIds, TaskStep(s),
         \/ TaskAcquires(s) \/ TaskGivesUp(s) \/ TaskRegisters(s) \/ TaskBuilds(s) \/ BuildFails(s)
         \/ TaskAttempts(s)
  PROVE  Sound(s)
<1>. DEFINE m == mem[s]  n == mem'[s]  r == db[s]  q == db'[s]
            l == leases[s]  k == leases'[s]  p == proc[s]  o == proc'[s]  told == s \in stop.ctrls
<1>i. TypeOK /\ Local(s) BY TaskIsLocal DEF Invariant
<1>a. /\ m \in Memory /\ r \in Row /\ l \in LeaseStates /\ p \in {"no", "worker", "tool"}
      /\ RowSound(r) /\ AtWork(m, r) /\ RowStep(r, r)
  BY AtSession, SameRow
<1>m. m \in Memory BY <1>a
<1>b. NoReuse => Owned(m, r, l, p, told) /\ (daemon # "down" => Covered(m, l, p))
  BY AtSession
<1>l. NoReuse => Listed(s) /\ Snapshots BY AtSession
<1>c. UnchangedControl BY <1>i, TaskIsLocal
<1>1. CASE TaskAcquires(s)
  <2>1. n = [m EXCEPT !.task = "register"]
    BY <1>1, <1>i, OneEntry DEF TaskAcquires, Task, Free, OnlyMemory
  <2>2. m.task = "acquire" /\ q = r /\ k = "starting" /\ o = p
    BY <1>1, <1>i, OneEntry DEF TaskAcquires, Task, Free, OnlyMemory
  <2>3. n \in Memory BY <2>1, <1>m, MemoryUpdates
  <2>4. SameBut(m, n, {"task"}) /\ n.task = "register" BY <2>1, <2>3, <1>m DEF SameBut, Memory
  <2>5. AtWork(n, q) BY <2>2, <2>4, <1>a DEF SameBut, AtWork
  <2>6. ASSUME NoReuse PROVE Owned(n, q, k, o, told) /\ (daemon # "down" => Covered(n, k, o))
    BY <2>2, <2>4, <2>6, <1>a, <1>b DEF SameBut, LeaseStates, AtWork, Owned, InHand, OnRecord,
         Permitted, Fresh, Covered, Watched, Early, Granted, Ended, Holding
  <2>7. Within(s) /\ (NoReuse => Listed(s)')
    BY <1>1, <2>2, <2>4, <1>a, <1>c, <1>l DEF SameBut, Early, Granted, Listed, Within,
         UnchangedControl
  <2>. QED BY <2>2, <2>3, <2>5, <2>6, <1>a, <1>c, <2>7 DEF Sound, SealsDeadOnly, UnchangedControl,
       LeaseStates
<1>2. CASE TaskGivesUp(s)
  <2>1. n = [m EXCEPT !.task = "fail"]
    BY <1>2, <1>i, OneEntry DEF TaskGivesUp, Task, Free, OnlyMemory
  <2>2. m.task = "acquire" /\ q = r /\ k = l /\ o = p
    BY <1>2, <1>i, OneEntry DEF TaskGivesUp, Task, Free, OnlyMemory
  <2>3. n \in Memory BY <2>1, <1>m, MemoryUpdates
  <2>4. SameBut(m, n, {"task"}) /\ n.task = "fail" BY <2>1, <2>3, <1>m DEF SameBut, Memory
  <2>5. AtWork(n, q) BY <2>2, <2>4, <1>a DEF SameBut, AtWork
  <2>6. ASSUME NoReuse PROVE Owned(n, q, k, o, told) /\ (daemon # "down" => Covered(n, k, o))
    BY <2>2, <2>4, <2>6, <1>a, <1>b DEF SameBut, AtWork, Owned, InHand, OnRecord, Permitted,
         Fresh, Covered, Watched, Early, Granted, Ended, Holding
  <2>7. Within(s) /\ (NoReuse => Listed(s)')
    BY <2>2, <2>4, <1>a, <1>c, <1>l DEF SameBut, Early, Granted, Listed, Within, UnchangedControl
  <2>. QED BY <2>2, <2>3, <2>5, <2>6, <1>a, <1>c, <2>7 DEF Sound, SealsDeadOnly, UnchangedControl
<1>3. CASE TaskRegisters(s)
  <2>1. n = [m EXCEPT !.task = "build"]
    BY <1>3, <1>i, OneEntry DEF TaskRegisters, RegisterRuntimeStartup, Task, Free, OnlyMemory
  <2>2. m.task = "register" /\ q = [r EXCEPT !.startup = "registered"] /\ k = l /\ o = p
    BY <1>3, <1>i, OneEntry DEF TaskRegisters, RegisterRuntimeStartup, Task, Free, OnlyMemory
  <2>3. n \in Memory BY <2>1, <1>m, MemoryUpdates
  <2>4. SameBut(m, n, {"task"}) /\ n.task = "build" BY <2>1, <2>3, <1>m DEF SameBut, Memory
  <2>5. /\ RowStep(r, q) /\ SameRuntime(r, q) /\ q.startup = "registered"
        /\ q.create = r.create
    BY <2>2, <1>a, StartupRows DEF AtWork
  <2>6. AtWork(n, q) BY <2>2, <2>4, <2>5, <1>a DEF SameBut, SameRuntime, AtWork
  <2>7. ASSUME NoReuse PROVE Owned(n, q, k, o, told) /\ (daemon # "down" => Covered(n, k, o))
    BY <2>2, <2>4, <2>5, <2>7, <1>a, <1>b DEF SameBut, SameRuntime, AtWork, Owned, InHand,
         OnRecord, Permitted, Fresh, Covered, Watched, Early, Granted, Ended, Holding
  <2>8. Within(s) /\ (NoReuse => Listed(s)')
    BY <2>2, <2>4, <2>5, <1>a, <1>c, <1>l DEF SameBut, SameRuntime, Early, Granted, Listed,
         Within, UnchangedControl
  <2>. QED BY <2>2, <2>3, <2>5, <2>6, <2>7, <1>a, <1>c, <2>8 DEF Sound, SealsDeadOnly,
       UnchangedControl, SameRuntime
<1>4. CASE TaskBuilds(s)
  <2>1. n = [m EXCEPT !.task = "attempt", !.ctrl = "private", !.stopping = FALSE,
                     !.suppressed = FALSE, !.mon = "none"]
    BY <1>4, <1>i, OneEntry DEF TaskBuilds, Task, Free, OnlyMemory
  <2>2. m.task = "build" /\ q = r /\ k = l /\ o = p
    BY <1>4, <1>i, OneEntry DEF TaskBuilds, Task, Free, OnlyMemory
  <2>3. n \in Memory
    <3>. HIDE DEF m, n
    <3>. QED BY <2>1, <1>m, MemoryUpdates
  <2>4. /\ SameBut(m, n, {"task", "ctrl", "mon"}) /\ n.task = "attempt" /\ n.ctrl = "private"
        /\ n.mon = "none"
    BY <2>1, <2>3, <1>m DEF SameBut, Memory
  <2>5. AtWork(n, q) BY <2>2, <2>4, <1>a DEF SameBut, AtWork
  <2>6. ASSUME NoReuse PROVE Owned(n, q, k, o, told) /\ (daemon # "down" => Covered(n, k, o))
    BY <2>2, <2>4, <2>6, <1>a, <1>b DEF SameBut, AtWork, Owned, InHand, OnRecord, Permitted,
         Fresh, Covered, Watched, Early, Granted, Ended, Holding
  <2>7. Within(s) /\ (NoReuse => Listed(s)')
    BY <2>2, <2>4, <1>a, <1>c, <1>l DEF SameBut, Early, Granted, Listed, Within, UnchangedControl
  <2>. QED BY <2>2, <2>3, <2>5, <2>6, <1>a, <1>c, <2>7 DEF Sound, SealsDeadOnly, UnchangedControl
<1>5. CASE BuildFails(s)
  <2>i. spent.io < MaxIoFaults /\ MaxIoFaults \in Nat /\ spent.io \in Nat
    BY <1>5, <1>i, ServiceAssumption DEF BuildFails, Spend, Bound, TypeOK
  <2>j. MaxIoFaults # 0 BY <2>i
  <2>1. CASE ClearRuntimeStartup(s) /\ Task(s, "fail")
    <3>1. n = [m EXCEPT !.task = "fail"]
      BY <2>1, <1>5, <1>i, OneEntry DEF BuildFails, ClearRuntimeStartup, Task, Free, OnlyMemory
    <3>2. m.task = "build" /\ q = [r EXCEPT !.startup = "none"] /\ k = "none" /\ o = p
      BY <2>1, <1>5, <1>i, OneEntry DEF BuildFails, ClearRuntimeStartup, Task, Free, OnlyMemory
    <3>3. n \in Memory BY <3>1, <1>m, MemoryUpdates
    <3>4. SameBut(m, n, {"task"}) /\ n.task = "fail" BY <3>1, <3>3, <1>m DEF SameBut, Memory
    <3>5. RowStep(r, q) /\ SameRuntime(r, q) /\ q.startup = "none" /\ q.create = r.create
      BY <3>2, <1>a, StartupRows DEF AtWork
    <3>6. AtWork(n, q) BY <3>2, <3>4, <3>5, <1>a DEF SameBut, SameRuntime, AtWork
    <3>7. ASSUME NoReuse PROVE Owned(n, q, k, o, told) /\ (daemon # "down" => Covered(n, k, o))
      BY <3>2, <3>4, <3>5, <3>7, <1>a, <1>b DEF SameBut, SameRuntime, LeaseStates, AtWork, Owned,
           InHand, OnRecord, Permitted, Fresh, Covered, Watched, Early, Granted, Ended, Holding
    <3>8. Within(s) /\ (NoReuse => Listed(s)')
      BY <3>2, <3>4, <3>5, <1>a, <1>c, <1>l DEF SameBut, SameRuntime, Early, Granted, Listed,
           Within, UnchangedControl
    <3>. QED BY <3>2, <3>3, <3>5, <3>6, <3>7, <1>a, <1>c, <3>8 DEF Sound, SealsDeadOnly,
         UnchangedControl, SameRuntime, LeaseStates
  <2>2. CASE UNCHANGED db /\ Set(s, [m EXCEPT !.task = "fail", !.dirty = "request"])
    <3>1. n = [m EXCEPT !.task = "fail", !.dirty = "request"]
      BY <2>2, <1>5, <1>i, OneEntry DEF BuildFails, Task, Free, OnlyMemory
    <3>2. m.task = "build" /\ q = r /\ k = "none" /\ o = p
      BY <2>2, <1>5, <1>i, OneEntry DEF BuildFails, Task, Free, OnlyMemory
    <3>3. n \in Memory
      <4>. HIDE DEF m, n
      <4>. QED BY <3>1, <1>m, MemoryUpdates
    <3>4. SameBut(m, n, {"task", "dirty"}) /\ n.task = "fail" /\ n.dirty = "request"
      BY <3>1, <3>3, <1>m DEF SameBut, Memory
    <3>5. AtWork(n, q) BY <3>2, <3>4, <1>a DEF SameBut, AtWork
    <3>6. ASSUME NoReuse PROVE Owned(n, q, k, o, told) /\ (daemon # "down" => Covered(n, k, o))
      BY <3>2, <3>4, <3>6, <1>a, <1>b, <2>j DEF SameBut, LeaseStates, AtWork, Owned, InHand,
           OnRecord, Permitted, Fresh, Covered, Watched, Early, Granted, Ended, Holding
    <3>7. Within(s) /\ (NoReuse => Listed(s)')
      BY <3>2, <3>4, <1>a, <1>c, <1>l DEF SameBut, Early, Granted, Listed, Within,
           UnchangedControl
    <3>. QED BY <3>2, <3>3, <3>5, <3>6, <1>a, <1>c, <3>7 DEF Sound, SealsDeadOnly,
         UnchangedControl, LeaseStates
  <2>. QED BY <1>5, <2>1, <2>2 DEF BuildFails
<1>6. CASE TaskAttempts(s)
  <2>1. CASE daemon = "up"
    <3>1. n = [m EXCEPT !.task = "spawn"]
      BY <2>1, <1>6, <1>i, OneEntry DEF TaskAttempts, MarkSpawnAttempted, Task, Free, OnlyMemory
    <3>2. m.task = "attempt" /\ q = [r EXCEPT !.startup = "attempted"] /\ k = l /\ o = p
      BY <2>1, <1>6, <1>i, OneEntry DEF TaskAttempts, MarkSpawnAttempted, Task, Free, OnlyMemory
    <3>3. n \in Memory BY <3>1, <1>m, MemoryUpdates
    <3>4. SameBut(m, n, {"task"}) /\ n.task = "spawn" BY <3>1, <3>3, <1>m DEF SameBut, Memory
    <3>5. /\ RowStep(r, q) /\ SameRuntime(r, q) /\ q.startup = "attempted"
          /\ q.create = r.create
      BY <3>2, <1>a, StartupRows DEF AtWork
    <3>6. AtWork(n, q) BY <3>2, <3>4, <3>5, <1>a DEF SameBut, SameRuntime, AtWork
    <3>7. ASSUME NoReuse PROVE Owned(n, q, k, o, told) /\ (daemon # "down" => Covered(n, k, o))
      BY <3>2, <3>4, <3>5, <3>7, <1>a, <1>b DEF SameBut, SameRuntime, AtWork, Owned, InHand,
           OnRecord, Permitted, Fresh, Covered, Watched, Early, Granted, Ended, Holding
    <3>8. Within(s) /\ (NoReuse => Listed(s)')
      BY <3>2, <3>4, <3>5, <1>a, <1>c, <1>l DEF SameBut, SameRuntime, Early, Granted, Listed,
           Within, UnchangedControl
    <3>. QED BY <3>2, <3>3, <3>5, <3>6, <3>7, <1>a, <1>c, <3>8 DEF Sound, SealsDeadOnly,
         UnchangedControl, SameRuntime
  <2>2. CASE daemon # "up"
    <3>1. n = [m EXCEPT !.task = "cleanup"]
      BY <2>2, <1>6, <1>i, OneEntry DEF TaskAttempts, Task, Free, OnlyMemory
    <3>2. m.task = "attempt" /\ q = r /\ k = l /\ o = p
      BY <2>2, <1>6, <1>i, OneEntry DEF TaskAttempts, Task, Free, OnlyMemory
    <3>3. n \in Memory BY <3>1, <1>m, MemoryUpdates
    <3>4. SameBut(m, n, {"task"}) /\ n.task = "cleanup" BY <3>1, <3>3, <1>m DEF SameBut, Memory
    <3>5. AtWork(n, q) BY <3>2, <3>4, <1>a DEF SameBut, AtWork
    <3>6. ASSUME NoReuse PROVE Owned(n, q, k, o, told) /\ (daemon # "down" => Covered(n, k, o))
      BY <3>2, <3>4, <3>6, <1>a, <1>b DEF SameBut, AtWork, Owned, InHand, OnRecord, Permitted,
           Fresh, Covered, Watched, Early, Granted, Ended, Holding
    <3>7. Within(s) /\ (NoReuse => Listed(s)')
      BY <3>2, <3>4, <1>a, <1>c, <1>l DEF SameBut, Early, Granted, Listed, Within,
           UnchangedControl
    <3>. QED BY <3>2, <3>3, <3>5, <3>6, <1>a, <1>c, <3>7 DEF Sound, SealsDeadOnly,
         UnchangedControl
  <2>. QED BY <2>1, <2>2
<1>. QED BY <1>1, <1>2, <1>3, <1>4, <1>5, <1>6

\* The create task from the spawn on: it publishes its session, or gives its runtime up.
LEMMA TaskEnds ==
  ASSUME Invariant, NEW s \in SessionIds, TaskStep(s),
         \/ TaskSpawns(s) \/ SpawnFails(s) \/ TaskReports(s) \/ TaskBoots(s) \/ BootFails(s)
         \/ TaskPublishes(s) \/ PublishRefused(s) \/ TaskFails(s) \/ TaskCleanedUp(s)
  PROVE  Sound(s)
<1>. DEFINE m == mem[s]  n == mem'[s]  r == db[s]  q == db'[s]
            l == leases[s]  k == leases'[s]  p == proc[s]  o == proc'[s]  told == s \in stop.ctrls
<1>i. TypeOK /\ Local(s) BY TaskIsLocal DEF Invariant
<1>a. /\ m \in Memory /\ r \in Row /\ l \in LeaseStates /\ p \in {"no", "worker", "tool"}
      /\ RowSound(r) /\ AtWork(m, r) /\ RowStep(r, r)
  BY AtSession, SameRow
<1>m. m \in Memory BY <1>a
<1>b. NoReuse => Owned(m, r, l, p, told) /\ (daemon # "down" => Covered(m, l, p))
  BY AtSession
<1>l. NoReuse => Listed(s) /\ Snapshots BY AtSession
<1>c. UnchangedControl BY <1>i, TaskIsLocal
<1>1. CASE TaskSpawns(s)
  <2>1. n = [m EXCEPT !.task = "boot"]
    BY <1>1, <1>i, OneEntry DEF TaskSpawns, Task, Free, OnlyMemory
  <2>2. m.task = "spawn" /\ q = r /\ k = l /\ o = "worker"
    BY <1>1, <1>i, OneEntry DEF TaskSpawns, UnchangedScheduler, schedulerVars, TypeOK
  <2>3. n \in Memory BY <2>1, <1>m, MemoryUpdates
  <2>4. SameBut(m, n, {"task"}) /\ n.task = "boot" BY <2>1, <2>3, <1>m DEF SameBut, Memory
  <2>5. AtWork(n, q) BY <2>2, <2>4, <1>a DEF SameBut, AtWork
  <2>6. ASSUME NoReuse PROVE Owned(n, q, k, o, told) /\ (daemon # "down" => Covered(n, k, o))
    BY <2>2, <2>4, <2>6, <1>a, <1>b DEF SameBut, AtWork, Owned, InHand, OnRecord, Permitted,
         Fresh, Covered, Watched, Early, Granted, Ended, Holding
  <2>7. Within(s) /\ (NoReuse => Listed(s)')
    BY <2>2, <2>4, <1>a, <1>c, <1>l DEF SameBut, Early, Granted, Listed, Within, UnchangedControl
  <2>. QED BY <2>2, <2>3, <2>5, <2>6, <1>a, <1>c, <2>7 DEF Sound, SealsDeadOnly, UnchangedControl
<1>2. CASE SpawnFails(s)
  <2>1. n = [m EXCEPT !.task = "cleanup"]
    BY <1>2, <1>i, OneEntry DEF SpawnFails, Task, Free, OnlyMemory
  <2>2. m.task = "spawn" /\ q = r /\ k = l /\ o = p
    BY <1>2, <1>i, OneEntry DEF SpawnFails, Task, Free, OnlyMemory
  <2>3. n \in Memory BY <2>1, <1>m, MemoryUpdates
  <2>4. SameBut(m, n, {"task"}) /\ n.task = "cleanup" BY <2>1, <2>3, <1>m DEF SameBut, Memory
  <2>5. AtWork(n, q) BY <2>2, <2>4, <1>a DEF SameBut, AtWork
  <2>6. ASSUME NoReuse PROVE Owned(n, q, k, o, told) /\ (daemon # "down" => Covered(n, k, o))
    BY <2>2, <2>4, <2>6, <1>a, <1>b DEF SameBut, AtWork, Owned, InHand, OnRecord, Permitted,
         Fresh, Covered, Watched, Early, Granted, Ended, Holding
  <2>7. Within(s) /\ (NoReuse => Listed(s)')
    BY <2>2, <2>4, <1>a, <1>c, <1>l DEF SameBut, Early, Granted, Listed, Within, UnchangedControl
  <2>. QED BY <2>2, <2>3, <2>5, <2>6, <1>a, <1>c, <2>7 DEF Sound, SealsDeadOnly, UnchangedControl
<1>3. CASE TaskReports(s)
  <2>1. CASE r.startup = "attempted" /\ UpdateStartupProcesses(s, "worker")
    <3>1. /\ m.task = "boot" /\ n = m /\ q = [r EXCEPT !.startup = "worker"] /\ k = l
          /\ o = p
      BY <2>1, <1>3, <1>i, OneEntry DEF TaskReports, UpdateStartupProcesses
    <3>2. /\ RowStep(r, q) /\ SameRuntime(r, q) /\ q.startup = "worker"
          /\ q.create = r.create
      BY <3>1, <1>a, StartupRows DEF AtWork
    <3>3. AtWork(n, q) BY <3>1, <3>2, <1>a DEF SameRuntime, AtWork
    <3>4. ASSUME NoReuse PROVE Owned(n, q, k, o, told) /\ (daemon # "down" => Covered(n, k, o))
      BY <3>1, <3>2, <3>4, <1>a, <1>b DEF SameRuntime, AtWork, Owned, InHand, OnRecord, Permitted,
           Fresh, Covered, Watched, Early, Granted, Ended, Holding
    <3>5. Within(s) /\ (NoReuse => Listed(s)')
      BY <3>1, <3>2, <1>a, <1>c, <1>l DEF SameRuntime, Early, Granted, Listed, Within,
           UnchangedControl
    <3>. QED BY <3>1, <3>2, <3>3, <3>4, <1>a, <1>c, <3>5 DEF Sound, SealsDeadOnly,
         UnchangedControl, SameRuntime
  <2>2. CASE r.startup = "worker" /\ UpdateStartupProcesses(s, "tool")
    <3>1. m.task = "boot" /\ n = m /\ q = [r EXCEPT !.startup = "tool"] /\ k = l /\ o = p
      BY <2>2, <1>3, <1>i, OneEntry DEF TaskReports, UpdateStartupProcesses
    <3>2. RowStep(r, q) /\ SameRuntime(r, q) /\ q.startup = "tool" /\ q.create = r.create
      BY <3>1, <1>a, StartupRows DEF AtWork
    <3>3. AtWork(n, q) BY <3>1, <3>2, <1>a DEF SameRuntime, AtWork
    <3>4. ASSUME NoReuse PROVE Owned(n, q, k, o, told) /\ (daemon # "down" => Covered(n, k, o))
      BY <3>1, <3>2, <3>4, <1>a, <1>b DEF SameRuntime, AtWork, Owned, InHand, OnRecord, Permitted,
           Fresh, Covered, Watched, Early, Granted, Ended, Holding
    <3>5. Within(s) /\ (NoReuse => Listed(s)')
      BY <3>1, <3>2, <1>a, <1>c, <1>l DEF SameRuntime, Early, Granted, Listed, Within,
           UnchangedControl
    <3>. QED BY <3>1, <3>2, <3>3, <3>4, <1>a, <1>c, <3>5 DEF Sound, SealsDeadOnly,
         UnchangedControl, SameRuntime
  <2>. QED BY <1>3, <2>1, <2>2 DEF TaskReports
<1>4. CASE TaskBoots(s)
  <2>1. n = [m EXCEPT !.task = "publish", !.mon = "watch"]
    BY <1>4, <1>i, OneEntry DEF TaskBoots, Task, Free, OnlyMemory
  <2>2. m.task = "boot" /\ q = r /\ k = l /\ o = p
    BY <1>4, <1>i, OneEntry DEF TaskBoots, Task, Free, OnlyMemory
  <2>3. n \in Memory
    <3>. HIDE DEF m, n
    <3>. QED BY <2>1, <1>m, MemoryUpdates
  <2>4. SameBut(m, n, {"task", "mon"}) /\ n.task = "publish" /\ n.mon = "watch"
    BY <2>1, <2>3, <1>m DEF SameBut, Memory
  <2>5. AtWork(n, q) BY <2>2, <2>4, <1>a DEF SameBut, AtWork
  <2>6. ASSUME NoReuse PROVE Owned(n, q, k, o, told) /\ (daemon # "down" => Covered(n, k, o))
    BY <2>2, <2>4, <2>6, <1>a, <1>b DEF SameBut, AtWork, Owned, InHand, OnRecord, Permitted,
         Fresh, Covered, Watched, Early, Granted, Ended, Holding
  <2>7. Within(s) /\ (NoReuse => Listed(s)')
    BY <2>2, <2>4, <1>a, <1>c, <1>l DEF SameBut, Early, Granted, Listed, Within, UnchangedControl
  <2>. QED BY <2>2, <2>3, <2>5, <2>6, <1>a, <1>c, <2>7 DEF Sound, SealsDeadOnly, UnchangedControl
<1>5. CASE BootFails(s)
  <2>1. n = [m EXCEPT !.task = "cleanup", !.stopping = TRUE]
    BY <1>5, <1>i, OneEntry DEF BootFails, Task, Free, OnlyMemory
  <2>2. m.task = "boot" /\ q = r /\ k = l /\ o \in {"no", p}
    BY <1>5, <1>i, OneEntry DEF BootFails, Task, Free, OnlyMemory
  <2>3. n \in Memory
    <3>. HIDE DEF m, n
    <3>. QED BY <2>1, <1>m, MemoryUpdates
  <2>4. SameBut(m, n, {"task"}) /\ n.task = "cleanup" BY <2>1, <2>3, <1>m DEF SameBut, Memory
  <2>5. AtWork(n, q) BY <2>2, <2>4, <1>a DEF SameBut, AtWork
  <2>6. ASSUME NoReuse PROVE Owned(n, q, k, o, told) /\ (daemon # "down" => Covered(n, k, o))
    BY <2>2, <2>4, <2>6, <1>a, <1>b DEF SameBut, AtWork, Owned, InHand, OnRecord, Permitted,
         Fresh, Covered, Watched, Early, Granted, Ended, Holding
  <2>7. Within(s) /\ (NoReuse => Listed(s)')
    BY <2>2, <2>4, <1>a, <1>c, <1>l DEF SameBut, Early, Granted, Listed, Within, UnchangedControl
  <2>. QED BY <2>2, <2>3, <2>5, <2>6, <1>a, <1>c, <2>7 DEF Sound, SealsDeadOnly, UnchangedControl
<1>6. CASE TaskPublishes(s)
  <2>s. m.task = "publish" BY <1>6 DEF TaskPublishes
  <2>r. r.session = "none" /\ r.create = "PENDING" BY <1>a, <2>s DEF AtWork
  <2>1. n = [m EXCEPT !.task = "none", !.ctrl = "listed"]
    BY <1>6, <1>i, OneEntry DEF TaskPublishes, PublishWorkspaceSession, Published, Task, Free,
         OnlyMemory
  <2>2. m.task = "publish" /\ q = Published(r) /\ k = "active" /\ o = p
    BY <1>6, <1>i, OneEntry DEF TaskPublishes, PublishWorkspaceSession, Published, Task, Free,
         OnlyMemory
  <2>3. n \in Memory
    <3>. HIDE DEF m, n
    <3>. QED BY <2>1, <1>m, MemoryUpdates
  <2>4. SameBut(m, n, {"task", "ctrl"}) /\ n.task = "none" /\ n.ctrl = "listed"
    BY <2>1, <2>3, <1>m DEF SameBut, Memory
  <2>5. /\ RowStep(r, q) /\ q.unsealed = r.unsealed /\ q.create = "SUCCEEDED"
        /\ q.startup = "none" /\ q.session = "ACTIVE" /\ q.runtime = "READY" /\ q.owned
    <3>. HIDE DEF r, q
    <3>. QED BY <2>2, <2>r, <1>a, PublishRows
  <2>6. AtWork(n, q) BY <2>2, <2>4, <2>5, <1>a DEF SameBut, AtWork
  <2>7. ASSUME NoReuse PROVE Owned(n, q, k, o, told) /\ (daemon # "down" => Covered(n, k, o))
    BY <2>2, <2>4, <2>5, <2>7, <1>a, <1>b DEF SameBut, LeaseStates, AtWork, Owned, InHand,
         OnRecord, Permitted, Fresh, Covered, Watched, Early, Granted, Ended, Holding
  <2>8. Within(s) /\ (NoReuse => Listed(s)')
    BY <2>2, <2>4, <2>5, <1>a, <1>c, <1>l DEF SameBut, Early, Granted, Listed, Within,
         UnchangedControl
  <2>. QED BY <2>2, <2>3, <2>5, <2>6, <2>7, <1>a, <1>c, <2>8 DEF Sound, SealsDeadOnly,
       UnchangedControl, LeaseStates
<1>7. CASE PublishRefused(s)
  <2>1. n = [m EXCEPT !.task = "cleanup"]
    BY <1>7, <1>i, OneEntry DEF PublishRefused, Task, Free, OnlyMemory
  <2>2. m.task = "publish" /\ q = r /\ k \in {l, "active"} /\ o = p
    BY <1>7, <1>i, OneEntry DEF PublishRefused, Task, Free, OnlyMemory
  <2>3. n \in Memory BY <2>1, <1>m, MemoryUpdates
  <2>4. SameBut(m, n, {"task"}) /\ n.task = "cleanup" BY <2>1, <2>3, <1>m DEF SameBut, Memory
  <2>5. AtWork(n, q) BY <2>2, <2>4, <1>a DEF SameBut, AtWork
  <2>6. ASSUME NoReuse PROVE Owned(n, q, k, o, told) /\ (daemon # "down" => Covered(n, k, o))
    BY <2>2, <2>4, <2>6, <1>a, <1>b DEF SameBut, LeaseStates, AtWork, Owned, InHand, OnRecord,
         Permitted, Fresh, Covered, Watched, Early, Granted, Ended, Holding
  <2>7. Within(s) /\ (NoReuse => Listed(s)')
    BY <2>2, <2>4, <1>a, <1>c, <1>l DEF SameBut, Early, Granted, Listed, Within, UnchangedControl
  <2>. QED BY <2>2, <2>3, <2>5, <2>6, <1>a, <1>c, <2>7 DEF Sound, SealsDeadOnly, UnchangedControl,
       LeaseStates
<1>8. CASE TaskFails(s)
  <2>s. m.task = "fail" BY <1>8 DEF TaskFails
  <2>r. r.create = "PENDING" BY <1>a, <2>s DEF AtWork
  <2>1. n = [m EXCEPT !.task = "none"]
    BY <1>8, <2>r, <1>i, OneEntry DEF TaskFails, FailCreateRequest, Task, Free, OnlyMemory
  <2>2. m.task = "fail" /\ q = [r EXCEPT !.create = "FAILED"] /\ k = l /\ o = p
    BY <1>8, <2>r, <1>i, OneEntry DEF TaskFails, FailCreateRequest, Task, Free, OnlyMemory
  <2>3. n \in Memory BY <2>1, <1>m, MemoryUpdates
  <2>4. SameBut(m, n, {"task"}) /\ n.task = "none" BY <2>1, <2>3, <1>m DEF SameBut, Memory
  <2>5. RowStep(r, q) /\ SameRuntime(r, q) /\ q.startup = r.startup
    BY <2>2, <1>a, CreateRows, <2>r DEF AtWork
  <2>6. AtWork(n, q) BY <2>2, <2>4, <2>5, <1>a, <2>r DEF SameBut, SameRuntime, AtWork
  <2>7. ASSUME NoReuse PROVE Owned(n, q, k, o, told) /\ (daemon # "down" => Covered(n, k, o))
    BY <2>2, <2>4, <2>5, <2>7, <1>a, <1>b DEF SameBut, SameRuntime, AtWork, Owned, InHand,
         OnRecord, Permitted, Fresh, Covered, Watched, Early, Granted, Ended, Holding
  <2>8. Within(s) /\ (NoReuse => Listed(s)')
    BY <2>2, <2>4, <2>5, <1>a, <1>c, <1>l DEF SameBut, SameRuntime, Early, Granted, Listed,
         Within, UnchangedControl
  <2>. QED BY <2>2, <2>3, <2>5, <2>6, <2>7, <1>a, <1>c, <2>8 DEF Sound, SealsDeadOnly,
       UnchangedControl, SameRuntime
<1>9. CASE TaskCleanedUp(s)
  <2>1. n = [m EXCEPT !.rel = "free", !.task = "fail"]
    BY <1>9, <1>i, OneEntry DEF TaskCleanedUp, Answered, Task, Free, OnlyMemory
  <2>2. m.rel = "task" /\ m.step \in {"yes", "no"} /\ q = r /\ k = l /\ o = p
    BY <1>9, <1>i, OneEntry DEF TaskCleanedUp, Answered, Task, Free, OnlyMemory
  <2>3. n \in Memory
    <3>. HIDE DEF m, n
    <3>. QED BY <2>1, <1>m, MemoryUpdates
  <2>4. SameBut(m, n, {"rel", "task"}) /\ n.rel = "free" /\ n.task = "fail"
    BY <2>1, <2>3, <1>m DEF SameBut, Memory
  <2>5. AtWork(n, q) BY <2>2, <2>4, <1>a DEF SameBut, AtWork
  <2>6. ASSUME NoReuse PROVE Owned(n, q, k, o, told) /\ (daemon # "down" => Covered(n, k, o))
    BY <2>2, <2>4, <2>6, <1>a, <1>b DEF SameBut, AtWork, Owned, InHand, OnRecord, Permitted,
         Fresh, Covered, Watched, Early, Granted, Ended, Holding
  <2>7. Within(s) /\ (NoReuse => Listed(s)')
    BY <2>2, <2>4, <1>a, <1>c, <1>l DEF SameBut, Early, Granted, Listed, Within, UnchangedControl
  <2>. QED BY <2>2, <2>3, <2>5, <2>6, <1>a, <1>c, <2>7 DEF Sound, SealsDeadOnly, UnchangedControl
<1>. QED BY <1>1, <1>2, <1>3, <1>4, <1>5, <1>6, <1>7, <1>8, <1>9

\* A step of a release changes the entries of its session.
LEMMA ReleaseIsLocal ==
  ASSUME TypeOK, NEW s \in SessionIds, ReleaseStep(s)
  PROVE  Local(s) /\ UnchangedControl
<1>. USE OneEntry DEF Local, OnlyMemory, Free
<1>1. CASE BeginsRelease(s) \/ Terminates(s) \/ NotConfirmed(s)
  BY <1>1 DEF BeginsRelease, Terminates, NotConfirmed
<1>2. CASE Retires(s)
  BY <1>2 DEF Retires, SealLostLogs
<1>3. CASE CleansUp(s)
  BY <1>3 DEF CleansUp, Cleans, CannotClean, SealLostLogs, ClearRuntimeStartup
<1>. QED BY <1>1, <1>2, <1>3 DEF ReleaseStep

\* A release begins for a runtime that has a controller, and not during its create.
LEMMA Wanted ==
  ASSUME Invariant, NEW s \in SessionIds, NEW by \in Threads, Wants(s, by)
  PROVE  /\ by = "task" => mem[s].task = "cleanup"
         /\ by = "kill" => mem[s].kill = "release"
         /\ NoReuse => /\ mem[s].task \notin Early /\ mem[s].ctrl # "none"
                       /\ by # "stop" => db[s].create # "none"
                       /\ by = "stop" => s \in stop.ctrls
<1>a. /\ mem[s] \in Memory /\ RowSound(db[s]) /\ AtWork(mem[s], db[s])
      /\ NoReuse => InHand(mem[s], db[s], proc[s]) /\ Snapshots /\ Listed(s)
  BY AtSession DEF Owned
<1>1. CASE by = "task"
  BY <1>1, <1>a DEF Wants, AtWork, InHand, Early
<1>2. CASE by \in {"job", "kill", "mon"}
  BY <1>2, <1>a DEF Wants, AtWork, InHand, Early, RowSound
<1>3. CASE by = "sweep"
  BY <1>3, <1>a DEF Wants, Listed, RowSound, AtWork, Early
<1>4. CASE by = "stop"
  BY <1>4, <1>a DEF Wants, Snapshots, Listed
<1>. QED BY <1>1, <1>2, <1>3, <1>4 DEF Threads

\* A release under way: the processes end, then the permit, then the record.
LEMMA ReleaseKeeps ==
  ASSUME Invariant, NEW s \in SessionIds, ReleaseStep(s)
  PROVE  Sound(s)
<1>. DEFINE m == mem[s]  n == mem'[s]  r == db[s]  q == db'[s]
            l == leases[s]  k == leases'[s]  p == proc[s]  o == proc'[s]  told == s \in stop.ctrls
<1>i. TypeOK /\ Local(s) BY ReleaseIsLocal DEF Invariant
<1>a. /\ m \in Memory /\ r \in Row /\ l \in LeaseStates /\ p \in {"no", "worker", "tool"}
      /\ RowSound(r) /\ AtWork(m, r) /\ RowStep(r, r)
  BY AtSession, SameRow
<1>m. m \in Memory BY <1>a
<1>b. NoReuse => Owned(m, r, l, p, told) /\ (daemon # "down" => Covered(m, l, p))
  BY AtSession
<1>l. NoReuse => Listed(s) /\ Snapshots BY AtSession
<1>c. UnchangedControl BY <1>i, ReleaseIsLocal
<1>1. CASE BeginsRelease(s)
  <2>. DEFINE t == IF m.ctrl = "released" THEN "yes" ELSE "kill"
  <2>0. PICK by \in Threads : Wants(s, by) /\ Set(s, [m EXCEPT !.rel = by, !.step = t])
    BY <1>1 DEF BeginsRelease
  <2>1. Wants(s, by) /\ n = [m EXCEPT !.rel = by, !.step = t] BY <2>0, <1>i, OneEntry
  <2>2. m.rel = "free" /\ q = r /\ k = l /\ o = p
    BY <1>1, <1>i, OneEntry DEF BeginsRelease, Free, OnlyMemory
  <2>3. t \in {"yes", "kill"} /\ (t = "yes" <=> m.ctrl = "released") OBVIOUS
  <2>. HIDE DEF t
  <2>4. n \in Memory
    <3>. HIDE DEF m, n
    <3>. QED BY <2>1, <2>3, <1>m, MemoryUpdates
  <2>5. SameBut(m, n, {"rel", "step"}) /\ n.rel = by /\ n.step = t
    BY <2>1, <2>4 DEF SameBut, Memory
  <2>6. /\ by = "task" => m.task = "cleanup"
        /\ by = "kill" => m.kill = "release"
        /\ NoReuse => /\ m.task \notin Early /\ m.ctrl # "none"
                      /\ by # "stop" => r.create # "none"
    BY <2>1, Wanted
  <2>9. NoReuse /\ by = "stop" => s \in stop.ctrls BY <2>1, Wanted
  <2>7. AtWork(n, q) BY <2>2, <2>5, <2>6, <1>a DEF SameBut, AtWork
  <2>8. ASSUME NoReuse PROVE Owned(n, q, k, o, told) /\ (daemon # "down" => Covered(n, k, o))
    BY <2>2, <2>3, <2>5, <2>6, <2>8, <1>a, <1>b DEF SameBut, AtWork, Owned, InHand, OnRecord,
         Permitted, Fresh, Covered, Watched, Early, Granted, Ended, Holding
  <2>w. Within(s) /\ (NoReuse => Listed(s)')
    BY <2>2, <2>5, <2>6, <2>9, <1>a, <1>c, <1>l
       DEF Early, Granted, Listed, Within, UnchangedControl, SameBut
  <2>. QED BY <2>w, <2>2, <2>4, <2>7, <2>8, <1>a, <1>c
           DEF Sound, SealsDeadOnly, UnchangedControl
<1>2. CASE Terminates(s)
  <2>1. n = [m EXCEPT !.stopping = TRUE, !.step = "retire"]
    BY <1>2, <1>i, OneEntry DEF Terminates, Free, OnlyMemory
  <2>2. m.rel # "free" /\ m.step = "kill" /\ q = r /\ k = l /\ o = "no"
    BY <1>2, <1>i, OneEntry DEF Terminates, Free, OnlyMemory
  <2>3. n \in Memory
    <3>. HIDE DEF m, n
    <3>. QED BY <2>1, <1>m, MemoryUpdates
  <2>4. SameBut(m, n, {"step"}) /\ n.step = "retire" BY <2>1, <2>3, <1>m DEF SameBut, Memory
  <2>5. AtWork(n, q) BY <2>2, <2>4, <1>a DEF SameBut, AtWork
  <2>6. ASSUME NoReuse PROVE Owned(n, q, k, o, told) /\ (daemon # "down" => Covered(n, k, o))
    BY <2>2, <2>4, <2>6, <1>a, <1>b DEF SameBut, AtWork, Owned, InHand, OnRecord, Permitted,
         Fresh, Covered, Watched, Early, Granted, Ended, Holding
  <2>7. Within(s) /\ (NoReuse => Listed(s)')
    BY <2>2, <2>4, <1>a, <1>c, <1>l DEF SameBut, Early, Granted, Listed, Within, UnchangedControl
  <2>. QED BY <2>2, <2>3, <2>5, <2>6, <1>a, <1>c, <2>7 DEF Sound, SealsDeadOnly, UnchangedControl
<1>3. CASE NotConfirmed(s)
  <2>1. n = [m EXCEPT !.stopping = TRUE, !.ctrl = "pending", !.step = "no"]
    BY <1>3, <1>i, OneEntry DEF NotConfirmed, Free, OnlyMemory
  <2>2. m.rel # "free" /\ m.step = "kill" /\ p # "no" /\ q = r /\ k = l /\ o = p
    BY <1>3, <1>i, OneEntry DEF NotConfirmed, Free, OnlyMemory
  <2>3. n \in Memory
    <3>. HIDE DEF m, n
    <3>. QED BY <2>1, <1>m, MemoryUpdates
  <2>4. SameBut(m, n, {"ctrl", "step"}) /\ n.ctrl = "pending" /\ n.step = "no"
    BY <2>1, <2>3, <1>m DEF SameBut, Memory
  <2>5. AtWork(n, q) BY <2>2, <2>4, <1>a DEF SameBut, AtWork
  <2>6. ASSUME NoReuse PROVE Owned(n, q, k, o, told) /\ (daemon # "down" => Covered(n, k, o))
    BY <2>2, <2>4, <2>6, <1>a, <1>b DEF SameBut, AtWork, Owned, InHand, OnRecord, Permitted,
         Fresh, Covered, Watched, Early, Granted, Ended, Holding
  <2>7. Within(s) /\ (NoReuse => Listed(s)')
    BY <2>2, <2>4, <1>a, <1>c, <1>l DEF SameBut, Early, Granted, Listed, Within, UnchangedControl
  <2>. QED BY <2>2, <2>3, <2>5, <2>6, <1>a, <1>c, <2>7 DEF Sound, SealsDeadOnly, UnchangedControl
<1>4. CASE Retires(s)
  <2>1. n = [m EXCEPT !.ctrl = "released", !.step = "clean"]
    BY <1>4, <1>i, OneEntry DEF Retires, SealLostLogs, SealedRow, Free, OnlyMemory
  <2>2. m.rel # "free" /\ m.step = "retire" /\ q = SealedRow(r) /\ k = "none" /\ o = p
    BY <1>4, <1>i, OneEntry DEF Retires, SealLostLogs, SealedRow, Free, OnlyMemory
  <2>3. n \in Memory
    <3>. HIDE DEF m, n
    <3>. QED BY <2>1, <1>m, MemoryUpdates
  <2>4. SameBut(m, n, {"ctrl", "step"}) /\ n.ctrl = "released" /\ n.step = "clean"
    BY <2>1, <2>3, <1>m DEF SameBut, Memory
  <2>5. /\ RowStep(r, q) /\ SameCreate(r, q) /\ q.runtime = r.runtime /\ q.unsealed = {}
        /\ q.owned = r.owned
    BY <2>2, <1>a, SealRows
  <2>6. AtWork(n, q) BY <2>2, <2>4, <2>5, <1>a DEF SameBut, SameCreate, AtWork
  <2>7. ASSUME NoReuse PROVE Owned(n, q, k, o, told) /\ (daemon # "down" => Covered(n, k, o))
    BY <2>2, <2>4, <2>5, <2>7, <1>a, <1>b DEF SameBut, SameCreate, LeaseStates, AtWork, Owned,
         InHand, OnRecord, Permitted, Fresh, Covered, Watched, Early, Granted, Ended, Holding
  <2>8. Within(s) /\ (NoReuse => Listed(s)')
    BY <2>2, <2>4, <2>5, <1>a, <1>c, <1>l DEF SameBut, SameCreate, Early, Granted, Listed, Within,
         UnchangedControl
  <2>. QED BY <2>2, <2>3, <2>5, <2>6, <2>7, <1>a, <1>c, <1>b, <2>8 DEF Sound, SealsDeadOnly,
       UnchangedControl, Owned, InHand, Ended, SameCreate, LeaseStates
<1>5. CASE CleansUp(s)
  <2>k. CleanupKind(s) = "request" \/ (CleanupKind(s) = "session" /\ r.session # "none")
    BY DEF CleanupKind
  <2>i. Spend("io") => MaxIoFaults # 0
    BY <1>i, ServiceAssumption DEF Spend, Bound, TypeOK
  <2>g. m.rel # "free" /\ m.step = "clean" BY <1>5 DEF CleansUp
  <2>1. CASE CleanupKind(s) = "request" /\ Cleans(s, "request") /\ Set(s, [m EXCEPT !.step = "yes"])
    <3>1. n = [m EXCEPT !.step = "yes"]
      BY <2>1, <2>g, <1>5, <1>i, OneEntry DEF CleansUp, Cleans, ClearRuntimeStartup, Free,
           OnlyMemory
    <3>2. /\ m.rel # "free" /\ m.step = "clean" /\ q = [r EXCEPT !.startup = "none"] /\ k = l
          /\ o = p
      BY <2>1, <2>g, <1>5, <1>i, OneEntry DEF CleansUp, Cleans, ClearRuntimeStartup, Free,
           OnlyMemory
    <3>3. n \in Memory BY <3>1, <1>m, MemoryUpdates
    <3>4. SameBut(m, n, {"step"}) /\ n.step = "yes" BY <3>1, <3>3, <1>m DEF SameBut, Memory
    <3>5. RowStep(r, q) /\ SameRuntime(r, q) /\ q.startup = "none" /\ q.create = r.create
      BY <3>2, <1>a, StartupRows
    <3>6. AtWork(n, q) BY <3>2, <3>4, <3>5, <1>a DEF SameBut, SameRuntime, AtWork
    <3>7. ASSUME NoReuse PROVE Owned(n, q, k, o, told) /\ (daemon # "down" => Covered(n, k, o))
      BY <3>2, <3>4, <3>5, <3>7, <1>a, <1>b DEF SameBut, SameRuntime, AtWork, Owned, InHand,
           OnRecord, Permitted, Fresh, Covered, Watched, Early, Granted, Ended, Holding
    <3>8. Within(s) /\ (NoReuse => Listed(s)')
      BY <3>2, <3>4, <3>5, <1>a, <1>c, <1>l DEF SameBut, SameRuntime, Early, Granted, Listed,
           Within, UnchangedControl
    <3>. QED BY <3>2, <3>3, <3>5, <3>6, <3>7, <1>a, <1>c, <3>8 DEF Sound, SealsDeadOnly,
         UnchangedControl, SameRuntime
  <2>2. CASE CleanupKind(s) = "session" /\ Cleans(s, "session") /\ Set(s, [m EXCEPT !.step = "yes"])
    <3>1. n = [m EXCEPT !.step = "yes"]
      BY <2>2, <2>g, <1>5, <1>i, OneEntry DEF CleansUp, Cleans, CleanedRow, Free, OnlyMemory
    <3>2. m.rel # "free" /\ m.step = "clean" /\ q = CleanedRow(r) /\ k = l /\ o = p
      BY <2>2, <2>g, <1>5, <1>i, OneEntry DEF CleansUp, Cleans, CleanedRow, Free, OnlyMemory
    <3>3. n \in Memory BY <3>1, <1>m, MemoryUpdates
    <3>4. SameBut(m, n, {"step"}) /\ n.step = "yes" BY <3>1, <3>3, <1>m DEF SameBut, Memory
    <3>5. /\ RowStep(r, q) /\ SameCreate(r, q) /\ q.runtime = r.runtime /\ q.unsealed = {}
          /\ ~q.owned
      BY <3>2, <1>a, SealRows
    <3>6. AtWork(n, q) BY <3>2, <3>4, <3>5, <1>a DEF SameBut, SameCreate, AtWork
    <3>7. ASSUME NoReuse PROVE Owned(n, q, k, o, told) /\ (daemon # "down" => Covered(n, k, o))
      BY <3>2, <3>4, <3>5, <3>7, <1>a, <1>b DEF SameBut, SameCreate, AtWork, Owned, InHand,
           OnRecord, Permitted, Fresh, Covered, Watched, Early, Granted, Ended, Holding
    <3>8. Within(s) /\ (NoReuse => Listed(s)')
      BY <3>2, <3>4, <3>5, <1>a, <1>c, <1>l DEF SameBut, SameCreate, Early, Granted, Listed,
           Within, UnchangedControl
    <3>. QED BY <3>2, <3>3, <3>5, <3>6, <3>7, <1>a, <1>c, <1>b, <3>8 DEF Sound, SealsDeadOnly,
         UnchangedControl, Owned, InHand, Ended, SameCreate
  <2>3. CASE /\ CleanupKind(s) = "request" /\ CannotClean(s, "request")
           /\ Set(s, [m EXCEPT !.step = "yes", !.dirty = "request"])
    <3>j. MaxIoFaults # 0 BY <2>3, <2>i, <2>k, <1>a DEF CannotClean, RowSound
    <3>1. n = [m EXCEPT !.step = "yes", !.dirty = "request"]
      BY <2>3, <2>g, <1>5, <1>i, OneEntry DEF CleansUp, CannotClean, Free, OnlyMemory
    <3>2. m.rel # "free" /\ m.step = "clean" /\ q = r /\ k = l /\ o = p
      BY <2>3, <2>g, <1>5, <1>i, OneEntry DEF CleansUp, CannotClean, Free, OnlyMemory
    <3>3. n \in Memory
      <4>. HIDE DEF m, n
      <4>. QED BY <3>1, <1>m, MemoryUpdates
    <3>4. SameBut(m, n, {"step", "dirty"}) /\ n.step = "yes" /\ n.dirty = "request"
      BY <3>1, <3>3, <1>m DEF SameBut, Memory
    <3>5. AtWork(n, q) BY <3>2, <3>4, <1>a DEF SameBut, AtWork
    <3>6. ASSUME NoReuse PROVE Owned(n, q, k, o, told) /\ (daemon # "down" => Covered(n, k, o))
      BY <3>2, <3>4, <3>6, <1>a, <1>b, <3>j DEF SameBut, AtWork, Owned, InHand, OnRecord,
           Permitted, Fresh, Covered, Watched, Early, Granted, Ended, Holding
    <3>7. Within(s) /\ (NoReuse => Listed(s)')
      BY <3>2, <3>4, <1>a, <1>c, <1>l DEF SameBut, Early, Granted, Listed, Within,
           UnchangedControl
    <3>. QED BY <3>2, <3>3, <3>5, <3>6, <1>a, <1>c, <3>7 DEF Sound, SealsDeadOnly,
         UnchangedControl
  <2>4. CASE /\ CleanupKind(s) = "session" /\ CannotClean(s, "session")
           /\ Set(s, [m EXCEPT !.step = "yes", !.dirty = "session"])
    <3>j. MaxIoFaults # 0 BY <2>4, <2>i, <2>k, <1>a DEF CannotClean, RowSound
    <3>1. n = [m EXCEPT !.step = "yes", !.dirty = "session"]
      BY <2>4, <2>g, <1>5, <1>i, OneEntry DEF CleansUp, CannotClean, SealLostLogs, SealedRow,
           Free, OnlyMemory
    <3>2. m.rel # "free" /\ m.step = "clean" /\ q = SealedRow(r) /\ k = l /\ o = p
      BY <2>4, <2>g, <1>5, <1>i, OneEntry DEF CleansUp, CannotClean, SealLostLogs, SealedRow,
           Free, OnlyMemory
    <3>3. n \in Memory
      <4>. HIDE DEF m, n
      <4>. QED BY <3>1, <1>m, MemoryUpdates
    <3>4. SameBut(m, n, {"step", "dirty"}) /\ n.step = "yes" /\ n.dirty = "session"
      BY <3>1, <3>3, <1>m DEF SameBut, Memory
    <3>5. /\ RowStep(r, q) /\ SameCreate(r, q) /\ q.runtime = r.runtime /\ q.unsealed = {}
          /\ q.owned = r.owned
      BY <3>2, <1>a, SealRows
    <3>6. AtWork(n, q) BY <3>2, <3>4, <3>5, <1>a DEF SameBut, SameCreate, AtWork
    <3>7. ASSUME NoReuse PROVE Owned(n, q, k, o, told) /\ (daemon # "down" => Covered(n, k, o))
      BY <3>2, <3>4, <3>5, <3>7, <1>a, <1>b, <3>j DEF SameBut, SameCreate, AtWork, Owned, InHand,
           OnRecord, Permitted, Fresh, Covered, Watched, Early, Granted, Ended, Holding
    <3>8. Within(s) /\ (NoReuse => Listed(s)')
      BY <3>2, <3>4, <3>5, <1>a, <1>c, <1>l DEF SameBut, SameCreate, Early, Granted, Listed,
           Within, UnchangedControl
    <3>. QED BY <3>2, <3>3, <3>5, <3>6, <3>7, <1>a, <1>c, <1>b, <3>8 DEF Sound, SealsDeadOnly,
         UnchangedControl, Owned, InHand, Ended, SameCreate
  <2>. QED BY <1>5, <2>k, <2>1, <2>2, <2>3, <2>4 DEF CleansUp
<1>. QED BY <1>1, <1>2, <1>3, <1>4, <1>5 DEF ReleaseStep

\* A step of an execution changes the entries of its session.
LEMMA JobIsLocal ==
  ASSUME TypeOK, NEW s \in SessionIds, Execute(s) \/ JobStep(s)
  PROVE  Local(s) /\ UnchangedControl
<1>. USE OneEntry DEF Local, OnlyMemory, Free
<1>1. CASE Execute(s)
  <2>1. PICK e \in ExecIds : BeginExecution(s, e)
    BY <1>1 DEF Execute
  <2>2. db' = [db EXCEPT ![s] = db'[s]] BY <2>1 DEF BeginExecution
  <2>. QED BY <1>1, <2>2 DEF Execute
<1>2. CASE JobPrepares(s) \/ PrepareRefused(s) \/ PrepareFails(s)
  BY <1>2 DEF JobPrepares, PrepareRefused, PrepareFails, CompleteExecution
<1>3. CASE JobRuns(s)
  BY <1>3 DEF JobRuns, MarkExecutionRunning
<1>4. CASE SummaryComes(s) \/ JobRecords(s) \/ ResumesMonitoring(s)
  BY <1>4 DEF SummaryComes, JobRecords, ResumesMonitoring, CompleteExecution
<1>5. CASE SummaryOfLoss(s) \/ NoSummary(s) \/ JobReleased(s) \/ JobCompletes(s)
  BY <1>5 DEF SummaryOfLoss, NoSummary, JobReleased, JobCompletes, CompleteExecution
<1>. QED BY <1>1, <1>2, <1>3, <1>4, <1>5 DEF JobStep

\* An execution from its admission to its record.
LEMMA JobKeeps ==
  ASSUME Invariant, NEW s \in SessionIds, Execute(s) \/ JobStep(s)
  PROVE  Sound(s)
<1>. DEFINE m == mem[s]  n == mem'[s]  r == db[s]  q == db'[s]
            l == leases[s]  k == leases'[s]  p == proc[s]  o == proc'[s]  told == s \in stop.ctrls
<1>i. TypeOK /\ Local(s) BY JobIsLocal DEF Invariant
<1>a. /\ m \in Memory /\ r \in Row /\ l \in LeaseStates /\ p \in {"no", "worker", "tool"}
      /\ RowSound(r) /\ AtWork(m, r) /\ RowStep(r, r)
  BY AtSession, SameRow
<1>m. m \in Memory BY <1>a
<1>b. NoReuse => Owned(m, r, l, p, told) /\ (daemon # "down" => Covered(m, l, p))
  BY AtSession
<1>l. NoReuse => Listed(s) /\ Snapshots BY AtSession
<1>c. UnchangedControl BY <1>i, JobIsLocal
<1>e. m.job # "none" => m.exec \in ExecIds BY <1>a DEF AtWork
<1>1. CASE Execute(s)
  <2>. DEFINE j == IF ControllerOf(s) THEN "prepare" ELSE "complete"
  <2>1. PICK e \in ExecIds : /\ BeginExecution(s, e)
                            /\ Set(s, [m EXCEPT !.exec = e, !.lock = "job", !.job = j])
    BY <1>1 DEF Execute
  <2>2. n = [m EXCEPT !.exec = e, !.lock = "job", !.job = j] BY <2>1, <1>i, OneEntry
  <2>3. /\ r.session = "ACTIVE" /\ r.runtime = "READY" /\ r.current = 0 /\ r.execs[e] = "none"
        /\ q = [r EXCEPT !.execs[e] = "QUEUED", !.current = e]
    BY <2>1, <1>i, OneEntry DEF BeginExecution
  <2>4. m.lock = "free" /\ k = l /\ o = p BY <1>1, <1>i, OneEntry DEF Execute
  <2>5. /\ j \in {"prepare", "complete"} /\ (j = "prepare" => m.ctrl \in {"listed", "pending"})
        /\ (j = "complete" => m.ctrl \notin {"listed", "pending"})
    BY DEF ControllerOf
  <2>6. e \in 0..MaxExecs BY ServiceAssumption DEF ExecIds
  <2>. HIDE DEF j
  <2>7. n \in Memory
    <3>. HIDE DEF m, n
    <3>. QED BY <2>2, <2>5, <2>6, <1>m, MemoryUpdates
  <2>8. SameBut(m, n, {"exec", "job", "lock"}) /\ n.exec = e /\ n.job = j
    BY <2>2, <2>7 DEF SameBut, Memory
  <2>9. RowStep(r, q) /\ SameCreate(r, q) /\ SameRuntime(r, q)
    BY <2>3, <1>a, BeginRows
  <2>10. AtWork(n, q) BY <2>3, <2>4, <2>5, <2>8, <2>9, <1>a DEF SameBut, SameCreate, AtWork
  <2>11. ASSUME NoReuse PROVE Owned(n, q, k, o, told) /\ (daemon # "down" => Covered(n, k, o))
    BY <2>3, <2>4, <2>5, <2>8, <2>9, <2>11, <1>a, <1>b DEF SameBut, SameCreate, SameRuntime, AtWork,
       Owned, InHand, OnRecord, Permitted, Fresh, Covered, Watched, Early, Granted, Ended, Holding
  <2>w. Within(s) /\ (NoReuse => Listed(s)')
    BY <2>3, <2>4, <2>8, <2>9, <1>a, <1>c, <1>l
       DEF Early, Granted, Listed, Within, UnchangedControl, SameBut, SameCreate
  <2>. QED BY <2>w, <2>4, <2>7, <2>9, <2>10, <2>11, <1>a, <1>c
           DEF Sound, SealsDeadOnly, UnchangedControl, SameRuntime
<1>2. CASE JobPrepares(s)
  <2>1. n = [m EXCEPT !.job = "mark"] BY <1>2, <1>i, OneEntry DEF JobPrepares, Free, OnlyMemory
  <2>2. m.job = "prepare" /\ q = r /\ k = l /\ o = p
    BY <1>2, <1>i, OneEntry DEF JobPrepares, Free, OnlyMemory
  <2>3. n \in Memory BY <2>1, <1>m, MemoryUpdates
  <2>4. SameBut(m, n, {"job"}) /\ n.job = "mark" BY <2>1, <2>3, <1>m DEF SameBut, Memory
  <2>5. AtWork(n, q) BY <2>2, <2>4, <1>a DEF SameBut, AtWork
  <2>6. ASSUME NoReuse PROVE Owned(n, q, k, o, told) /\ (daemon # "down" => Covered(n, k, o))
    BY <2>2, <2>4, <2>6, <1>a, <1>b DEF SameBut, AtWork, Owned, InHand, OnRecord, Permitted,
         Fresh, Covered, Watched, Early, Granted, Ended, Holding
  <2>7. Within(s) /\ (NoReuse => Listed(s)')
    BY <2>2, <2>4, <1>a, <1>c, <1>l DEF SameBut, Early, Granted, Listed, Within, UnchangedControl
  <2>. QED BY <2>2, <2>3, <2>5, <2>6, <1>a, <1>c, <2>7 DEF Sound, SealsDeadOnly, UnchangedControl
<1>3. CASE PrepareRefused(s)
  <2>1. n = [Unlock(m, "job") EXCEPT !.job = "none"]
    BY <1>3, <1>i, OneEntry DEF PrepareRefused, CompleteExecution, Completed, Free, OnlyMemory
  <2>2. m.job = "prepare" /\ q = Completed(r, m.exec, "DONE", "READY") /\ k = l /\ o = p
    BY <1>3, <1>i, OneEntry DEF PrepareRefused, CompleteExecution, Completed, Free, OnlyMemory
  <2>3. /\ SameBut(m, n, {"job", "lock"}) /\ n.job = "none"
        /\ (m.lock = "kill" => n.lock = "kill")
    <3>. DEFINE u == Unlock(m, "job")
    <3>1. SameBut(m, u, {"lock"}) /\ (u.lock = m.lock \/ m.lock = "job") BY <1>m, UnlockKeeps
    <3>2. n = [u EXCEPT !.job = "none"] BY <2>1
    <3>. HIDE DEF m, n, u
    <3>3. u \in Memory /\ n \in Memory BY <3>1, <3>2, MemoryUpdates DEF SameBut
    <3>. QED BY <3>1, <3>2, <3>3 DEF SameBut, Memory
  <2>4. /\ RowStep(r, q) /\ SameCreate(r, q) /\ q.owned = r.owned /\ q.unsealed = r.unsealed
        /\ q.runtime \in {"READY", "BUSY"} => r.runtime \in {"READY", "BUSY"}
        /\ r.runtime \in {"READY", "BUSY"} => q.runtime \in {"READY", "BUSY"}
    BY <2>2, <1>a, CompleteRows, <1>e
  <2>5. AtWork(n, q) BY <2>2, <2>3, <2>4, <1>a, <1>e DEF SameBut, SameCreate, AtWork
  <2>6. ASSUME NoReuse PROVE Owned(n, q, k, o, told) /\ (daemon # "down" => Covered(n, k, o))
    BY <2>2, <2>3, <2>4, <2>6, <1>a, <1>b DEF SameBut, SameCreate, AtWork, Owned, InHand,
         OnRecord, Permitted, Fresh, Covered, Watched, Early, Granted, Ended, Holding
  <2>7. Within(s) /\ (NoReuse => Listed(s)')
    BY <2>2, <2>3, <2>4, <1>a, <1>c, <1>l DEF SameBut, SameCreate, Early, Granted, Listed, Within,
         UnchangedControl
  <2>. QED BY <2>2, <2>3, <2>4, <2>5, <2>6, <1>a, <1>c, <2>7 DEF Sound, SealsDeadOnly,
       UnchangedControl, SameBut, SameCreate
<1>4. CASE PrepareFails(s)
  <2>1. n = [m EXCEPT !.job = "release"]
    BY <1>4, <1>i, OneEntry DEF PrepareFails, Free, OnlyMemory
  <2>2. m.job = "prepare" /\ q = r /\ k = l /\ o = p
    BY <1>4, <1>i, OneEntry DEF PrepareFails, Free, OnlyMemory
  <2>3. n \in Memory BY <2>1, <1>m, MemoryUpdates
  <2>4. SameBut(m, n, {"job"}) /\ n.job = "release" BY <2>1, <2>3, <1>m DEF SameBut, Memory
  <2>5. AtWork(n, q) BY <2>2, <2>4, <1>a DEF SameBut, AtWork
  <2>6. ASSUME NoReuse PROVE Owned(n, q, k, o, told) /\ (daemon # "down" => Covered(n, k, o))
    BY <2>2, <2>4, <2>6, <1>a, <1>b DEF SameBut, AtWork, Owned, InHand, OnRecord, Permitted,
         Fresh, Covered, Watched, Early, Granted, Ended, Holding
  <2>7. Within(s) /\ (NoReuse => Listed(s)')
    BY <2>2, <2>4, <1>a, <1>c, <1>l DEF SameBut, Early, Granted, Listed, Within, UnchangedControl
  <2>. QED BY <2>2, <2>3, <2>5, <2>6, <1>a, <1>c, <2>7 DEF Sound, SealsDeadOnly, UnchangedControl
<1>5. CASE JobRuns(s)
  <2>1. CASE MayRun(s, m.exec)
    <3>1. n = [Unlock(m, "job") EXCEPT !.job = "run"]
      BY <2>1, <1>5, <1>i, OneEntry DEF JobRuns, MarkExecutionRunning, MayRun, RunningRow, Free,
           OnlyMemory
    <3>2. /\ m.job = "mark"
          /\ /\ r.execs[m.exec] = "QUEUED" /\ r.current = m.exec /\ r.runtime = "READY"
          /\ q = RunningRow(r, m.exec)
          /\ k = l /\ o = p
      BY <2>1, <1>5, <1>i, OneEntry DEF JobRuns, MarkExecutionRunning, MayRun, RunningRow, Free,
           OnlyMemory
    <3>3. /\ SameBut(m, n, {"job", "lock"}) /\ n.job = "run"
          /\ (m.lock = "kill" => n.lock = "kill")
      <4>. DEFINE u == Unlock(m, "job")
      <4>1. SameBut(m, u, {"lock"}) /\ (u.lock = m.lock \/ m.lock = "job") BY <1>m, UnlockKeeps
      <4>2. n = [u EXCEPT !.job = "run"] BY <3>1
      <4>. HIDE DEF m, n, u
      <4>3. u \in Memory /\ n \in Memory BY <4>1, <4>2, MemoryUpdates DEF SameBut
      <4>. QED BY <4>1, <4>2, <4>3 DEF SameBut, Memory
    <3>4. /\ RowStep(r, q) /\ SameCreate(r, q) /\ r.session = "ACTIVE" /\ q.runtime = "BUSY"
          /\ q.owned = r.owned /\ q.unsealed = r.unsealed
      BY <3>2, <1>a, RunRows, <1>e
    <3>5. AtWork(n, q) BY <3>2, <3>3, <3>4, <1>a, <1>e DEF SameBut, SameCreate, AtWork
    <3>6. ASSUME NoReuse PROVE Owned(n, q, k, o, told) /\ (daemon # "down" => Covered(n, k, o))
      BY <3>2, <3>3, <3>4, <3>6, <1>a, <1>b DEF SameBut, SameCreate, AtWork, Owned, InHand,
           OnRecord, Permitted, Fresh, Covered, Watched, Early, Granted, Ended, Holding
    <3>7. Within(s) /\ (NoReuse => Listed(s)')
      BY <3>2, <3>3, <3>4, <1>a, <1>c, <1>l DEF SameBut, SameCreate, Early, Granted, Listed,
           Within, UnchangedControl
    <3>. QED BY <3>2, <3>3, <3>4, <3>5, <3>6, <1>a, <1>c, <3>7 DEF Sound, SealsDeadOnly,
         UnchangedControl, SameBut, SameCreate
  <2>2. CASE ~MayRun(s, m.exec)
    <3>1. n = [m EXCEPT !.job = "release"]
      BY <2>2, <1>5, <1>i, OneEntry DEF JobRuns, Free, OnlyMemory
    <3>2. m.job = "mark" /\ q = r /\ k = l /\ o = p
      BY <2>2, <1>5, <1>i, OneEntry DEF JobRuns, Free, OnlyMemory
    <3>3. n \in Memory BY <3>1, <1>m, MemoryUpdates
    <3>4. SameBut(m, n, {"job"}) /\ n.job = "release" BY <3>1, <3>3, <1>m DEF SameBut, Memory
    <3>5. AtWork(n, q) BY <3>2, <3>4, <1>a DEF SameBut, AtWork
    <3>6. ASSUME NoReuse PROVE Owned(n, q, k, o, told) /\ (daemon # "down" => Covered(n, k, o))
      BY <3>2, <3>4, <3>6, <1>a, <1>b DEF SameBut, AtWork, Owned, InHand, OnRecord, Permitted,
           Fresh, Covered, Watched, Early, Granted, Ended, Holding
    <3>7. Within(s) /\ (NoReuse => Listed(s)')
      BY <3>2, <3>4, <1>a, <1>c, <1>l DEF SameBut, Early, Granted, Listed, Within,
           UnchangedControl
    <3>. QED BY <3>2, <3>3, <3>5, <3>6, <1>a, <1>c, <3>7 DEF Sound, SealsDeadOnly,
         UnchangedControl
  <2>. QED BY <2>1, <2>2
<1>6. CASE SummaryComes(s)
  <2>1. n = [m EXCEPT !.job = "record", !.suppressed = TRUE]
    BY <1>6, <1>i, OneEntry DEF SummaryComes, Free, OnlyMemory
  <2>2. m.job = "run" /\ q = r /\ k = l /\ o = p
    BY <1>6, <1>i, OneEntry DEF SummaryComes, Free, OnlyMemory
  <2>3. n \in Memory
    <3>. HIDE DEF m, n
    <3>. QED BY <2>1, <1>m, MemoryUpdates
  <2>4. SameBut(m, n, {"job"}) /\ n.job = "record" BY <2>1, <2>3, <1>m DEF SameBut, Memory
  <2>5. AtWork(n, q) BY <2>2, <2>4, <1>a DEF SameBut, AtWork
  <2>6. ASSUME NoReuse PROVE Owned(n, q, k, o, told) /\ (daemon # "down" => Covered(n, k, o))
    BY <2>2, <2>4, <2>6, <1>a, <1>b DEF SameBut, AtWork, Owned, InHand, OnRecord, Permitted,
         Fresh, Covered, Watched, Early, Granted, Ended, Holding
  <2>7. Within(s) /\ (NoReuse => Listed(s)')
    BY <2>2, <2>4, <1>a, <1>c, <1>l DEF SameBut, Early, Granted, Listed, Within, UnchangedControl
  <2>. QED BY <2>2, <2>3, <2>5, <2>6, <1>a, <1>c, <2>7 DEF Sound, SealsDeadOnly, UnchangedControl
<1>7. CASE JobRecords(s)
  <2>1. n = [m EXCEPT !.job = "none"]
    BY <1>7, <1>i, OneEntry DEF JobRecords, CompleteExecution, Completed, Free, OnlyMemory
  <2>2. m.job = "record" /\ q = Completed(r, m.exec, "DONE", "READY") /\ k = l /\ o = p
    BY <1>7, <1>i, OneEntry DEF JobRecords, CompleteExecution, Completed, Free, OnlyMemory
  <2>3. n \in Memory BY <2>1, <1>m, MemoryUpdates
  <2>4. SameBut(m, n, {"job"}) /\ n.job = "none" BY <2>1, <2>3, <1>m DEF SameBut, Memory
  <2>5. /\ RowStep(r, q) /\ SameCreate(r, q) /\ q.owned = r.owned /\ q.unsealed = r.unsealed
        /\ q.runtime \in {"READY", "BUSY"} => r.runtime \in {"READY", "BUSY"}
        /\ r.runtime \in {"READY", "BUSY"} => q.runtime \in {"READY", "BUSY"}
    BY <2>2, <1>a, CompleteRows, <1>e
  <2>6. AtWork(n, q) BY <2>2, <2>4, <2>5, <1>a, <1>e DEF SameBut, SameCreate, AtWork
  <2>7. ASSUME NoReuse PROVE Owned(n, q, k, o, told) /\ (daemon # "down" => Covered(n, k, o))
    BY <2>2, <2>4, <2>5, <2>7, <1>a, <1>b DEF SameBut, SameCreate, AtWork, Owned, InHand,
         OnRecord, Permitted, Fresh, Covered, Watched, Early, Granted, Ended, Holding
  <2>8. Within(s) /\ (NoReuse => Listed(s)')
    BY <2>2, <2>4, <2>5, <1>a, <1>c, <1>l DEF SameBut, SameCreate, Early, Granted, Listed, Within,
         UnchangedControl
  <2>. QED BY <2>2, <2>3, <2>5, <2>6, <2>7, <1>a, <1>c, <2>8 DEF Sound, SealsDeadOnly,
       UnchangedControl, SameCreate
<1>8. CASE ResumesMonitoring(s)
  <2>1. n = [m EXCEPT !.suppressed = FALSE]
    BY <1>8, <1>i, OneEntry DEF ResumesMonitoring, Free, OnlyMemory
  <2>2. q = r /\ k = l /\ o = p BY <1>8, <1>i, OneEntry DEF ResumesMonitoring, Free, OnlyMemory
  <2>3. n \in Memory BY <2>1, <1>m, MemoryUpdates
  <2>4. SameBut(m, n, {}) BY <2>1, <2>3, <1>m DEF SameBut, Memory
  <2>5. AtWork(n, q) BY <2>2, <2>4, <1>a DEF SameBut, AtWork
  <2>6. ASSUME NoReuse PROVE Owned(n, q, k, o, told) /\ (daemon # "down" => Covered(n, k, o))
    BY <2>2, <2>4, <2>6, <1>a, <1>b DEF SameBut, AtWork, Owned, InHand, OnRecord, Permitted,
         Fresh, Covered, Watched, Early, Granted, Ended, Holding
  <2>7. Within(s) /\ (NoReuse => Listed(s)')
    BY <2>2, <2>4, <1>a, <1>c, <1>l DEF SameBut, Early, Granted, Listed, Within, UnchangedControl
  <2>. QED BY <2>2, <2>3, <2>5, <2>6, <1>a, <1>c, <2>7 DEF Sound, SealsDeadOnly, UnchangedControl
<1>9. CASE SummaryOfLoss(s)
  <2>1. n = [m EXCEPT !.job = "discard", !.suppressed = TRUE]
    BY <1>9, <1>i, OneEntry DEF SummaryOfLoss, CompleteExecution, Completed, Free, OnlyMemory
  <2>2. m.job = "run" /\ q = Completed(r, m.exec, "LOST", "LOST") /\ k = l /\ o = p
    BY <1>9, <1>i, OneEntry DEF SummaryOfLoss, CompleteExecution, Completed, Free, OnlyMemory
  <2>3. n \in Memory
    <3>. HIDE DEF m, n
    <3>. QED BY <2>1, <1>m, MemoryUpdates
  <2>4. SameBut(m, n, {"job"}) /\ n.job = "discard" BY <2>1, <2>3, <1>m DEF SameBut, Memory
  <2>5. /\ RowStep(r, q) /\ SameCreate(r, q) /\ q.owned = r.owned /\ q.unsealed = r.unsealed
        /\ q.runtime \in {"READY", "BUSY"} => r.runtime \in {"READY", "BUSY"}
    BY <2>2, <1>a, CompleteRows, <1>e
  <2>6. AtWork(n, q) BY <2>2, <2>4, <2>5, <1>a, <1>e DEF SameBut, SameCreate, AtWork
  <2>7. ASSUME NoReuse PROVE Owned(n, q, k, o, told) /\ (daemon # "down" => Covered(n, k, o))
    BY <2>2, <2>4, <2>5, <2>7, <1>a, <1>b DEF SameBut, SameCreate, AtWork, Owned, InHand,
         OnRecord, Permitted, Fresh, Covered, Watched, Early, Granted, Ended, Holding
  <2>8. Within(s) /\ (NoReuse => Listed(s)')
    BY <2>2, <2>4, <2>5, <1>a, <1>c, <1>l DEF SameBut, SameCreate, Early, Granted, Listed, Within,
         UnchangedControl
  <2>. QED BY <2>2, <2>3, <2>5, <2>6, <2>7, <1>a, <1>c, <2>8 DEF Sound, SealsDeadOnly,
       UnchangedControl, SameCreate
<1>10. CASE NoSummary(s)
  <2>1. n = [m EXCEPT !.job = "release"] BY <1>10, <1>i, OneEntry DEF NoSummary, Free, OnlyMemory
  <2>2. m.job = "run" /\ q = r /\ k = l /\ o = p
    BY <1>10, <1>i, OneEntry DEF NoSummary, Free, OnlyMemory
  <2>3. n \in Memory BY <2>1, <1>m, MemoryUpdates
  <2>4. SameBut(m, n, {"job"}) /\ n.job = "release" BY <2>1, <2>3, <1>m DEF SameBut, Memory
  <2>5. AtWork(n, q) BY <2>2, <2>4, <1>a DEF SameBut, AtWork
  <2>6. ASSUME NoReuse PROVE Owned(n, q, k, o, told) /\ (daemon # "down" => Covered(n, k, o))
    BY <2>2, <2>4, <2>6, <1>a, <1>b DEF SameBut, AtWork, Owned, InHand, OnRecord, Permitted,
         Fresh, Covered, Watched, Early, Granted, Ended, Holding
  <2>7. Within(s) /\ (NoReuse => Listed(s)')
    BY <2>2, <2>4, <1>a, <1>c, <1>l DEF SameBut, Early, Granted, Listed, Within, UnchangedControl
  <2>. QED BY <2>2, <2>3, <2>5, <2>6, <1>a, <1>c, <2>7 DEF Sound, SealsDeadOnly, UnchangedControl
<1>11. CASE JobReleased(s)
  <2>. DEFINE j == IF m.job = "release" THEN "complete" ELSE "none"
  <2>1. n = [m EXCEPT !.rel = "free", !.job = j]
    BY <1>11, <1>i, OneEntry DEF JobReleased
  <2>2. m.rel = "job" /\ m.step \in {"yes", "no"} /\ q = r /\ k = l /\ o = p
    BY <1>11, <1>i, OneEntry DEF JobReleased, Answered, Free, OnlyMemory
  <2>3. j \in {"complete", "none"} /\ (j = "complete" => m.job = "release") OBVIOUS
  <2>. HIDE DEF j
  <2>4. n \in Memory
    <3>. HIDE DEF m, n
    <3>. QED BY <2>1, <2>3, <1>m, MemoryUpdates
  <2>5. SameBut(m, n, {"rel", "job"}) /\ n.rel = "free" /\ n.job = j
    BY <2>1, <2>4 DEF SameBut, Memory
  <2>6. AtWork(n, q) BY <2>2, <2>3, <2>5, <1>a DEF SameBut, AtWork
  <2>7. ASSUME NoReuse PROVE Owned(n, q, k, o, told) /\ (daemon # "down" => Covered(n, k, o))
    BY <2>2, <2>3, <2>5, <2>7, <1>a, <1>b DEF SameBut, AtWork, Owned, InHand, OnRecord,
         Permitted, Fresh, Covered, Watched, Early, Granted, Ended, Holding
  <2>w. Within(s) /\ (NoReuse => Listed(s)')
    BY <2>2, <2>5, <1>a, <1>c, <1>l
       DEF Early, Granted, Listed, Within, UnchangedControl, SameBut
  <2>. QED BY <2>w, <2>2, <2>4, <2>6, <2>7, <1>a, <1>c
           DEF Sound, SealsDeadOnly, UnchangedControl
<1>12. CASE JobCompletes(s)
  <2>1. n = [Unlock(m, "job") EXCEPT !.job = "none"]
    BY <1>12, <1>i, OneEntry DEF JobCompletes, CompleteExecution, Completed, Free, OnlyMemory
  <2>2. m.job = "complete" /\ q = Completed(r, m.exec, "LOST", "LOST") /\ k = l /\ o = p
    BY <1>12, <1>i, OneEntry DEF JobCompletes, CompleteExecution, Completed, Free, OnlyMemory
  <2>3. /\ SameBut(m, n, {"job", "lock"}) /\ n.job = "none"
        /\ (m.lock = "kill" => n.lock = "kill")
    <3>. DEFINE u == Unlock(m, "job")
    <3>1. SameBut(m, u, {"lock"}) /\ (u.lock = m.lock \/ m.lock = "job") BY <1>m, UnlockKeeps
    <3>2. n = [u EXCEPT !.job = "none"] BY <2>1
    <3>. HIDE DEF m, n, u
    <3>3. u \in Memory /\ n \in Memory BY <3>1, <3>2, MemoryUpdates DEF SameBut
    <3>. QED BY <3>1, <3>2, <3>3 DEF SameBut, Memory
  <2>4. /\ RowStep(r, q) /\ SameCreate(r, q) /\ q.owned = r.owned /\ q.unsealed = r.unsealed
        /\ q.runtime \in {"READY", "BUSY"} => r.runtime \in {"READY", "BUSY"}
    BY <2>2, <1>a, CompleteRows, <1>e
  <2>5. AtWork(n, q) BY <2>2, <2>3, <2>4, <1>a, <1>e DEF SameBut, SameCreate, AtWork
  <2>6. ASSUME NoReuse PROVE Owned(n, q, k, o, told) /\ (daemon # "down" => Covered(n, k, o))
    BY <2>2, <2>3, <2>4, <2>6, <1>a, <1>b DEF SameBut, SameCreate, AtWork, Owned, InHand,
         OnRecord, Permitted, Fresh, Covered, Watched, Early, Granted, Ended, Holding
  <2>7. Within(s) /\ (NoReuse => Listed(s)')
    BY <2>2, <2>3, <2>4, <1>a, <1>c, <1>l DEF SameBut, SameCreate, Early, Granted, Listed, Within,
         UnchangedControl
  <2>. QED BY <2>2, <2>3, <2>4, <2>5, <2>6, <1>a, <1>c, <2>7 DEF Sound, SealsDeadOnly,
       UnchangedControl, SameBut, SameCreate
<1>. QED BY <1>1, <1>2, <1>3, <1>4, <1>5, <1>6, <1>7, <1>8, <1>9, <1>10, <1>11, <1>12 DEF JobStep

\* A step of the monitor changes the entries of its session.
LEMMA MonitorIsLocal ==
  ASSUME TypeOK, NEW s \in SessionIds, MonitorStep(s)
  PROVE  Local(s) /\ UnchangedControl
<1>. USE OneEntry DEF Local, OnlyMemory, Free, Mon
<1>1. CASE MonitorWakes(s) \/ MonitorLooks(s) \/ CallsBack(s)
  BY <1>1 DEF MonitorWakes, MonitorLooks, CallsBack
<1>2. CASE MonitorMarks(s) \/ MonitorReleased(s)
  BY <1>2 DEF MonitorMarks, MonitorReleased, MarkRuntimeLost
<1>. QED BY <1>1, <1>2 DEF MonitorStep

\* The monitor, and the loss it reports.
LEMMA MonitorKeeps ==
  ASSUME Invariant, NEW s \in SessionIds, MonitorStep(s)
  PROVE  Sound(s)
<1>. DEFINE m == mem[s]  n == mem'[s]  r == db[s]  q == db'[s]
            l == leases[s]  k == leases'[s]  p == proc[s]  o == proc'[s]  told == s \in stop.ctrls
<1>i. TypeOK /\ Local(s) BY MonitorIsLocal DEF Invariant
<1>a. /\ m \in Memory /\ r \in Row /\ l \in LeaseStates /\ p \in {"no", "worker", "tool"}
      /\ RowSound(r) /\ AtWork(m, r) /\ RowStep(r, r)
  BY AtSession, SameRow
<1>m. m \in Memory BY <1>a
<1>b. NoReuse => Owned(m, r, l, p, told) /\ (daemon # "down" => Covered(m, l, p))
  BY AtSession
<1>l. NoReuse => Listed(s) /\ Snapshots BY AtSession
<1>c. UnchangedControl BY <1>i, MonitorIsLocal
<1>1. CASE MonitorWakes(s) \/ MonitorLooks(s) \/ CallsBack(s)
  <2>1. PICK v \in {"watch", "look", "call", "mark", "ended"} :
          Set(s, [m EXCEPT !.mon = v]) /\ (v = "mark" => r.session # "none")
    <3>1. CASE MonitorWakes(s) BY <3>1 DEF MonitorWakes, Mon
    <3>2. CASE MonitorLooks(s)
      <4>. DEFINE v == CASE p = "tool" -> "watch"
                         [] p # "tool" /\ m.stopping -> "ended"
                         [] OTHER -> "call"
      <4>1. Set(s, [m EXCEPT !.mon = v]) BY <3>2 DEF MonitorLooks, Mon
      <4>2. v \in {"watch", "ended", "call"} OBVIOUS
      <4>. QED BY <4>1, <4>2
    <3>3. CASE CallsBack(s)
      <4>. DEFINE v == IF r.session = "none" \/ r.current # 0 THEN "ended" ELSE "mark"
      <4>1. Set(s, [m EXCEPT !.mon = v]) BY <3>3 DEF CallsBack, Mon
      <4>2. v \in {"ended", "mark"} /\ (v = "mark" => r.session # "none") OBVIOUS
      <4>. QED BY <4>1, <4>2
    <3>. QED BY <1>1, <3>1, <3>2, <3>3
  <2>2. n = [m EXCEPT !.mon = v] BY <2>1, <1>i, OneEntry
  <2>3. q = r /\ k = l /\ o = p
    BY <1>1, <1>i, OneEntry DEF MonitorWakes, MonitorLooks, CallsBack, OnlyMemory
  <2>4. n \in Memory
    <3>. HIDE DEF m, n
    <3>. QED BY <2>1, <2>2, <1>m, MemoryUpdates
  <2>5. SameBut(m, n, {"mon"}) /\ n.mon = v BY <2>2, <2>4 DEF SameBut, Memory
  <2>6. AtWork(n, q) BY <2>1, <2>3, <2>5, <1>a DEF SameBut, AtWork
  <2>7. ASSUME NoReuse PROVE Owned(n, q, k, o, told) /\ (daemon # "down" => Covered(n, k, o))
    <3>1. m.mon # "release" BY <1>1 DEF MonitorWakes, MonitorLooks, CallsBack
    <3>. QED BY <3>1, <2>1, <2>3, <2>5, <2>7, <1>a, <1>b DEF SameBut, AtWork, Owned, InHand,
                OnRecord, Permitted, Fresh, Covered, Watched, Early, Granted, Ended, Holding
  <2>w. Within(s) /\ (NoReuse => Listed(s)')
    BY <2>3, <2>5, <1>a, <1>c, <1>l
       DEF Early, Granted, Listed, Within, UnchangedControl, SameBut
  <2>. QED BY <2>w, <2>3, <2>4, <2>6, <2>7, <1>a, <1>c
           DEF Sound, SealsDeadOnly, UnchangedControl
<1>2. CASE MonitorMarks(s)
  <2>. DEFINE v == IF ControllerOf(s) THEN "release" ELSE "ended"
  <2>1. n = [m EXCEPT !.mon = v] BY <1>2, <1>i, OneEntry DEF MonitorMarks, Mon
  <2>2. m.mon = "mark" /\ q = LostRow(r) /\ k = l /\ o = p
    BY <1>2, <1>i, OneEntry DEF MonitorMarks, MarkRuntimeLost, LostRow
  <2>3. /\ v \in {"release", "ended"} /\ (v = "release" => m.ctrl \in {"listed", "pending"})
        /\ (v = "ended" => m.ctrl \notin {"listed", "pending"})
    BY DEF ControllerOf
  <2>. HIDE DEF v
  <2>4. n \in Memory
    <3>. HIDE DEF m, n
    <3>. QED BY <2>1, <2>3, <1>m, MemoryUpdates
  <2>5. SameBut(m, n, {"mon"}) /\ n.mon = v BY <2>1, <2>4 DEF SameBut, Memory
  <2>6. /\ RowStep(r, q) /\ SameCreate(r, q) /\ q.owned = r.owned /\ r.unsealed \subseteq q.unsealed
        /\ q.runtime \notin {"READY", "BUSY"}
    BY <2>2, <1>a, LostRows
  <2>7. AtWork(n, q) BY <2>2, <2>3, <2>5, <2>6, <1>a DEF SameBut, SameCreate, AtWork
  <2>8. ASSUME NoReuse PROVE Owned(n, q, k, o, told) /\ (daemon # "down" => Covered(n, k, o))
    BY <2>2, <2>3, <2>5, <2>6, <2>8, <1>a, <1>b DEF SameBut, SameCreate, AtWork, Owned, InHand,
       OnRecord, Permitted, Fresh, Covered, Watched, Early, Granted, Ended, Holding
  <2>w. Within(s) /\ (NoReuse => Listed(s)')
    BY <2>2, <2>5, <2>6, <1>a, <1>c, <1>l
       DEF Early, Granted, Listed, Within, UnchangedControl, SameBut, SameCreate
  <2>. QED BY <2>w, <2>2, <2>4, <2>6, <2>7, <2>8, <1>a, <1>c
           DEF Sound, SealsDeadOnly, UnchangedControl
<1>3. CASE MonitorReleased(s)
  <2>1. n = [m EXCEPT !.rel = "free", !.mon = "ended"]
    BY <1>3, <1>i, OneEntry DEF MonitorReleased, Answered, Free, OnlyMemory
  <2>2. m.rel = "mon" /\ m.step \in {"yes", "no"} /\ q = r /\ k = l /\ o = p
    BY <1>3, <1>i, OneEntry DEF MonitorReleased, Answered, Free, OnlyMemory
  <2>3. n \in Memory
    <3>. HIDE DEF m, n
    <3>. QED BY <2>1, <1>m, MemoryUpdates
  <2>4. SameBut(m, n, {"rel", "mon"}) /\ n.rel = "free" /\ n.mon = "ended"
    BY <2>1, <2>3, <1>m DEF SameBut, Memory
  <2>5. AtWork(n, q) BY <2>2, <2>4, <1>a DEF SameBut, AtWork
  <2>6. ASSUME NoReuse PROVE Owned(n, q, k, o, told) /\ (daemon # "down" => Covered(n, k, o))
    BY <2>2, <2>4, <2>6, <1>a, <1>b DEF SameBut, AtWork, Owned, InHand, OnRecord, Permitted,
         Fresh, Covered, Watched, Early, Granted, Ended, Holding
  <2>7. Within(s) /\ (NoReuse => Listed(s)')
    BY <2>2, <2>4, <1>a, <1>c, <1>l DEF SameBut, Early, Granted, Listed, Within, UnchangedControl
  <2>. QED BY <2>2, <2>3, <2>5, <2>6, <1>a, <1>c, <2>7 DEF Sound, SealsDeadOnly, UnchangedControl
<1>. QED BY <1>1, <1>2, <1>3 DEF MonitorStep

\* A request, the death of a process and the start of a tool change the entries of a session.
LEMMA RequestIsLocal ==
  ASSUME TypeOK, NEW s \in SessionIds,
         \/ Create(s) \/ CreateRefused(s) \/ Destroy(s) \/ ProcessDies(s) \/ ProcessStep(s)
  PROVE  Local(s) /\ UnchangedControl
<1>. USE OneEntry DEF Local, OnlyMemory, Task, Free
<1>1. CASE Create(s) \/ CreateRefused(s)
  BY <1>1 DEF Create, CreateRefused, BeginCreateRequest, RefuseCreateRequest
<1>2. CASE Destroy(s) \/ ProcessDies(s) \/ StrayExits(s)
  BY <1>2 DEF Destroy, ProcessDies, StrayExits
<1>3. CASE WorkerStartsTool(s)
  BY <1>3 DEF WorkerStartsTool, TypeOK
<1>. QED BY <1>1, <1>2, <1>3 DEF ProcessStep

\* What comes from outside: requests, deaths, and what a process does by itself.
LEMMA RequestKeeps ==
  ASSUME Invariant, NEW s \in SessionIds,
         \/ Create(s) \/ CreateRefused(s) \/ Destroy(s) \/ ProcessDies(s) \/ ProcessStep(s)
  PROVE  Sound(s)
<1>. DEFINE m == mem[s]  n == mem'[s]  r == db[s]  q == db'[s]
            l == leases[s]  k == leases'[s]  p == proc[s]  o == proc'[s]  told == s \in stop.ctrls
<1>i. TypeOK /\ Local(s) BY RequestIsLocal DEF Invariant
<1>a. /\ m \in Memory /\ r \in Row /\ l \in LeaseStates /\ p \in {"no", "worker", "tool"}
      /\ RowSound(r) /\ AtWork(m, r) /\ RowStep(r, r)
  BY AtSession, SameRow
<1>m. m \in Memory BY <1>a
<1>b. NoReuse => Owned(m, r, l, p, told) /\ (daemon # "down" => Covered(m, l, p))
  BY AtSession
<1>l. NoReuse => Listed(s) /\ Snapshots BY AtSession
<1>c. UnchangedControl BY <1>i, RequestIsLocal
<1>1. CASE Create(s)
  <2>s. NoReuse => m.rel # "stop"
    BY <1>1, AtSession DEF Create, Phases, Listed, Running
  <2>t. stop = Running BY <1>1, AtSession DEF Create, Phases
  <2>1. n = [m EXCEPT !.task = "acquire"]
    BY <1>1, <1>i, OneEntry DEF Create, BeginCreateRequest, Task
  <2>2. r.create = "none" /\ q = [r EXCEPT !.create = "PENDING"] /\ k = l /\ o = p
    BY <1>1, <1>i, OneEntry DEF Create, BeginCreateRequest, Task
  <2>3. n \in Memory BY <2>1, <1>m, MemoryUpdates
  <2>4. SameBut(m, n, {"task"}) /\ n.task = "acquire" BY <2>1, <2>3, <1>m DEF SameBut, Memory
  <2>5. /\ RowStep(r, q) /\ SameRuntime(r, q) /\ q.startup = r.startup
        /\ q.create = "PENDING" /\ r.session = "none" /\ r.startup = "none" /\ ~r.owned
    BY <2>2, <1>a, CreateRows DEF RowSound, Row
  <2>6. AtWork(n, q) BY <2>2, <2>4, <2>5, <1>a DEF SameBut, SameRuntime, AtWork
  <2>7. ASSUME NoReuse PROVE Owned(n, q, k, o, told) /\ (daemon # "down" => Covered(n, k, o))
    BY <2>2, <2>4, <2>5, <2>7, <1>a, <1>b, <2>s DEF SameBut, SameRuntime, AtWork, Owned, InHand,
         OnRecord, Permitted, Fresh, Covered, Watched, Early, Granted, Ended, Holding
  <2>8. Within(s) /\ (NoReuse => Listed(s)')
    BY <2>2, <2>4, <2>5, <1>a, <1>c, <1>l, <2>t DEF SameBut, SameRuntime, Early, Granted, Listed,
         Within, UnchangedControl, Running
  <2>. QED BY <2>2, <2>3, <2>5, <2>6, <2>7, <1>a, <1>c, <2>8 DEF Sound, SealsDeadOnly,
       UnchangedControl, SameRuntime
<1>2. CASE CreateRefused(s)
  <2>1. r.create = "none" /\ n = m /\ q = [r EXCEPT !.create = "FAILED"] /\ k = l /\ o = p
    BY <1>2, <1>i, OneEntry DEF CreateRefused, RefuseCreateRequest
  <2>2. RowStep(r, q) /\ SameRuntime(r, q) /\ q.startup = r.startup /\ q.create = "FAILED"
    BY <2>1, <1>a, CreateRows DEF Row
  <2>3. AtWork(n, q) BY <2>1, <2>2, <1>a DEF SameRuntime, AtWork
  <2>4. ASSUME NoReuse PROVE Owned(n, q, k, o, told) /\ (daemon # "down" => Covered(n, k, o))
    BY <2>1, <2>2, <2>4, <1>a, <1>b DEF SameRuntime, AtWork, Owned, InHand, OnRecord, Permitted,
         Fresh, Covered, Watched, Early, Granted, Ended, Holding
  <2>5. Within(s) /\ (NoReuse => Listed(s)')
    BY <2>1, <2>2, <1>a, <1>c, <1>l DEF SameRuntime, Early, Granted, Listed, Within,
         UnchangedControl
  <2>. QED BY <2>1, <2>2, <2>3, <2>4, <1>a, <1>c, <2>5 DEF Sound, SealsDeadOnly, UnchangedControl,
       SameRuntime
<1>3. CASE Destroy(s)
  <2>. DEFINE v == CASE ControllerOf(s)           -> "release"
                     [] ~ControllerOf(s) /\ m.orphan # "none" -> "orphan"
                     [] OTHER                     -> "closeN"
  <2>1. n = [m EXCEPT !.lock = "kill", !.kill = v] BY <1>3, <1>i, OneEntry DEF Destroy
  <2>2. m.lock = "free" /\ r.session = "ACTIVE" /\ q = r /\ k = l /\ o = p
    BY <1>3, <1>i, OneEntry DEF Destroy, OnlyMemory
  <2>3. /\ v \in {"release", "orphan", "closeN"}
        /\ (v = "release" <=> m.ctrl \in {"listed", "pending"})
        /\ (v = "orphan" => m.orphan # "none")
    BY DEF ControllerOf
  <2>. HIDE DEF v
  <2>4. n \in Memory
    <3>. HIDE DEF m, n
    <3>. QED BY <2>1, <2>3, <1>m, MemoryUpdates
  <2>5. SameBut(m, n, {"kill", "lock"}) /\ n.kill = v /\ n.lock = "kill"
    BY <2>1, <2>4 DEF SameBut, Memory
  <2>6. AtWork(n, q) BY <2>2, <2>3, <2>5, <1>a DEF SameBut, AtWork
  <2>7. ASSUME NoReuse PROVE Owned(n, q, k, o, told) /\ (daemon # "down" => Covered(n, k, o))
    BY <2>2, <2>3, <2>5, <2>7, <1>a, <1>b DEF SameBut, AtWork, Owned, InHand,
       OnRecord, Permitted, Fresh, Covered, Watched, Early, Granted, Ended, Holding
  <2>w. Within(s) /\ (NoReuse => Listed(s)')
    BY <2>2, <2>5, <1>a, <1>c, <1>l
       DEF Early, Granted, Listed, Within, UnchangedControl, SameBut
  <2>. QED BY <2>w, <2>2, <2>4, <2>6, <2>7, <1>a, <1>c
           DEF Sound, SealsDeadOnly, UnchangedControl
<1>4. CASE ProcessDies(s)
  <2>1. n = m /\ q = r /\ k = l /\ o = "no" BY <1>4, <1>i, OneEntry DEF ProcessDies
  <2>2. AtWork(n, q) BY <2>1, <1>a DEF AtWork
  <2>3. ASSUME NoReuse PROVE Owned(n, q, k, o, told) /\ (daemon # "down" => Covered(n, k, o))
    BY <2>1, <2>3, <1>a, <1>b DEF AtWork, Owned, InHand, OnRecord, Permitted, Fresh, Covered,
         Watched, Early, Granted, Ended, Holding
  <2>4. Within(s) /\ (NoReuse => Listed(s)')
    BY <2>1, <1>a, <1>c, <1>l DEF Early, Granted, Listed, Within, UnchangedControl
  <2>. QED BY <2>1, <2>2, <2>3, <1>a, <1>c, <2>4 DEF Sound, SealsDeadOnly, UnchangedControl
<1>5. CASE WorkerStartsTool(s)
  <2>1. p = "worker" /\ n = m /\ q = r /\ k = l /\ o = "tool"
    BY <1>5, <1>i, OneEntry DEF WorkerStartsTool, TypeOK
  <2>2. AtWork(n, q) BY <2>1, <1>a DEF AtWork
  <2>3. ASSUME NoReuse PROVE Owned(n, q, k, o, told) /\ (daemon # "down" => Covered(n, k, o))
    BY <2>1, <2>3, <1>a, <1>b DEF AtWork, Owned, InHand, OnRecord, Permitted, Fresh, Covered,
         Watched, Early, Granted, Ended, Holding
  <2>4. Within(s) /\ (NoReuse => Listed(s)')
    BY <2>1, <1>a, <1>c, <1>l DEF Early, Granted, Listed, Within, UnchangedControl
  <2>. QED BY <2>1, <2>2, <2>3, <1>a, <1>c, <2>4 DEF Sound, SealsDeadOnly, UnchangedControl
<1>6. CASE StrayExits(s)
  <2>1. n = m /\ q = r /\ k = l /\ o = "no" BY <1>6, <1>i, OneEntry DEF StrayExits
  <2>2. AtWork(n, q) BY <2>1, <1>a DEF AtWork
  <2>3. ASSUME NoReuse PROVE Owned(n, q, k, o, told) /\ (daemon # "down" => Covered(n, k, o))
    BY <2>1, <2>3, <1>a, <1>b DEF AtWork, Owned, InHand, OnRecord, Permitted, Fresh, Covered,
         Watched, Early, Granted, Ended, Holding
  <2>4. Within(s) /\ (NoReuse => Listed(s)')
    BY <2>1, <1>a, <1>c, <1>l DEF Early, Granted, Listed, Within, UnchangedControl
  <2>. QED BY <2>1, <2>2, <2>3, <1>a, <1>c, <2>4 DEF Sound, SealsDeadOnly, UnchangedControl
<1>. QED BY <1>1, <1>2, <1>3, <1>4, <1>5, <1>6 DEF ProcessStep

-----------------------------------------------------------------------------
(* The actions of destroy_workspace_session, and the release of an orphan *)

\* Only a removal that fails leaves a cleanup undone, if the session is on record.
LEMMA Uncleaned ==
  ASSUME TypeOK, NEW s \in SessionIds, NEW kind, CannotClean(s, kind),
         kind = "session" => db[s].runtime # "none"
  PROVE  MaxIoFaults # 0
<1>1. Spend("io") BY DEF CannotClean
<1>2. spent["io"] < MaxIoFaults BY <1>1 DEF Spend, Bound
<1>3. spent["io"] \in Nat BY DEF TypeOK, Bound
<1>. QED BY <1>2, <1>3, ServiceAssumption

\* What is left of a row after a cleanup, done or not done: no process comes back on record.
Cleaned(r, q) ==
  /\ RowStep(r, q) /\ q.create = r.create /\ q.session = r.session /\ q.runtime = r.runtime
  /\ (q.owned => r.owned) /\ q.startup \in {r.startup, "none"}

\* That is what the cleanup makes of a row, and what it leaves if it cannot be done.
LEMMA CleanupRows ==
  ASSUME TypeOK, NEW s \in SessionIds, RowSound(db[s]), NEW kind \in {"none", "request", "session"},
         Cleans(s, kind) \/ CannotClean(s, kind)
  PROVE  /\ Cleaned(db[s], db'[s])
         /\ db' = [db EXCEPT ![s] = db'[s]]
         /\ kind = "request" => db'[s].unsealed = db[s].unsealed /\ db'[s].owned = db[s].owned
         /\ kind = "session" => db'[s].startup = db[s].startup
         /\ Cleans(s, kind) => (kind = "session" => ~db'[s].owned)
         /\ Cleans(s, kind) => (kind = "request" => db'[s].startup = "none")
<1>. DEFINE r == db[s]  q == db'[s]
<1>a. r \in Row BY DEF TypeOK
<1>1. CASE kind = "request" /\ Cleans(s, kind)
  <2>1. q = [r EXCEPT !.startup = "none"] /\ db' = [db EXCEPT ![s] = q]
    BY <1>1, OneEntry DEF Cleans, ClearRuntimeStartup
  <2>2. RowStep(r, q) /\ SameRuntime(r, q) /\ q.startup = "none" /\ q.create = r.create
    BY <2>1, <1>a, StartupRows
  <2>. QED BY <2>1, <2>2, <1>1 DEF Cleaned, SameRuntime
<1>2. CASE kind = "request" /\ CannotClean(s, kind)
  <2>1. q = r /\ db' = [db EXCEPT ![s] = q] BY <1>2, OneEntry DEF CannotClean
  <2>2. ~Cleans(s, kind) \/ q.startup = "none"
    <3>1. CASE Cleans(s, kind)
      <4>1. q = [r EXCEPT !.startup = "none"]
        BY <3>1, <1>2, OneEntry DEF Cleans, ClearRuntimeStartup
      <4>. QED BY <4>1, <1>a DEF Row
    <3>. QED BY <3>1
  <2>. QED BY <2>1, <2>2, <1>2, <1>a, SameRow DEF Cleaned
<1>3. CASE kind # "request" /\ Cleans(s, kind)
  <2>1. q = CleanedRow(r) /\ db' = [db EXCEPT ![s] = q]
    BY <1>3, OneEntry DEF Cleans, CleanedRow
  <2>2. /\ RowStep(r, q) /\ SameCreate(r, q) /\ q.runtime = r.runtime /\ ~q.owned
    BY <2>1, <1>a, SealRows
  <2>. QED BY <2>1, <2>2, <1>3 DEF Cleaned, SameCreate
<1>4. CASE kind = "session" /\ CannotClean(s, kind) /\ ~Cleans(s, kind)
  <2>1. q = SealedRow(r) /\ db' = [db EXCEPT ![s] = q]
    BY <1>4, OneEntry DEF CannotClean, SealLostLogs, SealedRow
  <2>2. /\ RowStep(r, q) /\ SameCreate(r, q) /\ q.runtime = r.runtime /\ q.owned = r.owned
    BY <2>1, <1>a, SealRows
  <2>. QED BY <2>1, <2>2, <1>4 DEF Cleaned, SameCreate
<1>5. CASE kind = "none" /\ CannotClean(s, kind) /\ ~Cleans(s, kind)
  <2>1. q = r /\ db' = [db EXCEPT ![s] = q] BY <1>5, OneEntry DEF CannotClean
  <2>. QED BY <2>1, <1>5, <1>a, SameRow DEF Cleaned
<1>. QED BY <1>1, <1>2, <1>3, <1>4, <1>5

\* The release of an orphan changes the entries of its session.
LEMMA OrphanIsLocal ==
  ASSUME TypeOK, NEW s \in SessionIds, NEW x, OrphanReleased(s, x)
  PROVE  Local(s)
BY OneEntry DEF Local, OrphanReleased, Cleans, CannotClean, SealLostLogs, ClearRuntimeStartup

\* An orphan that is released has no process and no permit, and no record but what the
\* sweep will clean.
LEMMA OrphanKeeps ==
  ASSUME Invariant, NEW s \in SessionIds, mem[s].orphan # "none", stop'.ctrls = stop.ctrls,
         sweep'.clean \subseteq sweep.clean, sweep'.pending \subseteq sweep.pending,
         sweep'.at = sweep.at, sweep'.todo = sweep.todo,
         NEW c \in {mem[s].kill, "closeT"}, c # mem[s].kill => mem[s].kill = "orphan",
         NEW x, x = [mem[s] EXCEPT !.kill = c], OrphanReleased(s, x)
  PROVE  Sound(s)
<1>. DEFINE m == mem[s]  n == mem'[s]  r == db[s]  q == db'[s]
            l == leases[s]  k == leases'[s]  p == proc[s]  o == proc'[s]  told == s \in stop.ctrls
<1>i. TypeOK /\ Local(s) BY OrphanIsLocal DEF Invariant
<1>a. /\ m \in Memory /\ r \in Row /\ l \in LeaseStates /\ p \in {"no", "worker", "tool"}
      /\ RowSound(r) /\ AtWork(m, r) /\ RowStep(r, r)
  BY AtSession, SameRow
<1>m. m \in Memory BY <1>a
<1>b. NoReuse => Owned(m, r, l, p, told) /\ (daemon # "down" => Covered(m, l, p))
  BY AtSession
<1>l. NoReuse => Listed(s) /\ Snapshots BY AtSession
<1>c. stop'.ctrls = stop.ctrls OBVIOUS
<1>1. x \in Memory
  <2>1. c \in {"none", "release", "orphan", "closeT", "closeF", "closeN", "seal"} BY <1>a DEF Memory
  <2>. QED BY <2>1, <1>a, MemoryUpdates
<1>2. SameBut(m, x, {"kill"}) /\ x.kill = c BY <1>1, <1>a DEF SameBut, Memory
<1>. DEFINE kind == IF x.orphan = "unknown" THEN "request" ELSE x.orphan
<1>3. kind \in {"request", "session"} /\ (kind = "session" => m.orphan = "session")
  BY <1>a, <1>2 DEF Memory, SameBut
<1>4. k = "none" /\ o = "no" BY <1>i, OneEntry DEF OrphanReleased
<1>5. \/ Cleans(s, kind) /\ Set(s, [x EXCEPT !.orphan = "none"])
      \/ CannotClean(s, kind) /\ Set(s, [x EXCEPT !.orphan = "none", !.dirty = kind])
  BY DEF OrphanReleased
<1>. HIDE DEF kind
<1>6. PICK d \in {m.dirty, kind} :
        /\ SameBut(x, n, {"orphan", "dirty"}) /\ n.orphan = "none" /\ n.dirty = d
        /\ (Cleans(s, kind) /\ d = m.dirty) \/ (CannotClean(s, kind) /\ d = kind)
  <2>1. CASE Cleans(s, kind) /\ Set(s, [x EXCEPT !.orphan = "none"])
    <3>1. n = [x EXCEPT !.orphan = "none"] BY <2>1, <1>i, OneEntry
    <3>2. n \in Memory
      <4>. HIDE DEF m, n
      <4>. QED BY <3>1, <1>1, MemoryUpdates
    <3>3. SameBut(x, n, {"orphan", "dirty"}) /\ n.orphan = "none" /\ n.dirty = x.dirty
      BY <3>1, <3>2, <1>1 DEF SameBut, Memory
    <3>4. x.dirty = m.dirty BY <1>2 DEF SameBut
    <3>. QED BY <3>3, <3>4, <2>1
  <2>2. CASE CannotClean(s, kind) /\ Set(s, [x EXCEPT !.orphan = "none", !.dirty = kind])
    <3>1. n = [x EXCEPT !.orphan = "none", !.dirty = kind] BY <2>2, <1>i, OneEntry
    <3>2. n \in Memory
      <4>1. kind \in {"none", "request", "session"} BY <1>3
      <4>. HIDE DEF m, n
      <4>. QED BY <4>1, <3>1, <1>1, MemoryUpdates
    <3>3. SameBut(x, n, {"orphan", "dirty"}) /\ n.orphan = "none" /\ n.dirty = kind
      BY <3>1, <3>2, <1>1 DEF SameBut, Memory
    <3>. QED BY <3>3, <2>2
  <2>. QED BY <2>1, <2>2, <1>5
<1>7. Cleaned(r, q) BY <1>3, <1>6, <1>i, <1>a, CleanupRows
<1>8. n \in Memory BY <1>6 DEF SameBut
<1>9. SameBut(m, n, {"kill", "orphan", "dirty"}) /\ n.kill = c /\ n.orphan = "none" /\ n.dirty = d
  <2>1. n.kill = c BY <1>2, <1>6 DEF SameBut
  <2>. QED BY <2>1, <1>2, <1>6 DEF SameBut
<1>10. AtWork(n, q) BY <1>7, <1>9, <1>a DEF SameBut, Cleaned, AtWork
<1>11. ASSUME NoReuse PROVE Owned(n, q, k, o, told) /\ (daemon # "down" => Covered(n, k, o))
  <2>0. Owned(m, r, l, p, told) BY <1>b, <1>11
  <2>1. MaxIoFaults = 0 => d = "none"
    <3>1. kind = "session" => r.runtime # "none" BY <1>3, <1>a, <2>0 DEF Owned, OnRecord, RowSound
    <3>2. CannotClean(s, kind) => MaxIoFaults # 0 BY <3>1, <1>i, Uncleaned
    <3>. QED BY <3>2, <2>0, <1>6 DEF Owned
  <2>. QED BY <2>0, <2>1, <1>4, <1>7, <1>9, <1>a DEF Cleaned, SameBut, AtWork, Owned, InHand,
           OnRecord, Permitted, Fresh, Covered, Watched, Early, Granted, Ended, Holding
<1>12. Within(s) /\ (NoReuse => Listed(s)')
  <2>1. NoReuse => m.ctrl = "none" /\ m.task = "none" /\ m.rel = "free"
    BY <1>b, <1>a DEF Owned, InHand, Memory
  <2>2. NoReuse => s \notin sweep'.clean \/ d # "none"
    BY <1>6, <1>3, <1>b, <1>l DEF Listed, Owned, InHand
  <2>. QED BY <2>1, <2>2, <1>4, <1>7, <1>9, <1>a, <1>c, <1>l
           DEF Listed, Within, Early, Granted, SameBut, Cleaned
<1>. QED BY <1>4, <1>7, <1>8, <1>10, <1>11, <1>12, <1>c
         DEF Sound, SealsDeadOnly, Cleaned, LeaseStates

\* A step of destroy_workspace_session changes the entries of its session.
LEMMA DestroyIsLocal ==
  ASSUME TypeOK, NEW s \in SessionIds, DestroyStep(s)
  PROVE  Local(s) /\ UnchangedControl
<1>. USE OneEntry DEF Local, OnlyMemory, Free
<1>1. CASE DestroyReleased(s) \/ DestroyKeepsOrphan(s)
  BY <1>1 DEF DestroyReleased, DestroyKeepsOrphan
<1>2. CASE DestroyReleasesOrphan(s)
  <2>1. UnchangedControl BY <1>2 DEF DestroyReleasesOrphan
  <2>2. CASE mem[s].orphan = "none"
    BY <1>2, <2>1, <2>2 DEF DestroyReleasesOrphan
  <2>3. CASE mem[s].orphan # "none"
    BY <1>2, <2>1, <2>3, OrphanIsLocal DEF DestroyReleasesOrphan
  <2>. QED BY <2>2, <2>3
<1>3. CASE DestroyCloses(s) \/ DestroySeals(s)
  BY <1>3 DEF DestroyCloses, DestroySeals, CloseWorkspaceSession, SealLostLogs
<1>. QED BY <1>1, <1>2, <1>3 DEF DestroyStep

\* The destroy of a session: what it closes, it has terminated or leaves to the sweep.
LEMMA DestroyKeeps ==
  ASSUME Invariant, NEW s \in SessionIds, DestroyStep(s)
  PROVE  Sound(s)
<1>. DEFINE m == mem[s]  n == mem'[s]  r == db[s]  q == db'[s]
            l == leases[s]  k == leases'[s]  p == proc[s]  o == proc'[s]  told == s \in stop.ctrls
<1>i. TypeOK /\ Local(s) BY DestroyIsLocal DEF Invariant
<1>a. /\ m \in Memory /\ r \in Row /\ l \in LeaseStates /\ p \in {"no", "worker", "tool"}
      /\ RowSound(r) /\ AtWork(m, r) /\ RowStep(r, r)
  BY AtSession, SameRow
<1>m. m \in Memory BY <1>a
<1>b. NoReuse => Owned(m, r, l, p, told) /\ (daemon # "down" => Covered(m, l, p))
  BY AtSession
<1>l. NoReuse => Listed(s) /\ Snapshots BY AtSession
<1>c. UnchangedControl BY <1>i, DestroyIsLocal
<1>1. CASE DestroyReleased(s) /\ m.step = "yes"
  <2>1. n = [m EXCEPT !.rel = "free", !.kill = "closeT"]
    BY <1>1, <1>i, OneEntry DEF DestroyReleased, Answered, Confirmed, Free, OnlyMemory
  <2>2. m.rel = "kill" /\ m.step = "yes" /\ q = r /\ k = l /\ o = p
    BY <1>1, <1>i, OneEntry DEF DestroyReleased, Answered, Confirmed, Free, OnlyMemory
  <2>3. n \in Memory
    <3>. HIDE DEF m, n
    <3>. QED BY <2>1, <1>m, MemoryUpdates
  <2>4. SameBut(m, n, {"rel", "kill"}) /\ n.rel = "free" /\ n.kill = "closeT"
    BY <2>1, <2>3, <1>m DEF SameBut, Memory
  <2>5. AtWork(n, q) BY <2>2, <2>4, <1>a DEF SameBut, AtWork
  <2>6. ASSUME NoReuse PROVE Owned(n, q, k, o, told) /\ (daemon # "down" => Covered(n, k, o))
    BY <2>2, <2>4, <2>6, <1>a, <1>b DEF SameBut, AtWork, Owned, InHand, OnRecord, Permitted,
         Fresh, Covered, Watched, Early, Granted, Ended, Holding
  <2>7. Within(s) /\ (NoReuse => Listed(s)')
    BY <2>2, <2>4, <1>a, <1>c, <1>l DEF SameBut, Early, Granted, Listed, Within, UnchangedControl
  <2>. QED BY <2>2, <2>3, <2>5, <2>6, <1>a, <1>c, <2>7 DEF Sound, SealsDeadOnly, UnchangedControl
<1>2. CASE DestroyReleased(s) /\ m.step # "yes"
  <2>1. n = [m EXCEPT !.rel = "free", !.kill = "closeF"]
    BY <1>2, <1>i, OneEntry DEF DestroyReleased, Answered, Confirmed, Free, OnlyMemory
  <2>2. m.rel = "kill" /\ m.step = "no" /\ q = r /\ k = l /\ o = p
    BY <1>2, <1>i, OneEntry DEF DestroyReleased, Answered, Confirmed, Free, OnlyMemory
  <2>3. n \in Memory
    <3>. HIDE DEF m, n
    <3>. QED BY <2>1, <1>m, MemoryUpdates
  <2>4. SameBut(m, n, {"rel", "kill"}) /\ n.rel = "free" /\ n.kill = "closeF"
    BY <2>1, <2>3, <1>m DEF SameBut, Memory
  <2>5. AtWork(n, q) BY <2>2, <2>4, <1>a DEF SameBut, AtWork
  <2>6. ASSUME NoReuse PROVE Owned(n, q, k, o, told) /\ (daemon # "down" => Covered(n, k, o))
    BY <2>2, <2>4, <2>6, <1>a, <1>b DEF SameBut, AtWork, Owned, InHand, OnRecord, Permitted,
         Fresh, Covered, Watched, Early, Granted, Ended, Holding
  <2>7. Within(s) /\ (NoReuse => Listed(s)')
    BY <2>2, <2>4, <1>a, <1>c, <1>l DEF SameBut, Early, Granted, Listed, Within, UnchangedControl
  <2>. QED BY <2>2, <2>3, <2>5, <2>6, <1>a, <1>c, <2>7 DEF Sound, SealsDeadOnly, UnchangedControl
<1>3. CASE DestroyReleasesOrphan(s) /\ m.orphan = "none"
  <2>1. n = [m EXCEPT !.kill = "closeT"]
    BY <1>3, <1>i, OneEntry DEF DestroyReleasesOrphan, Free, OnlyMemory
  <2>2. m.kill = "orphan" /\ m.orphan = "none" /\ q = r /\ k = l /\ o = p
    BY <1>3, <1>i, OneEntry DEF DestroyReleasesOrphan, Free, OnlyMemory
  <2>3. n \in Memory BY <2>1, <1>m, MemoryUpdates
  <2>4. SameBut(m, n, {"kill"}) /\ n.kill = "closeT" BY <2>1, <2>3, <1>m DEF SameBut, Memory
  <2>5. AtWork(n, q) BY <2>2, <2>4, <1>a DEF SameBut, AtWork
  <2>6. ASSUME NoReuse PROVE Owned(n, q, k, o, told) /\ (daemon # "down" => Covered(n, k, o))
    BY <2>2, <2>4, <2>6, <1>a, <1>b DEF SameBut, AtWork, Owned, InHand, OnRecord, Permitted,
         Fresh, Covered, Watched, Early, Granted, Ended, Holding
  <2>7. Within(s) /\ (NoReuse => Listed(s)')
    BY <2>2, <2>4, <1>a, <1>c, <1>l DEF SameBut, Early, Granted, Listed, Within, UnchangedControl
  <2>. QED BY <2>2, <2>3, <2>5, <2>6, <1>a, <1>c, <2>7 DEF Sound, SealsDeadOnly, UnchangedControl
<1>4. CASE DestroyReleasesOrphan(s) /\ m.orphan # "none"
  <2>1. m.kill = "orphan" /\ OrphanReleased(s, [m EXCEPT !.kill = "closeT"])
    BY <1>4 DEF DestroyReleasesOrphan
  <2>2. stop' = stop /\ sweep' = sweep BY <1>c DEF UnchangedControl
  <2>3. PICK c : c = "closeT" OBVIOUS
  <2>4. PICK x : x = [m EXCEPT !.kill = c] OBVIOUS
  <2>. QED BY <2>1, <2>2, <2>3, <2>4, <1>4, OrphanKeeps
<1>5. CASE DestroyKeepsOrphan(s)
  <2>1. n = [m EXCEPT !.kill = "closeN"]
    BY <1>5, <1>i, OneEntry DEF DestroyKeepsOrphan, Free, OnlyMemory
  <2>2. m.kill = "orphan" /\ m.orphan # "none" /\ q = r /\ k = l /\ o = p
    BY <1>5, <1>i, OneEntry DEF DestroyKeepsOrphan, Free, OnlyMemory
  <2>3. n \in Memory BY <2>1, <1>m, MemoryUpdates
  <2>4. SameBut(m, n, {"kill"}) /\ n.kill = "closeN" BY <2>1, <2>3, <1>m DEF SameBut, Memory
  <2>5. AtWork(n, q) BY <2>2, <2>4, <1>a DEF SameBut, AtWork
  <2>6. ASSUME NoReuse PROVE Owned(n, q, k, o, told) /\ (daemon # "down" => Covered(n, k, o))
    BY <2>2, <2>4, <2>6, <1>a, <1>b DEF SameBut, AtWork, Owned, InHand, OnRecord, Permitted,
         Fresh, Covered, Watched, Early, Granted, Ended, Holding
  <2>7. Within(s) /\ (NoReuse => Listed(s)')
    BY <2>2, <2>4, <1>a, <1>c, <1>l DEF SameBut, Early, Granted, Listed, Within, UnchangedControl
  <2>. QED BY <2>2, <2>3, <2>5, <2>6, <1>a, <1>c, <2>7 DEF Sound, SealsDeadOnly, UnchangedControl
<1>6. CASE DestroyCloses(s)
  <2>. DEFINE owned   == WithoutCurrent(r).owned /\ ~(m.kill = "closeT")
              stopped == \/ m.kill = "closeT"
                         \/ m.kill = "closeN" /\ m.orphan = "none" /\ p = "no"
  <2>1. m.kill \in {"closeT", "closeF", "closeN"} /\ q = ClosedRow(r, owned) /\ k = l /\ o = p
    BY <1>6, <1>i, OneEntry DEF DestroyCloses, CloseWorkspaceSession, ClosedRow
  <2>2. n = IF stopped THEN [m EXCEPT !.kill = "seal"]
            ELSE [Unlock(m, "kill") EXCEPT !.kill = "none"]
    BY <1>6, <1>i, OneEntry DEF DestroyCloses
  <2>3. /\ SameBut(m, n, {"kill", "lock"}) /\ n.kill \in {"seal", "none"}
        /\ n.kill = "seal" => stopped /\ n.lock = m.lock
    <3>1. CASE stopped
      <4>1. n = [m EXCEPT !.kill = "seal"] BY <2>2, <3>1
      <4>2. n \in Memory BY <4>1, <1>m, MemoryUpdates
      <4>3. SameBut(m, n, {"kill", "lock"}) /\ n.kill = "seal" /\ n.lock = m.lock
        BY <4>1, <4>2 DEF SameBut, Memory
      <4>. QED BY <4>3, <3>1
    <3>2. CASE ~stopped
      <4>. DEFINE u == Unlock(m, "kill")
      <4>1. SameBut(m, u, {"lock"}) BY <1>m, UnlockKeeps
      <4>2. n = [u EXCEPT !.kill = "none"] BY <2>2, <3>2
      <4>. HIDE DEF m, n, u
      <4>3. u \in Memory /\ n \in Memory BY <4>1, <4>2, MemoryUpdates DEF SameBut
      <4>4. SameBut(m, n, {"kill", "lock"}) /\ n.kill = "none"
        BY <4>1, <4>2, <4>3 DEF SameBut, Memory
      <4>. QED BY <4>4
    <3>. QED BY <3>1, <3>2
  <2>4. r.owned \in BOOLEAN /\ WithoutCurrent(r).owned = r.owned
    BY <1>a, WithoutCurrentRow DEF Row
  <2>5. owned \in BOOLEAN /\ (owned => r.owned) BY <2>4
  <2>6. r.session # "none" BY <2>1, <1>a DEF AtWork
  <2>. HIDE DEF owned
  <2>7. /\ RowStep(r, q) /\ q.create = r.create /\ q.startup = r.startup
        /\ q.session = "CLOSED" /\ q.runtime = "STOPPED"
        /\ q.owned = owned /\ r.unsealed \subseteq q.unsealed
    BY <2>1, <2>5, <2>6, <1>a, CloseRows
  <2>8. AtWork(n, q) BY <2>1, <2>3, <2>6, <2>7, <1>a DEF SameBut, AtWork
  <2>9. ASSUME NoReuse PROVE Owned(n, q, k, o, told) /\ (daemon # "down" => Covered(n, k, o))
    <3>1. m.found = "none"
      <4>1. Idle(m) => m.kill = "none" BY DEF Idle
      <4>. QED BY <4>1, <2>1, AtSession DEF Phases
    <3>2. m.kill # "closeT" => owned = r.owned BY <2>4 DEF owned
    <3>. QED BY <3>1, <3>2, <2>1, <2>3, <2>6, <2>7, <2>9, <1>a, <1>b
             DEF SameBut, AtWork, Owned, InHand, OnRecord, Permitted, Fresh, Covered, Watched,
                 Early, Granted, Ended, Holding
  <2>w. Within(s) /\ (NoReuse => Listed(s)')
    BY <2>1, <2>3, <2>7, <1>a, <1>c, <1>l
       DEF Early, Granted, Listed, Within, UnchangedControl, SameBut
  <2>. QED BY <2>w, <2>1, <2>3, <2>7, <2>8, <2>9, <1>a, <1>c
           DEF Sound, SealsDeadOnly, UnchangedControl, SameBut
<1>7. CASE DestroySeals(s)
  <2>x. NoReuse => p = "no"
    BY <1>7, <1>b DEF DestroySeals, Owned, InHand
  <2>1. n = [Unlock(m, "kill") EXCEPT !.kill = "none"]
    BY <1>7, <1>i, OneEntry DEF DestroySeals, Free, OnlyMemory, SealLostLogs, SealedRow
  <2>2. m.kill = "seal" /\ q = SealedRow(r) /\ k = l /\ o = p
    BY <1>7, <1>i, OneEntry DEF DestroySeals, Free, OnlyMemory, SealLostLogs, SealedRow
  <2>3. SameBut(m, n, {"kill", "lock"}) /\ n.kill = "none"
    <3>. DEFINE u == Unlock(m, "kill")
    <3>1. SameBut(m, u, {"lock"}) /\ (u.lock = m.lock \/ m.lock = "kill") BY <1>m, UnlockKeeps
    <3>2. n = [u EXCEPT !.kill = "none"] BY <2>1
    <3>. HIDE DEF m, n, u
    <3>3. u \in Memory /\ n \in Memory BY <3>1, <3>2, MemoryUpdates DEF SameBut
    <3>. QED BY <3>1, <3>2, <3>3 DEF SameBut, Memory
  <2>4. /\ RowStep(r, q) /\ SameCreate(r, q) /\ q.runtime = r.runtime /\ q.unsealed = {}
        /\ q.owned = r.owned
    BY <2>2, <1>a, SealRows
  <2>5. AtWork(n, q) BY <2>2, <2>3, <2>4, <1>a DEF SameBut, SameCreate, AtWork
  <2>6. ASSUME NoReuse PROVE Owned(n, q, k, o, told) /\ (daemon # "down" => Covered(n, k, o))
    BY <2>2, <2>3, <2>4, <2>6, <1>a, <1>b DEF SameBut, SameCreate, AtWork, Owned, InHand,
         OnRecord, Permitted, Fresh, Covered, Watched, Early, Granted, Ended, Holding
  <2>7. Within(s) /\ (NoReuse => Listed(s)')
    BY <2>2, <2>3, <2>4, <1>a, <1>c, <1>l DEF SameBut, SameCreate, Early, Granted, Listed, Within,
         UnchangedControl
  <2>. QED BY <2>2, <2>3, <2>4, <2>5, <2>6, <1>a, <1>c, <2>x, <2>7 DEF Sound, SealsDeadOnly,
       UnchangedControl, SameBut, SameCreate
<1>. QED BY <1>1, <1>2, <1>3, <1>4, <1>5, <1>6, <1>7 DEF DestroyStep

-----------------------------------------------------------------------------
(* The actions of the sweep *)

\* A step of the sweep changes the entries of one session.
LEMMA SweepIsLocal ==
  ASSUME TypeOK, NEW s \in SessionIds, SweepStep(s)
  PROVE  Local(s) /\ UNCHANGED <<daemon, stop>>
<1>. USE OneEntry DEF Local, OnlyMemory, Free, InSweep
<1>1. CASE SweepCleans(s)
  BY <1>1 DEF SweepCleans, Cleans, CannotClean, SealLostLogs, ClearRuntimeStartup
<1>2. CASE SweepReleased(s) \/ SweepKeepsOrphan(s) \/ SweepFindsIdle(s) \/ SweepStopsIdle(s)
  BY <1>2 DEF SweepReleased, SweepKeepsOrphan, SweepFindsIdle, SweepStopsIdle, MarkRuntimeStopped
<1>3. CASE SweepReleasesOrphan(s)
  <2>1. UNCHANGED <<daemon, stop>> BY <1>3 DEF SweepReleasesOrphan
  <2>2. CASE mem[s].orphan = "none"
    BY <1>3, <2>1, <2>2 DEF SweepReleasesOrphan
  <2>3. CASE mem[s].orphan # "none"
    BY <1>3, <2>1, <2>3, OrphanIsLocal DEF SweepReleasesOrphan
  <2>. QED BY <2>2, <2>3
<1>4. CASE SweepStopsHandleless(s) \/ SweepSeals(s)
  BY <1>4 DEF SweepStopsHandleless, SweepSeals, MarkRuntimeStopped, MarkRuntimeLost, SealLostLogs,
     UnchangedControl
<1>5. CASE SweepForgets(s)
  BY <1>5 DEF SweepForgets, DeleteCreate, DeleteSession
<1>. QED BY <1>1, <1>2, <1>3, <1>4, <1>5 DEF SweepStep

\* The sweep serves: it works only while the daemon is up, or stops.
LEMMA SweepServes ==
  ASSUME Phases, TypeOK, NEW s \in SessionIds, SweepStep(s)
  PROVE  Serving
<1>1. sweep # Resting
  BY DEF SweepStep, SweepCleans, SweepReleased, SweepReleasesOrphan, SweepKeepsOrphan, SweepsOrphan,
         SweepFindsIdle, SweepStopsIdle, SweepStopsHandleless, SweepSeals, SweepForgets,
         SweepLooksForIdle, Resting
<1>. QED BY <1>1 DEF Phases

\* What the sweep does to a session, and what its snapshots still say of that.
LEMMA SweepKeeps ==
  ASSUME Invariant, NEW s \in SessionIds, SweepStep(s)
  PROVE  Sound(s)
<1>. DEFINE m == mem[s]  n == mem'[s]  r == db[s]  q == db'[s]
            l == leases[s]  k == leases'[s]  p == proc[s]  o == proc'[s]  told == s \in stop.ctrls
<1>i. TypeOK /\ Local(s) BY SweepIsLocal DEF Invariant
<1>a. /\ m \in Memory /\ r \in Row /\ l \in LeaseStates /\ p \in {"no", "worker", "tool"}
      /\ RowSound(r) /\ AtWork(m, r) /\ RowStep(r, r)
  BY AtSession, SameRow
<1>m. m \in Memory BY <1>a
<1>b. NoReuse => Owned(m, r, l, p, told) /\ (daemon # "down" => Covered(m, l, p))
  BY AtSession
<1>l. NoReuse => Listed(s) /\ Snapshots BY AtSession
<1>c. stop' = stop BY <1>i, SweepIsLocal
<1>d. daemon # "down" /\ m.found = "none" BY <1>i, SweepServes, AtSession DEF Serving, Phases
<1>1. CASE SweepCleans(s)
  <2>1. k = l /\ o = p BY <1>1, <1>i, OneEntry DEF SweepCleans
  <2>2. s \notin sweep'.clean /\ sweep'.pending = sweep.pending /\ sweep'.at = sweep.at
        /\ sweep'.todo = sweep.todo
    BY <1>1, <1>i DEF SweepCleans, TypeOK
  <2>3. m.dirty \in {"none", "request", "session"} BY <1>a DEF Memory
  <2>4. \/ Cleans(s, m.dirty) /\ n = [m EXCEPT !.dirty = "none"]
        \/ CannotClean(s, m.dirty) /\ n = m
    BY <1>1, <1>i, OneEntry DEF SweepCleans
  <2>5. Cleaned(r, q) BY <2>3, <2>4, <1>i, <1>a, CleanupRows
  <2>6. SameBut(m, n, {"dirty"}) /\ n.dirty \in {m.dirty, "none"}
    <3>1. CASE n = m BY <3>1, <1>a DEF SameBut
    <3>2. CASE n = [m EXCEPT !.dirty = "none"]
      <4>1. n \in Memory BY <3>2, <1>m, MemoryUpdates
      <4>. QED BY <4>1, <3>2 DEF SameBut, Memory
    <3>. QED BY <3>1, <3>2, <2>4
  <2>7. AtWork(n, q) BY <2>5, <2>6, <1>a DEF SameBut, Cleaned, AtWork
  <2>9. Within(s) BY <2>1, <2>6 DEF Within, SameBut
  <2>8. ASSUME NoReuse PROVE Owned(n, q, k, o, told) /\ Covered(n, k, o) /\ Listed(s)' /\ p = "no"
    <3>1. m.dirty # "none" BY <1>1, <1>l, <2>8 DEF SweepCleans, Listed
    <3>. QED BY <3>1, <2>1, <2>2, <2>5, <2>6, <2>8, <1>a, <1>b, <1>c, <1>d, <1>l
             DEF Cleaned, SameBut, AtWork, Owned, InHand, OnRecord, Permitted, Fresh, Covered,
                 Watched, Early, Granted, Ended, Holding, Listed
  <2>. QED BY <2>1, <2>5, <2>6, <2>7, <2>8, <2>9, <1>a, <1>c
           DEF Sound, SealsDeadOnly, Cleaned, SameBut
<1>2. CASE SweepReleased(s)
  <2>1. n = [m EXCEPT !.rel = "free"]
    BY <1>2, <1>i, OneEntry DEF SweepReleased, Answered, Free, InSweep
  <2>2. m.rel = "sweep" /\ m.step \in {"yes", "no"} /\ q = r /\ k = l /\ o = p
    BY <1>2, <1>i, OneEntry DEF SweepReleased, Answered, Free, InSweep
  <2>3. n \in Memory
    <3>. HIDE DEF m, n
    <3>. QED BY <2>1, <1>m, MemoryUpdates
  <2>4. SameBut(m, n, {"rel"}) /\ n.rel = "free" BY <2>1, <2>3, <1>m DEF SameBut, Memory
  <2>5. AtWork(n, q) BY <2>2, <2>4, <1>a DEF SameBut, AtWork
  <2>6. ASSUME NoReuse PROVE Owned(n, q, k, o, told) /\ (daemon # "down" => Covered(n, k, o))
    BY <2>2, <2>4, <2>6, <1>a, <1>b DEF SameBut, AtWork, Owned, InHand, OnRecord, Permitted,
         Fresh, Covered, Watched, Early, Granted, Ended, Holding
  <2>7. /\ s \notin sweep'.pending /\ sweep'.clean = sweep.clean /\ sweep'.at = sweep.at
        /\ sweep'.todo = sweep.todo
    BY <1>2, <1>i DEF SweepReleased, TypeOK
  <2>8. Within(s) /\ (NoReuse => Listed(s)')
    BY <2>2, <2>4, <2>7, <1>a, <1>b, <1>c, <1>l DEF SameBut, AtWork, Owned, InHand, OnRecord,
         Permitted, Fresh, Covered, Watched, Early, Granted, Ended, Holding, Listed, Within
  <2>. QED BY <2>2, <2>3, <2>5, <2>6, <1>a, <1>c, <2>7, <2>8 DEF Sound, SealsDeadOnly,
       UnchangedControl
<1>3. CASE SweepReleasesOrphan(s) /\ m.orphan = "none"
  <2>1. n = m /\ q = r /\ k = l /\ o = p
    BY <1>3, <1>i, OneEntry DEF SweepReleasesOrphan, Free, InSweep
  <2>2. AtWork(n, q) BY <2>1, <1>a DEF AtWork
  <2>3. ASSUME NoReuse PROVE Owned(n, q, k, o, told) /\ (daemon # "down" => Covered(n, k, o))
    BY <2>1, <2>3, <1>a, <1>b DEF AtWork, Owned, InHand, OnRecord, Permitted, Fresh, Covered,
         Watched, Early, Granted, Ended, Holding
  <2>4. /\ sweep'.pending = sweep.pending /\ sweep'.clean = sweep.clean
        /\ sweep'.at = sweep.at /\ sweep'.todo = sweep.todo
    BY <1>3, <1>i DEF SweepReleasesOrphan, SweepsOrphan, TypeOK
  <2>5. Within(s) /\ (NoReuse => Listed(s)')
    BY <2>1, <2>4, <1>a, <1>b, <1>c, <1>l DEF AtWork, Owned, InHand, OnRecord, Permitted, Fresh,
         Covered, Watched, Early, Granted, Ended, Holding, Listed, Within
  <2>. QED BY <2>1, <2>2, <2>3, <1>a, <1>c, <2>4, <2>5 DEF Sound, SealsDeadOnly, UnchangedControl
<1>4. CASE SweepReleasesOrphan(s) /\ m.orphan # "none"
  <2>1. OrphanReleased(s, m) BY <1>4 DEF SweepReleasesOrphan
  <2>2. sweep'.pending = {} /\ sweep'.clean = {} /\ sweep'.at = sweep.at /\ sweep'.todo = sweep.todo
    BY <1>4, <1>i DEF SweepReleasesOrphan, SweepsOrphan, TypeOK
  <2>3. m = [m EXCEPT !.kill = m.kill] BY <1>a DEF Memory
  <2>4. PICK c : c = m.kill OBVIOUS
  <2>5. OrphanReleased(s, [m EXCEPT !.kill = c]) /\ c = mem[s].kill BY <2>1, <2>3, <2>4
  <2>6. /\ sweep'.clean \subseteq sweep.clean /\ sweep'.pending \subseteq sweep.pending
        /\ stop'.ctrls = stop.ctrls
    BY <2>2, <1>c
  <2>. QED BY <2>2, <2>5, <2>6, <1>4, OrphanKeeps
<1>5. CASE SweepKeepsOrphan(s)
  <2>1. n = m /\ q = r /\ k = l /\ o = p
    BY <1>5, <1>i, OneEntry DEF SweepKeepsOrphan, Free, InSweep
  <2>2. AtWork(n, q) BY <2>1, <1>a DEF AtWork
  <2>3. ASSUME NoReuse PROVE Owned(n, q, k, o, told) /\ (daemon # "down" => Covered(n, k, o))
    BY <2>1, <2>3, <1>a, <1>b DEF AtWork, Owned, InHand, OnRecord, Permitted, Fresh, Covered,
         Watched, Early, Granted, Ended, Holding
  <2>4. /\ sweep'.pending = sweep.pending /\ sweep'.clean = sweep.clean
        /\ sweep'.at = sweep.at /\ sweep'.todo = sweep.todo
    BY <1>5, <1>i DEF SweepKeepsOrphan, SweepsOrphan, TypeOK
  <2>5. Within(s) /\ (NoReuse => Listed(s)')
    BY <2>1, <2>4, <1>a, <1>b, <1>c, <1>l DEF AtWork, Owned, InHand, OnRecord, Permitted, Fresh,
         Covered, Watched, Early, Granted, Ended, Holding, Listed, Within
  <2>. QED BY <2>1, <2>2, <2>3, <1>a, <1>c, <2>4, <2>5 DEF Sound, SealsDeadOnly, UnchangedControl
<1>6. CASE SweepFindsIdle(s)
  <2>1. n = [m EXCEPT !.lock = "sweep"]
    BY <1>6, <1>i, OneEntry DEF SweepFindsIdle, ControllerOf, Free, InSweep
  <2>2. /\ m.lock = "free" /\ r.runtime = "READY" /\ m.ctrl \in {"listed", "pending"}
        /\ q = r /\ k = l /\ o = p
    BY <1>6, <1>i, OneEntry DEF SweepFindsIdle, ControllerOf, Free, InSweep
  <2>3. n \in Memory BY <2>1, <1>m, MemoryUpdates
  <2>4. SameBut(m, n, {"lock"}) /\ n.lock = "sweep" BY <2>1, <2>3, <1>m DEF SameBut, Memory
  <2>5. AtWork(n, q) BY <2>2, <2>4, <1>a DEF SameBut, AtWork
  <2>6. ASSUME NoReuse PROVE Owned(n, q, k, o, told) /\ (daemon # "down" => Covered(n, k, o))
    BY <2>2, <2>4, <2>6, <1>a, <1>b DEF SameBut, AtWork, Owned, InHand, OnRecord, Permitted,
         Fresh, Covered, Watched, Early, Granted, Ended, Holding
  <2>7. /\ sweep'.pending = {} /\ sweep'.clean = {} /\ r.session # "none"
        /\ sweep'.at = "stopIdle"
    BY <1>6, <1>i, <1>a DEF SweepFindsIdle, SweepLooksForIdle, Sweep, RowSound, TypeOK
  <2>8. Within(s) /\ (NoReuse => Listed(s)')
    BY <2>2, <2>4, <2>7, <1>a, <1>b, <1>c, <1>l DEF SameBut, AtWork, Owned, InHand, OnRecord,
         Permitted, Fresh, Covered, Watched, Early, Granted, Ended, Holding, Listed, Within
  <2>. QED BY <2>2, <2>3, <2>5, <2>6, <1>a, <1>c, <2>7, <2>8 DEF Sound, SealsDeadOnly,
       UnchangedControl
<1>7. CASE SweepStopsIdle(s) /\ m.step = "yes"
  <2>1. n = [Unlock(m, "sweep") EXCEPT !.rel = "free"]
    BY <1>7, <1>i, OneEntry DEF SweepStopsIdle, Answered, Confirmed, MarkRuntimeStopped,
         StoppedRow, Free, InSweep
  <2>2. m.rel = "sweep" /\ m.step = "yes" /\ q = StoppedRow(r) /\ k = l /\ o = p
    BY <1>7, <1>i, OneEntry DEF SweepStopsIdle, Answered, Confirmed, MarkRuntimeStopped,
         StoppedRow, Free, InSweep
  <2>3. /\ SameBut(m, n, {"rel", "lock"}) /\ n.rel = "free"
        /\ (m.lock = "kill" => n.lock = "kill")
    <3>. DEFINE u == Unlock(m, "sweep")
    <3>1. SameBut(m, u, {"lock"}) /\ (u.lock = m.lock \/ m.lock = "sweep") BY <1>m, UnlockKeeps
    <3>2. n = [u EXCEPT !.rel = "free"] BY <2>1
    <3>. HIDE DEF m, n, u
    <3>3. u \in Memory /\ n \in Memory BY <3>1, <3>2, MemoryUpdates DEF SameBut
    <3>. QED BY <3>1, <3>2, <3>3 DEF SameBut, Memory
  <2>4. /\ RowStep(r, q) /\ SameCreate(r, q) /\ q.unsealed = r.unsealed
        /\ (q.runtime = "READY" => r.current # 0)
        /\ ((q.owned = r.owned /\ q.runtime = r.runtime) \/ (~q.owned /\ q.runtime = "STOPPED"))
    BY <2>2, <1>a, StoppedRows
  <2>5. AtWork(n, q) BY <2>2, <2>3, <2>4, <1>a DEF SameBut, SameCreate, AtWork
  <2>6. ASSUME NoReuse PROVE Owned(n, q, k, o, told) /\ (daemon # "down" => Covered(n, k, o))
    BY <2>2, <2>3, <2>4, <2>6, <1>a, <1>b DEF SameBut, SameCreate, AtWork, Owned, InHand,
         OnRecord, Permitted, Fresh, Covered, Watched, Early, Granted, Ended, Holding
  <2>7. /\ sweep'.pending = sweep.pending /\ sweep'.clean = sweep.clean
        /\ sweep'.at = "snapshots"
    BY <1>7, <1>i DEF SweepStopsIdle, Sweep, TypeOK
  <2>8. Within(s) /\ (NoReuse => Listed(s)')
    BY <2>2, <2>3, <2>4, <2>7, <1>a, <1>b, <1>c, <1>l DEF SameBut, SameCreate, AtWork, Owned,
         InHand, OnRecord, Permitted, Fresh, Covered, Watched, Early, Granted, Ended, Holding,
         Listed, Within
  <2>. QED BY <2>2, <2>3, <2>4, <2>5, <2>6, <1>a, <1>c, <2>7, <2>8 DEF Sound, SealsDeadOnly,
       UnchangedControl, SameBut, SameCreate
<1>8. CASE SweepStopsIdle(s) /\ m.step # "yes"
  <2>1. n = [Unlock(m, "sweep") EXCEPT !.rel = "free"]
    BY <1>8, <1>i, OneEntry DEF SweepStopsIdle, Answered, Confirmed, Free, InSweep
  <2>2. m.rel = "sweep" /\ m.step = "no" /\ q = r /\ k = l /\ o = p
    BY <1>8, <1>i, OneEntry DEF SweepStopsIdle, Answered, Confirmed, Free, InSweep
  <2>3. /\ SameBut(m, n, {"rel", "lock"}) /\ n.rel = "free"
        /\ (m.lock = "kill" => n.lock = "kill")
    <3>. DEFINE u == Unlock(m, "sweep")
    <3>1. SameBut(m, u, {"lock"}) /\ (u.lock = m.lock \/ m.lock = "sweep") BY <1>m, UnlockKeeps
    <3>2. n = [u EXCEPT !.rel = "free"] BY <2>1
    <3>. HIDE DEF m, n, u
    <3>3. u \in Memory /\ n \in Memory BY <3>1, <3>2, MemoryUpdates DEF SameBut
    <3>. QED BY <3>1, <3>2, <3>3 DEF SameBut, Memory
  <2>4. AtWork(n, q) BY <2>2, <2>3, <1>a DEF SameBut, AtWork
  <2>5. ASSUME NoReuse PROVE Owned(n, q, k, o, told) /\ (daemon # "down" => Covered(n, k, o))
    BY <2>2, <2>3, <2>5, <1>a, <1>b DEF SameBut, AtWork, Owned, InHand, OnRecord, Permitted,
         Fresh, Covered, Watched, Early, Granted, Ended, Holding
  <2>6. /\ sweep'.pending = sweep.pending /\ sweep'.clean = sweep.clean
        /\ sweep'.at = "snapshots"
    BY <1>8, <1>i DEF SweepStopsIdle, Sweep, TypeOK
  <2>7. Within(s) /\ (NoReuse => Listed(s)')
    BY <2>2, <2>3, <2>6, <1>a, <1>b, <1>c, <1>l DEF SameBut, AtWork, Owned, InHand, OnRecord,
         Permitted, Fresh, Covered, Watched, Early, Granted, Ended, Holding, Listed, Within
  <2>. QED BY <2>2, <2>3, <2>4, <2>5, <1>a, <1>c, <2>6, <2>7 DEF Sound, SealsDeadOnly,
       UnchangedControl, SameBut
<1>9. CASE SweepStopsHandleless(s) /\ p = "no"
  <2>1. /\ m.lock = "free" /\ r.runtime = "READY" /\ m.ctrl \notin {"listed", "pending"}
        /\ p = "no" /\ n = m /\ q = StoppedRow(r) /\ k = l /\ o = p
    BY <1>9, <1>i, OneEntry DEF SweepStopsHandleless, ControllerOf, MarkRuntimeStopped,
         StoppedRow, Free, InSweep
  <2>2. /\ RowStep(r, q) /\ SameCreate(r, q) /\ q.unsealed = r.unsealed
        /\ (q.runtime = "READY" => r.current # 0)
        /\ ((q.owned = r.owned /\ q.runtime = r.runtime) \/ (~q.owned /\ q.runtime = "STOPPED"))
    BY <2>1, <1>a, StoppedRows
  <2>3. AtWork(n, q) BY <2>1, <2>2, <1>a DEF SameCreate, RowSound, AtWork
  <2>4. ASSUME NoReuse PROVE Owned(n, q, k, o, told) /\ (daemon # "down" => Covered(n, k, o))
    BY <2>1, <2>2, <2>4, <1>a, <1>b DEF SameCreate, RowSound, AtWork, Owned, InHand, OnRecord,
         Permitted, Fresh, Covered, Watched, Early, Granted, Ended, Holding
  <2>5. sweep'.pending = {} /\ sweep'.clean = {} /\ sweep'.at = "snapshots"
    BY <1>9, <1>i DEF SweepStopsHandleless, SweepLooksForIdle, UnchangedControl, TypeOK
  <2>6. Within(s) /\ (NoReuse => Listed(s)')
    BY <2>1, <2>2, <2>5, <1>a, <1>b, <1>c, <1>l DEF SameCreate, RowSound, AtWork, Owned, InHand,
         OnRecord, Permitted, Fresh, Covered, Watched, Early, Granted, Ended, Holding, Listed,
         Within
  <2>. QED BY <2>1, <2>2, <2>3, <2>4, <1>a, <1>c, <2>5, <2>6 DEF Sound, SealsDeadOnly,
       UnchangedControl, SameCreate, RowSound
<1>10. CASE SweepStopsHandleless(s) /\ p # "no"
  <2>1. /\ m.lock = "free" /\ r.runtime = "READY" /\ m.ctrl \notin {"listed", "pending"}
        /\ n = m /\ q = LostRow(r) /\ k = l /\ o = p
    BY <1>10, <1>i, OneEntry DEF SweepStopsHandleless, ControllerOf, MarkRuntimeLost, LostRow,
         Free, InSweep
  <2>2. /\ RowStep(r, q) /\ SameCreate(r, q) /\ q.owned = r.owned
        /\ r.unsealed \subseteq q.unsealed /\ q.runtime \notin {"READY", "BUSY"}
    BY <2>1, <1>a, LostRows
  <2>3. AtWork(n, q) BY <2>1, <2>2, <1>a DEF SameCreate, RowSound, AtWork
  <2>4. ASSUME NoReuse PROVE Owned(n, q, k, o, told) /\ (daemon # "down" => Covered(n, k, o))
    BY <2>1, <2>2, <2>4, <1>a, <1>b DEF SameCreate, RowSound, AtWork, Owned, InHand, OnRecord,
         Permitted, Fresh, Covered, Watched, Early, Granted, Ended, Holding
  <2>5. sweep'.pending = {} /\ sweep'.clean = {} /\ sweep'.at = "snapshots"
    BY <1>10, <1>i DEF SweepStopsHandleless, SweepLooksForIdle, UnchangedControl, TypeOK
  <2>6. Within(s) /\ (NoReuse => Listed(s)')
    BY <2>1, <2>2, <2>5, <1>a, <1>b, <1>c, <1>l DEF SameCreate, RowSound, AtWork, Owned, InHand,
         OnRecord, Permitted, Fresh, Covered, Watched, Early, Granted, Ended, Holding, Listed,
         Within
  <2>. QED BY <2>1, <2>2, <2>3, <2>4, <1>a, <1>c, <2>5, <2>6 DEF Sound, SealsDeadOnly,
       UnchangedControl, SameCreate, RowSound
<1>11. CASE SweepSeals(s) /\ q = r
  <2>1. n = m /\ k = l /\ o = p BY <1>11, <1>i, OneEntry DEF SweepSeals
  <2>2. sweep'.pending = sweep.pending /\ sweep'.clean = sweep.clean /\ sweep'.at = "seal"
    BY <1>11, <1>i DEF SweepSeals, Sweep, TypeOK
  <2>3. Within(s) /\ (NoReuse => Listed(s)')
    BY <2>1, <2>2, <1>11, <1>c, <1>l DEF Listed, Within
  <2>. QED BY <2>1, <2>3, <1>11, <1>a, <1>b, <1>c DEF Sound, SealsDeadOnly
<1>12. CASE SweepSeals(s) /\ q # r
  <2>p. NoReuse => p = "no" \/ r.unsealed = {}
    <3>1. ASSUME NoReuse, p # "no" PROVE r.unsealed = {}
      <4>1. m.task # "none"
        <5>1. m.ctrl \notin {"listed", "pending"} /\ m.orphan = "none"
          BY <1>12, <1>i, <3>1, OneEntry DEF SweepSeals, ControllerOf
        <5>. QED BY <5>1, <3>1, <1>b, <1>d DEF Owned, Covered, Permitted
      <4>2. r.unsealed \subseteq ExecIds BY <1>a DEF Row
      <4>. QED BY <4>1, <4>2, <1>a DEF AtWork, RowSound
    <3>. QED BY <3>1
  <2>1. /\ ((m.ctrl \notin {"listed", "pending"} /\ m.orphan = "none") \/ p = "no") /\ n = m
        /\ q = SealedRow(r) /\ k = l /\ o = p
    BY <1>12, <1>i, OneEntry DEF SweepSeals, ControllerOf, SealLostLogs, SealedRow, Free, InSweep
  <2>2. /\ RowStep(r, q) /\ SameCreate(r, q) /\ q.runtime = r.runtime /\ q.unsealed = {}
        /\ q.owned = r.owned
    BY <2>1, <1>a, SealRows
  <2>3. AtWork(n, q) BY <2>1, <2>2, <1>a DEF SameCreate, AtWork
  <2>4. ASSUME NoReuse PROVE Owned(n, q, k, o, told) /\ (daemon # "down" => Covered(n, k, o))
    BY <2>1, <2>2, <2>4, <1>a, <1>b DEF SameCreate, AtWork, Owned, InHand, OnRecord, Permitted,
         Fresh, Covered, Watched, Early, Granted, Ended, Holding
  <2>5. /\ sweep'.pending = sweep.pending /\ sweep'.clean = sweep.clean /\ sweep'.at = "seal"
        /\ sweep.at = "seal"
    BY <1>12, <1>i DEF SweepSeals, Sweep, TypeOK
  <2>6. Within(s) /\ (NoReuse => Listed(s)')
    BY <2>1, <2>2, <2>5, <1>a, <1>b, <1>c, <1>l DEF SameCreate, AtWork, Owned, InHand, OnRecord,
         Permitted, Fresh, Covered, Watched, Early, Granted, Ended, Holding, Listed, Within
  <2>. QED BY <2>1, <2>2, <2>3, <2>4, <1>a, <1>c, <2>p, <2>5, <2>6 DEF Sound, SealsDeadOnly,
       UnchangedControl, SameCreate
<1>13. CASE SweepForgets(s)
  <2>1. Quiet(s) /\ n = m /\ k = l /\ o = p BY <1>13, <1>i, OneEntry DEF SweepForgets
  <2>2. sweep'.pending = sweep.pending /\ sweep'.clean = sweep.clean /\ sweep'.at = "rest"
        /\ sweep.at = "seal"
    BY <1>13, <1>i DEF SweepForgets, Sweep, TypeOK
  <2>3. /\ r.session \in {"none", "CLOSED"} /\ r.startup = "none" /\ ~r.owned
        /\ \/ q = NoRow /\ r.session = "none"
           \/ q = [NoRow EXCEPT !.create = r.create] /\ r.session = "CLOSED"
    BY <1>13, <1>i, <1>a, OneEntry
       DEF SweepForgets, CreateIsGarbage, SessionIsGarbage, DeleteCreate, DeleteSession, RowSound
  <2>4. /\ RowStep(r, q) /\ q.session = "none" /\ q.startup = "none" /\ q.runtime = "none"
        /\ ~q.owned /\ q.unsealed = {} /\ q.create \in {"none", r.create}
    BY <2>3, <1>a, DeletedRows
  <2>5. MaxForgets # 0
    <3>1. spent["forget"] < MaxForgets /\ spent["forget"] \in Nat
      BY <1>13, <1>i DEF SweepForgets, Spend, Bound, TypeOK
    <3>. QED BY <3>1, ServiceAssumption
  <2>6. AtWork(n, q) BY <2>1, <2>4, <1>a DEF Quiet, AtWork
  <2>7. ASSUME NoReuse
        PROVE  Owned(n, q, k, o, told) /\ Covered(n, k, o) /\ Listed(s)' /\ p = "no"
    <3>1. m.dirty = "none" BY <2>5, <2>7, <1>b DEF NoReuse, Owned
    <3>2. /\ m.ctrl \in {"none", "released"} /\ m.orphan = "none" /\ p = "no"
      BY <2>1, <2>3, <2>7, <1>a, <1>b DEF Quiet, Owned, InHand, OnRecord, Holding, Memory, AtWork
    <3>. QED BY <3>1, <3>2, <2>1, <2>2, <2>4, <2>7, <1>a, <1>b, <1>c, <1>d, <1>l
             DEF Quiet, AtWork, Owned, InHand, OnRecord, Permitted, Fresh, Covered,
                 Watched, Early, Granted, Ended, Holding, Listed, Snapshots
  <2>8. Within(s) BY <2>1 DEF Within
  <2>. QED BY <2>1, <2>4, <2>6, <2>7, <2>8, <1>a, <1>c DEF Sound, SealsDeadOnly
<1>. QED BY <1>1, <1>2, <1>3, <1>4, <1>5, <1>6, <1>7, <1>8, <1>9, <1>10, <1>11, <1>12, <1>13
         DEF SweepStep

-----------------------------------------------------------------------------
(* The actions of a shutdown, and of a restart *)

\* A step of a shutdown changes the entries of one session.
LEMMA StopIsLocal ==
  ASSUME TypeOK, NEW s \in SessionIds, StopStep(s)
  PROVE  Local(s) /\ UNCHANGED <<daemon, sweep>>
<1>. USE OneEntry DEF Local, Free, InStop
<1>1. CASE StopsStarting(s) \/ StopsRuntime(s) \/ StopReleased(s)
  BY <1>1 DEF StopsStarting, StopsRuntime, StopReleased, MarkRuntimeLost
<1>2. CASE StopsOrphan(s)
  <2>1. UNCHANGED <<daemon, sweep>> BY <1>2 DEF StopsOrphan
  <2>2. CASE OrphanReleased(s, mem[s]) BY <2>1, <2>2, OrphanIsLocal
  <2>3. CASE ~OrphanReleased(s, mem[s]) BY <1>2, <2>1, <2>3 DEF StopsOrphan
  <2>. QED BY <2>2, <2>3
<1>. QED BY <1>1, <1>2 DEF StopStep

\* Only a daemon that stops has a shutdown at work.
LEMMA StopStops ==
  ASSUME TypeOK, Phases, NEW s \in SessionIds, StopStep(s)
  PROVE  daemon = "stopping" \/ (StopReleased(s) /\ stop' = stop)
<1>1. ASSUME daemon # "stopping" PROVE StopReleased(s) /\ stop' = stop
  <2>1. stop = Running BY <1>1 DEF Phases
  <2>2. stop.starting = {} /\ stop.ctrls = {} /\ stop.orphans = {} BY <2>1 DEF Running
  <2>3. StopReleased(s) BY <2>2 DEF StopStep, StopsStarting, StopsRuntime, StopsOrphan
  <2>4. stop' = [starting |-> {}, ctrls |-> {} \ {s}, orphans |-> {}, on |-> {}]
    BY <2>1, <2>3 DEF StopReleased, Running
  <2>5. {} \ {s} = {} OBVIOUS
  <2>. QED BY <2>1, <2>3, <2>4, <2>5 DEF Running
<1>. QED BY <1>1

\* What a shutdown does to a session, and what the snapshots still say of that.
LEMMA StopKeeps ==
  ASSUME Invariant, NEW s \in SessionIds, StopStep(s)
  PROVE  Sound(s)
<1>. DEFINE m == mem[s]  n == mem'[s]  r == db[s]  q == db'[s]
            l == leases[s]  k == leases'[s]  p == proc[s]  o == proc'[s]  told == s \in stop.ctrls
<1>i. TypeOK /\ Local(s) BY StopIsLocal DEF Invariant
<1>a. /\ m \in Memory /\ r \in Row /\ l \in LeaseStates /\ p \in {"no", "worker", "tool"}
      /\ RowSound(r) /\ AtWork(m, r) /\ RowStep(r, r)
  BY AtSession, SameRow
<1>m. m \in Memory BY <1>a
<1>b. NoReuse => Owned(m, r, l, p, told) /\ (daemon # "down" => Covered(m, l, p))
  BY AtSession
<1>l. NoReuse => Listed(s) /\ Snapshots BY AtSession
<1>c. sweep' = sweep BY <1>i, StopIsLocal
<1>1. CASE StopsStarting(s)
  <2>1. n = [m EXCEPT !.stopping = TRUE] BY <1>1, <1>i, OneEntry DEF StopsStarting, Free, InStop
  <2>2. q = r /\ k = l /\ o \in {p, "no"} BY <1>1, <1>i, OneEntry DEF StopsStarting, Free, InStop
  <2>3. n \in Memory BY <2>1, <1>m, MemoryUpdates
  <2>4. SameBut(m, n, {}) BY <2>1, <2>3, <1>m DEF SameBut, Memory
  <2>5. AtWork(n, q) BY <2>2, <2>4, <1>a DEF SameBut, AtWork
  <2>6. ASSUME NoReuse PROVE Owned(n, q, k, o, told) /\ (daemon # "down" => Covered(n, k, o))
    BY <2>2, <2>4, <2>6, <1>a, <1>b DEF SameBut, AtWork, Owned, InHand, OnRecord, Permitted,
         Fresh, Covered, Watched, Early, Granted, Ended, Holding
  <2>7. stop'.ctrls = stop.ctrls BY <1>1, <1>i DEF StopsStarting, TypeOK
  <2>8. Within(s) /\ (NoReuse => Listed(s)')
    BY <2>2, <2>4, <2>7, <1>a, <1>b, <1>c, <1>l DEF SameBut, AtWork, Owned, InHand, OnRecord,
         Permitted, Fresh, Covered, Watched, Early, Granted, Ended, Holding, Listed, Within
  <2>. QED BY <2>2, <2>3, <2>5, <2>6, <1>a, <1>c, <2>7, <2>8 DEF Sound, SealsDeadOnly,
       UnchangedControl
<1>2. CASE StopsRuntime(s)
  <2>1. s \in stop.ctrls /\ n = m /\ q = LostRow(r) /\ k = l /\ o = p
    BY <1>2, <1>i, OneEntry DEF StopsRuntime, MarkRuntimeLost, LostRow, Free, InStop
  <2>2. /\ RowStep(r, q) /\ SameCreate(r, q) /\ q.owned = r.owned
        /\ r.unsealed \subseteq q.unsealed /\ q.runtime \notin {"READY", "BUSY"}
    BY <2>1, <1>a, LostRows
  <2>3. AtWork(n, q) BY <2>1, <2>2, <1>a DEF SameCreate, AtWork
  <2>4. ASSUME NoReuse PROVE Owned(n, q, k, o, told) /\ (daemon # "down" => Covered(n, k, o))
    BY <2>1, <2>2, <2>4, <1>a, <1>b DEF SameCreate, AtWork, Owned, InHand, OnRecord, Permitted,
         Fresh, Covered, Watched, Early, Granted, Ended, Holding
  <2>5. stop'.ctrls = stop.ctrls BY <1>2, <1>i DEF StopsRuntime, TypeOK
  <2>6. Within(s) /\ (NoReuse => Listed(s)')
    BY <2>1, <2>2, <2>5, <1>a, <1>b, <1>c, <1>l DEF SameCreate, AtWork, Owned, InHand, OnRecord,
         Permitted, Fresh, Covered, Watched, Early, Granted, Ended, Holding, Listed, Within
  <2>. QED BY <2>1, <2>2, <2>3, <2>4, <1>a, <1>c, <2>5, <2>6 DEF Sound, SealsDeadOnly,
       UnchangedControl, SameCreate
<1>3. CASE StopReleased(s)
  <2>1. n = [m EXCEPT !.rel = "free"]
    BY <1>3, <1>i, OneEntry DEF StopReleased, Answered, Free, InStop
  <2>2. m.rel = "stop" /\ m.step \in {"yes", "no"} /\ q = r /\ k = l /\ o = p
    BY <1>3, <1>i, OneEntry DEF StopReleased, Answered, Free, InStop
  <2>3. n \in Memory
    <3>. HIDE DEF m, n
    <3>. QED BY <2>1, <1>m, MemoryUpdates
  <2>4. SameBut(m, n, {"rel"}) /\ n.rel = "free" BY <2>1, <2>3, <1>m DEF SameBut, Memory
  <2>5. AtWork(n, q) BY <2>2, <2>4, <1>a DEF SameBut, AtWork
  <2>6. ASSUME NoReuse
        PROVE  Owned(n, q, k, o, s \in stop'.ctrls) /\ (daemon # "down" => Covered(n, k, o))
    BY <2>2, <2>4, <2>6, <1>a, <1>b DEF SameBut, AtWork, Owned, InHand, OnRecord, Permitted,
         Fresh, Covered, Watched, Early, Granted, Ended, Holding
  <2>7. s \notin stop'.ctrls BY <1>3, <1>i DEF StopReleased, TypeOK
  <2>8. Within(s) /\ (NoReuse => Listed(s)')
    BY <2>2, <2>4, <2>7, <1>a, <1>b, <1>c, <1>l DEF SameBut, AtWork, Owned, InHand, OnRecord,
         Permitted, Fresh, Covered, Watched, Early, Granted, Ended, Holding, Listed, Within
  <2>. QED BY <2>2, <2>3, <2>5, <2>6, <1>a, <1>c, <2>7, <2>8 DEF Sound, SealsDeadOnly,
       UnchangedControl
<1>4. CASE StopsOrphan(s) /\ m.orphan # "none" /\ OrphanReleased(s, m)
  <2>1. stop'.ctrls = {} /\ stop.ctrls = {} BY <1>4, <1>i DEF StopsOrphan, TypeOK
  <2>2. m = [m EXCEPT !.kill = m.kill] BY <1>a DEF Memory
  <2>3. PICK c : c = m.kill OBVIOUS
  <2>4. OrphanReleased(s, [m EXCEPT !.kill = c]) /\ c = mem[s].kill BY <2>2, <2>3, <1>4
  <2>. QED BY <2>1, <2>4, <1>4, <1>c, OrphanKeeps
<1>5. CASE StopsOrphan(s) /\ ~(m.orphan # "none" /\ OrphanReleased(s, m))
  <2>1. n = m /\ q = r /\ k = l /\ o = p BY <1>5, <1>i, OneEntry DEF StopsOrphan
  <2>2. stop'.ctrls = stop.ctrls BY <1>5, <1>i DEF StopsOrphan, TypeOK
  <2>3. Within(s) /\ (NoReuse => Listed(s)') BY <2>1, <2>2, <1>l, <1>c DEF Listed, Within
  <2>. QED BY <2>1, <2>2, <2>3, <1>a, <1>b DEF Sound, SealsDeadOnly
<1>. QED BY <1>1, <1>2, <1>3, <1>4, <1>5 DEF StopStep

\* What a record of an earlier daemon stands for is reconciled before this one serves.
LEMMA RestartIsLocal ==
  ASSUME TypeOK, NEW s \in SessionIds, RestartStep(s)
  PROVE  Local(s) /\ UnchangedControl
<1>. USE OneEntry DEF Local, Free
<1>1. CASE Adopts(s) BY <1>1 DEF Adopts
<1>2. CASE BuriesDead(s)
  BY <1>2 DEF BuriesDead, Cleans, CannotClean, SealLostLogs, ClearRuntimeStartup
<1>. QED BY <1>1, <1>2 DEF RestartStep

\* A survivor keeps its record and has a permit; the record of a dead one is cleaned.
LEMMA RestartKeeps ==
  ASSUME Invariant, NEW s \in SessionIds, RestartStep(s)
  PROVE  Sound(s)
<1>. DEFINE m == mem[s]  n == mem'[s]  r == db[s]  q == db'[s]
            l == leases[s]  k == leases'[s]  p == proc[s]  o == proc'[s]  told == s \in stop.ctrls
<1>i. TypeOK /\ Local(s) BY RestartIsLocal DEF Invariant
<1>a. /\ m \in Memory /\ r \in Row /\ l \in LeaseStates /\ p \in {"no", "worker", "tool"}
      /\ RowSound(r) /\ AtWork(m, r) /\ RowStep(r, r)
  BY AtSession, SameRow
<1>m. m \in Memory BY <1>a
<1>b. NoReuse => Owned(m, r, l, p, told) /\ (daemon # "down" => Covered(m, l, p))
  BY AtSession
<1>l. NoReuse => Listed(s) /\ Snapshots BY AtSession
<1>c. UnchangedControl BY <1>i, RestartIsLocal
<1>d. /\ m.found # "none" /\ m.ctrl = "none" /\ m.task = "none" /\ m.job = "none"
      /\ m.kill = "none" /\ m.mon = "none" /\ m.rel = "free"
  <2>1. m.found # "none" BY DEF RestartStep, Adopts, BuriesDead
  <2>. QED BY <2>1, AtSession DEF Phases, Idle
<1>f. m.found \in {"none", "request", "session", "unknown"} BY <1>a DEF Memory
<1>1. CASE Adopts(s)
  <2>1. n = [m EXCEPT !.found = "none", !.orphan = m.found]
    BY <1>1, <1>i, OneEntry DEF Adopts, Free
  <2>2. m.found # "none" /\ q = r /\ k = "quarantined" /\ o = p
    BY <1>1, <1>i, OneEntry DEF Adopts, Free
  <2>3. n \in Memory
    <3>. HIDE DEF m, n
    <3>. QED BY <2>1, <1>f, <1>m, MemoryUpdates
  <2>4. SameBut(m, n, {"found", "orphan"}) /\ n.found = "none" /\ n.orphan = m.found
    BY <2>1, <2>3, <1>m DEF SameBut, Memory
  <2>5. AtWork(n, q) BY <2>2, <2>4, <1>a, <1>d DEF SameBut, AtWork
  <2>6. ASSUME NoReuse PROVE Owned(n, q, k, o, told) /\ (daemon # "down" => Covered(n, k, o))
    BY <2>2, <2>4, <2>6, <1>a, <1>b, <1>d DEF SameBut, LeaseStates, AtWork, Owned, InHand,
         OnRecord, Permitted, Fresh, Covered, Watched, Early, Granted, Ended, Holding
  <2>7. Within(s) /\ (NoReuse => Listed(s)')
    BY <2>2, <2>4, <1>a, <1>c, <1>l DEF SameBut, Early, Granted, Listed, Within, UnchangedControl
  <2>. QED BY <2>2, <2>3, <2>5, <2>6, <1>a, <1>c, <2>7 DEF Sound, SealsDeadOnly, UnchangedControl,
       LeaseStates
<1>2. CASE BuriesDead(s)
  <2>1. m.found \in {"request", "session"} /\ p = "no" /\ k = l /\ o = p
    BY <1>2, <1>i, OneEntry DEF BuriesDead
  <2>2. PICK d \in {m.dirty, m.found} :
          /\ SameBut(m, n, {"found", "dirty"}) /\ n.found = "none" /\ n.dirty = d
          /\ (Cleans(s, m.found) /\ d = m.dirty) \/ (CannotClean(s, m.found) /\ d = m.found)
    <3>1. CASE Cleans(s, m.found) /\ Set(s, [m EXCEPT !.found = "none"])
      <4>1. n = [m EXCEPT !.found = "none"] BY <3>1, <1>i, OneEntry
      <4>2. n \in Memory BY <4>1, <1>m, MemoryUpdates
      <4>3. SameBut(m, n, {"found", "dirty"}) /\ n.found = "none" /\ n.dirty = m.dirty
        BY <4>1, <4>2, <1>m DEF SameBut, Memory
      <4>. QED BY <4>3, <3>1
    <3>2. CASE CannotClean(s, m.found) /\ Set(s, [m EXCEPT !.found = "none", !.dirty = m.found])
      <4>1. n = [m EXCEPT !.found = "none", !.dirty = m.found] BY <3>2, <1>i, OneEntry
      <4>2. n \in Memory
        <5>1. m.found \in {"none", "request", "session"} BY <2>1
        <5>. HIDE DEF m, n
        <5>. QED BY <5>1, <4>1, <1>m, MemoryUpdates
      <4>3. SameBut(m, n, {"found", "dirty"}) /\ n.found = "none" /\ n.dirty = m.found
        BY <4>1, <4>2, <1>m DEF SameBut, Memory
      <4>. QED BY <4>3, <3>2
    <3>. QED BY <3>1, <3>2, <1>2 DEF BuriesDead
  <2>3. Cleaned(r, q)
    <3>1. m.found \in {"none", "request", "session"} BY <2>1
    <3>. QED BY <3>1, <2>2, <1>i, <1>a, CleanupRows
  <2>4. AtWork(n, q) BY <2>2, <2>3, <1>a DEF SameBut, Cleaned, AtWork
  <2>6. Within(s) /\ (NoReuse => Listed(s)')
    <3>1. NoReuse => s \notin sweep.clean BY <1>b, <1>d, <1>l DEF Owned, InHand, Listed
    <3>. QED BY <3>1, <2>1, <2>2, <2>3, <1>c, <1>l
             DEF Listed, Within, Early, Granted, SameBut, Cleaned, UnchangedControl
  <2>5. ASSUME NoReuse PROVE Owned(n, q, k, o, told) /\ (daemon # "down" => Covered(n, k, o))
    <3>0. Owned(m, r, l, p, told) BY <1>b, <2>5
    <3>1. MaxIoFaults = 0 => d = "none"
      <4>1. m.found = "session" => r.runtime # "none"
        BY <1>a, <3>0 DEF Owned, OnRecord, RowSound
      <4>2. CannotClean(s, m.found) => MaxIoFaults # 0 BY <4>1, <1>i, Uncleaned
      <4>. QED BY <4>2, <3>0, <2>2 DEF Owned
    <3>. QED BY <3>0, <3>1, <2>1, <2>2, <2>3, <1>a, <1>d
             DEF Cleaned, SameBut, AtWork, Owned, InHand, OnRecord, Permitted, Fresh, Covered,
                 Watched,
                 Early, Granted, Ended, Holding
  <2>. QED BY <2>1, <2>2, <2>3, <2>4, <2>5, <2>6, <1>a, <1>c
           DEF Sound, SealsDeadOnly, Cleaned, UnchangedControl, SameBut
<1>. QED BY <1>1, <1>2 DEF RestartStep

-----------------------------------------------------------------------------
(* The steps of a session together *)

\* A step of one session, whoever takes it.
SessionStep(s) ==
  \/ Create(s) \/ CreateRefused(s) \/ Execute(s) \/ Destroy(s) \/ ProcessDies(s)
  \/ TaskStep(s) \/ ReleaseStep(s) \/ JobStep(s) \/ MonitorStep(s) \/ DestroyStep(s)
  \/ SweepStep(s) \/ StopStep(s) \/ RestartStep(s) \/ ProcessStep(s)

\* The sweep and the shutdown have their types.
Control ==
  /\ sweep \in [at : {"rest", "snapshots", "stopIdle", "seal"}, clean : SUBSET SessionIds,
                pending : SUBSET SessionIds, orphans : SUBSET SessionIds, todo : SUBSET SessionIds]
  /\ stop \in [starting : SUBSET SessionIds, ctrls : SUBSET SessionIds,
               orphans : SUBSET SessionIds, on : SUBSET SessionIds]

\* A step for one session leaves of the snapshots what they say of the others.
Narrows(s) ==
  /\ daemon' = daemon /\ Control'
  /\ \A t \in SessionIds \ {s} :
       /\ t \in sweep'.clean => t \in sweep.clean
       /\ t \in sweep'.pending => t \in sweep.pending
       /\ sweep'.at = "stopIdle" /\ t \in sweep'.todo => sweep.at = "stopIdle" /\ t \in sweep.todo
       /\ t \in stop'.ctrls <=> t \in stop.ctrls
  /\ ~Serving => sweep' = sweep
  /\ daemon # "stopping" => stop' = stop
  /\ (sweep.pending # {} => sweep.at = "snapshots") =>
       (sweep'.pending # {} => sweep'.at = "snapshots")
  /\ stop.on \subseteq stop.ctrls => stop'.on \subseteq stop'.ctrls

\* What a step leaves alone narrows nothing.
LEMMA ControlStays ==
  ASSUME TypeOK, UnchangedControl, NEW s \in SessionIds
  PROVE  Narrows(s)
BY DEF TypeOK, UnchangedControl, Narrows, Control

\* The snapshots of the sweep, step by step.
LEMMA SweepNarrows ==
  ASSUME Invariant, NEW s \in SessionIds, SweepStep(s)
  PROVE  Narrows(s)
<1>i. TypeOK /\ Phases BY DEF Invariant, RecordsInv
<1>s. Serving BY <1>i, SweepServes
<1>c. daemon' = daemon /\ stop' = stop BY <1>i, SweepIsLocal
<1>t. Control BY <1>i DEF TypeOK, Control
<1>1. CASE SweepCleans(s)
  <2>1. sweep' = [sweep EXCEPT !.clean = @ \ {s}] BY <1>1 DEF SweepCleans
  <2>. QED BY <2>1, <1>c, <1>s, <1>t DEF Narrows, Control
<1>2. CASE SweepReleased(s)
  <2>1. sweep' = [sweep EXCEPT !.pending = @ \ {s}] BY <1>2 DEF SweepReleased
  <2>. QED BY <2>1, <1>c, <1>s, <1>t DEF Narrows, Control
<1>3. CASE SweepReleasesOrphan(s) \/ SweepKeepsOrphan(s)
  <2>1. sweep' = [sweep EXCEPT !.orphans = @ \ {s}]
    BY <1>3 DEF SweepReleasesOrphan, SweepKeepsOrphan, SweepsOrphan
  <2>. QED BY <2>1, <1>c, <1>s, <1>t DEF Narrows, Control
<1>4. CASE SweepFindsIdle(s)
  <2>1. sweep.pending = {} /\ sweep' = [sweep EXCEPT !.at = "stopIdle", !.todo = {s}]
    BY <1>4 DEF SweepFindsIdle, SweepLooksForIdle, Sweep
  <2>. QED BY <2>1, <1>c, <1>s, <1>t DEF Narrows, Control
<1>5. CASE SweepStopsIdle(s)
  <2>1. sweep' = [sweep EXCEPT !.at = "snapshots", !.todo = {}]
    BY <1>5 DEF SweepStopsIdle, Sweep
  <2>. QED BY <2>1, <1>c, <1>s, <1>t DEF Narrows, Control
<1>6. CASE SweepStopsHandleless(s)
  <2>1. sweep' = sweep BY <1>6 DEF SweepStopsHandleless, UnchangedControl
  <2>. QED BY <2>1, <1>c, <1>s, <1>t DEF Narrows, Control
<1>7. CASE SweepSeals(s)
  <2>1. sweep.at = "seal" /\ sweep' = [sweep EXCEPT !.at = "seal", !.todo = sweep.todo \ {s}]
    BY <1>7 DEF SweepSeals, Sweep
  <2>. QED BY <2>1, <1>c, <1>s, <1>t DEF Narrows, Control
<1>8. CASE SweepForgets(s)
  <2>1. sweep.at = "seal" /\ sweep' = [sweep EXCEPT !.at = "rest", !.todo = {}]
    BY <1>8 DEF SweepForgets, Sweep
  <2>. QED BY <2>1, <1>c, <1>s, <1>t DEF Narrows, Control
<1>. QED BY <1>1, <1>2, <1>3, <1>4, <1>5, <1>6, <1>7, <1>8 DEF SweepStep

\* The snapshots of a shutdown, step by step.
LEMMA StopNarrows ==
  ASSUME Invariant, NEW s \in SessionIds, StopStep(s)
  PROVE  Narrows(s)
<1>i. TypeOK /\ Phases BY DEF Invariant, RecordsInv
<1>s. daemon = "stopping" \/ stop' = stop BY <1>i, StopStops
<1>c. daemon' = daemon /\ sweep' = sweep BY <1>i, StopIsLocal
<1>t. Control BY <1>i DEF TypeOK, Control
<1>1. CASE StopsStarting(s)
  <2>1. stop' = [stop EXCEPT !.starting = @ \ {s}] BY <1>1 DEF StopsStarting
  <2>. QED BY <2>1, <1>c, <1>s, <1>t DEF Narrows, Control
<1>2. CASE StopsRuntime(s)
  <2>1. s \in stop.ctrls /\ stop' = [stop EXCEPT !.on = {s}] BY <1>2 DEF StopsRuntime
  <2>. QED BY <2>1, <1>c, <1>s, <1>t DEF Narrows, Control
<1>3. CASE StopReleased(s)
  <2>1. stop' = [stop EXCEPT !.on = {}, !.ctrls = @ \ {s}] BY <1>3 DEF StopReleased
  <2>. QED BY <2>1, <1>c, <1>s, <1>t DEF Narrows, Control
<1>4. CASE StopsOrphan(s)
  <2>1. stop' = [stop EXCEPT !.orphans = @ \ {s}] BY <1>4 DEF StopsOrphan
  <2>. QED BY <2>1, <1>c, <1>s, <1>t DEF Narrows, Control
<1>. QED BY <1>1, <1>2, <1>3, <1>4 DEF StopStep

\* The scheduler stays open or closed, no session becomes a stray, and at most one of the
\* bounds is used, by one.
Counted ==
  /\ schedulerClosed' = schedulerClosed /\ stray' \subseteq stray
  /\ Free \/ \E what \in DOMAIN Bound : Spend(what)

\* What the steps use of the bounds.
LEMMA StepIsCounted ==
  ASSUME NEW s \in SessionIds, SessionStep(s)
  PROVE  Counted
<1>d. DOMAIN Bound = {"fault", "io", "stop", "forget"} BY DEF Bound
<1>o. \A x : OrphanReleased(s, x) => Counted
  BY <1>d DEF OrphanReleased, Release, Exits, Cleans, CannotClean, Counted, Free
<1>. USE <1>d DEF Counted, OnlyMemory, UnchangedScheduler, schedulerVars, UnchangedProcess, Exits
<1>1. CASE TaskStep(s)
  <2>1. CASE TaskAcquires(s) BY <2>1 DEF TaskAcquires, Acquire, Free
  <2>2. CASE TaskGivesUp(s) BY <2>2 DEF TaskGivesUp, Free
  <2>3. CASE TaskRegisters(s) BY <2>3 DEF TaskRegisters, Free
  <2>4. CASE TaskBuilds(s) BY <2>4 DEF TaskBuilds, Free
  <2>5. CASE BuildFails(s) BY <2>5 DEF BuildFails, Release, Free
  <2>6. CASE TaskAttempts(s) BY <2>6 DEF TaskAttempts, Free
  <2>7. CASE TaskSpawns(s) BY <2>7 DEF TaskSpawns, Free
  <2>8. CASE SpawnFails(s) BY <2>8 DEF SpawnFails, Free
  <2>9. CASE TaskReports(s) BY <2>9 DEF TaskReports, Free
  <2>10. CASE TaskBoots(s) BY <2>10 DEF TaskBoots, Free
  <2>11. CASE BootFails(s) BY <2>11 DEF BootFails, Free
  <2>12. CASE TaskPublishes(s) BY <2>12 DEF TaskPublishes, MarkReady, Free
  <2>13. CASE PublishRefused(s) BY <2>13 DEF PublishRefused, MarkReady, Free
  <2>14. CASE TaskFails(s) BY <2>14 DEF TaskFails, Free
  <2>15. CASE TaskCleanedUp(s) BY <2>15 DEF TaskCleanedUp, Free
  <2>. QED BY <1>1, <2>1, <2>2, <2>3, <2>4, <2>5, <2>6, <2>7, <2>8, <2>9, <2>10, <2>11, <2>12,
           <2>13, <2>14, <2>15 DEF TaskStep
<1>2. CASE ReleaseStep(s)
  <2>1. CASE BeginsRelease(s) BY <2>1 DEF BeginsRelease, Free
  <2>2. CASE Terminates(s) BY <2>2 DEF Terminates, Free
  <2>3. CASE NotConfirmed(s) BY <2>3 DEF NotConfirmed, Free
  <2>4. CASE Retires(s) BY <2>4 DEF Retires, Release, Free
  <2>5. CASE CleansUp(s) BY <2>5 DEF CleansUp, Cleans, CannotClean, Free
  <2>. QED BY <1>2, <2>1, <2>2, <2>3, <2>4, <2>5 DEF ReleaseStep
<1>3. CASE JobStep(s)
  <2>1. CASE JobPrepares(s) BY <2>1 DEF JobPrepares, Free
  <2>2. CASE PrepareRefused(s) BY <2>2 DEF PrepareRefused, Free
  <2>3. CASE PrepareFails(s) BY <2>3 DEF PrepareFails, Free
  <2>4. CASE JobRuns(s) BY <2>4 DEF JobRuns, Free
  <2>5. CASE SummaryComes(s) BY <2>5 DEF SummaryComes, Free
  <2>6. CASE JobRecords(s) BY <2>6 DEF JobRecords, Free
  <2>7. CASE ResumesMonitoring(s) BY <2>7 DEF ResumesMonitoring, Free
  <2>8. CASE SummaryOfLoss(s) BY <2>8 DEF SummaryOfLoss, Free
  <2>9. CASE NoSummary(s) BY <2>9 DEF NoSummary, Free
  <2>10. CASE JobReleased(s) BY <2>10 DEF JobReleased, Free
  <2>11. CASE JobCompletes(s) BY <2>11 DEF JobCompletes, Free
  <2>. QED BY <1>3, <2>1, <2>2, <2>3, <2>4, <2>5, <2>6, <2>7, <2>8, <2>9, <2>10, <2>11 DEF JobStep
<1>4. CASE MonitorStep(s)
  <2>1. CASE MonitorWakes(s) BY <2>1 DEF MonitorWakes, Free
  <2>2. CASE MonitorLooks(s) BY <2>2 DEF MonitorLooks, Free
  <2>3. CASE CallsBack(s) BY <2>3 DEF CallsBack, Free
  <2>4. CASE MonitorMarks(s) BY <2>4 DEF MonitorMarks, Free
  <2>5. CASE MonitorReleased(s) BY <2>5 DEF MonitorReleased, Free
  <2>. QED BY <1>4, <2>1, <2>2, <2>3, <2>4, <2>5 DEF MonitorStep
<1>5. CASE DestroyStep(s)
  <2>1. CASE DestroyReleased(s) BY <2>1 DEF DestroyReleased, Free
  <2>2. CASE DestroyReleasesOrphan(s) BY <2>2, <1>o DEF DestroyReleasesOrphan, Free
  <2>3. CASE DestroyKeepsOrphan(s) BY <2>3, <1>o DEF DestroyKeepsOrphan, Free
  <2>4. CASE DestroyCloses(s) BY <2>4 DEF DestroyCloses, Free
  <2>5. CASE DestroySeals(s) BY <2>5 DEF DestroySeals, Free
  <2>. QED BY <1>5, <2>1, <2>2, <2>3, <2>4, <2>5 DEF DestroyStep
<1>6. CASE SweepStep(s)
  <2>1. CASE SweepCleans(s) BY <2>1 DEF SweepCleans, Cleans, CannotClean, Free
  <2>2. CASE SweepReleased(s) BY <2>2 DEF SweepReleased, Free
  <2>3. CASE SweepReleasesOrphan(s) BY <2>3, <1>o DEF SweepReleasesOrphan, SweepsOrphan, Free
  <2>4. CASE SweepKeepsOrphan(s) BY <2>4, <1>o DEF SweepKeepsOrphan, SweepsOrphan, Free
  <2>5. CASE SweepFindsIdle(s) BY <2>5 DEF SweepFindsIdle, Free
  <2>6. CASE SweepStopsIdle(s) BY <2>6 DEF SweepStopsIdle, Free
  <2>7. CASE SweepStopsHandleless(s) BY <2>7 DEF SweepStopsHandleless, Free
  <2>8. CASE SweepSeals(s) BY <2>8 DEF SweepSeals, Free
  <2>9. CASE SweepForgets(s) BY <2>9 DEF SweepForgets, Free
  <2>. QED BY <1>6, <2>1, <2>2, <2>3, <2>4, <2>5, <2>6, <2>7, <2>8, <2>9 DEF SweepStep
<1>7. CASE StopStep(s)
  <2>1. CASE StopsStarting(s) BY <2>1 DEF StopsStarting, Free
  <2>2. CASE StopsRuntime(s) BY <2>2 DEF StopsRuntime, Free
  <2>3. CASE StopReleased(s) BY <2>3 DEF StopReleased, Free
  <2>4. CASE StopsOrphan(s) BY <2>4, <1>o DEF StopsOrphan, Free
  <2>. QED BY <1>7, <2>1, <2>2, <2>3, <2>4 DEF StopStep
<1>8. CASE RestartStep(s)
  <2>1. CASE Adopts(s) BY <2>1 DEF Adopts, ReserveExisting, Free
  <2>2. CASE BuriesDead(s) BY <2>2 DEF BuriesDead, Cleans, CannotClean, Free
  <2>. QED BY <1>8, <2>1, <2>2 DEF RestartStep
<1>9. CASE ProcessStep(s)
  <2>1. CASE WorkerStartsTool(s) BY <2>1 DEF WorkerStartsTool, Free
  <2>2. CASE StrayExits(s) BY <2>2 DEF StrayExits, Free
  <2>. QED BY <1>9, <2>1, <2>2 DEF ProcessStep
<1>10. CASE Create(s) \/ CreateRefused(s) BY <1>10 DEF Create, CreateRefused, Free
<1>11. CASE Execute(s) BY <1>11 DEF Execute, Free
<1>12. CASE Destroy(s) BY <1>12 DEF Destroy, Free
<1>13. CASE ProcessDies(s) BY <1>13 DEF ProcessDies
<1>. QED BY <1>1, <1>2, <1>3, <1>4, <1>5, <1>6, <1>7, <1>8, <1>9, <1>10, <1>11, <1>12, <1>13 DEF
            SessionStep

\* So the bounds are kept.
LEMMA SpentTypes ==
  ASSUME TypeOK, Free \/ \E what \in DOMAIN Bound : Spend(what)
  PROVE  /\ spent' \in [DOMAIN Bound -> Nat]
         /\ \A what \in DOMAIN Bound : spent'[what] <= Bound[what]
<1>1. \A what \in DOMAIN Bound : Bound[what] \in Nat BY ServiceAssumption DEF Bound
<1>2. CASE Free BY <1>2 DEF TypeOK, Free
<1>3. CASE \E what \in DOMAIN Bound : Spend(what)
  <2>1. PICK what \in DOMAIN Bound : Spend(what) BY <1>3
  <2>2. spent' = [spent EXCEPT ![what] = @ + 1] /\ spent[what] < Bound[what] BY <2>1 DEF Spend
  <2>. QED BY <1>1, <2>2 DEF TypeOK
<1>. QED BY <1>2, <1>3

\* A step of a session is local to it, leaves it sound, and keeps the snapshots of the others.
LEMMA StepIsSound ==
  ASSUME Invariant, NEW s \in SessionIds, SessionStep(s)
  PROVE  Local(s) /\ Sound(s) /\ Narrows(s)
<1>i. TypeOK BY DEF Invariant
<1>1. CASE TaskStep(s)
  <2>1. Local(s) /\ Narrows(s) BY <1>1, <1>i, TaskIsLocal, ControlStays
  <2>. QED BY <1>1, <2>1, TaskBegins, TaskEnds DEF TaskStep
<1>2. CASE ReleaseStep(s) BY <1>2, <1>i, ReleaseIsLocal, ReleaseKeeps, ControlStays
<1>3. CASE Execute(s) \/ JobStep(s) BY <1>3, <1>i, JobIsLocal, JobKeeps, ControlStays
<1>4. CASE MonitorStep(s) BY <1>4, <1>i, MonitorIsLocal, MonitorKeeps, ControlStays
<1>5. CASE DestroyStep(s) BY <1>5, <1>i, DestroyIsLocal, DestroyKeeps, ControlStays
<1>6. CASE SweepStep(s) BY <1>6, <1>i, SweepIsLocal, SweepKeeps, SweepNarrows
<1>7. CASE StopStep(s) BY <1>7, <1>i, StopIsLocal, StopKeeps, StopNarrows
<1>8. CASE RestartStep(s) BY <1>8, <1>i, RestartIsLocal, RestartKeeps, ControlStays
<1>9. CASE Create(s) \/ CreateRefused(s) \/ Destroy(s) \/ ProcessDies(s) \/ ProcessStep(s)
  BY <1>9, <1>i, RequestIsLocal, RequestKeeps, ControlStays
<1>. QED BY <1>1, <1>2, <1>3, <1>4, <1>5, <1>6, <1>7, <1>8, <1>9 DEF SessionStep

-----------------------------------------------------------------------------
(* The invariant, and the steps of a session *)

\* While the daemon is down nothing but processes act, while it reconciles the records too.
LEMMA AtRest ==
  ASSUME TypeOK, Phases, ~Serving, NEW s \in SessionIds, SessionStep(s)
  PROVE  /\ ProcessDies(s) \/ ProcessStep(s) \/ RestartStep(s)
         /\ daemon = "down" => ~RestartStep(s)
<1>d. daemon \in {"down", "reconciling"} BY DEF TypeOK, Serving
<1>m. Idle(mem[s]) /\ (daemon = "down" => mem[s].found = "none")
  BY <1>d DEF Phases, Idle, Nothing, NoMemory
<1>c. sweep = Resting /\ stop = Running BY <1>d DEF Phases
<1>1. daemon = "down" => ~RestartStep(s) BY <1>m DEF RestartStep, Adopts, BuriesDead
<1>2. ~Create(s) /\ ~CreateRefused(s) /\ ~Execute(s) /\ ~Destroy(s)
  BY DEF Create, CreateRefused, Execute, Destroy, Serving
<1>3. ~TaskStep(s)
  BY <1>m DEF Idle, TaskStep, TaskAcquires, TaskGivesUp, TaskRegisters, TaskBuilds, BuildFails,
     TaskAttempts, TaskSpawns, SpawnFails, TaskReports, TaskBoots, BootFails, TaskPublishes,
     PublishRefused, TaskFails, TaskCleanedUp, Answered
<1>4. ~ReleaseStep(s)
  <2>1. \A by \in Threads : ~Wants(s, by)
    BY <1>m, <1>c DEF Idle, Wants, Threads, Resting, Running
  <2>. QED BY <1>m, <2>1 DEF Idle, ReleaseStep, BeginsRelease, Terminates, NotConfirmed, Retires,
              CleansUp
<1>5. ~JobStep(s)
  BY <1>m DEF Idle, JobStep, JobPrepares, PrepareRefused, PrepareFails, JobRuns, SummaryComes,
     JobRecords, ResumesMonitoring, SummaryOfLoss, NoSummary, JobReleased, JobCompletes, Answered
<1>6. ~MonitorStep(s)
  BY <1>m DEF Idle, MonitorStep, MonitorWakes, MonitorLooks, CallsBack, MonitorMarks,
     MonitorReleased, Answered
<1>7. ~DestroyStep(s)
  BY <1>m DEF Idle, DestroyStep, DestroyReleased, DestroyReleasesOrphan, DestroyKeepsOrphan,
     DestroyCloses, DestroySeals, Answered
<1>8. ~SweepStep(s) BY SweepServes
<1>9. ~StopStep(s) BY <1>d, <1>m, StopStops DEF Idle, StopReleased, Answered
<1>. QED BY <1>1, <1>2, <1>3, <1>4, <1>5, <1>6, <1>7, <1>8, <1>9 DEF SessionStep

\* What the daemon holds in the phases of its life, after a step of a session.
LEMMA PhasesStay ==
  ASSUME Invariant, NEW s \in SessionIds, SessionStep(s)
  PROVE  Phases'
<1>i. TypeOK /\ Phases BY DEF Invariant, RecordsInv
<1>s. Local(s) /\ Within(s) /\ Narrows(s) BY StepIsSound DEF Sound
<1>m. \A t \in SessionIds \ {s} : mem'[t] = mem[t] /\ leases'[t] = leases[t]
  BY <1>i, <1>s DEF Local, TypeOK
<1>1. daemon' = daemon BY <1>s DEF Narrows
<1>2. daemon # "reconciling" => \A t \in SessionIds : mem'[t].found = "none"
  BY <1>i, <1>m, <1>s DEF Phases, Within
<1>3. (~Serving)' => sweep' = Resting BY <1>i, <1>s, <1>1 DEF Phases, Narrows, Serving
<1>4. daemon # "stopping" => stop' = Running BY <1>i, <1>s DEF Phases, Narrows
<1>5. CASE Serving BY <1>1, <1>2, <1>3, <1>4, <1>5 DEF Phases, Serving
<1>6. CASE ~Serving
  <2>1. /\ ProcessDies(s) \/ ProcessStep(s) \/ RestartStep(s)
        /\ daemon = "down" => ~RestartStep(s)
    BY <1>i, <1>6, AtRest
  <2>2. CASE ProcessDies(s) \/ ProcessStep(s)
    <3>1. mem' = mem /\ leases' = leases
      BY <2>2 DEF ProcessDies, ProcessStep, WorkerStartsTool, StrayExits, UnchangedScheduler,
         schedulerVars
    <3>. QED BY <3>1, <1>i, <1>1, <1>2, <1>3, <1>4 DEF Phases
  <2>3. CASE RestartStep(s)
    <3>1. daemon # "down" BY <2>1, <2>3
    <3>2. daemon = "reconciling" BY <3>1, <1>6, <1>i DEF TypeOK, Serving
    <3>3. mem[s] \in Memory /\ mem \in [SessionIds -> Memory] BY <1>i DEF TypeOK
    <3>4. Idle(mem[s]) BY <1>i, <3>2 DEF Phases
    <3>. DEFINE m == mem[s]  n == mem'[s]
    <3>5. Idle(n)
      <4>1. CASE Adopts(s)
        <5>1. n = [m EXCEPT !.found = "none", !.orphan = m.found] BY <4>1, <1>i, OneEntry DEF Adopts
        <5>. QED BY <5>1, <3>3, <3>4 DEF Idle, Memory
      <4>2. CASE BuriesDead(s) /\ Set(s, [m EXCEPT !.found = "none"])
        <5>1. n = [m EXCEPT !.found = "none"] BY <4>2, <1>i, OneEntry
        <5>. QED BY <5>1, <3>3, <3>4 DEF Idle, Memory
      <4>3. CASE BuriesDead(s) /\ Set(s, [m EXCEPT !.found = "none", !.dirty = m.found])
        <5>1. n = [m EXCEPT !.found = "none", !.dirty = m.found] BY <4>3, <1>i, OneEntry
        <5>. QED BY <5>1, <3>3, <3>4 DEF Idle, Memory
      <4>. QED BY <2>3, <4>1, <4>2, <4>3 DEF RestartStep, BuriesDead
    <3>. QED BY <3>1, <3>2, <3>5, <1>i, <1>m, <1>1, <1>3, <1>4 DEF Phases
  <2>. QED BY <2>1, <2>2, <2>3
<1>. QED BY <1>5, <1>6

\* The places of processes stay within the capacity, because those that are taken have a permit.
LEMMA PlacesStay ==
  ASSUME Invariant, NoReuse, NEW s \in SessionIds, SessionStep(s)
  PROVE  Cardinality(Places') <= Capacity
<1>i. TypeOK /\ Phases /\ ServiceInv BY DEF Invariant, RecordsInv
<1>s. Local(s) /\ Within(s) BY StepIsSound DEF Sound
<1>m. /\ \A t \in SessionIds \ {s} : mem'[t] = mem[t] /\ proc'[t] = proc[t]
  BY <1>i, <1>s DEF Local, TypeOK
<1>f. IsFiniteSet(SessionIds) /\ Capacity \in Nat BY SchedulerAssumption
<1>p. /\ IsFiniteSet(Places) /\ IsFiniteSet(Places') /\ Cardinality(Places) \in Nat
      /\ Cardinality(Places') \in Nat
  <2>1. Places \subseteq SessionIds /\ Places' \subseteq SessionIds BY DEF Places, Trees
  <2>. QED BY <2>1, <1>f, FS_Subset, FS_CardinalityType
<1>c. Cardinality(Places) <= Capacity BY <1>i DEF ServiceInv
<1>1. CASE ~TaskAcquires(s)
  <2>1. Places' \subseteq Places BY <1>1, <1>m, <1>s DEF Within, Places, Trees
  <2>2. Cardinality(Places') <= Cardinality(Places) BY <2>1, <1>p, FS_Subset
  <2>. QED BY <2>2, <1>c, <1>p, <1>f
<1>2. CASE TaskAcquires(s)
  <2>. DEFINE L == Leased(LeaseStates \ {"none"})
  <2>1. Used < Capacity /\ mem[s].task = "acquire" /\ proc' = proc
    BY <1>2 DEF TaskAcquires, Acquire, UnchangedProcess
  <2>2. daemon \notin {"down", "reconciling"}
    BY <2>1, <1>i DEF Phases, Idle, Nothing, NoMemory
  <2>3. \A t \in SessionIds : mem[t].found = "none" BY <2>2, <1>i DEF Phases
  <2>4. Places \subseteq L
    BY <2>2, <2>3, <1>i DEF ServiceInv, Owned, Permitted, Covered, Places, Trees, Leased, TypeOK
  <2>5. IsFiniteSet(L) /\ Cardinality(L) \in Nat
    <3>1. L \subseteq SessionIds BY DEF Leased
    <3>. QED BY <3>1, <1>f, FS_Subset, FS_CardinalityType
  <2>6. Cardinality(Places) < Capacity
    <3>1. Cardinality(Places) <= Cardinality(L) BY <2>4, <2>5, FS_Subset
    <3>. QED BY <3>1, <2>1, <2>5, <1>p, <1>f DEF Used
  <2>7. Places' \subseteq Places \cup {s} BY <1>m DEF Places, Trees
  <2>8. /\ IsFiniteSet(Places \cup {s}) /\ Cardinality(Places \cup {s}) \in Nat
        /\ Cardinality(Places \cup {s}) <= Cardinality(Places) + 1
    <3>1. /\ IsFiniteSet(Places \cup {s})
          /\ \/ Cardinality(Places \cup {s}) = Cardinality(Places)
             \/ Cardinality(Places \cup {s}) = Cardinality(Places) + 1
      BY <1>p, FS_AddElement
    <3>2. Cardinality(Places \cup {s}) \in Nat BY <3>1, FS_CardinalityType
    <3>. QED BY <3>1, <3>2, <1>p
  <2>9. Cardinality(Places') <= Cardinality(Places \cup {s}) BY <2>7, <2>8, FS_Subset
  <2>. QED BY <2>6, <2>8, <2>9, <1>p, <1>f
<1>. QED BY <1>1, <1>2

\* A step of a session keeps the invariant: what it changes is sound, the rest stays.
LEMMA SessionKeeps ==
  ASSUME Invariant, NEW s \in SessionIds, SessionStep(s)
  PROVE  Invariant'
<1>i. TypeOK /\ RecordsInv BY DEF Invariant
<1>s. Local(s) /\ Sound(s) /\ Narrows(s) BY StepIsSound
<1>m. \A t \in SessionIds \ {s} :
        /\ mem'[t] = mem[t] /\ leases'[t] = leases[t] /\ proc'[t] = proc[t] /\ db'[t] = db[t]
  BY <1>i, <1>s DEF Local, TypeOK
<1>1. TypeOK'
  <2>1. /\ schedulerClosed' \in BOOLEAN /\ stray' \subseteq SessionIds
        /\ spent' \in [DOMAIN Bound -> Nat]
        /\ \A what \in DOMAIN Bound : spent'[what] <= Bound[what]
    BY <1>i, StepIsCounted, SpentTypes DEF Counted, TypeOK
  <2>2. /\ leases' \in [SessionIds -> LeaseStates] /\ db' \in [SessionIds -> Row]
        /\ mem' \in [SessionIds -> Memory] /\ proc' \in [SessionIds -> {"no", "worker", "tool"}]
    BY <1>i, <1>s DEF Local, Sound, RowStep, TypeOK
  <2>3. daemon' = daemon /\ Control' BY <1>s DEF Narrows
  <2>. QED BY <2>1, <2>2, <2>3, <1>i DEF TypeOK, Control
<1>2. RecordsInv'
  <2>1. Phases' BY PhasesStay
  <2>2. \A t \in SessionIds : Basic(mem'[t], db'[t])
    BY <1>i, <1>s, <1>m DEF RecordsInv, Basic, Sound, RowStep
  <2>. QED BY <2>1, <2>2 DEF RecordsInv
<1>3. ASSUME NoReuse PROVE ServiceInv'
  <2>i. ServiceInv /\ Snapshots BY <1>3 DEF Invariant, ServiceInv
  <2>1. Cardinality(Places') <= Capacity BY <1>3, PlacesStay
  <2>2. daemon' = daemon BY <1>s DEF Narrows
  <2>3. \A t \in SessionIds \ {s} : t \in stop'.ctrls <=> t \in stop.ctrls BY <1>s DEF Narrows
  <2>4. ASSUME NEW t \in SessionIds
        PROVE  /\ Owned(mem'[t], db'[t], leases'[t], proc'[t], t \in stop'.ctrls)
               /\ daemon' # "down" => Covered(mem'[t], leases'[t], proc'[t])
               /\ Listed(t)'
    <3>1. CASE t = s BY <3>1, <2>2, <1>3, <1>s DEF Sound
    <3>2. CASE t # s
      <4>1. /\ Owned(mem'[t], db'[t], leases'[t], proc'[t], t \in stop'.ctrls)
            /\ daemon' # "down" => Covered(mem'[t], leases'[t], proc'[t])
        BY <3>2, <2>2, <2>3, <2>i, <1>m
           DEF ServiceInv, Owned, InHand, OnRecord, Permitted, Watched, Fresh, Covered
      <4>2. Listed(t)' BY <3>2, <2>i, <1>m, <1>s DEF Snapshots, Listed, Narrows
      <4>. QED BY <4>1, <4>2
    <3>. QED BY <3>1, <3>2
  <2>5. Snapshots' BY <2>4, <2>i, <1>s DEF Snapshots, Narrows
  <2>. QED BY <2>1, <2>4, <2>5 DEF ServiceInv
<1>. QED BY <1>1, <1>2, <1>3 DEF Invariant, NoReuse

-----------------------------------------------------------------------------
(* The invariant, and the steps of the daemon as a whole *)

\* What a step may not undo for a client: outcomes, and logs whose writer lives.
Ends == \A s \in SessionIds : OutcomesStay(s) /\ (NoReuse => SealsDeadOnly(s))

\* A step that leaves the registry alone undoes nothing.
LEMMA SameRows == ASSUME UNCHANGED db PROVE Ends
BY LaterStays, StaysLater DEF Ends, SealsDeadOnly

\* A step of a session undoes nothing.
LEMMA SessionEnds ==
  ASSUME Invariant, NEW s \in SessionIds, SessionStep(s)
  PROVE  Ends
<1>1. Local(s) /\ Sound(s) BY StepIsSound
<1>2. ASSUME NEW t \in SessionIds
      PROVE  OutcomesStay(t) /\ (NoReuse => SealsDeadOnly(t))
  <2>1. CASE t = s BY <2>1, <1>1, LaterStays DEF Sound, RowStep
  <2>2. CASE t # s
    <3>1. db'[t] = db[t] BY <2>2, <1>1 DEF Local, Invariant, TypeOK
    <3>. QED BY <3>1, LaterStays, StaysLater DEF SealsDeadOnly
  <2>. QED BY <2>1, <2>2
<1>. QED BY <1>2 DEF Ends

\* No place is taken by a step that starts no process and grants no permit.
LEMMA NoMorePlaces ==
  ASSUME Cardinality(Places) <= Capacity, Places' \subseteq Places
  PROVE  Cardinality(Places') <= Capacity
<1>1. Places \subseteq SessionIds BY DEF Places, Trees
<1>2. IsFiniteSet(Places) BY <1>1, SchedulerAssumption, FS_Subset
<1>3. IsFiniteSet(Places') /\ Cardinality(Places') <= Cardinality(Places) BY <1>2, FS_Subset
<1>. QED BY <1>2, <1>3, FS_CardinalityType, SchedulerAssumption

\* What a daemon that holds nothing holds is of the type.
LEMMA NothingHeld == NoMemory \in Memory
<1>1. 0 \in 0..MaxExecs BY ServiceAssumption
<1>. QED BY <1>1 DEF NoMemory, Memory, Threads

\* The invariant holds in a daemon with empty roots.
LEMMA InitHolds == Init => Invariant
<1>. SUFFICES ASSUME Init PROVE Invariant OBVIOUS
<1>0. 0 \in 0..MaxExecs /\ NoRow \in Row BY ServiceAssumption DEF NoRow, Row
<1>i. /\ mem = [s \in SessionIds |-> NoMemory] /\ db = [s \in SessionIds |-> NoRow]
      /\ leases = [s \in SessionIds |-> "none"] /\ proc = [s \in SessionIds |-> "no"]
      /\ daemon = "up" /\ sweep = Resting /\ stop = Running
  BY DEF Init, Nothing, RegistryInit, SchedulerInit
<1>1. TypeOK
  <2>1. /\ spent \in [DOMAIN Bound -> Nat]
        /\ \A what \in DOMAIN Bound : spent[what] <= Bound[what]
    BY ServiceAssumption DEF Init, Bound
  <2>2. Control BY <1>i DEF Control, Resting, Running
  <2>3. /\ leases \in [SessionIds -> LeaseStates] /\ db \in [SessionIds -> Row]
        /\ mem \in [SessionIds -> Memory] /\ proc \in [SessionIds -> {"no", "worker", "tool"}]
    BY <1>i, <1>0, NothingHeld DEF LeaseStates
  <2>. QED BY <2>1, <2>2, <2>3, <1>i DEF Init, SchedulerInit, TypeOK, Control
<1>2. RecordsInv
  <2>1. RowSound(NoRow) /\ AtWork(NoMemory, NoRow)
    BY <1>0 DEF NoRow, NoMemory, RowSound, AtWork, Active
  <2>2. Phases BY <1>i DEF Phases, NoMemory, Serving
  <2>. QED BY <2>1, <2>2, <1>i DEF RecordsInv, Basic
<1>3. ServiceInv
  <2>1. ASSUME NEW s \in SessionIds
        PROVE  /\ Owned(mem[s], db[s], leases[s], proc[s], s \in stop.ctrls)
               /\ Covered(mem[s], leases[s], proc[s])
    BY <1>i DEF NoRow, NoMemory, Owned, InHand, OnRecord, Permitted, Fresh, Covered, Early,
       Granted, Ended, Holding
  <2>2. Snapshots BY <1>i DEF Snapshots, Listed, Resting, Running, NoMemory
  <2>3. Places = {} BY <1>i DEF Places, Trees, NoMemory, Granted
  <2>4. Cardinality(Places) = 0 BY <2>3, FS_EmptySet
  <2>5. Cardinality(Places) <= Capacity BY <2>4, SchedulerAssumption
  <2>. QED BY <2>1, <2>2, <2>5 DEF ServiceInv
<1>. QED BY <1>1, <1>2, <1>3 DEF Invariant

\* The snapshots of a sweep that begins say what is the case.
LEMMA SweepKeepsInvariant ==
  ASSUME Invariant, SweepBegins \/ SweepMoves
  PROVE  Invariant' /\ Ends
<1>i. TypeOK /\ RecordsInv BY DEF Invariant
<1>c. /\ Serving /\ mem' = mem /\ db' = db /\ proc' = proc /\ leases' = leases /\ stray' = stray
      /\ schedulerClosed' = schedulerClosed /\ spent' = spent /\ daemon' = daemon /\ stop' = stop
  BY DEF SweepBegins, SweepMoves, InSweep, UnchangedScheduler, schedulerVars, UnchangedProcess,
     Free, Serving
<1>1. TypeOK'
  <2>1. Control BY <1>i DEF TypeOK, Control
  <2>2. Control'
    <3>1. CASE SweepBegins BY <2>1, <3>1, <1>c DEF SweepBegins, Control
    <3>2. CASE SweepMoves
      <4>1. PICK at \in {"seal", "rest"}, todo \in SUBSET SessionIds : Sweep(at, todo)
        BY <3>2 DEF SweepMoves
      <4>. QED BY <2>1, <4>1, <1>c DEF Sweep, Control
    <3>. QED BY <3>1, <3>2
  <2>. QED BY <2>2, <1>c, <1>i DEF TypeOK, Control
<1>2. RecordsInv' BY <1>c, <1>i DEF RecordsInv, Phases, Serving
<1>3. ASSUME NoReuse PROVE ServiceInv'
  <2>i. ServiceInv /\ Snapshots BY <1>3 DEF Invariant, ServiceInv
  <2>1. \A s \in SessionIds : mem[s].ctrl = "pending" =>
          mem[s].task \notin Early /\ db[s].create # "none"
    BY <2>i DEF ServiceInv, Owned, InHand, Fresh, Early
  <2>2. Snapshots'
    <3>1. CASE SweepBegins BY <3>1, <2>i, <2>1, <1>c DEF SweepBegins, Snapshots, Listed
    <3>2. CASE SweepMoves
      <4>1. sweep.pending = {} /\ sweep'.pending = {} /\ sweep'.clean = sweep.clean
            /\ sweep'.at \in {"seal", "rest"}
        BY <3>2, <2>i, <1>i DEF SweepMoves, SweepLooksForIdle, Sweep, Snapshots, TypeOK
      <4>. QED BY <4>1, <2>i, <1>c DEF Snapshots, Listed
    <3>. QED BY <3>1, <3>2
  <2>. QED BY <2>i, <2>2, <1>c DEF ServiceInv, Places, Trees
<1>. QED BY <1>c, <1>1, <1>2, <1>3, SameRows DEF Invariant, NoReuse

\* A shutdown knows of every controller.
LEMMA ShutdownKeeps ==
  ASSUME Invariant, Shutdown
  PROVE  Invariant' /\ Ends
<1>i. TypeOK /\ RecordsInv BY DEF Invariant
<1>c. /\ daemon = "up" /\ daemon' = "stopping" /\ mem' = mem /\ db' = db /\ proc' = proc
      /\ leases' = leases /\ stray' = stray /\ schedulerClosed' = TRUE /\ sweep' = sweep
      /\ stop'.ctrls = {s \in SessionIds : ControllerOf(s)} /\ stop'.on = {}
  BY DEF Shutdown, CloseScheduler, UnchangedProcess
<1>s. stop = Running BY <1>i, <1>c DEF RecordsInv, Phases
<1>1. TypeOK'
  <2>1. Spend("stop") /\ "stop" \in DOMAIN Bound BY DEF Shutdown, Bound
  <2>2. /\ spent' \in [DOMAIN Bound -> Nat]
        /\ \A what \in DOMAIN Bound : spent'[what] <= Bound[what]
    BY <2>1, <1>i, SpentTypes
  <2>. QED BY <2>2, <1>c, <1>i DEF TypeOK, Shutdown
<1>2. RecordsInv' BY <1>c, <1>i DEF RecordsInv, Phases, Serving
<1>3. ASSUME NoReuse PROVE ServiceInv'
  <2>i. ServiceInv /\ Snapshots BY <1>3 DEF Invariant, ServiceInv
  <2>0. \A s \in SessionIds : s \notin stop.ctrls BY <1>s DEF Running
  <2>1. \A s \in SessionIds : Owned(mem'[s], db'[s], leases'[s], proc'[s], s \in stop'.ctrls)
    BY <2>0, <2>i, <1>c DEF ServiceInv, Owned, Permitted, Watched
  <2>2. \A s \in SessionIds : Listed(s)'
    <3>1. \A s \in SessionIds : ControllerOf(s) => mem[s].task \notin Early /\ mem[s].ctrl # "none"
      BY <2>i DEF ServiceInv, Owned, InHand, ControllerOf, Early
    <3>. QED BY <3>1, <2>0, <2>i, <1>c DEF Snapshots, Listed
  <2>3. Snapshots' BY <2>2, <2>i, <1>c DEF Snapshots
  <2>. QED BY <2>1, <2>3, <2>i, <1>c DEF ServiceInv, Places, Trees
<1>. QED BY <1>c, <1>1, <1>2, <1>3, SameRows DEF Invariant, NoReuse

\* A daemon that ends leaves its processes on record.
LEMMA GoneKeeps ==
  ASSUME Invariant, Stopped \/ Crash
  PROVE  Invariant' /\ Ends
<1>i. TypeOK /\ RecordsInv BY DEF Invariant
<1>c. Gone /\ (Free \/ Spend("stop")) BY DEF Stopped, Crash
<1>d. /\ daemon' = "down" /\ mem' = [s \in SessionIds |-> NoMemory] /\ sweep' = Resting
      /\ stop' = Running /\ leases' = [s \in SessionIds |-> "none"] /\ schedulerClosed' = FALSE
      /\ stray' \subseteq SessionIds /\ db' = db /\ proc' = proc
  BY <1>c DEF Gone, Nothing, ResetScheduler
<1>1. TypeOK'
  <2>1. "stop" \in DOMAIN Bound BY DEF Bound
  <2>2. /\ spent' \in [DOMAIN Bound -> Nat]
        /\ \A what \in DOMAIN Bound : spent'[what] <= Bound[what]
    BY <2>1, <1>c, <1>i, SpentTypes
  <2>. QED BY <2>2, <1>d, NothingHeld, <1>i DEF TypeOK, Resting, Running, LeaseStates
<1>2. RecordsInv'
  <2>1. Phases' BY <1>d DEF Phases, Nothing, NoMemory, Serving
  <2>2. \A s \in SessionIds : Basic(mem'[s], db'[s])
    BY <1>d, <1>i DEF RecordsInv, Basic, AtWork, NoMemory
  <2>. QED BY <2>1, <2>2 DEF RecordsInv
<1>3. ASSUME NoReuse PROVE ServiceInv'
  <2>i. ServiceInv BY <1>3 DEF Invariant
  <2>1. \A s \in SessionIds : Owned(mem'[s], db'[s], leases'[s], proc'[s], s \in stop'.ctrls)
    BY <1>d, <2>i DEF ServiceInv, Owned, InHand, OnRecord, Permitted, Fresh, NoMemory, Early,
       Granted, Ended, Holding
  <2>2. Snapshots' BY <1>d DEF Snapshots, Listed, Resting, Running, NoMemory
  <2>3. Places' \subseteq Places BY <1>d DEF Places, Trees, NoMemory, Granted
  <2>. QED BY <2>1, <2>2, <2>3, <2>i, <1>d, NoMorePlaces DEF ServiceInv
<1>. QED BY <1>d, <1>1, <1>2, <1>3, SameRows DEF Invariant, NoReuse

\* A daemon that begins finds a record of every process that is left.
LEMMA ReconcileKeeps ==
  ASSUME Invariant, Reconcile
  PROVE  Invariant' /\ Ends
<1>i. TypeOK /\ RecordsInv /\ Phases BY DEF Invariant, RecordsInv
<1>c. /\ daemon = "down" /\ daemon' = "reconciling" /\ proc' = proc /\ leases' = leases
      /\ stray' = stray /\ schedulerClosed' = schedulerClosed /\ spent' = spent
      /\ sweep' = sweep /\ stop' = stop
  BY DEF Reconcile, UnchangedScheduler, schedulerVars, UnchangedProcess, Free
<1>d. /\ sweep = Resting /\ stop = Running
      /\ \A s \in SessionIds : mem[s] = NoMemory /\ leases[s] = "none"
  BY <1>c, <1>i DEF Phases, Nothing, Serving
<1>r. db' = [s \in SessionIds |-> Restarted(db[s])] BY DEF Reconcile, ReconcileTables, Restarted
<1>k. ASSUME NEW s \in SessionIds
      PROVE  /\ SurvivorKind(s) \in {"none", "request", "session", "unknown"}
             /\ SurvivorKind(s) = "session" => db[s].owned
             /\ SurvivorKind(s) \in {"request", "unknown"} => db[s].startup # "none"
             /\ db[s].startup # "none" \/ db[s].owned <=> SurvivorKind(s) # "none"
  <2>1. db[s].startup \in {"none", "registered", "attempted", "worker", "tool"}
    BY <1>i DEF TypeOK, Row
  <2>. QED BY <2>1 DEF SurvivorKind
<1>n. ASSUME NEW s \in SessionIds
      PROVE  /\ mem'[s] \in Memory /\ SameBut(NoMemory, mem'[s], {"found"})
             /\ mem'[s].found = SurvivorKind(s) /\ ~mem'[s].suppressed
  <2>1. mem'[s] = [NoMemory EXCEPT !.found = SurvivorKind(s)] BY <1>d DEF Reconcile
  <2>2. mem'[s] \in Memory
    BY <2>1, <1>k, NothingHeld DEF Memory
  <2>. QED BY <2>1, <2>2, NothingHeld DEF SameBut, NoMemory
<1>q. ASSUME NEW s \in SessionIds, NEW q, q = db'[s]
      PROVE  /\ RowStep(db[s], q) /\ q.startup = db[s].startup /\ q.session = db[s].session
             /\ q.owned = db[s].owned /\ q.create # "PENDING" /\ q.runtime \notin {"READY", "BUSY"}
             /\ q.create = "none" <=> db[s].create = "none"
             /\ db[s].unsealed \subseteq q.unsealed
  BY <1>r, <1>q, <1>i, RestartRows DEF TypeOK, RecordsInv, Basic
<1>1. TypeOK' BY <1>c, <1>n, <1>q, <1>r, <1>i DEF TypeOK, Reconcile, RowStep
<1>2. RecordsInv'
  <2>1. Phases'
    BY <1>c, <1>d, <1>n DEF Phases, Idle, NoMemory, SameBut, Serving
  <2>2. ASSUME NEW s \in SessionIds PROVE Basic(mem'[s], db'[s])
    BY <1>n, <1>q DEF Basic, RowStep, AtWork, NoMemory, SameBut
  <2>. QED BY <2>1, <2>2 DEF RecordsInv
<1>3. ASSUME NoReuse PROVE ServiceInv'
  <2>i. ServiceInv BY <1>3 DEF Invariant
  <2>1. ASSUME NEW s \in SessionIds
        PROVE  Owned(mem'[s], db'[s], leases'[s], proc'[s], s \in stop'.ctrls)
    <3>1. OnRecord(mem[s], db[s], proc[s]) BY <2>i DEF ServiceInv, Owned
    <3>2. db[s].create = "none" => SurvivorKind(s) = "none"
      BY <1>k, <1>i DEF RecordsInv, Basic, RowSound
    <3>. QED BY <3>1, <3>2, <1>c, <1>d, <1>k, <1>n, <1>q
             DEF Owned, InHand, OnRecord, Permitted, Fresh, NoMemory, SameBut, Early, Granted,
                 Ended, Holding
  <2>2. ASSUME NEW s \in SessionIds PROVE Covered(mem'[s], leases'[s], proc'[s])
    BY <2>i, <1>c, <1>d, <1>k, <1>n DEF ServiceInv, Owned, OnRecord, Covered
  <2>3. Snapshots'
    BY <1>c, <1>d, <1>n DEF Snapshots, Listed, Resting, Running, NoMemory, SameBut
  <2>4. Places' \subseteq Places BY <1>c, <1>n DEF Places, Trees, NoMemory, SameBut, Granted
  <2>. QED BY <2>1, <2>2, <2>3, <2>4, <2>i, NoMorePlaces DEF ServiceInv
<1>4. Ends BY <1>q, LaterStays DEF Ends, SealsDeadOnly, RowStep
<1>. QED BY <1>1, <1>2, <1>3, <1>4 DEF Invariant, NoReuse

\* A daemon that serves has a permit for every process, and seals only logs of the dead.
LEMMA ServesKeeps ==
  ASSUME Invariant, Serves
  PROVE  Invariant' /\ Ends
<1>i. TypeOK /\ RecordsInv /\ Phases BY DEF Invariant, RecordsInv
<1>c. /\ daemon = "reconciling" /\ daemon' = "up" /\ proc' = proc /\ leases' = leases
      /\ stray' = stray /\ schedulerClosed' = schedulerClosed /\ spent' = spent /\ mem' = mem
      /\ sweep' = sweep /\ stop' = stop /\ \A s \in SessionIds : mem[s].found = "none"
  BY DEF Serves, UnchangedScheduler, schedulerVars, UnchangedProcess, Free
<1>d. sweep = Resting /\ stop = Running BY <1>c, <1>i DEF Phases, Serving
<1>q. ASSUME NEW s \in SessionIds
      PROVE  \/ db'[s] = db[s]
             \/ SafeToSeal(s) /\ db'[s] = SealedRow(db[s])
  BY DEF Serves, SealedRow
<1>r. ASSUME NEW s \in SessionIds, NEW q, q = db'[s]
      PROVE  /\ RowStep(db[s], q) /\ SameCreate(db[s], q) /\ q.runtime = db[s].runtime
             /\ q.owned = db[s].owned
             /\ q.unsealed = db[s].unsealed \/ SafeToSeal(s)
  <2>1. db[s] \in Row /\ RowSound(db[s]) BY <1>i DEF TypeOK, RecordsInv, Basic
  <2>2. CASE q = db[s] BY <2>1, <2>2, SameRow DEF SameCreate
  <2>3. CASE SafeToSeal(s) /\ q = SealedRow(db[s]) BY <2>1, <2>3, SealRows
  <2>. QED BY <1>q, <1>r, <2>2, <2>3
<1>1. TypeOK' BY <1>c, <1>r, <1>i DEF TypeOK, Serves, RowStep
<1>2. RecordsInv'
  <2>1. Phases' BY <1>c, <1>i DEF Phases, Serving
  <2>2. ASSUME NEW s \in SessionIds PROVE Basic(mem'[s], db'[s])
    BY <1>c, <1>r, <1>i DEF RecordsInv, Basic, RowStep, AtWork, SameCreate
  <2>. QED BY <2>1, <2>2 DEF RecordsInv
<1>3. ASSUME NoReuse PROVE ServiceInv' /\ \A s \in SessionIds : SealsDeadOnly(s)
  <2>i. ServiceInv BY <1>3 DEF Invariant
  <2>1. ASSUME NEW s \in SessionIds
        PROVE  /\ Owned(mem'[s], db'[s], leases'[s], proc'[s], s \in stop'.ctrls)
               /\ Covered(mem'[s], leases'[s], proc'[s])
    BY <2>i, <1>c, <1>r DEF ServiceInv, SameCreate, Owned, InHand, OnRecord, Permitted, Watched,
       Fresh
  <2>2. Snapshots' BY <2>i, <1>c, <1>d, <1>r DEF ServiceInv, Snapshots, Listed, SameCreate, Resting,
                      Running
  <2>3. ASSUME NEW s \in SessionIds, SafeToSeal(s) PROVE proc[s] = "no"
    <3>1. OnRecord(mem[s], db[s], proc[s]) /\ RowSound(db[s])
      BY <2>i, <1>i DEF ServiceInv, Owned, RecordsInv, Basic
    <3>. QED BY <3>1, <2>3 DEF SafeToSeal, OnRecord, RowSound
  <2>4. \A s \in SessionIds : SealsDeadOnly(s) BY <2>3, <1>c, <1>r DEF SealsDeadOnly
  <2>. QED BY <2>1, <2>2, <2>4, <2>i, <1>c DEF ServiceInv, Places, Trees
<1>4. Ends BY <1>3, <1>r, LaterStays DEF Ends, RowStep
<1>. QED BY <1>1, <1>2, <1>3, <1>4 DEF Invariant, NoReuse

-----------------------------------------------------------------------------
(* Theorems *)

\* The invariant is inductive, and a step undoes nothing.
LEMMA NextKeeps ==
  ASSUME Invariant, [Next]_vars
  PROVE  Invariant' /\ Ends
<1>1. CASE \E s \in SessionIds : SessionStep(s)
  BY <1>1, SessionKeeps, SessionEnds
<1>2. CASE SweepBegins \/ SweepMoves BY <1>2, SweepKeepsInvariant
<1>3. CASE Shutdown BY <1>3, ShutdownKeeps
<1>4. CASE Stopped \/ Crash BY <1>4, GoneKeeps
<1>5. CASE Reconcile BY <1>5, ReconcileKeeps
<1>6. CASE Serves BY <1>6, ServesKeeps
<1>7. CASE UNCHANGED vars
  <2>1. Ends BY <1>7, SameRows DEF vars
  <2>2. TypeOK' BY <1>7 DEF vars, Invariant, TypeOK
  <2>3. RecordsInv' BY <1>7 DEF vars, Invariant, RecordsInv, Phases, Serving
  <2>4. NoReuse => ServiceInv'
    BY <1>7 DEF vars, Invariant, ServiceInv, Snapshots, Listed, Places, Trees
  <2>. QED BY <2>1, <2>2, <2>3, <2>4 DEF Invariant, NoReuse
<1>. QED BY <1>1, <1>2, <1>3, <1>4, <1>5, <1>6, <1>7 DEF Next, SessionStep

\* In every reachable state the invariant holds.
THEOREM InvariantHolds == Spec => []Invariant
<1>1. Invariant /\ [Next]_vars => Invariant' BY NextKeeps
<1>. QED BY InitHolds, <1>1, PTL DEF Spec

\* Every variable has its type, the row of every session, and what the daemon holds for it,
\* included; no bound is exceeded.
THEOREM TypeCorrect == Spec => []TypeOK
<1>1. Invariant => TypeOK BY DEF Invariant
<1>. QED BY <1>1, InvariantHolds, PTL

\* The rows of a session agree at all times, whatever fails and whoever comes late: an
\* active execution is the current one of a usable runtime, BUSY says that one runs, only a
\* lost execution has an open log, and a session that was published has no start-up left.
THEOREM RecordsAgreeAlways == Spec => []RecordsAgree
<1>1. Invariant => RecordsAgree
  BY DEF Invariant, RecordsInv, Basic, RowSound, RecordsAgree
<1>. QED BY <1>1, InvariantHolds, PTL

\* An outcome that a client was told of is the outcome: no step of any thread, no restart
\* and no sweep changes it, but retention may delete it.
THEOREM OutcomesAreFinal == Spec => [][\A s \in SessionIds : OutcomesStay(s)]_vars
<1>1. Invariant /\ [Next]_vars => [\A s \in SessionIds : OutcomesStay(s)]_vars
  BY NextKeeps DEF Ends
<1>. QED BY <1>1, InvariantHolds, PTL DEF Spec

\* Neither that, nor is a log sealed while its writer lives, unless an id is used again while
\* a directory of its last session is left.
THEOREM EndedStaysFinal == ASSUME NoReuse PROVE Spec => EndedIsFinal
<1>1. Invariant /\ [Next]_vars => [\A s \in SessionIds : SealsDeadOnly(s) /\ OutcomesStay(s)]_vars
  BY NextKeeps DEF Ends
<1>. QED BY <1>1, InvariantHolds, PTL DEF Spec, EndedIsFinal

\* Under the same proviso the registry knows of every process, so that whoever comes after
\* a crash finds it.
THEOREM OwnershipIsDurable == ASSUME NoReuse PROVE Spec => []OwnershipDurable
<1>1. Invariant => OwnershipDurable
  BY DEF Invariant, ServiceInv, Owned, OnRecord, OwnershipDurable, Trees
<1>. QED BY <1>1, InvariantHolds, PTL

\* Every lease has somebody who will release it.
THEOREM NoPermitLeaks == ASSUME NoReuse PROVE Spec => []NoLeakedPermit
<1>1. Invariant => NoLeakedPermit
  <2>. SUFFICES ASSUME Invariant, NEW s \in SessionIds, leases[s] # "none",
                       mem[s].task = "none", mem[s].ctrl # "pending", mem[s].orphan = "none"
                PROVE  mem[s].ctrl = "listed" /\ WillRelease(s)
    BY DEF NoLeakedPermit, Leased
  <2>1. Permitted(mem[s], db[s], leases[s], s \in stop.ctrls)
    BY DEF Invariant, ServiceInv, Owned
  <2>. QED BY <2>1 DEF Permitted, Watched, WillRelease
<1>. QED BY <1>1, InvariantHolds, PTL

\* The permits bound the processes that exist: every tree has a lease while the daemon
\* serves, and no more trees than the capacity exist at any time, a restart included.
THEOREM CapacityIsKept == ASSUME NoReuse PROVE Spec => []CapacityCoversTrees
<1>1. Invariant => CapacityCoversTrees
  <2>. SUFFICES ASSUME Invariant PROVE CapacityCoversTrees OBVIOUS
  <2>i. TypeOK /\ Phases /\ ServiceInv BY DEF Invariant, RecordsInv
  <2>1. LeaseCoversProcess
    BY <2>i DEF ServiceInv, Covered, LeaseCoversProcess, Serving, Trees, Phases
  <2>2. TreesWithinCapacity
    <3>1. Trees \subseteq Places /\ Places \subseteq SessionIds BY DEF Places, Trees
    <3>2. IsFiniteSet(Places) /\ IsFiniteSet(Trees) BY <3>1, SchedulerAssumption, FS_Subset
    <3>3. Cardinality(Trees) <= Cardinality(Places) BY <3>1, <3>2, FS_Subset
    <3>4. Cardinality(Trees) \in Nat /\ Cardinality(Places) \in Nat BY <3>2, FS_CardinalityType
    <3>. QED BY <3>3, <3>4, <2>i, SchedulerAssumption DEF ServiceInv, TreesWithinCapacity
  <2>. QED BY <2>1, <2>2 DEF CapacityCoversTrees
<1>. QED BY <1>1, InvariantHolds, PTL
=============================================================================
