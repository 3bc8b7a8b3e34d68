# TLA+ specifications of the science_eda sandbox

These modules describe the part of the repository that has state and
concurrency: the sandbox that runs Python, shell, Tcl, Innovus and PrimeTime code
for many clients. Paths below are relative to `src/`; `S/` stands for
`eda_image/science_eda/sandbox/`.

Check a configuration with `tlc -config MCToolPool_close.cfg MCToolPool`, the
proofs with `tlapm ToolPool_proofs.tla`, and so on for each `*_proofs.tla`.

## 1. The system

The sandbox has two halves.

* **Batch**: `S/server.py` (HTTP) or an importing program (`S/client.py`) calls
  `SessionManager` (`S/session.py`). A session is a logical workspace with an id, a
  directory and a worker process. Innovus sessions, and PrimeTime sessions if
  configured, borrow their worker from a bounded pool (`S/tool_pool.py` with
  `S/innovus_pool.py`, `S/primetime_pool.py`); other languages own a worker, which
  is restarted and fed its history after a crash. A worker (`S/worker.py`) runs one
  request at a time through an executor (`S/executor.py`).
* **Interactive**: a daemon (`S/interactive/`) keeps long-lived tool runtimes. A
  registry in SQLite records create requests, sessions, runtimes and executions; a
  scheduler bounds runtimes per tool; a service ties them to processes and
  reconciles all of it after a restart.

| Component | State | Operations | Hard behaviour | What makes it correct |
|---|---|---|---|---|
| Tool pool | `_idle`, `_leased`, `_starting_workers`, the counter `_starting`, `_close_generation`, replenish target, supervisor thread | `lease`, `execute`, `discard`, `release`, `start_supervisor`, `cancel_pending_leases`, `close_all` | tools start, answer and die outside the lock; closes fence older leases by generation; the supervisor sleeps without a time-out | a worker is in one place and driven by one thread; slots are counted; nobody loses a process; no lost wake-up |
| Session registry | `_sessions`, starting and closing ids, `_close_generation`, `_closing_all`, `exec_lock` per session | create, execute, file access, close, TTL sweep, `close_all` | two locks; lookups before the lock; a sweep on a snapshot; creation against `close_all`; an id used again | one pool call per id; no lease leaks; nothing is pulled away from a call; `close_all` leaves nothing |
| Replay and retry (same file) | history, worker, retry flags | execute, restart, replay | failure in the middle of a replay | a session's state is its history or the loss is reported |
| Worker and executors | one console: stdin, two pipes, two readers, a bounded queue, the decoder, the sink | `prepare_execution`, `execute_prepared`, `execute`, `close`, parent watch | late output of an earlier command or of a process it left, two streams that nothing orders, user code that reads the stdin it inherits, full pipes, time-outs, a log that cannot be written | a result holds what its own execution wrote; a status is its code's own; what was dropped is counted; every execution returns; the tool ends with the worker |
| Capacity scheduler | leases, waiting counts | acquire, mark ready, reserve and recover, release, close | release exactly once | never more runtimes than capacity, except survivors of a restart |
| Interactive registry | five tables | transitions of requests, startups, sessions, runtimes, executions; history pages | idempotent requests, log quota, cursors | statuses only move forward and agree with each other; a request runs once; the quota covers the bytes on disk |
| Interactive service | controllers, create tasks | create, execute, destroy, loss, sweep, shutdown, reconcile | a crash between any two writes; loss racing everything | a live process has a lease and a record |
| Daemon locks | lock files | acquire, release | several roots, ancestors and descendants, daemons that start at once, death | two daemons never own overlapping roots; not all that start are refused |
| Workspaces, file I/O | directories | upload, download, list | path validation | I/O |
| HTTP APIs, clients, MCP adapters, monitor, configuration | little or none | translation | retries, polling | pure translation |

The components of `PROJECT.json` follow this table and say why a part is not
modelled; its hazards are the places in the code that a test would hardly reach.

How they interact: clients call the registry under `exec_lock`; the registry calls
a pool with a session id and never two calls for one id at a time; the pool's
callers, its supervisor and its start-up threads share one condition variable;
`close_all` of the registry first cancels the pool's pending leases, then closes
the sessions, then the pool. The interactive service calls the scheduler, the
registry and the runtimes; a monitor thread of a runtime calls back on loss.

## 2. The modules

| Module | Models | Uses |
|---|---|---|
| `WorkerLease` | abstract: workers appear, are lent to one session each, come back or vanish, at most `PoolSize` | |
| `ToolPool` | `tool_pool.py` and the `release` of `innovus_pool.py` and `primetime_pool.py` | `INSTANCE WorkerLease` |
| `ToolPool_proofs` | theorems about `ToolPool`: types, exclusive leases, capacity, what it must not lose; it implements `WorkerLease` | `ToolPool`, `FiniteSetTheorems`, `TLAPS` |
| `SessionManager` | `session.py`: registry, pooled adapters, `locked_session`, sweep, `close_all` | |
| `SessionRecovery` | `session.py`: `execute_in_session` of one session whose worker is lost: restart, replay, retry, a new lease | |
| `SessionManager_proofs` | theorems about `SessionManager` | `SessionManager`, `TLAPS` |
| `SessionRecovery_proofs` | theorems about `SessionRecovery` | `SessionRecovery`, `SequenceTheorems`, `TLAPS` |
| `CapacityScheduler` | `interactive/scheduler.py`: permits of one tool | |
| `InteractiveRegistry` | `interactive/registry_*.py`: one operator per SQLite transaction | |
| `InteractiveService` | `interactive/service.py`, `service_lifecycle.py`, `runtime.py`: the daemon, its restarts, its processes | extends `CapacityScheduler`, `INSTANCE InteractiveRegistry` |
| `InteractiveService_proofs` | theorems about `InteractiveService` and its registry and scheduler | `InteractiveService`, `FiniteSetTheorems`, `TLAPS` |
| `ToolConsole` | `executor.py`, `output.py`, `tcl_protocol.py` and the message loop of `worker.py`: one worker and its long-lived tool | |
| `ToolConsole_proofs` | theorems about `ToolConsole` | `ToolConsole`, `FiniteSetTheorems`, `SequenceTheorems`, `TLAPS` |
| `DaemonLocks` | the lock groups of `interactive/registry_storage.py` and `daemon_lock.py` | |
| `DaemonLocks_proofs` | theorems about `DaemonLocks` | `DaemonLocks`, `TLAPS` |
| `ExecutionLogs` | `interactive/registry_execution.py`, what `registry_lifecycle.py` does to executions, `partial_log.py` | |
| `DaemonStorage` | requests to one session through several daemons: `interactive/service.py`, `service_execution.py`, `service_lifecycle.py` | extends `DaemonLocks` and `ExecutionLogs` |
| `ExecutionLogs_proofs` | lemmas: what one transaction makes of the rows, the runtime and the log quota | `ExecutionLogs`, `SequenceTheorems`, `TLAPS` |
| `DaemonStorage_proofs` | `DaemonStorage` implements `DaemonLocks`; theorems about requests, the log quota, types | `DaemonStorage`, `FiniteSetTheorems`, the two proof modules above |
| `MCToolPool`, `MCSessionManager`, `MCSessionRecovery`, `MCInteractiveService`, `MCToolConsole`, `MCDaemonStorage` | small instances | |

**ToolPool.** One action is one critical section of `_cond`, or one step without
the lock between two of them: a round trip on a worker's pipe, a kill. A session's
thread is `caller[s]`: its step, the generation `lease` read, the worker in its
local variable. `boot[w]` is a run of `_start_physical_worker` for worker `w`, in a
caller's thread or in a starter of the supervisor (its `owner`). `closer[c]` is a
thread in `cancel_pending_leases` or `close_all`, with the workers it has still to
kill. `alive` is the set of processes; `loaded[w]` the sessions whose design state
the tool in `w` holds. Times are gone: a time-out that the code allows may happen
at once, and the supervisor's back-off is over at some time. A `WorkerLease` worker
is available when it is in `_idle` and lent when in `_leased`.

**SessionManager.** A thread is a `pc` with the object `on` and the id `name` it
works on. `Session` objects and ids are different things, since an id is used again
after a close while other threads still hold the old object. `execLock[o]` is the
`exec_lock`; the manager's own lock is held within single actions. The pool is
abstract here: `leased` is the set of keys of `_leased`, granted and dropped in one
step, and `poolGeneration` the pool's close generation. That no two threads work on
the lease of one id (`PoolCallsExclusive`) is what `ToolPool` assumes of its caller
when it gives every session one thread. Languages that own their worker, and
PrimeTime with its pool switched off, have nothing to lease; what they do is in the
next module.

**SessionRecovery.** One session of one of four kinds: with history (Python, shell,
Tcl), without (PrimeTime that owns its worker), Innovus and pooled PrimeTime. Its
calls come one after another, since each holds `exec_lock`. A call's code is its
number; `state` is the sequence of codes that ran in the tool, those that ended with
an error included. A call is a loop over steps: run, the three ways to fail (exit,
signal-like exit code with a worker that lives, time-out), restart, one action per
replayed snippet, or a new lease. The pool is one step that grants a worker or
fails. `attempted` stands for `innovus_incomplete_reset_retry_used` too, which is
set only after it. Files in the working directory are not part of the model.
`acked` and `told` are history variables: what the client knows of the session.

**InteractiveService.** The tables survive everything: `db[s]` has the rows of a session
id, and each action takes one transaction of `InteractiveRegistry`, so that a crash
falls between any two. `mem[s]` is what the daemon holds for the id and what its
threads do with it: the create task (`task`), the request that executes and the
`_execute_task` that it leaves behind (`job`), a destroy (`kill`), the runtime's monitor
with its loss callback (`mon`), and `lock`, the session lock. All of them,
the sweep and shutdown end in `_release_controller`, which `release_lock` makes one
release at a time: `rel` is the thread that holds it, `step` its place (terminate,
retire, clean up, confirmed or not). `ctrl` is where the controller is listed, `orphan` an
entry of `_orphan_runtimes`, `dirty` one of `_pending_ownership_cleanup`, `found` a record
that reconciliation has still to decide. `sweep` and `stop` hold the lists that
`sweep_once` and `shutdown` copy at their start. A process tree, worker and tool, is
`no`, `worker` or `tool`; trees whose daemon is gone are in `stray` and end by themselves at
some time, since a worker watches its parent. `Crash` and the end of `Shutdown` keep `db` and `proc`
and lose the rest.

What is assumed there: recorded pids with their identities mean the recorded process
(`process_identity.py`); logs can be read, so that sealing does not fail; the start-up
time that the code waits before it believes a tree without a recorded tool gone is
long enough, and becomes "the tree is gone" (`OrphanGone`). Of two requests for one
session one holds the job's slot at a time. Retention meets ids that no thread works on.
The log quota, history pages and repeats of a request with the same id are in
`DaemonStorage`; session events are left out; `TIMED_OUT` is `LOST` here.

**ToolConsole.** The four threads of the code, and two of the tool's side, are the actions: the
interpreter reads a line of stdin and runs it (`ReadLine`, `WriteMark`, `CaptureStatus`,
`WriteStatus`), user code prints, takes a line of stdin, leaves a background process, ends or
crashes (`PrintUnit`, `TakeLine`, `LeaveChild`, `UserCodeEnds`, `ToolExits`), each reader moves a
chunk from its pipe to `outputQ` (`ReadChunk`, `ReadEof`), and the worker's main thread is
`worker.pc`: `write` while `_write_stdin` runs, `collect` for the loop of `_execute_protocol_block`,
`drain` after a kill, `finish` and `reply`, `close`. A chunk is a control record with its
execution's token or one unit of user bytes. The decoder keeps back the last unit of a stream,
because it may be the beginning of a record (`decoder.held`); a unit is two bytes long and the
budget of a log is odd, so that the last unit is cut. `sink.own` and `sink.other` split what the
sink observed by the window in which it was printed, which is a history variable, and `sink.notes`
are the worker's own messages. Every pipe, the queue and stdin are bounded, so that each can be full
and block its writer. A child in the tool's process group dies of the kill, a stray one keeps the
pipes open. prepare, reset, health check and the change of the working directory are memory
executions here.

A worker runs either Tcl, where the block is the one line `source ...`, or a shell, where each line
of code, each record and the capture of the exit status is a line of stdin. The user's code inherits
stdin, so it may take lines from it (`TakeLine`): in a shell those of its own block, in Tcl the next
`source` line, if a command or a process left by one gets there before the interpreter. Bash gives
its background processes `/dev/null`, so only a running command takes lines there. An unclosed quote
or here-document that swallows the rest of the block is the same step. `robbed` is a history
variable: the current execution lost a line in this way. `edaStatus` is `__eda_status` or
`__eda_code`; a status record carries what it holds, `stale` if that is of an earlier execution, and
with nothing in it (`WriteBlankStatus`) the record is no record to the decoder. What was taken may
be printed. Of the lines of bash that write records, those of the start and the fence of stdout end
with the record itself, so that the decoder takes them for it; the others end with `>&2` or the name
of the variable. Code that composes records out of what it read is left out, and so is code that
assigns to `__eda_status`.

**DaemonLocks.** `phase[d]` is where the process is, `held[d]` the directories whose lock it
has; whether a lock is shared or exclusive follows from `Roots[d]`. Directories are a tree
(`Above`), the sort key of `_requirements` is `Order`, of which only matters that an
ancestor comes first. Each `flock` is a step, each release of one is a step, in reverse
order. `quiet` is a history variable: no owner has closed and nobody has crashed yet.

**ExecutionLogs** has the rows of one session: operators on a registry `g` that say what one
transaction makes of it, as in `InteractiveRegistry`, but with request ids, the reserved,
accounted and written bytes and the completeness of each log. `log[k]` is the file on disk.
`Null` is SQL's. `Total`, what the column of accounted bytes adds up to, is the number of pairs of
a row and one of its bytes. **DaemonStorage** puts daemons around them: `mem[d]` is what a daemon
holds, its request threads (`call`), the background thread (`job`), the monitor, a destroy
(`kill`), and it is lost with the process; `reg` and `log` survive, and so does the tool until
it notices. A release is one step with three outcomes (nothing to release, confirmed and
cleaned up or left to the sweep, not confirmed); `InteractiveService` takes it apart. An event
without a time-out is the state `wait`, set is `told`. `dispatched` counts how often the code of
a request was sent to a tool, `reader` is a client that pages through the history.

Definitions marked "Mutant" stand beside the definition they alter. No
specification uses them; each shows that some property notices the mistake.

## 3. The runs

| Run | Instance | Properties | Shows |
|---|---|---|---|
| `pool_close` | Innovus, 1 slot, 2 sessions, 3 workers, 1 close, 1 fault, reuse with retry | `TypeOK`, `WorkerExclusive`, `WorkersAccounted`, `ResidueIsMarked`, `LeaseSpec` | the tables, threads and processes agree whatever a close interrupts; the pool implements `WorkerLease` |
| `pool_live` | PrimeTime without reset Tcl and without reuse, 1 slot, 2 sessions, 2 workers, 1 close, 1 fault | `StartingCount`, `CapacityRespected`, `CallsReturn`, `Replenished` | start-ups are counted; every call returns; the supervisor wakes up and refills the pool |
| `pool_limit` | as `pool_close` | `HardProcessLimit`, violated | see section 5 |
| `registry` | 2 ids, 3 objects, 2 clients, 1 slot, 3 calls, 1 `close_all`, 1 fault | `TypeOK`, `PoolCallsExclusive`, `LeasesMatch`, `SessionIntact`, `SweepsExpired`, `AllClosed` | create, use, close, sweep and `close_all` in any order |
| `registry_live` | 1 id, 1 object, 2 clients, 3 calls, 1 `close_all`, 1 fault | `CallsReturn`, `ExpiredIsSwept` | nobody waits for a session's lock for ever |
| `recovery` | all four kinds, 5 calls, 4 faults, `max_retries` 1 | `TypeOK`, `HistoryIsAcked`, `NoSilentLoss`, `RetriesOnHistory`, `MendsItself` | after any losses a session's tool holds what the client was told, or the client heard of the loss |
| `recovery_replay` | as `recovery`, 3 calls, 2 faults | `RunsOnHistory`, violated | see section 5 |
| `tool_console` | 2 executions, shell and Tcl, 1 line of code, queue and pipes of 1, stdin of 2 lines, budget of 3 bytes, 1 unit of output in Tcl | `TypeOK`, `ResultIsOwn`, `KnownLossIsExact`, `ExecutionReturns`, `ToolFollowsWorker` | output and losses are an execution's own whatever reads stdin; a status is, unless a shell's code took lines of its block; executions return; the tool ends with its worker |
| `interactive_session` | 1 session, 1 execution, 1 fault of a process, 1 failed removal, 2 crashes or shutdowns | `TypeOK`, `OwnershipDurable`, `NoLeakedPermit`, `RecordsAgree`, `EndedIsFinal`, `CreateEnds`, `EndedIsReleased` | whatever fails and whenever the daemon ends, processes stay recorded, tables agree, and what ended is released |
| `interactive_capacity` | 2 sessions, 1 slot, no executions, 1 fault, 1 crash or shutdown, 1 create forgotten | `CapacityCoversTrees` | no more tools than the capacity, across restarts too |
| `interactive_reuse` | 1 session, 2 failed removals, 1 create forgotten | `OwnershipDurable`, violated | see section 5 |
| `daemon_storage` | 3 daemons of which two want both roots and one wants one of them, 1 session, 2 requests, 2 request threads, quota of 2 bytes, pages of 1, 1 fault | `TypeOK`, `ElectsOne`, `QuotaKept`, `OnceEach`, `NoneForgotten` | one daemon serves; a request runs once through losses, restarts and repeats; the quota covers the logs; nobody waits for nothing |

Bounds. `MaxCloses` bounds the pool's close generation (one close is enough to make every earlier
lease stale, and a second worker id can meet it), `MaxFaults` the failures of tools that work (one
fault meets every step). Worker ids and objects are used again once nothing mentions them, so three
of each serve runs of any length; where none is left a new start-up or a new session waits for one.
Two sessions contend for one slot in `pool_close`, and with the supervisor, which a pool without
reuse keeps busy, in `pool_live`; `pool_size` above one is left to the proof of `CapacityRespected`,
which holds for every size. `MaxRequests = 3` allows create, close and create again of one id
against the sweep and `close_all`, and create, execute and close against each other. The small
instance of `registry_live` keeps the contention for one lock, which is what its properties are
about. In `recovery` four faults are enough to use up both attempts of a call, fail a replay, and
lose the worker again in a later call; five calls leave a history of several snippets before it and
calls after it. Sessions of the daemon meet only in the scheduler and in the sweep's lists, so that
one session shows what its threads do to each other, and two sessions with one slot what they do to
the capacity; executions change nothing there, since they take no permit. One execution lets a late
summary meet a loss, a destroy and a shutdown; a second could begin only on a runtime that has none.
Two stops let a second daemon end as well, in the middle of its reconciliation for one.
`interactive_session` has no retention and `interactive_capacity` no failed removals: both together
give the finding of `interactive_reuse`, and `OwnershipDurable` would fail for its reason only. In
`tool_console` the first execution may leave a process, a jammed pipe or held-back bytes to the
second; queues of one make every writer block; one unit of output can be on time, late, or between
the two executions, and with the message of a time-out it exceeds the budget. A shell's block of
seven lines gives it many more states than Tcl has, so that its user code prints nothing in the run
but what it takes from stdin; the records are enough to fill pipes and queue of one, and a process
left behind holds the pipes all the same. That what it prints is its own and counted is left to the
theorems, which hold for any number of units. `daemon_storage` has one session, which is published
when no daemon is on its way, and from then on a daemon starts only to serve it and only when none
does; before that the three start in any order. The third, whose registry is another, has not come
and gone by then: it could not start again, so that its past makes no difference to the session. Two
requests fill the quota; a page of one makes each row a page of its own, and a page that ends at its
budget of bytes is left to the theorem `OnlyOnce`, which holds for every size of a page. The roots
of the three daemons are shared, none is inside another; nested roots are left to `OwnersDisjoint`
and `OneElected`, which hold for every tree. Capacity, idle time and retention are left to
`interactive_session` and `interactive_capacity`. One fault stands for one failure of the disk, of a
kill or of a tool; crashes, shutdowns and executions that take too long are not bounded, except by
the number of daemons. Safety runs use symmetry over sessions, workers, ids, objects and clients;
liveness runs use none. Deadlock is not an error: with all bounds used up, and nobody calling, the
system rests.

## 4. Fairness

Threads run: each caller, start-up, closing thread and client is weakly fair in
the steps inside a call, because all their waits on pipes, on processes and on the
condition variable have time-outs (`queue_timeout`, `startup_timeout`, the
execution time-out). The supervisor is weakly fair while it is awake; asleep it
takes no step until a notification, so a lost one is visible. Requests,
closes, deaths and errors are never fair. In `SessionManager` taking an
`exec_lock` is strongly fair for clients and `close_all`: the sweep takes and frees
the locks for ever, but sleeps at least five seconds between two passes
(`session.py:102-104`). `CallsReturn` needs `QueueTimeout`, the default
configuration; see section 5.

In `InteractiveService` the create task, a release, the job, the monitor, a destroy and
the steps of a sweep, of a shutdown and of a reconciliation are weakly fair for each session:
they are threads of the daemon whose waits on processes have time-outs
(`startup_timeout`, the execution time-out, the grace times of `terminate`). The sweep comes
round for ever (`_sweep_loop`). Workers are fair in starting their tool and in
noticing that the parent is gone. Requests, deaths, faults, failed removals, shutdown, crash and
the start of the next daemon are not fair; the two liveness properties therefore
excuse a daemon that is down.

In `ToolConsole` the worker's main thread, its readers and the interpreter's own commands are weakly
fair, and what was sent SIGKILL dies. User code is not: it may print or hang for ever, and so may a
background process, and whether it reads stdin is up to it. `Deadline` is a step of the worker,
since the loop looks at the clock at least every 50 ms. `DaemonStorage` has no liveness property:
that the creator of an execution hears of its end is the invariant `NoneForgotten`, which says that
a thread that will set its event exists, and needs no fairness.

## 5. What the models say about the code

*More processes than `pool_size`.* `S/README.md:40` calls `innovus_pool_size` a hard
limit of physical processes. `cancel_pending_leases` and `close_all`
(`tool_pool.py:167-194`) empty the tables first and kill the processes afterwards, and
so does a start-up that a close cancelled (`tool_pool.py:267-277`). A lease in
between starts a new process next to the doomed ones. Run `pool_limit` shows it;
`CapacityRespected` is what holds: the counted slots never exceed the limit.

*A failed replay leaves a session that works without its history.* `S/README.md:42`
says that the manager restarts a lost worker, replays the successful snippets and
then retries. When a snippet fails in the replay, `_restart_worker` raises
(`session.py:511-515`), and the new worker stays in the session, alive, with a prefix of
the history in it. The next call finds it alive and runs its code there. Run
`recovery_replay` shows it. What holds is `NoSilentLoss`: the exception told the
client, and everything acknowledged after it is in the tool.

*A cleanup put off is done to another runtime.* A scratch directory that cannot be
removed leaves a record in `_pending_ownership_cleanup` that names the session id only
(`interactive/service_lifecycle.py:286-332`). If the client destroys the session, retention
deletes its rows before the cleanup has succeeded, and the id is created again, then the
next sweep removes the scratch directory of the live runtime and forgets its process
ids. After a restart nothing knows of the tool. It takes all three; run
`interactive_reuse` shows the order.

*A shell's exit status may be another execution's.* `S/README.md:36` says of shell and Tcl that a
unique status record and two fences frame an execution and that the real exit code is passed back.
`ShellExecutor` writes the script, `__eda_status=$?`, the status record and the fences to bash's
stdin (`executor.py:438-452`), which foreground commands of the script inherit. A command that reads
a line takes it from the block: with `read x` as last line of the code, `x` becomes
`__eda_status=$?`, and the status is that of the execution before. A line of code that was taken is
skipped, and a command that reads to the end takes the fences too and ends in a time-out. So
`ExitCodeIsReal`, which is what the document says, is false of a shell. Tcl does not have it, since
its block is a single `source` line (`tcl_protocol.py:37-46`, which gives another reason for it).
What holds is `StatusIsOwn`, which excepts shell executions that lost a line, and `OutputIsOwn` and
`KnownLossIsExact`, which except nothing.

More things hold only as stated:

* `AllClosed` and `LeasesMatch` hold with one `close_all` at a time. Of two
  that overlap, the first to end clears `_closing_all` (`session.py:662-664`) while the
  second still works off its list: a session created then is registered, and the
  second call kills its worker and leaves it registered.
* With `queue_timeout <= 0`, `close_all` may wait for ever: it closes sessions one
  after another (`session.py:655-659`), and an execute that holds the lock of the first
  may wait for the slot of a later one, its lease having begun after
  `cancel_pending_leases`.
* `NoSilentLoss` is stated for sessions that own their worker. A pooled session whose
  worker died between two calls gets another one without a word to the caller.
* `MendsItself` needs `max_retries > 0`: with 0 a dead worker of a session with history
  is never restarted, because the attempt is counted before the restart.
  It excepts sessions without history, which report a loss whenever they find the
  worker dead.
* A monitor reads its flags under `_state_lock` and looks at the processes after it
  (`interactive/runtime.py:487`). If an execution begins in between and its tool dies after the summary, the
  callback leaves the loss to the execution, which has succeeded, and the monitor ends: the
  runtime stays `READY` with dead processes until the next execute or the idle sweep finds
  out. `NoLeakedPermit` counts that as somebody who will release.
* `EndedIsFinal` is about sealing by the service. An execution without a summary records
  the length of its log as final even if the release could not confirm that the writer
  is dead (`interactive/service.py:891`). `QuotaKept` shows that what such a writer adds stays
  within the reservation, and that no such log is called complete.
* `ExecutionReturns` excepts a shell whose stdin stays full: `_write_stdin`
  (`executor.py:157`) has no deadline, and the one of the execution is set after it
  (`executor.py:219`). A script longer than the pipe whose first lines do not end, or whose
  output fills the pipes while nobody empties the queue, holds the worker until its parent
  gives up on it.
* `KnownLossIsExact` counts the bytes between the records on a stream, whoever wrote the records. A
  shell program that takes the fence line of stdout and prints it closes that stream for the
  decoder (`output.py:667`); what it prints there afterwards is in no count, and after a time-out
  the log is called complete.
* `ToolFollowsWorker` speaks of processes that hold the pipes. `close` sends SIGTERM to the group, and
  SIGKILL only if the leader or a reader is alive two seconds later (`executor.py:286-295`): a process of
  the group that ignores SIGTERM and has redirected its output survives.
* `OnceEach` bounds how often code is sent to a tool. It says nothing of a request whose
  tool died with it: that is `LOST`, and a repeat is answered `LOST`.
* A shutdown sets every event (`interactive/service.py:557`) while a background thread may be
  between its release and its record: the creator is then answered `RUNNING` for an execution
  that is over. A repeat of the request gets the outcome.
* A log that could not be read when its execution timed out without a summary keeps NULL
  written bytes for ever: only `LOST` rows are looked at again
  (`interactive/registry_execution.py:604`). Its whole reservation stays accounted.
* A row admitted under one page budget may not fit into a page of a daemon that is configured
  with a smaller one, and the listing then fails at it (`interactive/registry_execution.py:816`). The
  models keep the configuration constant.

## 6. What is proved

`ToolPool_proofs`, for all finite sets of sessions and workers, every set of
closing threads, every pool size and every setting of the switches, from
`PoolAssumption` alone:

| Theorem | States |
|---|---|
| `TypeCorrect` | `Spec => []TypeOK` |
| `PoolInvariant` | `Spec => []PoolInv`, the inductive invariant |
| `LeasesExclusive`, `ToolsDrivenByOne` | the two parts of `WorkerExclusive`, `LeaseExclusive` and `DrivenByOne` |
| `WorkersExclusive` | `Spec => []WorkerExclusive` |
| `CapacityKept` | `Spec => []CapacityRespected` |

`LeaseExclusive` is not inductive: `_return_worker_to_idle` puts the worker in the
thread's local variable into `_idle`, and a start-up puts its worker into a table, so
the invariant must speak of workers that no table shows. `PoolInv` adds to `TypeOK`
that a thread which talks to a tool has a worker in hand (`InHand`); that the
workers a session refers to, in `_leased` or in its thread's local variable, are no
other session's, are not idle and are in no start-up, and that no start-up's worker
is idle (`Separate`); and that `_starting_workers` lists workers between
registration and the `finally` clause (`Registered`). The lemmas go action by action.
`LeasesExclusive` and `ToolsDrivenByOne` follow from `PoolInv`. `CapacityRespected` is
inductive on top of it: the lemmas say by how much each action changes the
cardinalities of `_leased` and `_idle` and the counter `_starting`.

Its second part goes on from there, from the same assumption:

| Theorem | States |
|---|---|
| `LeaseInvariant` | `Spec => []LeaseInv`, the inductive invariant |
| `StartsCounted` | `Spec => []StartingCount` |
| `AllAccounted` | `Spec => []WorkersAccounted` |
| `ResidueMarked` | `Spec => []ResidueIsMarked` |
| `PoolImplementsLease` | `Spec => LeaseSpec`: each step is one of `WorkerLease`, or hidden |

A deletion from `_leased` is right only if it removes the thread's own entry: `Hands` says that a
thread with a worker in hand has the lease of that worker or, after a close, of none, and that a
thread without one has no lease. `OwnerWaits` ties a start-up to the one caller that waits for it,
so that its worker is lent to a session without a lease. `DoomedInv` is about generations: a worker
on a kill list may still be starting, but then its start-up began before the close and will not
publish it. `DeadDone` says which steps leave a dead worker behind; with it `NoOrphan` is inductive.
`Residue` follows design state from the reset to the next lease. `StartingCount` is more than
bookkeeping here: since the start-up that publishes is counted, `CapacityRespected` leaves a place
for its worker, which is what `Provide` and `Lend` of `WorkerLease` ask for.

`DaemonLocks_proofs`, for every set of daemons, every tree of directories and every choice of
roots, from `LocksAssumption`:

| Theorem | States |
|---|---|
| `LocksInvariant` | `LocksSpec => []LocksInv`, the inductive invariant |
| `LocksTypeCorrect` | `LocksSpec => []LocksTypeOK` |
| `OwnersDisjoint` | `LocksSpec => []RootsExclusive` |
| `OneElected` | `LocksSpec => []ElectsOne` |

`RootsExclusive` follows from `LocksInv`: what two daemons both have is a root of neither
(`Shared`), and an owner has every lock it asked for (`Complete`); if the root of one were
the root of another, or above it, both would have it. That daemons which start at once do
not all refuse each other needs more: locks are taken in the one order (`InOrder`), and
as long as nobody has closed or crashed, if some daemon was refused then some daemon leads (`SomeoneLeads`):
it is on its way or an owner, and has a lock that is at or beyond every lock which refused
daemons have not given back yet. A daemon is refused by a lock beyond all that it has itself. Either
the leader has got beyond that lock too, and goes on leading, or whoever has the lock is not
refused, and leads from now on.
With the locks in any other order the invariant breaks, and so does the system: that is
the mutant of `ElectsOne`.

`DaemonStorage_proofs`, for every set of daemons, directories, request threads and requests,
every quota, every page size and every number of faults, from `LocksAssumption`,
`LogsAssumption` and `StorageAssumption`:

| Theorem | States |
|---|---|
| `ServingFollowsLocks` | `Spec => LocksSpec`: each step of the daemons is a step of the locks or leaves them alone |
| `ServersElected` | `Spec => []ElectsOne`, carried over by the refinement |
| `StorageInvariant` | `Spec => []StorageInv`, the inductive invariant |
| `NobodyForgotten` | `Spec => []NoneForgotten` |
| `OnlyOnce` | `Spec => []OnceEach` |
| `QuotaInvariant` | `Spec => []QuotaInv`, the invariant of the logs, inductive on top of `StorageInv` |
| `QuotaCovers` | `Spec => []QuotaKept` |
| `StorageTypeCorrect` | `Spec => []TypeOK` |

`NoneForgotten` speaks of one daemon and the rows of one registry, which several daemons write: it
can hold only because one of them serves at a time. `StorageInv` says so, and `RootsExclusive`,
carried over by the refinement, is what keeps it: of two daemons that own the directory of the
registry one has nothing in memory. Of the one that serves, `Sound` says that a thread between its
row and its answer has the session lock, that a thread which waits waits for the execution of the
background thread, and that as long as there is such a thread the runtime is not `READY`, so that no
other execution is admitted beside it. The last one needs `RegInv`: a row that has not ended is the
current execution of its runtime, which is `READY` while the row is queued and `BUSY` while it runs.
`ExecutionLogs_proofs` shows that each transaction keeps `RegInv`, adds no row except `Begun`, and
moves no row back to `QUEUED`.

`OnceEach` is proved on top of it with `OnceInv`: what is queued, and what a background
thread is about to send, has not been sent before. Each step but a dispatch is `Settled` (it
queues nothing and prepares to send only what was queued) or admits one new row for a request
without one. A dispatch uses up what it sends: its row is not queued, and no other
daemon has a background thread. That a listing is the whole history is `ReaderInv`: the list is the rows
up to the cursor, and rows are only added at the end.

`QuotaKept` compares an account with a sum and with the disk. `ExecutionLogs_proofs` shows what a
change of one row does to the sum (a set of bytes splits into those of the row and those of
the others), and from it that each transaction keeps the `Books`: the account is the sum, and a
row that may still have a writer stays open, with its reservation accounted in full (`Writable`).
`QuotaInv` adds that a tool which runs, writes to such a row, and that its runtime is not `READY` (`Tree`),
and what a daemon's threads know of the tool (`Fit`). So a writer whom nobody could
kill has no closed row to write to, and no other execution shares its runtime.

`SessionManager_proofs`, for every set of clients, closing threads, ids and objects and every
number of faults and closes, from `ManagerAssumption`:

| Theorem | States |
|---|---|
| `TypeCorrect` | `Spec => []TypeOK` |
| `ManagerInvariant` | `Spec => []ManagerInv`, the inductive invariant |
| `CallsExclusive` | `Spec => []PoolCallsExclusive` |
| `SessionsIntact` | `Spec => []SessionIntact` |
| `OnlyExpiredSwept` | `Spec => []SweepsExpired` |
| `NothingLeft`, `SlotsMatch` | `Spec => []AllClosed` and `Spec => []LeasesMatch`, if `Closers` has one element at most |

`PoolCallsExclusive` says nothing of why two threads keep apart: of a creation and a closing
it is the id, of two calls it is the lock, and of a call and a closing it is both. `ManagerInv`
says all of it. An id in transit, being created or closed, is in `_starting_session_ids` or
`_closing_session_ids`, has one thread and no session (`TransitInv`). Past the lock a thread has
`exec_lock` of its object, and while it uses a session that object is the registered one
(`LockInv`): it looked again after it had waited. An object that is
being created is in no table and in no other thread's hands (`PrivateInv`), no object is registered
twice (`SingleInv`), and what is being closed is not registered (`DetachedInv`); without these a
lock of one object would say nothing of an id. Directories and leases follow ids (`DirInv`,
`LeaseInv`). For the two theorems about `close_all` there is more: a
creation that saw the present `_close_generation` did not begin during a `close_all`
(`GenerationInv`), what is registered is on the list of the only `close_all` or in its hands (`ListInv`),
and as long as nothing failed a session has its worker (`FaultlessInv`). They are false of two
closing threads, as section 5 says.

`SessionRecovery_proofs`, for every set of kinds and every number of calls, retries and faults,
from `RecoveryAssumption`:

| Theorem | States |
|---|---|
| `RecoveryInvariant` | `Spec => []RecoveryInv`, the inductive invariant |
| `TypeCorrect` | `Spec => []TypeOK` |
| `HistoryAcknowledged` | `Spec => []HistoryIsAcked` |
| `LossesAreTold` | `Spec => []NoSilentLoss` |
| `RetriesClean` | `Spec => []RetriesOnHistory` |
| `LossHasCause` | `Spec => []MendsItself` |

The properties speak of a call that has been answered or is about to run code; a restart lies in
between. `RecoveryInv` says of it that a replay has run the first `replayed` snippets of the history
and nothing else, so that at its end the tool holds the history (`ReplayInv`), which is what
the client was told (`HistoryIsAcked`); hence what it heard of since the last loss is in the tool
when code runs or the answer is out (`SinceInv`). A pooled session that repeats a code has
acknowledged nothing yet (`FirstInv`), and a failure of a second attempt,
or of any attempt of a pooled session, is one of this call (`FaultInv`).

`InteractiveService_proofs`, for every finite set of sessions, every capacity and every number of
executions, faults, failed removals, crashes, shutdowns and deletions, from `SchedulerAssumption`
and `ServiceAssumption`:

| Theorem | States |
|---|---|
| `InvariantHolds` | `Spec => []Invariant`, the inductive invariant |
| `TypeCorrect` | `Spec => []TypeOK` |
| `RecordsAgreeAlways` | `Spec => []RecordsAgree` |
| `OutcomesAreFinal` | `Spec => [][\A s \in SessionIds : OutcomesStay(s)]_vars` |
| `EndedStaysFinal` | `Spec => EndedIsFinal`, if `NoReuse` |
| `OwnershipIsDurable` | `Spec => []OwnershipDurable`, if `NoReuse` |
| `NoPermitLeaks` | `Spec => []NoLeakedPermit`, if `NoReuse` |
| `CapacityIsKept` | `Spec => []CapacityCoversTrees`, if `NoReuse` |

`NoReuse` says that retention lets no id go or that every directory can be removed. It is what
the finding of `interactive_reuse` forbids: with both, a cleanup that was put off forgets the
processes of the next session of its id, and the last four properties speak of them. Both halves
occur in the runs: `interactive_session` has a failed removal and no retention,
`interactive_capacity` retention and no failed removal. What the rows say of each other and what a client was
told needs no such hypothesis.

The properties relate a process to a record, a lease and a controller, but between any two steps of
a thread one of these may be missing, as long as the thread is about to do the rest. `Invariant`
says who that is. `RecordsInv` is the unconditional part: the rows of a session agree (`RowSound`);
a create task has a pending request, every other thread a published session, and the holder of
`release_lock` still wants it (`AtWork`); and a daemon that is down or reconciles has nothing at
work (`Phases`). `ServiceInv` is the rest. `InHand`: the controller is with its create task, or
listed, or pending, or released, and it is released, or cleanup is put off, only once the processes
are gone; what a destroy is about to close is not listed any more. `OnRecord`: a start-up is
recorded as attempted before its spawn, and stays so until the session is published or its process
is gone. `Permitted` and `Watched`: a lease has a create task, an orphan, a pending controller, or a
listed one with somebody about to release it. `Covered`: a process that reconciliation has decided
about has a lease. `Fresh`: an id without a request is at rest, which is where `NoReuse` comes in.
The lists that the sweep and a shutdown copied at their start stay true (`Listed`): what is on them
may have been released meanwhile, but is not a new start-up.

For `TreesWithinCapacity` the processes are counted with the create tasks that have a permit and no
process yet (`Places`): while a daemon is up that is bounded by the leases, but a crash
loses the leases and not the processes, and their number stays, since no create
is admitted before every survivor has its lease again (`Covered`, `Phases`). Without the second kind
of place, a spawn would not keep the count.

Every action of a session writes the entries of that session only (`Local`), leaves them `Sound`, and
only shortens the lists for others (`Narrows`); `SessionKeeps` puts that together for all
sessions. The lemmas about rows (`CreateRows` to `RestartRows`) say what each
transaction makes of a sound row, and `Later` what it does not take back: from it follow `OutcomesAreFinal` and,
with `OnRecord`, `EndedStaysFinal`.

`ToolConsole_proofs`, for every number of executions and of code lines, every capacity of the
queue, of the pipes and of stdin, every budget and either kind of tool, from `ConsoleAssumption`:

| Theorem | States |
|---|---|
| `ConsoleInvariant` | `Spec => []ConsoleInv`, the inductive invariant |
| `TypeCorrect` | `Spec => []TypeOK` |
| `OutputsAreOwn` | `Spec => []OutputIsOwn` |
| `StatusesAreOwn` | `Spec => []StatusIsOwn` |
| `ResultsAreOwn` | `Spec => []ResultIsOwn`, the two together |
| `KnownLossesAreExact` | `Spec => []KnownLossIsExact` |

`OutputIsOwn` speaks of the sink only, but what a sink gets next is still in a pipe, in the
queue or held back in the decoder, and what the interpreter writes next depends on the lines
in its stdin. `ConsoleInv` follows all of it. In each of the four places a stream may be in, what has the
execution's name is exactly what stands behind its start record and not behind its fence (`Between`);
before an execution begins its name is nowhere (`NamesKnown`), which is what the random
token is for. From that the sink never gets a byte of another execution, and a unit that is sent
is in the sink or on its way, counted over the pipe, the queue and the decoder (`AllCounted`).

That a window opens once and closes for good is not a matter of the streams but of the interpreter,
and of those who take lines ahead of it. `Progress` says that some `n` lines of the block have left
stdin, that stdin ends with the others in their order (`Lines`), and that the interpreter is past
the first `p` operations: it has carried them out or they were taken. It is at the end of the `n`
lines, unless a command of a shell's code has taken lines and `n` is ahead (`Done`). A start record
of which the line was not reached is nowhere, nor is a fence, except that of stdout, which a shell's
command may have taken as the last line and printed (`Shows`, `Taken`). If nothing was taken, the
number of completed lines and `__eda_status` are those of `p`, so that a status record means that
all code has run, and is not stale (`StatusTrue`). A Tcl block is one line: as long as it is in
stdin, and for good once it was taken, nothing of the execution shows on either stream (`Unread`),
so that Tcl code that reads stdin may cost an execution its answer but never give it a wrong one; a
shell's line is one operation (`OneByOne`).

A result that knows its loss is made with both fences seen, or after a time-out with both ends of
file; either way nothing is on its way any more (`FencedIsOver`: what stands behind a fence has another
name; `EndsKnown`: an end of file is the last of its stream, and nobody is left to write). After
that no window of the execution opens again (`Settled`), so the result stays exact until it is sent,
although the interpreter and the processes it left go on writing.

Nothing has to be emptied between two executions for this: late output of an earlier
one, wherever it is, has another name.

Model-checked only: liveness, that is `CallsReturn` and `Replenished` of the pool, `CallsReturn` and
`ExpiredIsSwept` of the registry, `ExecutionReturns` and `ToolFollowsWorker` of the console, `CreateEnds` and
`EndedIsReleased` of the service (fairness and `ENABLED` are outside the proof system's reach).
Every other property of a passing run is stated by a theorem above. Induction over data is beyond
the prover, as are `RECURSIVE` operators; no module with theorems declares one.

## 7. What is not modelled, and the plan

In this order:

1. An abstract specification of a session as its client sees it (create, execute, lost,
   closed), and `InteractiveService` shown to implement it.
2. The choice of bytes for a preview (`_PreviewAccumulator`), against a reference definition.

Left out for good: file system I/O and path validation, HTTP and MCP translation,
the monitor's pages, log wording, configuration parsing, `PythonExecutor` (one call of
`exec` in the process that calls it, with nothing concurrent).
