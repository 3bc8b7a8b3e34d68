--------------------------- MODULE SessionRecovery ---------------------------
(***************************************************************************)
(* What an execute call does when the worker is lost (session.py): restart *)
(* and replay for sessions with a worker of their own, a new lease for the *)
(* pooled ones. One session; its exec_lock is held for the whole call, so  *)
(* that calls come one after another.                                      *)
(*                                                                         *)
(* A call's code is its number. The tool's state is the sequence of codes  *)
(* that ran in it, those that ended with an error included.                *)
(***************************************************************************)
EXTENDS Naturals, Sequences

CONSTANTS
  Kinds,       \* kinds of session, see below
  MaxRetries,  \* max_retries
  MaxCalls,    \* bound: calls
  MaxFaults    \* bound: deaths, time-outs, failed starts and failed replays

\* Python, shell and Tcl replay their history; PrimeTime without a pool does
\* not; the other two kinds lease their worker.
AllKinds == {"history", "none", "innovus", "primetime"}

ASSUME RecoveryAssumption ==
  /\ Kinds \subseteq AllKinds
  /\ MaxRetries \in Nat /\ MaxCalls \in Nat /\ MaxFaults \in Nat

VARIABLES
  kind,      \* lang and its adapter
  worker,    \* the session's worker: alive, dead, or absent when it was terminated
  state,     \* the codes that ran in the worker
  suspect,   \* innovus_worker_had_incomplete_reset
  attempted, \* innovus_execute_attempted
  history,   \* execution_history
  pc,        \* step of the call
  call,      \* number of the call
  attempt,   \* attempt, of a pooled session: 1 in the retry
  mayRetry,  \* should_retry_first_execute
  failure,   \* recovery_failure: none, exit or timeout
  replayed,  \* snippets replayed so far
  answer,    \* what the last call returned: a result, a lost runtime, an exception
  acked,     \* calls that were answered with success
  told,      \* how many of them the client had when it last heard of a loss
  faults,
  faultsBefore  \* faults when the call began

sessVars == <<kind, suspect, attempted>>
toolVars == <<worker, state>>
callVars == <<call, faultsBefore>>
loopVars == <<attempt, mayRetry, failure, replayed>>
heard    == <<answer, acked, told>>
vars == <<sessVars, toolVars, history, pc, callVars, loopVars, heard, faults>>

Owned == kind \in {"history", "none"}
MaxAttempts == MaxRetries + 1
Steps == {"idle", "check", "lease", "begin", "run", "failed", "restart", "replay"}

\* A session that create_session has returned.
Init ==
  /\ kind \in Kinds
  /\ suspect \in (IF kind = "innovus" THEN BOOLEAN ELSE {FALSE})
  /\ attempted = FALSE
  /\ worker = "alive" /\ state = <<>>
  /\ history = <<>>
  /\ pc = "idle" /\ call = 0 /\ faultsBefore = 0
  /\ attempt = 0 /\ mayRetry = FALSE /\ failure = "none" /\ replayed = 0
  /\ answer = "none" /\ acked = <<>> /\ told = 0
  /\ faults = 0

-----------------------------------------------------------------------------
At(step)   == pc = step
Goto(step) == pc' = step
Fault      == faults < MaxFaults /\ faults' = faults + 1

Returns(what) == Goto("idle") /\ answer' = what
Acknowledges  == Returns("ok") /\ acked' = Append(acked, call) /\ UNCHANGED told
Tells(what)   == Returns(what) /\ told' = Len(acked) /\ UNCHANGED acked

\* execute_in_session, with exec_lock taken and the session registered.
Execute ==
  /\ At("idle") /\ call < MaxCalls
  /\ call' = call + 1
  /\ faultsBefore' = faults
  /\ attempt' = 0 /\ mayRetry' = FALSE /\ failure' = "none" /\ replayed' = 0
  /\ Goto(IF Owned THEN "run" ELSE "check")
  /\ UNCHANGED <<sessVars, toolVars, history, heard, faults>>

\* The code ends with exit code 0, which the history remembers.
Succeeds ==
  /\ At("run") /\ worker = "alive"
  /\ state' = Append(state, call)
  /\ history' = IF kind = "history" THEN Append(history, call) ELSE history
  /\ Acknowledges
  /\ UNCHANGED <<sessVars, worker, callVars, loopVars, faults>>

\* Mutant: exit codes are not looked at before the history is written.
CodeErrorRemembered ==
  /\ At("run") /\ worker = "alive"
  /\ state' = Append(state, call)
  /\ history' = IF kind = "history" THEN Append(history, call) ELSE history
  /\ Returns("error")
  /\ UNCHANGED <<sessVars, worker, callVars, loopVars, acked, told, faults>>

\* The code ends with an error of its own; what it did before stays done.
CodeError ==
  /\ At("run") /\ worker = "alive"
  /\ state' = Append(state, call)
  /\ Returns("error")
  /\ UNCHANGED <<sessVars, worker, history, callVars, loopVars, acked, told, faults>>

\* PROCESS: no worker, a worker that dies, or an exit code that looks like a
\* signal's although the worker lives.
ProcessFails ==
  /\ At("run")
  /\ \/ worker # "alive" /\ UNCHANGED <<toolVars, faults>>
     \/ /\ worker = "alive" /\ Fault
        /\ worker' \in {"alive", "dead"}
        /\ state' = Append(state, call)
  /\ failure' = "exit"
  /\ Goto("failed")
  /\ UNCHANGED <<sessVars, history, callVars, attempt, mayRetry, replayed, heard>>

\* The manager kills the worker, or the executor answers that it stopped the code.
TimesOut ==
  /\ At("run") /\ worker = "alive"
  /\ Fault
  /\ worker' \in {"absent", "alive"}
  /\ state' = Append(state, call)
  /\ failure' = "timeout"
  /\ Goto("failed")
  /\ UNCHANGED <<sessVars, history, callVars, attempt, mayRetry, replayed, heard>>

-----------------------------------------------------------------------------
(* Sessions with a worker of their own *)

\* Without history, and after a time-out, the failure is returned after a restart.
Surrenders == kind = "none" \/ failure = "timeout"

\* Mutants: one attempt too few, and no end of attempts.
AttemptsOffByOne  == attempt + 1 < MaxRetries
AttemptsUnbounded == TRUE
AttemptsLeft == attempt + 1 < MaxAttempts

Recover ==
  /\ At("failed") /\ Owned
  /\ \/ Surrenders /\ Goto("restart") /\ UNCHANGED <<attempt, heard>>
     \/ /\ ~Surrenders
        /\ attempt' = attempt + 1
        /\ IF AttemptsLeft THEN Goto("restart") /\ UNCHANGED heard
                           ELSE Tells("lost")
  /\ UNCHANGED <<sessVars, toolVars, history, callVars, mayRetry, failure, replayed, faults>>

\* _restart_worker: terminate, empty the directory, start.
Restart ==
  /\ At("restart")
  /\ worker' = "alive" /\ state' = <<>>
  /\ replayed' = 0
  /\ Goto("replay")
  /\ UNCHANGED <<sessVars, history, callVars, attempt, mayRetry, failure, heard, faults>>

\* The start fails with an error, or times out and is killed.
RestartFails ==
  /\ At("restart")
  /\ Fault
  /\ worker' \in {"dead", "absent"} /\ state' = <<>>
  /\ Tells("raised")
  /\ UNCHANGED <<sessVars, history, callVars, loopVars>>

ReplayNext ==
  /\ At("replay") /\ replayed < Len(history) /\ worker = "alive"
  /\ state' = Append(state, history[replayed + 1])
  /\ replayed' = replayed + 1
  /\ UNCHANGED <<sessVars, worker, history, pc, callVars, attempt, mayRetry, failure,
                 heard, faults>>

\* Mutant: a snippet that fails in the replay is passed over.
ReplaySkips ==
  /\ At("replay") /\ replayed < Len(history)
  /\ IF worker = "alive" THEN Fault ELSE UNCHANGED faults
  /\ replayed' = replayed + 1
  /\ UNCHANGED <<sessVars, toolVars, history, pc, callVars, attempt, mayRetry, failure, heard>>

\* A snippet fails this time: the worker may live on with what ran so far.
ReplayFails ==
  /\ At("replay") /\ replayed < Len(history)
  /\ IF worker = "alive" THEN Fault /\ worker' \in {"alive", "dead", "absent"}
                         ELSE UNCHANGED <<worker, faults>>
  /\ Tells("raised")
  /\ UNCHANGED <<sessVars, state, history, callVars, loopVars>>

ReplayDone ==
  /\ At("replay") /\ replayed = Len(history)
  /\ IF Surrenders THEN Tells("lost") ELSE Goto("run") /\ UNCHANGED heard
  /\ UNCHANGED <<sessVars, toolVars, history, callVars, loopVars, faults>>

-----------------------------------------------------------------------------
(* Pooled sessions *)

\* A worker found dead before the execution is discarded and replaced.
Check ==
  /\ At("check")
  /\ IF worker = "alive" THEN Goto("begin") /\ UNCHANGED worker
                         ELSE Goto("lease") /\ worker' = "absent"
  /\ UNCHANGED <<sessVars, state, history, callVars, loopVars, heard, faults>>

LeaseWorker ==
  /\ At("lease")
  /\ worker' = "alive" /\ state' = <<>>
  /\ suspect' \in (IF kind = "innovus" THEN BOOLEAN ELSE {FALSE})
  /\ Goto(IF attempt = 0 THEN "begin" ELSE "run")
  /\ UNCHANGED <<kind, attempted, history, callVars, loopVars, heard, faults>>

LeaseFails ==
  /\ At("lease")
  /\ Fault
  /\ Tells("raised")
  /\ UNCHANGED <<sessVars, toolVars, history, callVars, loopVars>>

\* Mutant: any execution on a suspect worker may be repeated.
BeginAnyTime ==
  /\ At("begin")
  /\ mayRetry' = suspect
  /\ attempted' = TRUE
  /\ Goto("run")
  /\ UNCHANGED <<kind, suspect, toolVars, history, callVars, attempt, failure, replayed,
                 heard, faults>>

\* innovus_incomplete_reset_retry_used is set only after innovus_execute_attempted,
\* so that the test of attempted covers it.
Begin ==
  /\ At("begin")
  /\ mayRetry' = (suspect /\ ~attempted)
  /\ attempted' = TRUE
  /\ Goto("run")
  /\ UNCHANGED <<kind, suspect, toolVars, history, callVars, attempt, failure, replayed,
                 heard, faults>>

\* _handle_process_failure: discard, and repeat a first execution once.
DiscardWorker ==
  /\ At("failed") /\ ~Owned
  /\ worker' = "absent"
  /\ IF mayRetry /\ attempt = 0
     THEN Goto("lease") /\ attempt' = 1 /\ UNCHANGED heard
     ELSE Tells("lost") /\ UNCHANGED attempt
  /\ UNCHANGED <<sessVars, state, history, callVars, mayRetry, failure, replayed, faults>>

-----------------------------------------------------------------------------
WorkerDies ==
  /\ worker = "alive" /\ Fault
  /\ worker' = "dead"
  /\ UNCHANGED <<sessVars, state, history, pc, callVars, loopVars, heard>>

Next ==
  \/ Execute \/ Succeeds \/ CodeError \/ ProcessFails \/ TimesOut
  \/ Recover \/ Restart \/ RestartFails \/ ReplayNext \/ ReplayFails \/ ReplayDone
  \/ Check \/ LeaseWorker \/ LeaseFails \/ Begin \/ DiscardWorker
  \/ WorkerDies

Spec == Init /\ [][Next]_vars

-----------------------------------------------------------------------------
(* Properties *)

Codes == Seq(1..MaxCalls)

\* The fields of the session and of the call; answers come from calls.
TypeOK ==
  /\ kind \in Kinds
  /\ worker \in {"alive", "dead", "absent"} /\ state \in Codes
  /\ suspect \in BOOLEAN /\ attempted \in BOOLEAN
  /\ history \in Codes /\ acked \in Codes
  /\ pc \in Steps /\ call \in 0..MaxCalls
  /\ attempt \in 0..MaxAttempts /\ mayRetry \in BOOLEAN
  /\ failure \in {"none", "exit", "timeout"}
  /\ replayed \in 0..Len(history)
  /\ answer \in {"none", "ok", "error", "lost", "raised"}
  /\ told \in 0..Len(acked)
  /\ faults \in 0..MaxFaults /\ faultsBefore \in 0..faults

Ran == {state[k] : k \in DOMAIN state}

\* The history is what the client was told succeeded, once each and in that
\* order, however many attempts and replays a call took.
HistoryIsAcked == history = IF kind = "history" THEN acked ELSE <<>>

\* When a call of a session with its own worker is answered without mention of a
\* loss, all that was answered with success since the last loss is in its tool.
NoSilentLoss ==
  Owned /\ pc = "idle" /\ answer \in {"ok", "error"} =>
    \A k \in (told + 1)..Len(acked) : acked[k] \in Ran

\* A retry starts from the history and nothing else: no trace of the attempt that
\* failed, no snippet missing. A pooled session, which has none, repeats a code only
\* where no earlier code of the session ran.
RetriesOnHistory ==
  pc = "run" /\ attempt > 0 =>
    /\ kind = "history" => state = history
    /\ ~Owned => acked = <<>> /\ state = <<>>

\* A call in which nothing went wrong does not fail because of what went wrong
\* before it: a session with history, or with a pool, mends itself.
MendsItself ==
  kind # "none" /\ MaxRetries > 0 /\ pc = "idle" /\ answer = "lost" => faults > faultsBefore

\* README.md:42 says that a lost worker is restarted and the history replayed
\* before code runs in it.
RunsOnHistory ==
  kind = "history" /\ pc = "run" /\ worker = "alive" =>
    \A k \in DOMAIN history : history[k] \in Ran
=============================================================================
