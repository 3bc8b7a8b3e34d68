----------------------------- MODULE ToolConsole -----------------------------
(***************************************************************************)
(* One sandbox worker and the interpreter it drives: executor.py, the      *)
(* framing and the log sink of output.py, the scripts of tcl_protocol.py   *)
(* and the message loop of worker.py.                                      *)
(*                                                                         *)
(* The interpreter lives through many executions, so nothing but records   *)
(* with the execution's own random token tells where its output begins and *)
(* ends on each of the two pipes.  Four kinds of thread take part: the     *)
(* interpreter (and a background process its code may leave behind), the   *)
(* two pipe readers, and the worker's main thread, which first writes the  *)
(* block to stdin and only then collects what the readers have queued.     *)
(*                                                                         *)
(* A chunk is one control record or one unit of UnitBytes user bytes.  The *)
(* decoder keeps back the last bytes of a stream, since they may begin a   *)
(* record: `held' is that remainder.  Time is not modelled: a deadline may *)
(* pass whenever the code would look at it.                                *)
(*                                                                         *)
(* A shell reads its script, and the worker's records in it, from the      *)
(* stdin that the user's commands inherit: a command that reads stdin, or  *)
(* a construct that is left open, takes lines of the block (TakeLine).  A  *)
(* Tcl script is sourced from a file, and its block is one line of stdin.  *)
(***************************************************************************)
EXTENDS Integers, Sequences

CONSTANTS
  Languages,    \* of the executors: "tcl" stands for tclsh and the EDA tools
  MaxExecs,     \* bound: executions of one worker
  CodeLines,    \* lines of code in a shell block
  QueueCap,     \* _output_q maxsize (32 in the code)
  PipeCap,      \* chunks the kernel keeps in an output pipe
  StdinCap,     \* lines the kernel keeps in the stdin pipe
  Budget,       \* write_budget_bytes of a log
  MaxUnits      \* bound: units of output in each language, chatter between executions included

ASSUME ConsoleAssumption ==
  /\ Languages \subseteq {"tcl", "shell"}
  /\ {MaxExecs, CodeLines, QueueCap, PipeCap, StdinCap} \subseteq Nat \ {0}
  /\ Budget \in Nat /\ MaxUnits \in [Languages -> Nat]

Streams   == {"stdout", "stderr"}
Execs     == 1..MaxExecs
UnitBytes == 2

VARIABLES
  lang,         \* "tcl" (a source command) or "shell" (the code itself is the block)
  tool,         \* the interpreter: alive, killed, and the operations of the line it has read
  child,        \* background process that holds the pipes: in the tool's group, or out of it
  stdin,        \* lines in the stdin pipe
  pipe,         \* chunks in the two output pipes
  outputQ,      \* _output_q
  ended,        \* streams whose reader thread has queued its end-of-file
  streamEof,    \* _stream_eof
  worker,       \* main thread: pc, execution, lines left to write, termination_reason
  decoder,      \* ProtocolDecoder of the execution
  sink,         \* sink of the execution: bytes observed and written, _sink_reason
  prepared,     \* prepared_execution: an execution with an open sink, or 0
  nextId,       \* executions asked for so far
  window,       \* history: the execution between whose records a stream stands, or 0
  sent,         \* history: bytes written in the window of the worker's execution
  printed,      \* units of output so far
  completed,    \* history: lines of its user code that ran to their end
  robbed,       \* history: a line of its block was taken from stdin, not run
  edaStatus,    \* execution whose exit status __eda_status (__eda_code in Tcl) holds, or 0
  summary       \* what execute_to_sink returned last

history    == <<window, sent, completed, robbed>>
toolVars   == <<lang, tool, child, stdin, printed, edaStatus, history>>
readVars   == <<pipe, outputQ, ended, streamEof>>
workerVars == <<worker, decoder, sink, prepared, nextId, summary>>
vars == <<toolVars, workerVars, readVars>>

None == [kind |-> "none", e |-> 0]
EOF  == [kind |-> "eof", e |-> 0]
Chunk(kind, e) == [kind |-> kind, e |-> e]

NoSummary == [exit |-> "none", reason |-> "none", complete |-> FALSE, incomplete |-> "none",
              written |-> 0, dropped |-> 0]
Unknown == -1

FreshDecoder == [started |-> {}, fenced |-> {}, status |-> "none",
                 held |-> [s \in Streams |-> None]]
FreshSink(kind) == [kind |-> kind, own |-> 0, other |-> 0, notes |-> 0,
                    written |-> 0, reason |-> "none"]

Init ==
  /\ lang \in Languages
  /\ tool = [alive |-> TRUE, killed |-> FALSE, ops |-> <<>>, e |-> 0]
  /\ child = "none"
  /\ stdin = <<>>
  /\ pipe = [s \in Streams |-> <<>>]
  /\ outputQ = <<>> /\ ended = {}
  /\ streamEof = [s \in Streams |-> FALSE]
  /\ worker = [pc |-> "idle", e |-> 0, unsent |-> <<>>, reason |-> "none"]
  /\ decoder = FreshDecoder /\ sink = FreshSink("memory")
  /\ prepared = 0 /\ nextId = 0
  /\ window = [s \in Streams |-> 0]
  /\ sent = 0 /\ printed = 0 /\ completed = 0 /\ robbed = FALSE
  /\ edaStatus = 0
  /\ summary = NoSummary

-----------------------------------------------------------------------------
(* The block of an execution: START records, user code, status, fences. *)

Prologue == <<"startErr", "startOut">>
Epilogue == <<"capture", "status", "fenceErr", "fenceOut">>

CodeOps  == IF lang = "tcl" THEN 1 ELSE CodeLines
Script   == Prologue \o [i \in 1..CodeOps |-> "user"] \o Epilogue

\* The Tcl tools get one source command; bash gets the script itself, line by line.
Inline   == [i \in DOMAIN Script |-> <<Script[i]>>]
Pieces   == IF lang = "tcl" THEN <<Script>> ELSE Inline
Block(e) == [i \in DOMAIN Pieces |-> [e |-> e, ops |-> Pieces[i]]]

StreamOf(op) == IF op \in {"startErr", "fenceErr"} THEN "stderr" ELSE "stdout"
RecordOf(op) == IF op \in {"startErr", "startOut"} THEN "start" ELSE "fence"

-----------------------------------------------------------------------------
(* The interpreter and what its code leaves behind. *)

ReadLine ==
  /\ tool.alive /\ tool.ops = <<>> /\ stdin # <<>>
  /\ tool' = [tool EXCEPT !.ops = Head(stdin).ops, !.e = Head(stdin).e]
  /\ stdin' = Tail(stdin)
  /\ UNCHANGED <<lang, child, printed, edaStatus, history, workerVars, readVars>>

\* A write blocks while the pipe is full, and fails once nobody reads it.
Emit(s, chunk) ==
  /\ Len(pipe[s]) < PipeCap /\ worker.pc # "closed"
  /\ pipe' = [pipe EXCEPT ![s] = Append(@, chunk)]
  /\ UNCHANGED <<outputQ, ended, streamEof>>

\* START opens the window of execution e on its stream, FENCE closes it.
Mark(op, e) ==
  LET s == StreamOf(op) IN
  /\ Emit(s, Chunk(RecordOf(op), e))
  /\ window' = [window EXCEPT ![s] = IF RecordOf(op) = "start" THEN e ELSE 0]

\* A unit of text.  Bytes in a window count for its execution; the others are chatter
\* between two executions.
EmitUnit(s) ==
  /\ Emit(s, Chunk("user", window[s]))
  /\ sent' = IF window[s] \in {0} \cup (Execs \ {worker.e}) THEN sent ELSE sent + UnitBytes

\* The interpreter is at one of these operations, and what it goes on with.
Doing(ops) == tool.alive /\ tool.ops # <<>> /\ Head(tool.ops) \in ops
NextOp == [tool EXCEPT !.ops = Tail(@), !.e = IF Len(tool.ops) = 1 THEN 0 ELSE @]

WriteMark ==
  /\ Doing({"startErr", "startOut", "fenceErr", "fenceOut"})
  /\ Mark(Head(tool.ops), tool.e)
  /\ tool' = NextOp
  /\ UNCHANGED <<lang, child, stdin, printed, edaStatus, sent, completed, robbed, workerVars>>

\* __eda_status=$?, and the result of catch.
CaptureStatus ==
  /\ Doing({"capture"})
  /\ edaStatus' = tool.e
  /\ tool' = NextOp
  /\ UNCHANGED <<lang, child, stdin, printed, history, workerVars, readVars>>

\* The record carries what the variable holds: the status of this execution, or a stale one.
WriteStatus ==
  /\ Doing({"status"}) /\ edaStatus # 0
  /\ Emit("stdout", Chunk(IF edaStatus = tool.e THEN "status" ELSE "stale", tool.e))
  /\ tool' = NextOp
  /\ UNCHANGED <<lang, child, stdin, printed, edaStatus, history, workerVars>>

\* A record with no number after STATUS is text for the decoder.
WriteBlankStatus ==
  /\ Doing({"status"}) /\ edaStatus = 0
  /\ EmitUnit("stdout")
  /\ tool' = NextOp
  /\ UNCHANGED <<lang, child, stdin, printed, edaStatus, window, completed, robbed, workerVars>>

InUserCode == Doing({"user"})

\* User code, or the process it left behind, writes.
PrintUnit(s) ==
  /\ InUserCode \/ child # "none"
  /\ printed < MaxUnits[lang] /\ printed' = printed + 1
  /\ EmitUnit(s)
  /\ UNCHANGED <<lang, tool, child, stdin, edaStatus, window, completed, robbed, workerVars>>

\* User code takes the next line of the stdin it inherits; bash gives a background process
\* /dev/null.  What is taken may be printed: a line of bash that writes a record of stdout
\* ends with that record, and the decoder knows it by that.
TakeLine ==
  /\ stdin # <<>> /\ (InUserCode \/ (lang = "tcl" /\ child # "none"))
  /\ stdin' = Tail(stdin)
  /\ robbed' = (robbed \/ Head(stdin).e = worker.e)
  /\ \/ UNCHANGED <<window, readVars>>
     \/ \E op \in {"startOut", "fenceOut"} :
          Head(stdin).ops = <<op>> /\ Mark(op, Head(stdin).e)
  /\ UNCHANGED <<lang, tool, child, printed, edaStatus, sent, completed, workerVars>>

\* A background process inherits the pipes; setsid takes it out of the group.
LeaveChild ==
  /\ InUserCode /\ child = "none"
  /\ child' \in {"group", "stray"}
  /\ UNCHANGED <<lang, tool, stdin, printed, edaStatus, history, workerVars, readVars>>

\* It ends by itself, or dies with the group some time after SIGKILL was sent.
ChildEnds ==
  /\ child' = "none"
  /\ UNCHANGED <<lang, tool, stdin, printed, edaStatus, history, workerVars, readVars>>
ChildExits  == child # "none" /\ ChildEnds
ChildKilled == tool.killed /\ child = "group" /\ ChildEnds

UserCodeEnds ==
  /\ InUserCode
  /\ tool' = NextOp
  /\ completed' = IF tool.e = worker.e THEN completed + 1 ELSE completed
  /\ UNCHANGED <<lang, child, stdin, printed, edaStatus, window, sent, robbed,
                 workerVars, readVars>>

Die ==
  /\ tool.alive
  /\ tool' = [tool EXCEPT !.alive = FALSE, !.ops = <<>>, !.e = 0]
  /\ edaStatus' = 0
  /\ UNCHANGED <<lang, child, stdin, printed, history, workerVars, readVars>>

\* The interpreter crashes, or its code calls exit.
ToolExits  == Die
ToolKilled == tool.killed /\ Die

-----------------------------------------------------------------------------
(* The reader threads. *)

\* Every process that could still write to the pipes is gone.
WriteEndsClosed == ~tool.alive /\ child = "none"

\* read() and put(), which blocks while the queue is full.  A chunk in the thread's hands
\* counts as still in the pipe: nothing but the thread looks at either.
ReadChunk(s) ==
  /\ pipe[s] # <<>>
  /\ outputQ' = Append(outputQ, [stream |-> s, chunk |-> Head(pipe[s])])
  /\ pipe' = [pipe EXCEPT ![s] = Tail(@)]
  /\ UNCHANGED ended

ReadEof(s) ==
  /\ pipe[s] = <<>> /\ WriteEndsClosed
  /\ outputQ' = Append(outputQ, [stream |-> s, chunk |-> EOF])
  /\ ended' = ended \cup {s}
  /\ UNCHANGED pipe

\* Mutant: a queue without a limit.
DrainUnbounded(s) ==
  /\ worker.pc # "closed" /\ s \notin ended
  /\ ReadChunk(s) \/ ReadEof(s)
  /\ UNCHANGED <<toolVars, workerVars, streamEof>>

DrainPipe(s) ==
  /\ worker.pc # "closed" /\ s \notin ended /\ Len(outputQ) < QueueCap
  /\ ReadChunk(s) \/ ReadEof(s)
  /\ UNCHANGED <<toolVars, workerVars, streamEof>>

-----------------------------------------------------------------------------
(* ProtocolDecoder and the sinks. *)

Observed(k) == k.own + k.other + k.notes

\* write() of the sinks: a unit is observed, and counted under `part'; a log takes what its
\* budget leaves, until the budget is spent or a write fails after some bytes.
ToWrite(k) == IF k.kind = "file" /\ Budget - k.written < UnitBytes
              THEN Budget - k.written ELSE UnitBytes

Writes(k, part) ==
  LET seen == [k EXCEPT ![part] = @ + UnitBytes]  n == ToWrite(k) IN
  IF k.reason # "none" THEN {seen}
  ELSE {[seen EXCEPT !.written = @ + n,
                     !.reason = IF n < UnitBytes THEN "QUOTA_EXCEEDED" ELSE @]}
       \cup {[seen EXCEPT !.written = @ + m, !.reason = "WRITE_FAILED"] :
               m \in IF k.kind = "file" THEN 0..(n - 1) ELSE {}}

\* _emit_user_bytes of the remainder of a stream.
EmitHeld(s) ==
  IF decoder.held[s] = None \/ s \notin decoder.started
  THEN UNCHANGED sink
  ELSE sink' \in Writes(sink, IF decoder.held[s].e = worker.e THEN "own" ELSE "other")

\* Mutant: a record is a record, whatever its token.
IsAnyRecord(c) == c.kind # "user"

\* Records of this execution's token; all else is user output.
IsRecord(c) == c.kind # "user" /\ c.e = worker.e

Consumed(d, s, c) ==
  LET flushed == [d EXCEPT !.held[s] = None] IN
  IF ~IsRecord(c)
  THEN [d EXCEPT !.held[s] = Chunk("user", IF c.kind = "user" THEN c.e ELSE 0)]
  ELSE CASE c.kind = "start" -> [flushed EXCEPT !.started = @ \cup {s}]
         [] c.kind \in {"status", "stale"} /\ s \in d.started /\ d.status = "none" ->
              [flushed EXCEPT !.status = c.kind]
         [] c.kind = "fence" /\ s \in d.started -> [flushed EXCEPT !.fenced = @ \cup {s}]
         [] OTHER -> flushed

Feed(s, c) ==
  IF s \in decoder.fenced THEN UNCHANGED <<decoder, sink>>
  ELSE EmitHeld(s) /\ decoder' = Consumed(decoder, s, c)

\* Mutant: the remainder is dropped at the end of the stream.
FinishDropsTail(s) ==
  /\ decoder' = [decoder EXCEPT !.held[s] = None]
  /\ UNCHANGED sink

FinishStream(s) ==
  /\ decoder' = [decoder EXCEPT !.held[s] = None]
  /\ IF s \in decoder.fenced THEN UNCHANGED sink ELSE EmitHeld(s)

\* _consume_output_event with the next event of the queue.
ConsumeEvent ==
  /\ outputQ # <<>> /\ outputQ' = Tail(outputQ)
  /\ LET ev == Head(outputQ) IN
     IF ev.chunk = EOF
     THEN FinishStream(ev.stream) /\ streamEof' = [streamEof EXCEPT ![ev.stream] = TRUE]
     ELSE Feed(ev.stream, ev.chunk) /\ UNCHANGED streamEof
  /\ UNCHANGED <<toolVars, pipe, ended, prepared, nextId, summary>>

AllEof   == \A s \in Streams : streamEof[s]
Complete == decoder.fenced = Streams

-----------------------------------------------------------------------------
(* worker_main and _execute_protocol_block. *)

At(pc) == worker.pc = pc
Goto(pc) == worker' = [worker EXCEPT !.pc = pc]
KillGroup == tool' = [tool EXCEPT !.killed = TRUE]
SameTool == UNCHANGED <<lang, child, stdin, printed, edaStatus, history>>
SameRequests == UNCHANGED <<prepared, nextId>>

\* prepare_execution: the daemon's log is opened; refused while another one is prepared.
PrepareExecution ==
  /\ At("idle") /\ prepared = 0 /\ nextId < MaxExecs
  /\ prepared' = nextId + 1 /\ nextId' = nextId + 1
  /\ UNCHANGED <<toolVars, worker, decoder, sink, summary, readVars>>

Begin(e, kind) ==
  /\ worker' = [pc |-> "write", e |-> e, unsent |-> Block(e), reason |-> "none"]
  /\ decoder' = FreshDecoder /\ sink' = FreshSink(kind)
  /\ UNCHANGED <<toolVars, summary, readVars>>

ExecutePrepared ==
  /\ At("idle") /\ prepared # 0
  /\ Begin(prepared, "file")
  /\ prepared' = 0 /\ UNCHANGED nextId

\* execute, and the commands of the worker itself: the output stays in memory.
ExecuteInMemory ==
  /\ At("idle") /\ nextId < MaxExecs
  /\ Begin(nextId + 1, "memory")
  /\ nextId' = nextId + 1 /\ UNCHANGED prepared

\* Whoever could still read stdin; bash gives its background processes /dev/null.
StdinHeld == tool.alive \/ (lang = "tcl" /\ child # "none")

\* _write_stdin blocks while the pipe is full; nothing takes from the queue meanwhile,
\* and the deadline of the execution is not set yet.
WriteLine ==
  /\ At("write") /\ Len(stdin) < StdinCap
  /\ StdinHeld
  /\ stdin' = Append(stdin, Head(worker.unsent))
  /\ worker' = [worker EXCEPT !.unsent = Tail(@),
                              !.pc = IF Len(worker.unsent) = 1 THEN "collect" ELSE @]
  /\ UNCHANGED <<lang, tool, child, printed, edaStatus, history,
                 decoder, sink, summary, readVars>>
  /\ SameRequests

StdinBroken ==
  /\ At("write") /\ ~StdinHeld
  /\ sink' \in Writes(sink, "notes")
  /\ worker' = [worker EXCEPT !.pc = "finish", !.reason = "PROCESS_LOST"]
  /\ UNCHANGED <<toolVars, decoder, summary, readVars>>
  /\ SameRequests

TakeEvent ==
  /\ At("collect") /\ ConsumeEvent
  /\ worker' = CASE decoder'.fenced = Streams -> [worker EXCEPT !.pc = "finish"]
                 [] decoder'.fenced # Streams /\ (\A s \in Streams : streamEof'[s]) ->
                      [worker EXCEPT !.pc = "finish", !.reason = "PROCESS_LOST"]
                 [] OTHER -> worker

\* Nothing came for a while and poll() says that the leader has exited.
NoticeExit ==
  /\ At("collect") /\ outputQ = <<>> /\ ~tool.alive
  /\ KillGroup
  /\ worker' = [worker EXCEPT !.pc = "drain", !.reason = "PROCESS_LOST"]
  /\ SameTool /\ SameRequests
  /\ UNCHANGED <<decoder, sink, summary, readVars>>

Deadline ==
  /\ At("collect")
  /\ KillGroup
  /\ worker' = [worker EXCEPT !.pc = "drain", !.reason = "TIMED_OUT"]
  /\ SameTool /\ SameRequests
  /\ UNCHANGED <<decoder, sink, summary, readVars>>

\* _drain_after_termination: until both pipes have ended, or for five seconds at most.
DrainEvent ==
  /\ At("drain") /\ ~AllEof
  /\ ConsumeEvent
  /\ UNCHANGED worker

\* protocol_complete and incomplete_reason, from how the loop ended.
TerminationReason == IF worker.reason = "none" /\ decoder.status = "none" THEN "PROTOCOL_ERROR"
                     ELSE worker.reason
IncompleteReason ==
  CASE TerminationReason = "none" -> "none"
    [] TerminationReason = "TIMED_OUT" -> IF AllEof THEN "none" ELSE "PROCESS_LOST"
    [] OTHER -> TerminationReason
ProtocolComplete ==
  CASE TerminationReason = "none" -> Complete
    [] TerminationReason = "TIMED_OUT" -> AllEof
    [] OTHER -> FALSE

\* finish() of sink k; sinkReason is its own, or WRITE_FAILED if the log cannot be flushed.
Snapshot(k, sinkReason) ==
  LET reason == IF IncompleteReason # "none" THEN IncompleteReason ELSE sinkReason IN
  [exit |-> IF decoder.status # "none" /\ TerminationReason = "none" THEN decoder.status ELSE "-1",
   reason |-> TerminationReason, complete |-> ProtocolComplete /\ reason = "none",
   incomplete |-> reason, written |-> k.written,
   dropped |-> IF reason = "WRITE_FAILED" \/ IncompleteReason # "none" THEN Unknown
               ELSE Observed(k) - k.written]

\* Mutant: after a time-out the end of both pipes is waited for, however long it takes.
FinishWaits ==
  /\ At("finish") \/ (At("drain") /\ AllEof)
  /\ \E k \in IF worker.reason = "TIMED_OUT" THEN Writes(sink, "notes") ELSE {sink} :
       \/ summary' = Snapshot(k, k.reason)
       \/ k.kind = "file" /\ summary' = Snapshot(k, "WRITE_FAILED")
  /\ worker' = [worker EXCEPT !.pc = "reply", !.reason = "none"]
  /\ decoder' = FreshDecoder /\ sink' = FreshSink("memory")
  /\ UNCHANGED <<toolVars, readVars>>
  /\ SameRequests

\* The end of _execute_protocol_block; after a time-out the sandbox adds a message.
Finish ==
  /\ At("finish") \/ At("drain")
  /\ \E k \in IF worker.reason = "TIMED_OUT" THEN Writes(sink, "notes") ELSE {sink} :
       \/ summary' = Snapshot(k, k.reason)
       \/ k.kind = "file" /\ summary' = Snapshot(k, "WRITE_FAILED")
  /\ worker' = [worker EXCEPT !.pc = "reply", !.reason = "none"]
  /\ decoder' = FreshDecoder /\ sink' = FreshSink("memory")
  /\ UNCHANGED <<toolVars, readVars>>
  /\ SameRequests

\* The summary, or the result made of it, goes to the parent.
Reply ==
  /\ At("reply")
  /\ worker' = [worker EXCEPT !.pc = "idle", !.e = 0]
  /\ summary' = NoSummary /\ sent' = 0 /\ completed' = 0 /\ robbed' = FALSE
  /\ UNCHANGED <<lang, tool, child, stdin, window, printed, edaStatus, decoder, sink, readVars>>
  /\ SameRequests

\* shutdown, or the end of the connection: the prepared sink is aborted, the group killed
\* and the queue emptied so that the readers can end.
CloseExecutor ==
  /\ At("idle") /\ Goto("close")
  /\ KillGroup /\ prepared' = 0
  /\ SameTool /\ UNCHANGED <<nextId, decoder, sink, summary, readVars>>

CloseTakes ==
  /\ At("close") /\ outputQ # <<>>
  /\ outputQ' = Tail(outputQ)
  /\ UNCHANGED <<toolVars, workerVars, pipe, ended, streamEof>>

\* The process ends: its threads, its queue and its ends of the pipes are gone.
ProcessEnds ==
  /\ worker' = [pc |-> "closed", e |-> 0, unsent |-> <<>>, reason |-> "none"]
  /\ pipe' = [s \in Streams |-> <<>>] /\ outputQ' = <<>>
  /\ ended' = {} /\ streamEof' = [s \in Streams |-> FALSE]
  /\ decoder' = FreshDecoder /\ sink' = FreshSink("memory") /\ summary' = NoSummary
  /\ prepared' = 0 /\ sent' = 0 /\ completed' = 0 /\ robbed' = FALSE
  /\ UNCHANGED <<lang, child, stdin, window, printed, edaStatus, nextId>>

WorkerExits == At("close") /\ ProcessEnds /\ UNCHANGED tool

\* Mutant: the process ends without closing the executor.
ParentIsGoneUnnoticed == worker.pc \notin {"close", "closed"} /\ ProcessEnds /\ UNCHANGED tool

\* _watch_parent_exit: another thread closes the executor and ends the process.
ParentIsGone == worker.pc \notin {"close", "closed"} /\ ProcessEnds /\ KillGroup

-----------------------------------------------------------------------------
ToolStep  == ReadLine \/ WriteMark \/ CaptureStatus \/ WriteStatus \/ WriteBlankStatus
ToolEnd   == ToolKilled \/ ChildKilled
UserStep  == (\E s \in Streams : PrintUnit(s)) \/ TakeLine \/ LeaveChild \/ UserCodeEnds
             \/ ChildExits \/ ToolExits
Request   == PrepareExecution \/ ExecutePrepared \/ ExecuteInMemory \/ CloseExecutor \/ ParentIsGone
WorkerStep == WriteLine \/ StdinBroken \/ TakeEvent \/ NoticeExit \/ Deadline \/ DrainEvent
              \/ Finish \/ Reply \/ CloseTakes \/ WorkerExits

Next ==
  \/ ToolStep \/ ToolEnd \/ UserStep
  \/ \E s \in Streams : DrainPipe(s)
  \/ Request \/ WorkerStep

Spec == Init /\ [][Next]_vars

\* The worker, its readers and the interpreter's own writes go on, and what is sent SIGKILL
\* dies; user code need not end, and nobody has to ask for anything.
Fairness ==
  /\ WF_vars(ToolStep) /\ WF_vars(ToolKilled) /\ WF_vars(ChildKilled)
  /\ \A s \in Streams : WF_vars(DrainPipe(s))
  /\ WF_vars(WorkerStep)

FairSpec == Spec /\ Fairness

-----------------------------------------------------------------------------
(* Properties *)

Chunks == {Chunk(k, e) : k \in {"start", "status", "stale", "fence", "user"}, e \in 0..MaxExecs}
Reasons == {"none", "TIMED_OUT", "PROCESS_LOST", "PROTOCOL_ERROR", "QUOTA_EXCEEDED", "WRITE_FAILED"}

\* The values of the worker's locals and of the executor's fields; no queue outgrows its limit.
TypeOK ==
  /\ tool.alive \in BOOLEAN /\ tool.killed \in BOOLEAN /\ tool.e \in 0..MaxExecs
  /\ child \in {"none", "group", "stray"}
  /\ Len(stdin) <= StdinCap /\ Len(outputQ) <= QueueCap
  /\ \A s \in Streams :
       /\ pipe[s] \in Seq(Chunks) /\ Len(pipe[s]) <= PipeCap
       /\ streamEof[s] \in BOOLEAN /\ window[s] \in 0..MaxExecs
  /\ worker.pc \in {"idle", "write", "collect", "drain", "finish", "reply", "close", "closed"}
  /\ worker.e \in 0..MaxExecs /\ worker.reason \in Reasons
  /\ decoder.started \subseteq Streams /\ decoder.fenced \subseteq Streams
  /\ decoder.held \in [Streams -> Chunks \cup {None}]
  /\ sink.written \in 0..Observed(sink) /\ sink.reason \in Reasons
  /\ sink.kind = "file" => sink.written <= Budget
  /\ prepared \in 0..MaxExecs /\ nextId \in 0..MaxExecs
  /\ ended \subseteq Streams
  /\ summary.reason \in Reasons /\ summary.dropped \in Nat \cup {Unknown}

\* output.py:586: output that arrived outside an execution's records is never part of its
\* result, however late the readers deliver it.
OutputIsOwn == sink.other = 0

\* sandbox/README.md:36, of shell and Tcl alike: what comes back is the real exit code, the
\* status of this execution's code, which ran to its end.  A shell breaks it.
HasStatus      == summary.exit \in {"status", "stale"}
ExitCodeIsReal == HasStatus => summary.exit = "status" /\ completed = CodeOps

\* tcl_protocol.py:43 and 88: because the script is not in stdin, nothing that Tcl code, or a
\* process it left, reads there gets it a status that is not its own.  In a shell that is so
\* as long as the code leaves the rest of its block alone.  With a status the output is
\* accounted for to the last byte, or the log says why not.
StatusIsOwn ==
  /\ lang = "tcl" \/ ~robbed => ExitCodeIsReal
  /\ HasStatus => summary.complete \/ summary.incomplete \in {"QUOTA_EXCEEDED", "WRITE_FAILED"}

\* What a result holds is of its execution: the output, and the status.
ResultIsOwn == OutputIsOwn /\ StatusIsOwn

\* A result that claims to know what was dropped does: the bytes in the log and the dropped
\* ones are all that was written between the execution's records, the worker's own message
\* included, whoever wrote the records.  In particular full_log_complete means that not a byte
\* is missing.
KnownLossIsExact ==
  summary # NoSummary =>
    /\ summary.dropped # Unknown =>
         summary.written + summary.dropped =
           sent + (IF summary.reason = "TIMED_OUT" THEN UnitBytes ELSE 0)
    /\ summary.complete => summary.dropped = 0

Executing == worker.pc \in {"write", "collect", "drain", "finish", "reply"}

\* The block of a shell execution is longer than the stdin pipe and bash has stopped reading.
StdinJam == lang = "shell" /\ At("write") /\ Len(stdin) = StdinCap

\* Every execution returns, whatever user code does with the pipes, or the worker hangs in
\* _write_stdin, which no deadline guards, and only for a block longer than the stdin pipe.
ExecutionReturns == Executing ~> (~Executing \/ []StdinJam)

\* When the worker is closed, or its parent has gone, the tool and its group end too.
ToolFollowsWorker == At("closed") ~> (~tool.alive /\ child # "group")

==============================================================================
