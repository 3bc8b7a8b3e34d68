------------------------- MODULE ToolConsole_proofs -------------------------
(***************************************************************************)
(* Theorems about ToolConsole, for every number of executions and code     *)
(* lines and every capacity of the queue, the pipes and the log.           *)
(***************************************************************************)
EXTENDS ToolConsole, FiniteSetTheorems, SequenceTheorems, TLAPS

-----------------------------------------------------------------------------
(* The inductive invariant *)

Ops    == {"startErr", "startOut", "user", "capture", "status", "fenceErr", "fenceOut"}
Codes  == {"none", "status", "stale"}
Line   == [e : Execs, ops : Seq(Ops) \ {<<>>}]
Event  == [stream : Streams, chunk : Chunks \cup {EOF}]
Losses == {"none", "TIMED_OUT", "PROCESS_LOST"}
Ends   == {"none", "QUOTA_EXCEEDED", "WRITE_FAILED"}

Steps  == {"idle", "write", "collect", "drain", "finish", "reply", "close", "closed"}

Decoders == [started : SUBSET Streams, fenced : SUBSET Streams, status : Codes,
             held : [Streams -> Chunks \cup {None}]]
Sinks == [kind : {"memory", "file"}, own : Nat, other : Nat, notes : Nat, written : Nat,
          reason : Ends]
Summaries == [exit : Codes \cup {"-1"}, reason : Reasons, complete : BOOLEAN,
              incomplete : Reasons, written : Nat, dropped : Nat \cup {Unknown}]

\* A sink in order: it knows what it has not written, or has stopped to write.
SinkSound(k) ==
  /\ k \in Sinks
  /\ k.written <= Observed(k)
  /\ k.kind = "file" => k.written <= Budget
  /\ k.reason = "none" => k.written = Observed(k)

ToolType ==
  /\ lang \in {"tcl", "shell"}
  /\ tool \in [alive : BOOLEAN, killed : BOOLEAN, ops : Seq(Ops), e : 0..MaxExecs]
  /\ tool.e = 0 <=> tool.ops = <<>>
  /\ ~tool.alive => tool.ops = <<>>
  /\ child \in {"none", "group", "stray"}
  /\ stdin \in Seq(Line) /\ Len(stdin) <= StdinCap
  /\ window \in [Streams -> 0..MaxExecs]
  /\ sent \in Nat /\ printed \in Nat /\ completed \in Nat
  /\ robbed \in BOOLEAN /\ edaStatus \in 0..MaxExecs

ReadType ==
  /\ pipe \in [Streams -> Seq(Chunks)] /\ \A s \in Streams : Len(pipe[s]) <= PipeCap
  /\ outputQ \in Seq(Event) /\ Len(outputQ) <= QueueCap
  /\ ended \subseteq Streams /\ streamEof \in [Streams -> BOOLEAN]

WorkerType ==
  /\ worker \in [pc : Steps, e : 0..MaxExecs, unsent : Seq(Line), reason : Losses]
  /\ decoder \in Decoders /\ SinkSound(sink) /\ summary \in Summaries
  /\ prepared \in 0..MaxExecs /\ nextId \in 0..MaxExecs

\* What the main thread knows at each step.
Decoding == worker.pc \in {"write", "collect", "drain", "finish"}

WorkerSound ==
  /\ worker.e # 0 <=> Executing
  /\ worker.e = 0 => sent = 0 /\ completed = 0 /\ ~robbed
  /\ At("write") => /\ worker.unsent # <<>>
                    /\ \A i \in DOMAIN worker.unsent : worker.unsent[i].e = worker.e
  /\ worker.pc \in {"write", "collect"} => worker.reason = "none"
  /\ At("drain") => worker.reason # "none"
  /\ At("finish") => worker.reason # "TIMED_OUT"
  /\ At("finish") /\ worker.reason = "none" => Complete
  /\ sink.notes # 0 => At("finish") /\ worker.reason = "PROCESS_LOST"
  /\ ~Decoding => decoder = FreshDecoder /\ sink = FreshSink("memory")
  /\ ~At("reply") => summary = NoSummary
  /\ decoder.fenced \subseteq decoder.started
  /\ decoder.status # "none" => decoder.started # {}

\* An end-of-file is the last of its stream, and nobody is left to write.
EndsKnown ==
  \A s \in Streams :
    /\ s \in ended => pipe[s] = <<>> /\ WriteEndsClosed
    /\ \A i \in DOMAIN outputQ : outputQ[i] = [stream |-> s, chunk |-> EOF] =>
         /\ s \in ended
         /\ \A j \in DOMAIN outputQ : j > i => outputQ[j].stream # s
    /\ streamEof[s] =>
         /\ s \in ended /\ decoder.held[s] = None
         /\ \A i \in DOMAIN outputQ : outputQ[i].stream # s

\* No execution is named anywhere before it begins.
Known(e) == e \in 0..nextId /\ (e = prepared => e = 0)

NamesKnown ==
  /\ prepared <= nextId
  /\ Known(tool.e) /\ Known(worker.e) /\ Known(edaStatus)
  /\ \A i \in DOMAIN stdin : Known(stdin[i].e)
  /\ \A i \in DOMAIN outputQ : Known(outputQ[i].chunk.e)
  /\ \A s \in Streams : Known(window[s]) /\ \A i \in DOMAIN pipe[s] : Known(pipe[s][i].e)

\* The records of stream s that open and close the window of the worker's execution, and
\* whether they are in the queue up to i, in the pipe up to i, or with the decoder.
StartOf(s) == [stream |-> s, chunk |-> Chunk("start", worker.e)]
FenceOf(s) == [stream |-> s, chunk |-> Chunk("fence", worker.e)]

Among(x, q, n) == \E k \in 1..n : q[k] = x

Opened(s, i) == s \in decoder.started \/ Among(StartOf(s), outputQ, i)
Fenced(s, i) == s \in decoder.fenced \/ Among(FenceOf(s), outputQ, i)

OpenedInPipe(s, i) ==
  Opened(s, Len(outputQ)) \/ Among(Chunk("start", worker.e), pipe[s], i)
FencedInPipe(s, i) ==
  Fenced(s, Len(outputQ)) \/ Among(Chunk("fence", worker.e), pipe[s], i)

\* What stands between the two carries the execution's name, and no text or START record
\* that carries it stands elsewhere.
Named(c) == c.kind \in {"start", "user"} /\ c.e = worker.e

OwnBetween(s) ==
  /\ decoder.held[s].e = worker.e => s \in decoder.started \ decoder.fenced
  /\ s \in decoder.started \ decoder.fenced => decoder.held[s] \in {None, Chunk("user", worker.e)}
  /\ \A i \in DOMAIN outputQ : outputQ[i].stream = s /\ outputQ[i].chunk # EOF =>
       /\ Opened(s, i) /\ ~Fenced(s, i - 1) => outputQ[i].chunk.e = worker.e
       /\ Named(outputQ[i].chunk) => Opened(s, i) /\ ~Fenced(s, i - 1)
  /\ \A i \in DOMAIN pipe[s] :
       /\ OpenedInPipe(s, i) /\ ~FencedInPipe(s, i - 1) => pipe[s][i].e = worker.e
       /\ Named(pipe[s][i]) => OpenedInPipe(s, i) /\ ~FencedInPipe(s, i - 1)
  /\ window[s] = worker.e <=>
       OpenedInPipe(s, Len(pipe[s])) /\ ~FencedInPipe(s, Len(pipe[s]))

Between == Decoding => \A s \in Streams : OwnBetween(s)

\* The operations of an execution in their order, and how many its first n lines have.
LastOp == CodeOps + 6
Op(i) ==
  CASE i = 1                 -> "startErr"
    [] i = 2                 -> "startOut"
    [] i \in 3..(CodeOps + 2) -> "user"
    [] i = CodeOps + 3       -> "capture"
    [] i = CodeOps + 4       -> "status"
    [] i = CodeOps + 5       -> "fenceErr"
    [] OTHER                 -> "fenceOut"
OpsIn(n) == IF n = 0 THEN 0 ELSE IF lang = "tcl" THEN LastOp ELSE n

Opens(s)  == IF s = "stderr" THEN 1 ELSE 2
Closes(s) == IF s = "stderr" THEN CodeOps + 5 ELSE LastOp

\* Of the worker's execution n lines have left stdin, and the interpreter is past p operations,
\* which it has carried out or which were taken from it: while a command of the code runs, n may
\* be ahead.  Of the lines in the pipe the last ones, in their order, are of this execution.
SentLines == Len(Pieces) - Len(worker.unsent)

Lines(n) ==
  /\ n \in 0..SentLines /\ SentLines - n <= Len(stdin)
  /\ \A i \in DOMAIN stdin :
       IF i > Len(stdin) - (SentLines - n)
       THEN stdin[i] = Block(worker.e)[SentLines - Len(stdin) + i]
       ELSE stdin[i].e # worker.e
  /\ \A i \in DOMAIN worker.unsent : worker.unsent[i] = Block(worker.e)[SentLines + i]
  /\ SentLines - n < Len(stdin) => n = 0

Reads(n) ==
  /\ Lines(n)
  /\ lang = "tcl" /\ robbed => n # 0
  /\ tool.e \notin {0, worker.e} /\ n # 0 =>
       IF lang = "tcl" THEN robbed ELSE tool.ops = <<"user">>

Done(n, p) ==
  IF tool.e = worker.e
  THEN /\ n # 0 /\ p + Len(tool.ops) <= OpsIn(n)
       /\ p + Len(tool.ops) = OpsIn(n) \/ (lang = "shell" /\ robbed /\ tool.ops = <<"user">>)
       /\ \A i \in DOMAIN tool.ops : tool.ops[i] = Op(p + i)
  ELSE p = OpsIn(n)

\* What is on stream s, and what the decoder has seen of it.
Absent(s, kinds) ==
  /\ \A i \in DOMAIN outputQ :
       outputQ[i].stream = s /\ outputQ[i].chunk # EOF
         => outputQ[i].chunk.e # worker.e \/ outputQ[i].chunk.kind \notin kinds
  /\ \A i \in DOMAIN pipe[s] : pipe[s][i].e # worker.e \/ pipe[s][i].kind \notin kinds

Untouched(s) ==
  /\ window[s] # worker.e /\ s \notin decoder.started
  /\ Absent(s, {"start", "status", "stale", "fence", "user"})

\* A fence is written when all before it is done, or a command has taken the last line.
Taken(s, n, p) == s = "stdout" /\ lang = "shell" /\ n = LastOp /\ p < CodeOps + 2

\* What the interpreter has done so far shows, unless somebody took a line.
Shows(n, p) ==
  /\ \A s \in Streams :
       /\ p < Opens(s) => Untouched(s)
       /\ p < Closes(s) /\ ~Taken(s, n, p) => s \notin decoder.fenced /\ Absent(s, {"fence"})
  /\ ~robbed => /\ completed = IF p <= 2 THEN 0 ELSE IF p - 2 <= CodeOps THEN p - 2 ELSE CodeOps
                /\ p > CodeOps + 2 => edaStatus = worker.e
  /\ At("reply") /\ summary.dropped # Unknown => p = LastOp

Progress ==
  Executing /\ tool.alive
    => \E n \in 0..Len(Pieces), p \in 0..LastOp : Reads(n) /\ Done(n, p) /\ Shows(n, p)

\* A Tcl block is one line.  While it is not read, and if it never will be, nothing of the
\* execution shows.
OneLine(q) == \A i \in DOMAIN q : q[i].ops = Script

Unread ==
  lang = "tcl" =>
    /\ OneLine(stdin) /\ OneLine(worker.unsent)
    /\ Executing /\ (At("write") \/ robbed \/ \E i \in DOMAIN stdin : stdin[i].e = worker.e) =>
         tool.e # worker.e /\ \A s \in Streams : Untouched(s)

\* A line of a shell's block is one operation.
OneByOne ==
  lang = "shell" =>
    /\ Len(tool.ops) <= 1
    /\ \A i \in DOMAIN stdin : Len(stdin[i].ops) = 1
    /\ \A i \in DOMAIN worker.unsent : Len(worker.unsent[i].ops) = 1

\* A status is written when the code has run to its end, and it is that of this code.
NoStatus(kind) ==
  decoder.status # kind /\ \A s \in Streams : Absent(s, {kind})

StatusTrue ==
  Decoding /\ (lang = "tcl" \/ ~robbed) =>
    /\ NoStatus("stale")
    /\ completed # CodeOps => NoStatus("status")

\* What was sent is in the sink or on its way there.
Count(q, x) == Cardinality({i \in DOMAIN q : q[i] = x})
Unit == Chunk("user", worker.e)
OnTheWay(s) ==
  Count(pipe[s], Unit) + Count(outputQ, [stream |-> s, chunk |-> Unit])
    + (IF decoder.held[s] = Unit THEN 1 ELSE 0)

AllCounted ==
  Decoding => /\ sink.other = 0
              /\ sent = sink.own + UnitBytes * (OnTheWay("stdout") + OnTheWay("stderr"))

\* A result that knows its loss is final.
Settled ==
  At("reply") /\ summary.dropped # Unknown =>
    WriteEndsClosed \/ \A s \in Streams : window[s] # worker.e

ConsoleInv ==
  /\ ToolType /\ ReadType /\ WorkerType /\ WorkerSound /\ EndsKnown /\ NamesKnown
  /\ Between /\ Progress /\ Unread /\ OneByOne /\ StatusTrue /\ AllCounted /\ Settled
  /\ StatusIsOwn /\ KnownLossIsExact

-----------------------------------------------------------------------------
(* Sequences, and how often something is in one *)

\* A sequence and one element more, position by position.
LEMMA AppendIs ==
  ASSUME NEW S, NEW q \in Seq(S), NEW y \in S
  PROVE  /\ Append(q, y) \in Seq(S) /\ Len(Append(q, y)) = Len(q) + 1
         /\ DOMAIN Append(q, y) = 1..(Len(q) + 1) /\ DOMAIN q = 1..Len(q) /\ Len(q) \in Nat
         /\ \A i \in 1..Len(q) : Append(q, y)[i] = q[i]
         /\ Append(q, y)[Len(q) + 1] = y
OBVIOUS

\* A sequence without its head, position by position.
LEMMA TailIs ==
  ASSUME NEW S, NEW q \in Seq(S), q # <<>>
  PROVE  /\ Tail(q) \in Seq(S) /\ Len(Tail(q)) = Len(q) - 1 /\ Len(q) \in Nat \ {0}
         /\ DOMAIN Tail(q) = 1..(Len(q) - 1) /\ DOMAIN q = 1..Len(q)
         /\ \A i \in 1..(Len(q) - 1) : Tail(q)[i] = q[i + 1]
         /\ Head(q) = q[1] /\ Head(q) \in S
OBVIOUS

\* How often an element occurs in a sequence is a number.
LEMMA CountIs ==
  ASSUME NEW S, NEW q \in Seq(S), NEW x
  PROVE  Count(q, x) \in Nat /\ IsFiniteSet({i \in DOMAIN q : q[i] = x})
<1>1. DOMAIN q = 1..Len(q) /\ Len(q) \in Nat OBVIOUS
<1>2. IsFiniteSet(1..Len(q)) BY <1>1, FS_Interval
<1>3. {i \in DOMAIN q : q[i] = x} \in SUBSET (1..Len(q)) BY <1>1
<1>4. IsFiniteSet({i \in DOMAIN q : q[i] = x}) BY <1>2, <1>3, FS_Subset
<1>. QED BY <1>4, FS_CardinalityType DEF Count

\* An element that is at no position occurs no times.
LEMMA CountNone ==
  ASSUME NEW S, NEW q \in Seq(S), NEW x, \A i \in DOMAIN q : q[i] # x
  PROVE  Count(q, x) = 0
<1>1. {i \in DOMAIN q : q[i] = x} = {} OBVIOUS
<1>. QED BY <1>1, FS_EmptySet DEF Count

\* A new last element counts once if it is the one counted.
LEMMA CountAppend ==
  ASSUME NEW S, NEW q \in Seq(S), NEW y \in S, NEW x
  PROVE  Count(Append(q, y), x) = Count(q, x) + (IF y = x THEN 1 ELSE 0)
<1>. DEFINE T == {i \in DOMAIN q : q[i] = x}
            U == {i \in DOMAIN Append(q, y) : Append(q, y)[i] = x}
            n == Len(q) + 1
<1>1. IsFiniteSet(T) /\ Cardinality(T) \in Nat BY CountIs DEF Count
<1>2. n \notin T BY AppendIs
<1>3. U = IF y = x THEN T \cup {n} ELSE T
  BY AppendIs
<1>. HIDE DEF T, U
<1>4. Cardinality(T \cup {n}) = Cardinality(T) + 1
  BY <1>1, <1>2, FS_AddElement
<1>5. Count(q, x) = Cardinality(T) /\ Count(Append(q, y), x) = Cardinality(U)
  BY DEF Count, T, U
<1>. QED BY <1>1, <1>3, <1>4, <1>5

\* The head that is taken counts once if it is the one counted.
LEMMA CountTail ==
  ASSUME NEW S, NEW q \in Seq(S), q # <<>>, NEW x
  PROVE  Count(q, x) = Count(Tail(q), x) + (IF Head(q) = x THEN 1 ELSE 0)
<1>. DEFINE T == {i \in DOMAIN Tail(q) : Tail(q)[i] = x}
            U == {i \in DOMAIN q : q[i] = x}
            f == [i \in T |-> i + 1]
<1>0. Tail(q) \in Seq(S) BY TailIs
<1>1. IsFiniteSet(T) /\ Cardinality(T) \in Nat BY <1>0, CountIs DEF Count
<1>2. IsFiniteSet(U) /\ Cardinality(U) \in Nat BY CountIs DEF Count
<1>3. f \in Bijection(T, U \ {1})
  <2>1. f \in [T -> U \ {1}] BY TailIs
  <2>2. \A a, b \in T : f[a] = f[b] => a = b BY TailIs
  <2>3. \A c \in U \ {1} : c - 1 \in T /\ f[c - 1] = c BY TailIs
  <2>. QED BY <2>1, <2>2, <2>3, Zenon DEF Bijection, Injection, Surjection, IsInjective
<1>4. 1 \in U <=> Head(q) = x BY TailIs
<1>. HIDE DEF T, U, f
<1>5. Cardinality(U \ {1}) = Cardinality(T)
  BY <1>1, <1>3, FS_Bijection DEF ExistsBijection
<1>6. Cardinality(U \ {1}) = IF 1 \in U THEN Cardinality(U) - 1 ELSE Cardinality(U)
  BY <1>2, FS_RemoveElement
<1>7. Count(q, x) = Cardinality(U) /\ Count(Tail(q), x) = Cardinality(T)
  BY DEF Count, T, U
<1>. QED BY <1>1, <1>2, <1>4, <1>5, <1>6, <1>7

-----------------------------------------------------------------------------
(* Types *)

\* The operations of a script, one after the other.
LEMMA ScriptIs ==
  ASSUME lang \in {"tcl", "shell"}
  PROVE  /\ CodeOps \in Nat \ {0} /\ LastOp \in Nat /\ LastOp = CodeOps + 6
         /\ Script \in Seq(Ops) /\ Len(Script) = LastOp
         /\ \A i \in 1..LastOp : Script[i] = Op(i)
<1>. DEFINE u == [i \in 1..CodeOps |-> "user"]
            v == Prologue \o u
<1>1. CodeOps \in Nat \ {0} BY ConsoleAssumption DEF CodeOps
<1>2. /\ Prologue \in Seq(Ops) /\ Len(Prologue) = 2
      /\ Prologue[1] = "startErr" /\ Prologue[2] = "startOut"
  BY DEF Ops, Prologue
<1>3. /\ Epilogue \in Seq(Ops) /\ Len(Epilogue) = 4
      /\ Epilogue[1] = "capture" /\ Epilogue[2] = "status"
      /\ Epilogue[3] = "fenceErr" /\ Epilogue[4] = "fenceOut"
  BY DEF Ops, Epilogue
<1>4. u \in Seq(Ops) /\ Len(u) = CodeOps /\ \A i \in 1..CodeOps : u[i] = "user"
  BY <1>1 DEF Ops
<1>. HIDE DEF u
<1>5. /\ v \in Seq(Ops) /\ Len(v) = CodeOps + 2
      /\ v[1] = "startErr" /\ v[2] = "startOut" /\ \A i \in 3..(CodeOps + 2) : v[i] = "user"
  <2>1. /\ v \in Seq(Ops) /\ Len(v) = Len(Prologue) + Len(u)
        /\ \A i \in 1..(Len(Prologue) + Len(u)) :
             v[i] = IF i <= Len(Prologue) THEN Prologue[i] ELSE u[i - Len(Prologue)]
    BY <1>2, <1>4, ConcatProperties
  <2>. HIDE DEF v
  <2>2. \A i \in 1..(CodeOps + 2) : v[i] = IF i <= 2 THEN Prologue[i] ELSE u[i - 2]
    BY <1>1, <1>2, <1>4, <2>1
  <2>3. v[1] = Prologue[1] /\ v[2] = Prologue[2] BY <1>1, <2>2
  <2>4. \A i \in 3..(CodeOps + 2) : i - 2 \in 1..CodeOps /\ v[i] = u[i - 2] BY <1>1, <2>2
  <2>. QED BY <1>1, <1>2, <1>4, <2>1, <2>3, <2>4
<1>. HIDE DEF v
<1>6. /\ v \o Epilogue \in Seq(Ops) /\ Len(v \o Epilogue) = CodeOps + 6
      /\ \A i \in 1..(CodeOps + 6) :
           (v \o Epilogue)[i] = IF i <= CodeOps + 2 THEN v[i] ELSE Epilogue[i - (CodeOps + 2)]
  <2>1. /\ v \o Epilogue \in Seq(Ops) /\ Len(v \o Epilogue) = Len(v) + Len(Epilogue)
        /\ \A i \in 1..(Len(v) + Len(Epilogue)) :
             (v \o Epilogue)[i] = IF i <= Len(v) THEN v[i] ELSE Epilogue[i - Len(v)]
    <3>1. v \in Seq(Ops) /\ Epilogue \in Seq(Ops) BY <1>3, <1>5
    <3>. QED BY <3>1, ConcatProperties
  <2>2. Len(v) = CodeOps + 2 /\ Len(v) + Len(Epilogue) = CodeOps + 6 BY <1>1, <1>3, <1>5
  <2>3. \A i \in 1..(CodeOps + 6) :
          (v \o Epilogue)[i] = IF i <= CodeOps + 2 THEN v[i] ELSE Epilogue[i - (CodeOps + 2)]
    BY <2>1, <2>2
  <2>. QED BY <2>1, <2>2, <2>3
<1>7. Script = v \o Epilogue BY DEF Script, v, u
<1>8. ASSUME NEW i \in 1..(CodeOps + 6) PROVE Script[i] = Op(i)
  <2>1. Script[i] = IF i <= CodeOps + 2 THEN v[i] ELSE Epilogue[i - (CodeOps + 2)]
    BY <1>6, <1>7
  <2>2. CASE i = 1 BY <1>1, <1>5, <2>1, <2>2 DEF Op
  <2>3. CASE i = 2 BY <1>1, <1>5, <2>1, <2>3 DEF Op
  <2>4. CASE i \in 3..(CodeOps + 2) BY <1>1, <1>5, <2>1, <2>4 DEF Op
  <2>5. CASE i = CodeOps + 3
    <3>1. i - (CodeOps + 2) = 1 /\ ~(i <= CodeOps + 2) BY <1>1, <2>5
    <3>. QED BY <1>1, <1>3, <2>1, <2>5, <3>1 DEF Op
  <2>6. CASE i = CodeOps + 4
    <3>1. i - (CodeOps + 2) = 2 /\ ~(i <= CodeOps + 2) BY <1>1, <2>6
    <3>. QED BY <1>1, <1>3, <2>1, <2>6, <3>1 DEF Op
  <2>7. CASE i = CodeOps + 5
    <3>1. i - (CodeOps + 2) = 3 /\ ~(i <= CodeOps + 2) BY <1>1, <2>7
    <3>. QED BY <1>1, <1>3, <2>1, <2>7, <3>1 DEF Op
  <2>8. CASE i = CodeOps + 6
    <3>1. i - (CodeOps + 2) = 4 /\ ~(i <= CodeOps + 2) BY <1>1, <2>8
    <3>. QED BY <1>1, <1>3, <2>1, <2>8, <3>1 DEF Op
  <2>. QED BY <1>1, <2>2, <2>3, <2>4, <2>5, <2>6, <2>7, <2>8
<1>9. LastOp = CodeOps + 6 BY DEF LastOp
<1>. QED BY <1>1, <1>6, <1>7, <1>8, <1>9

\* Tcl's block is one line, the shell's has a line for each operation.
LEMMA PiecesAre ==
  ASSUME lang \in {"tcl", "shell"}
  PROVE  /\ Pieces \in Seq(Seq(Ops) \ {<<>>}) /\ Len(Pieces) \in Nat \ {0}
         /\ lang = "tcl" => Len(Pieces) = 1 /\ Pieces[1] = Script /\ CodeOps = 1
         /\ lang = "shell" => /\ Len(Pieces) = LastOp
                              /\ \A i \in 1..LastOp : Pieces[i] = <<Script[i]>>
<1>1. CASE lang = "tcl"
  <2>1. Script \in Seq(Ops) \ {<<>>} BY ScriptIs, EmptySeq
  <2>2. Pieces = <<Script>> /\ CodeOps = 1 BY <1>1 DEF Pieces, CodeOps
  <2>. HIDE DEF Script
  <2>. QED BY <1>1, <2>1, <2>2
<1>2. CASE lang = "shell"
  <2>1. /\ Script \in Seq(Ops) /\ Len(Script) = LastOp /\ LastOp \in Nat \ {0}
        /\ DOMAIN Script = 1..LastOp
    BY ScriptIs
  <2>2. Pieces = [i \in 1..LastOp |-> <<Script[i]>>] BY <1>2, <2>1 DEF Pieces, Inline
  <2>. HIDE DEF Script, LastOp
  <2>3. \A i \in 1..LastOp : Script[i] \in Ops BY <2>1
  <2>4. \A i \in 1..LastOp : <<Script[i]>> \in Seq(Ops) \ {<<>>} BY <2>3, EmptySeq
  <2>. DEFINE S == Seq(Ops) \ {<<>>}
              f == [i \in 1..LastOp |-> <<Script[i]>>]
  <2>5. \A i \in 1..LastOp : <<Script[i]>> \in S BY <2>4
  <2>. HIDE DEF S
  <2>6. f \in Seq(S) /\ Len(f) = LastOp BY <2>1, <2>5
  <2>. QED BY <1>2, <2>1, <2>2, <2>6 DEF S
<1>. QED BY <1>1, <1>2

\* The n-th line has the operations that follow those of the lines before.
LEMMA LineHas ==
  ASSUME lang \in {"tcl", "shell"}, NEW n \in 1..Len(Pieces)
  PROVE  /\ OpsIn(n) \in 0..LastOp /\ OpsIn(n - 1) \in 0..LastOp /\ OpsIn(0) = 0
         /\ Len(Pieces[n]) \in Nat \ {0} /\ OpsIn(n - 1) + Len(Pieces[n]) = OpsIn(n)
         /\ \A i \in 1..Len(Pieces[n]) : Pieces[n][i] = Op(OpsIn(n - 1) + i)
         /\ OpsIn(Len(Pieces)) = LastOp /\ LastOp \in Nat
<1>1. /\ LastOp \in Nat \ {0} /\ Len(Script) = LastOp
      /\ \A i \in 1..LastOp : Script[i] = Op(i)
  BY ScriptIs
<1>. HIDE DEF LastOp
<1>2. CASE lang = "tcl"
  <2>0. Len(Pieces) = 1 /\ Pieces[1] = Script BY <1>2, PiecesAre
  <2>1. n = 1 /\ Len(Pieces) = 1 /\ Pieces[1] = Script BY <2>0
  <2>2. OpsIn(1) = LastOp /\ OpsIn(0) = 0 BY <1>2 DEF OpsIn
  <2>. QED BY <1>1, <2>1, <2>2
<1>3. CASE lang = "shell"
  <2>1. Len(Pieces) = LastOp /\ Pieces[n] = <<Script[n]>> BY <1>3, PiecesAre
  <2>2. \A i \in 0..LastOp : OpsIn(i) = i BY <1>3 DEF OpsIn
  <2>3. Len(Pieces[n]) = 1 /\ Pieces[n][1] = Script[n] BY <2>1
  <2>4. OpsIn(n) = n /\ OpsIn(n - 1) = n - 1 /\ OpsIn(0) = 0 /\ (n - 1) + 1 = n
    BY <1>1, <2>1, <2>2
  <2>. QED BY <1>1, <2>1, <2>3, <2>4, <2>2
<1>. QED BY <1>2, <1>3

\* The block of an execution is its pieces, each under its name.
LEMMA BlockIs ==
  ASSUME lang \in {"tcl", "shell"}, NEW e \in Execs
  PROVE  /\ Block(e) \in Seq(Line) /\ Len(Block(e)) = Len(Pieces) /\ Block(e) # <<>>
         /\ \A i \in 1..Len(Pieces) : Block(e)[i] = [e |-> e, ops |-> Pieces[i]]
<1>1. Pieces \in Seq(Seq(Ops) \ {<<>>}) /\ Len(Pieces) \in Nat \ {0} BY PiecesAre
<1>2. Block(e) = [i \in 1..Len(Pieces) |-> [e |-> e, ops |-> Pieces[i]]] BY <1>1 DEF Block
<1>3. \A i \in 1..Len(Pieces) : [e |-> e, ops |-> Pieces[i]] \in Line BY <1>1 DEF Line
<1>. QED BY <1>1, <1>2, <1>3, EmptySeq

\* A sink that is written to stays in order, and counts what it is given.
LEMMA WritesAre ==
  ASSUME NEW k, SinkSound(k), NEW part \in {"own", "other", "notes"}, NEW n \in Writes(k, part)
  PROVE  /\ SinkSound(n) /\ n.kind = k.kind
         /\ n.own   = k.own + (IF part = "own" THEN UnitBytes ELSE 0)
         /\ n.other = k.other + (IF part = "other" THEN UnitBytes ELSE 0)
         /\ n.notes = k.notes + (IF part = "notes" THEN UnitBytes ELSE 0)
         /\ Observed(n) = Observed(k) + UnitBytes
<1>. DEFINE seen == [k EXCEPT ![part] = @ + UnitBytes]
<1>1. k \in Sinks /\ Budget \in Nat BY ConsoleAssumption DEF SinkSound
<1>2. /\ seen \in Sinks /\ seen.kind = k.kind /\ seen.reason = k.reason /\ seen.written = k.written
      /\ seen.own   = k.own + (IF part = "own" THEN UnitBytes ELSE 0)
      /\ seen.other = k.other + (IF part = "other" THEN UnitBytes ELSE 0)
      /\ seen.notes = k.notes + (IF part = "notes" THEN UnitBytes ELSE 0)
  <2>1. CASE part = "own" BY <1>1, <2>1 DEF Sinks, UnitBytes
  <2>2. CASE part = "other" BY <1>1, <2>2 DEF Sinks, UnitBytes
  <2>3. CASE part = "notes" BY <1>1, <2>3 DEF Sinks, UnitBytes
  <2>. QED BY <2>1, <2>2, <2>3
<1>3. Observed(seen) = Observed(k) + UnitBytes
  BY <1>1, <1>2 DEF Observed, Sinks, UnitBytes
<1>4. /\ ToWrite(k) \in 0..UnitBytes
      /\ k.kind = "file" => k.written + ToWrite(k) <= Budget
      /\ ToWrite(k) < UnitBytes => k.kind = "file"
  BY <1>1 DEF ToWrite, SinkSound, Sinks, UnitBytes
<1>5. \/ n = seen /\ k.reason # "none"
      \/ \E w \in 0..ToWrite(k), why \in Ends :
           /\ n = [seen EXCEPT !.written = @ + w, !.reason = why]
           /\ k.reason = "none" /\ (why = "none" => w = UnitBytes)
  <2>1. CASE k.reason # "none" BY <2>1 DEF Writes
  <2>2. CASE k.reason = "none"
    <3>1. CASE n = [seen EXCEPT !.written = @ + ToWrite(k),
                                !.reason = IF ToWrite(k) < UnitBytes THEN "QUOTA_EXCEEDED" ELSE @]
      <4>. DEFINE why == IF ToWrite(k) < UnitBytes THEN "QUOTA_EXCEEDED" ELSE "none"
      <4>1. n = [seen EXCEPT !.written = @ + ToWrite(k), !.reason = why]
        BY <1>2, <2>2, <3>1
      <4>2. why \in Ends /\ (why = "none" => ToWrite(k) = UnitBytes) /\ ToWrite(k) \in 0..ToWrite(k)
        BY <1>4 DEF Ends, UnitBytes
      <4>. QED BY <2>2, <4>1, <4>2
    <3>2. CASE \E m \in 0..(ToWrite(k) - 1) :
                 n = [seen EXCEPT !.written = @ + m, !.reason = "WRITE_FAILED"]
      <4>1. PICK m \in 0..(ToWrite(k) - 1) :
              n = [seen EXCEPT !.written = @ + m, !.reason = "WRITE_FAILED"]
        BY <3>2
      <4>2. m \in 0..ToWrite(k) /\ "WRITE_FAILED" \in Ends BY <1>4 DEF Ends, UnitBytes
      <4>. QED BY <2>2, <4>1, <4>2
    <3>. QED BY <2>2, <3>1, <3>2 DEF Writes
  <2>. QED BY <2>1, <2>2
<1>. HIDE DEF seen
<1>6. CASE n = seen /\ k.reason # "none"
  BY <1>1, <1>2, <1>3, <1>6 DEF SinkSound, UnitBytes, Observed, Sinks
<1>7. ASSUME NEW w \in 0..ToWrite(k), NEW why \in Ends,
             n = [seen EXCEPT !.written = @ + w, !.reason = why],
             k.reason = "none", why = "none" => w = UnitBytes
      PROVE  /\ SinkSound(n) /\ n.kind = seen.kind /\ n.own = seen.own /\ n.other = seen.other
             /\ n.notes = seen.notes /\ Observed(n) = Observed(seen)
  <2>1. /\ n.kind = seen.kind /\ n.own = seen.own /\ n.other = seen.other /\ n.notes = seen.notes
        /\ n.written = k.written + w /\ n.reason = why /\ n \in Sinks
    <3>1. w \in Nat /\ k.written + w \in Nat BY <1>1, <1>4, <1>7 DEF Sinks, UnitBytes
    <3>2. n = [[seen EXCEPT !.written = k.written + w] EXCEPT !.reason = why]
      BY <1>2, <1>7 DEF Sinks
    <3>. QED BY <1>2, <3>1, <3>2 DEF Sinks
  <2>2. Observed(n) = Observed(seen) BY <2>1 DEF Observed
  <2>3. /\ k.written = Observed(k) /\ (k.kind = "file" => k.written + w <= Budget)
        /\ k.written \in Nat /\ w <= UnitBytes
    BY <1>1, <1>4, <1>7 DEF SinkSound, Sinks, UnitBytes
  <2>. QED BY <1>2, <1>3, <1>7, <2>1, <2>2, <2>3 DEF SinkSound, UnitBytes
<1>. QED BY <1>2, <1>3, <1>5, <1>6, <1>7

\* What the decoder makes of a chunk.
LEMMA ConsumedIs ==
  ASSUME NEW d \in Decoders, NEW s \in Streams, NEW c \in Chunks
  PROVE  /\ Consumed(d, s, c) \in Decoders
         /\ \A t \in Streams \ {s} : Consumed(d, s, c).held[t] = d.held[t]
         /\ Consumed(d, s, c).held[s] = IF IsRecord(c) THEN None
                                        ELSE Chunk("user", IF c.kind = "user" THEN c.e ELSE 0)
         /\ \A t \in Streams : t \in Consumed(d, s, c).started <=>
              t \in d.started \/ (t = s /\ IsRecord(c) /\ c.kind = "start")
         /\ \A t \in Streams : t \in Consumed(d, s, c).fenced <=>
              t \in d.fenced \/ (t = s /\ IsRecord(c) /\ c.kind = "fence" /\ s \in d.started)
         /\ Consumed(d, s, c).status = d.status
            \/ /\ IsRecord(c) /\ c.kind \in {"status", "stale"} /\ s \in d.started
               /\ d.status = "none" /\ Consumed(d, s, c).status = c.kind
<1>. DEFINE u == Chunk("user", IF c.kind = "user" THEN c.e ELSE 0)
            flushed == [d EXCEPT !.held[s] = None]
            kept    == [d EXCEPT !.held[s] = u]
<1>1. c.e \in 0..MaxExecs /\ c.kind \in {"start", "status", "stale", "fence", "user"}
  BY DEF Chunks, Chunk
<1>2. u \in Chunks
  <2>1. 0 \in 0..MaxExecs BY ConsoleAssumption
  <2>. QED BY <1>1, <2>1 DEF Chunks
<1>. HIDE DEF u
<1>3. /\ kept \in Decoders /\ kept.started = d.started /\ kept.fenced = d.fenced
      /\ kept.status = d.status /\ kept.held[s] = u
      /\ \A t \in Streams \ {s} : kept.held[t] = d.held[t]
  BY <1>2 DEF Decoders
<1>4. /\ flushed \in Decoders /\ flushed.started = d.started /\ flushed.fenced = d.fenced
      /\ flushed.status = d.status /\ flushed.held[s] = None
      /\ \A t \in Streams \ {s} : flushed.held[t] = d.held[t]
  BY DEF Decoders
<1>5. CASE ~IsRecord(c)
  <2>1. Consumed(d, s, c) = kept
    <3>1. Consumed(d, s, c) =
            [d EXCEPT !.held[s] = Chunk("user", IF c.kind = "user" THEN c.e ELSE 0)]
      BY <1>5 DEF Consumed
    <3>. QED BY <3>1 DEF u
  <2>. HIDE DEF kept
  <2>. QED BY <1>3, <1>5, <2>1 DEF u, IsRecord
<1>6. CASE IsRecord(c)
  <2>0. c.kind \in {"start", "status", "stale", "fence"} BY <1>1, <1>6 DEF IsRecord
  <2>. HIDE DEF flushed, kept
  <2>1. CASE c.kind = "start"
    <3>1. Consumed(d, s, c) = [flushed EXCEPT !.started = @ \cup {s}]
      BY <1>6, <2>1 DEF Consumed, flushed
    <3>. QED BY <1>4, <1>6, <2>1, <3>1 DEF Decoders, IsRecord
  <2>2. CASE c.kind # "start" /\ s \notin d.started
    <3>1. Consumed(d, s, c) = flushed
      BY <1>6, <2>2 DEF Consumed, flushed
    <3>. QED BY <1>4, <1>6, <2>2, <3>1 DEF IsRecord
  <2>3. CASE c.kind \in {"status", "stale"} /\ s \in d.started
    <3>1. CASE d.status = "none"
      <4>1. Consumed(d, s, c) = [flushed EXCEPT !.status = c.kind]
        BY <1>6, <2>3, <3>1 DEF Consumed, flushed
      <4>. QED BY <1>4, <1>6, <2>3, <3>1, <4>1 DEF Decoders, Codes, IsRecord
    <3>2. CASE d.status # "none"
      <4>1. Consumed(d, s, c) = flushed
        BY <1>6, <2>3, <3>2 DEF Consumed, flushed
      <4>. QED BY <1>4, <1>6, <2>3, <4>1 DEF IsRecord
    <3>. QED BY <3>1, <3>2
  <2>4. CASE c.kind = "fence" /\ s \in d.started
    <3>1. Consumed(d, s, c) = [flushed EXCEPT !.fenced = @ \cup {s}]
      BY <1>6, <2>4 DEF Consumed, flushed
    <3>. QED BY <1>4, <1>6, <2>4, <3>1 DEF Decoders, IsRecord
  <2>. QED BY <2>0, <2>1, <2>2, <2>3, <2>4
<1>. QED BY <1>5, <1>6

\* The remainder of a stream goes into the sink, if the window of the stream is open.
Flushes(s) == decoder.held[s] # None /\ s \in decoder.started

\* What the remainder of a stream adds to the sink, and to which part of it.
LEMMA EmitIs ==
  ASSUME WorkerType, NEW s \in Streams, EmitHeld(s)
  PROVE  /\ SinkSound(sink') /\ sink'.notes = sink.notes
         /\ sink'.own = sink.own + (IF Flushes(s) /\ decoder.held[s].e = worker.e
                                    THEN UnitBytes ELSE 0)
         /\ sink'.other = sink.other + (IF Flushes(s) /\ decoder.held[s].e # worker.e
                                        THEN UnitBytes ELSE 0)
<1>0. SinkSound(sink) /\ sink.own \in Nat /\ sink.other \in Nat /\ sink.notes \in Nat
  BY DEF WorkerType, SinkSound, Sinks
<1>1. CASE ~Flushes(s)
  <2>1. sink' = sink BY <1>1 DEF EmitHeld, Flushes
  <2>. QED BY <1>0, <1>1, <2>1
<1>2. CASE Flushes(s) /\ decoder.held[s].e = worker.e
  <2>1. sink' \in Writes(sink, "own") BY <1>2 DEF EmitHeld, Flushes
  <2>. QED BY <1>0, <1>2, <2>1, WritesAre
<1>3. CASE Flushes(s) /\ decoder.held[s].e # worker.e
  <2>1. sink' \in Writes(sink, "other") BY <1>3 DEF EmitHeld, Flushes
  <2>. QED BY <1>0, <1>3, <2>1, WritesAre
<1>. QED BY <1>1, <1>2, <1>3

\* The next event of the queue, and what it does.
LEMMA TakeIs ==
  ASSUME WorkerType, ReadType, ConsumeEvent
  PROVE  LET s == Head(outputQ).stream
             c == Head(outputQ).chunk
         IN  /\ outputQ # <<>> /\ s \in Streams /\ c \in Chunks \cup {EOF}
             /\ decoder' \in Decoders /\ SinkSound(sink') /\ sink'.notes = sink.notes
             /\ streamEof' = IF c = EOF THEN [streamEof EXCEPT ![s] = TRUE] ELSE streamEof
             /\ \A t \in Streams \ {s} : decoder'.held[t] = decoder.held[t]
             /\ sink'.own = sink.own + (IF s \notin decoder.fenced /\ Flushes(s)
                                           /\ decoder.held[s].e = worker.e THEN UnitBytes ELSE 0)
             /\ sink'.other = sink.other + (IF s \notin decoder.fenced /\ Flushes(s)
                                               /\ decoder.held[s].e # worker.e
                                            THEN UnitBytes ELSE 0)
             /\ c # EOF /\ s \in decoder.fenced => decoder' = decoder
             /\ c # EOF /\ s \notin decoder.fenced => decoder' = Consumed(decoder, s, c)
             /\ c = EOF => /\ decoder'.started = decoder.started /\ decoder'.fenced = decoder.fenced
                           /\ decoder'.status = decoder.status /\ decoder'.held[s] = None
<1>. DEFINE s == Head(outputQ).stream
            c == Head(outputQ).chunk
<1>1. outputQ # <<>> BY DEF ConsumeEvent
<1>2. Head(outputQ) \in Event BY <1>1, TailIs DEF ReadType
<1>3. s \in Streams /\ c \in Chunks \cup {EOF} BY <1>2 DEF Event
<1>0. /\ decoder \in Decoders /\ SinkSound(sink)
      /\ sink.own \in Nat /\ sink.other \in Nat /\ sink.notes \in Nat
  BY DEF WorkerType, SinkSound, Sinks
<1>4. IF c = EOF THEN FinishStream(s) /\ streamEof' = [streamEof EXCEPT ![s] = TRUE]
      ELSE Feed(s, c) /\ streamEof' = streamEof
  BY DEF ConsumeEvent
<1>. HIDE DEF s, c
<1>5. CASE c = EOF
  <2>1. FinishStream(s) /\ streamEof' = [streamEof EXCEPT ![s] = TRUE] BY <1>4, <1>5
  <2>2. decoder' = [decoder EXCEPT !.held[s] = None] BY <2>1 DEF FinishStream
  <2>3. /\ decoder' \in Decoders /\ decoder'.started = decoder.started
        /\ decoder'.fenced = decoder.fenced /\ decoder'.status = decoder.status
        /\ decoder'.held[s] = None /\ \A t \in Streams \ {s} : decoder'.held[t] = decoder.held[t]
    BY <1>0, <1>3, <2>2 DEF Decoders
  <2>4. CASE s \in decoder.fenced
    <3>1. sink' = sink BY <2>1, <2>4 DEF FinishStream
    <3>. QED BY <1>0, <1>1, <1>3, <1>5, <2>1, <2>3, <2>4, <3>1 DEF s, c
  <2>5. CASE s \notin decoder.fenced
    <3>1. EmitHeld(s) BY <2>1, <2>5 DEF FinishStream
    <3>2. /\ SinkSound(sink') /\ sink'.notes = sink.notes
          /\ sink'.own = sink.own + (IF Flushes(s) /\ decoder.held[s].e = worker.e
                                     THEN UnitBytes ELSE 0)
          /\ sink'.other = sink.other + (IF Flushes(s) /\ decoder.held[s].e # worker.e
                                         THEN UnitBytes ELSE 0)
      BY <1>3, <3>1, EmitIs
    <3>. QED BY <1>1, <1>3, <1>5, <2>1, <2>3, <2>5, <3>2 DEF s, c
  <2>. QED BY <2>4, <2>5
<1>6. CASE c # EOF
  <2>1. Feed(s, c) /\ streamEof' = streamEof /\ c \in Chunks BY <1>3, <1>4, <1>6
  <2>2. CASE s \in decoder.fenced
    <3>1. sink' = sink /\ decoder' = decoder BY <2>1, <2>2 DEF Feed
    <3>. QED BY <1>0, <1>1, <1>3, <1>6, <2>1, <2>2, <3>1 DEF s, c
  <2>3. CASE s \notin decoder.fenced
    <3>1. EmitHeld(s) /\ decoder' = Consumed(decoder, s, c) BY <2>1, <2>3 DEF Feed
    <3>2. /\ SinkSound(sink') /\ sink'.notes = sink.notes
          /\ sink'.own = sink.own + (IF Flushes(s) /\ decoder.held[s].e = worker.e
                                     THEN UnitBytes ELSE 0)
          /\ sink'.other = sink.other + (IF Flushes(s) /\ decoder.held[s].e # worker.e
                                         THEN UnitBytes ELSE 0)
      BY <1>3, <3>1, EmitIs
    <3>3. /\ decoder' \in Decoders
          /\ \A t \in Streams \ {s} : decoder'.held[t] = decoder.held[t]
      BY <1>0, <1>3, <2>1, <3>1, ConsumedIs
    <3>. QED BY <1>1, <1>3, <1>6, <2>1, <2>3, <3>1, <3>2, <3>3 DEF s, c
  <2>. QED BY <2>2, <2>3
<1>. QED BY <1>5, <1>6

Typed == ToolType /\ ReadType /\ WorkerType

\* The steps, of whoever takes them.
LEMMA NextIs ==
  ASSUME Next
  PROVE  \/ ReadLine \/ WriteMark \/ CaptureStatus \/ WriteStatus \/ WriteBlankStatus
         \/ TakeLine \/ LeaveChild \/ UserCodeEnds \/ ChildEnds \/ Die
         \/ \E s \in Streams : PrintUnit(s) \/ DrainPipe(s)
         \/ PrepareExecution \/ ExecutePrepared \/ ExecuteInMemory \/ CloseExecutor
         \/ WriteLine \/ StdinBroken \/ TakeEvent \/ NoticeExit \/ Deadline \/ DrainEvent
         \/ Finish \/ Reply \/ CloseTakes
         \/ ProcessEnds /\ (KillGroup \/ UNCHANGED tool)
BY DEF Next, ToolStep, ToolEnd, UserStep, Request, WorkerStep, ToolKilled, ChildKilled, ChildExits,
       ToolExits, WorkerExits, ParentIsGone

Marks == {"startErr", "startOut", "fenceErr", "fenceOut"}

\* A record of START or FENCE and what it does to the window of its stream.
LEMMA MarkIs ==
  ASSUME ToolType, NEW op \in Marks, NEW e \in Execs, Mark(op, e)
  PROVE  LET s == StreamOf(op)
             c == Chunk(RecordOf(op), e)
         IN  /\ s \in Streams /\ c \in Chunks /\ c.e = e /\ Emit(s, c)
             /\ c.kind = IF op \in {"startErr", "startOut"} THEN "start" ELSE "fence"
             /\ window' \in [Streams -> 0..MaxExecs]
             /\ window'[s] = IF op \in {"startErr", "startOut"} THEN e ELSE 0
             /\ \A t \in Streams \ {s} : window'[t] = window[t]
<1>1. e \in 0..MaxExecs /\ 0 \in 0..MaxExecs BY ConsoleAssumption DEF Execs
<1>. QED BY <1>1 DEF Mark, Marks, RecordOf, StreamOf, Streams, Chunk, Chunks, ToolType

\* The steps that write such a record: the interpreter's own, and user code that prints a line
\* it has taken from stdin.
LEMMA MarkersAre ==
  ASSUME ToolType, WriteMark \/ TakeLine
  PROVE  \/ TakeLine /\ UNCHANGED <<window, readVars>>
         \/ \E op \in Marks, e \in Execs :
              /\ Mark(op, e)
              /\ \/ /\ WriteMark /\ tool.ops # <<>> /\ op = Head(tool.ops) /\ e = tool.e
                 \/ /\ TakeLine /\ Head(stdin).ops = <<op>> /\ e = Head(stdin).e
                    /\ op \in {"startOut", "fenceOut"}
<1>1. CASE WriteMark
  <2>1. tool.ops # <<>> /\ Head(tool.ops) \in Marks /\ tool.e \in Execs
    BY <1>1 DEF WriteMark, Doing, Marks, ToolType, Execs
  <2>. QED BY <1>1, <2>1 DEF WriteMark
<1>2. CASE TakeLine
  <2>1. stdin # <<>> /\ stdin \in Seq(Line) BY <1>2 DEF TakeLine, ToolType
  <2>5. Head(stdin) \in Line BY <2>1, TailIs
  <2>2. Head(stdin).e \in Execs BY <2>5 DEF Line
  <2>3. CASE UNCHANGED <<window, readVars>> BY <1>2, <2>3
  <2>4. ASSUME NEW op \in {"startOut", "fenceOut"}, Head(stdin).ops = <<op>>,
               Mark(op, Head(stdin).e)
        PROVE  \E o \in Marks, e \in Execs :
                 /\ Mark(o, e) /\ TakeLine /\ Head(stdin).ops = <<o>> /\ e = Head(stdin).e
                 /\ o \in {"startOut", "fenceOut"}
    <3>1. op \in Marks BY DEF Marks
    <3>. QED BY <1>2, <2>2, <2>4, <3>1
  <2>. QED BY <1>2, <2>3, <2>4 DEF TakeLine
<1>. QED BY <1>1, <1>2

\* A line taken from stdin is gone, and nothing else of the tool changes.
LEMMA TakingIs ==
  ASSUME ToolType, TakeLine
  PROVE  /\ stdin # <<>> /\ stdin \in Seq(Line) /\ stdin' = Tail(stdin)
         /\ Tail(stdin) \in Seq(Line) /\ Len(Tail(stdin)) <= StdinCap
         /\ robbed' = (robbed \/ Head(stdin).e = worker.e) /\ robbed' \in BOOLEAN
         /\ UNCHANGED <<lang, tool, child, printed, edaStatus, sent, completed, workerVars>>
<1>1. stdin # <<>> /\ stdin \in Seq(Line) /\ stdin' = Tail(stdin) /\ Len(stdin) <= StdinCap
  BY DEF TakeLine, ToolType
<1>2. Tail(stdin) \in Seq(Line) /\ Len(Tail(stdin)) <= StdinCap
  BY <1>1, TailIs, ConsoleAssumption
<1>. QED BY <1>1, <1>2 DEF TakeLine, ToolType

\* Text, of the interpreter or of user code, changes the pipe and what was sent.
LEMMA PrintingIs ==
  ASSUME ToolType, NEW s \in Streams, EmitUnit(s)
  PROVE  /\ Chunk("user", window[s]) \in Chunks /\ Emit(s, Chunk("user", window[s]))
         /\ sent' \in Nat
         /\ window[s] \in 0..MaxExecs /\ sent \in Nat
         /\ sent' = sent + IF window[s] # 0 /\ window[s] = worker.e THEN UnitBytes ELSE 0
BY DEF EmitUnit, ToolType, UnitBytes, Chunk, Chunks, Execs

\* What is left of the line after its first operation.
LEMMA NextOpIs ==
  ASSUME ToolType, tool.ops # <<>>
  PROVE  /\ NextOp.ops = Tail(tool.ops) /\ NextOp.alive = tool.alive /\ NextOp.killed = tool.killed
         /\ NextOp.e = IF Len(tool.ops) = 1 THEN 0 ELSE tool.e
         /\ NextOp \in [alive : BOOLEAN, killed : BOOLEAN, ops : Seq(Ops), e : 0..MaxExecs]
         /\ NextOp.e = 0 <=> NextOp.ops = <<>>
         /\ Head(tool.ops) \in Ops /\ tool.e \in Execs
<1>1. tool.ops \in Seq(Ops) /\ tool.e \in 0..MaxExecs /\ tool.e # 0 BY DEF ToolType
<1>2. /\ Tail(tool.ops) \in Seq(Ops) /\ Len(Tail(tool.ops)) = Len(tool.ops) - 1
      /\ Head(tool.ops) \in Ops
  BY <1>1, TailIs
<1>3. Tail(tool.ops) = <<>> <=> Len(tool.ops) = 1
  <2>1. Len(tool.ops) \in Nat BY <1>1
  <2>2. Len(Tail(tool.ops)) = 0 <=> Tail(tool.ops) = <<>> BY <1>2, EmptySeq
  <2>. QED BY <1>2, <2>1, <2>2
<1>4. NextOp = [tool EXCEPT !.ops = Tail(tool.ops), !.e = IF Len(tool.ops) = 1 THEN 0 ELSE tool.e]
  BY DEF NextOp
<1>5. tool \in [alive : BOOLEAN, killed : BOOLEAN, ops : Seq(Ops), e : 0..MaxExecs]
  BY DEF ToolType
<1>6. (IF Len(tool.ops) = 1 THEN 0 ELSE tool.e) \in 0..MaxExecs BY <1>1, ConsoleAssumption
<1>7. /\ NextOp.ops = Tail(tool.ops) /\ NextOp.alive = tool.alive /\ NextOp.killed = tool.killed
      /\ NextOp.e = IF Len(tool.ops) = 1 THEN 0 ELSE tool.e
      /\ NextOp \in [alive : BOOLEAN, killed : BOOLEAN, ops : Seq(Ops), e : 0..MaxExecs]
  BY <1>2, <1>4, <1>5, <1>6
<1>8. tool.e \in Execs BY <1>1 DEF Execs
<1>. QED BY <1>1, <1>2, <1>3, <1>7, <1>8

\* The interpreter and the lines in its stdin pipe keep their types, and stdin its limit.
LEMMA ToolTyped ==
  ASSUME Typed, WorkerSound, Next
  PROVE  ToolType'
<1>. USE DEF Typed, readVars, workerVars, history
<1>1. CASE ReadLine
  <2>1. Head(stdin) \in Line /\ Tail(stdin) \in Seq(Line) /\ Len(Tail(stdin)) <= StdinCap
    BY <1>1, TailIs, ConsoleAssumption DEF ReadLine, ToolType
  <2>2. Head(stdin).e \in Execs /\ Head(stdin).ops \in Seq(Ops) /\ Head(stdin).ops # <<>>
    BY <2>1 DEF Line
  <2>3. tool' = [tool EXCEPT !.ops = Head(stdin).ops, !.e = Head(stdin).e] /\ tool.alive
    BY <1>1 DEF ReadLine
  <2>4. /\ tool'.ops = Head(stdin).ops /\ tool'.e = Head(stdin).e /\ tool'.alive
        /\ tool' \in [alive : BOOLEAN, killed : BOOLEAN, ops : Seq(Ops), e : 0..MaxExecs]
    <3>1. Head(stdin).e \in 0..MaxExecs BY <2>2 DEF Execs
    <3>. QED BY <2>2, <2>3, <3>1 DEF ToolType
  <2>5. tool'.e # 0 /\ tool'.ops # <<>> BY <2>2, <2>4 DEF Execs
  <2>. QED BY <1>1, <2>1, <2>4, <2>5 DEF ReadLine, ToolType
<1>2. CASE WriteMark
  <2>1. tool.ops # <<>> /\ tool' = NextOp /\ tool.alive BY <1>2 DEF WriteMark, Doing
  <2>2. PICK op \in Marks, e \in Execs : Mark(op, e)
    BY <1>2, MarkersAre, TakingIs DEF WriteMark, Doing, Marks, ToolType, Execs
  <2>3. window' \in [Streams -> 0..MaxExecs] BY <2>2, MarkIs
  <2>. QED BY <1>2, <2>1, <2>3, NextOpIs DEF WriteMark, ToolType
<1>12. CASE CaptureStatus
  <2>1. tool.ops # <<>> /\ tool' = NextOp /\ tool.alive BY <1>12 DEF CaptureStatus, Doing
  <2>2. edaStatus' \in 0..MaxExecs BY <1>12 DEF CaptureStatus, ToolType
  <2>. QED BY <1>12, <2>1, <2>2, NextOpIs DEF CaptureStatus, ToolType
<1>13. CASE WriteStatus
  <2>1. tool.ops # <<>> /\ tool' = NextOp /\ tool.alive BY <1>13 DEF WriteStatus, Doing
  <2>. QED BY <1>13, <2>1, NextOpIs DEF WriteStatus, ToolType
<1>14. CASE WriteBlankStatus
  <2>1. tool.ops # <<>> /\ tool' = NextOp /\ tool.alive BY <1>14 DEF WriteBlankStatus, Doing
  <2>2. sent' \in Nat BY <1>14, PrintingIs DEF WriteBlankStatus, Streams
  <2>. QED BY <1>14, <2>1, <2>2, NextOpIs DEF WriteBlankStatus, ToolType
<1>15. CASE TakeLine
  <2>1. window' \in [Streams -> 0..MaxExecs]
    <3>1. CASE UNCHANGED <<window, readVars>> BY <3>1 DEF ToolType
    <3>2. ASSUME NEW op \in Marks, NEW e \in Execs, Mark(op, e)
          PROVE  window' \in [Streams -> 0..MaxExecs]
      BY <3>2, MarkIs
    <3>. QED BY <1>15, <3>1, <3>2, MarkersAre
  <2>. QED BY <1>15, <2>1, TakingIs DEF ToolType
<1>3. ASSUME NEW s \in Streams, PrintUnit(s) PROVE ToolType'
  <2>1. sent' \in Nat /\ printed' \in Nat BY <1>3, PrintingIs DEF PrintUnit, ToolType
  <2>. QED BY <1>3, <2>1 DEF PrintUnit, ToolType
<1>4. CASE LeaveChild
  BY <1>4 DEF LeaveChild, ToolType
<1>5. CASE ChildEnds
  BY <1>5 DEF ChildEnds, ToolType
<1>6. CASE UserCodeEnds
  <2>1. tool.ops # <<>> /\ tool' = NextOp /\ tool.alive BY <1>6 DEF UserCodeEnds, InUserCode, Doing
  <2>2. completed' \in Nat BY <1>6 DEF UserCodeEnds, ToolType
  <2>. QED BY <1>6, <2>1, <2>2, NextOpIs DEF UserCodeEnds, ToolType
<1>7. CASE Die
  <2>1. tool' = [tool EXCEPT !.alive = FALSE, !.ops = <<>>, !.e = 0] BY <1>7 DEF Die
  <2>2. <<>> \in Seq(Ops) /\ 0 \in 0..MaxExecs BY ConsoleAssumption
  <2>3. /\ tool' \in [alive : BOOLEAN, killed : BOOLEAN, ops : Seq(Ops), e : 0..MaxExecs]
        /\ tool'.ops = <<>> /\ tool'.e = 0
    BY <2>1, <2>2 DEF ToolType
  <2>4. edaStatus' \in 0..MaxExecs BY <1>7, <2>2 DEF Die
  <2>. QED BY <1>7, <2>3, <2>4 DEF Die, ToolType
<1>8. CASE WriteLine
  <2>1. /\ worker.unsent # <<>> /\ worker.unsent \in Seq(Line)
    BY <1>8 DEF WriteLine, WorkerSound, WorkerType
  <2>2. Head(worker.unsent) \in Line BY <2>1, TailIs
  <2>3. stdin' \in Seq(Line) /\ Len(stdin') <= StdinCap
    BY <1>8, <2>2, AppendIs, ConsoleAssumption DEF WriteLine, ToolType
  <2>. QED BY <1>8, <2>3 DEF WriteLine, ToolType
<1>0. ASSUME KillGroup
      PROVE  /\ tool' \in [alive : BOOLEAN, killed : BOOLEAN, ops : Seq(Ops), e : 0..MaxExecs]
             /\ tool'.ops = tool.ops /\ tool'.e = tool.e /\ tool'.alive = tool.alive
  BY <1>0 DEF KillGroup, ToolType
<1>9. CASE KillGroup /\ SameTool
  BY <1>0, <1>9 DEF SameTool, ToolType
<1>10. CASE UNCHANGED toolVars
  BY <1>10 DEF toolVars, ToolType
<1>11. CASE Reply \/ (ProcessEnds /\ (KillGroup \/ UNCHANGED tool))
  <2>1. /\ UNCHANGED <<lang, child, stdin, window, printed, edaStatus>>
        /\ sent' = 0 /\ completed' = 0 /\ robbed' = FALSE
        /\ tool' = tool \/ KillGroup
    BY <1>11 DEF ProcessEnds, Reply
  <2>2. /\ tool' \in [alive : BOOLEAN, killed : BOOLEAN, ops : Seq(Ops), e : 0..MaxExecs]
        /\ tool'.ops = tool.ops /\ tool'.e = tool.e /\ tool'.alive = tool.alive
    BY <1>0, <2>1 DEF ToolType
  <2>. QED BY <2>1, <2>2 DEF ToolType
<1>. QED
  BY NextIs, <1>1, <1>2, <1>3, <1>4, <1>5, <1>6, <1>7, <1>8, <1>9, <1>10, <1>11,
     <1>12, <1>13, <1>14, <1>15
     DEF DrainPipe, PrepareExecution, ExecutePrepared, ExecuteInMemory, Begin,
         CloseExecutor, StdinBroken, TakeEvent, ConsumeEvent, NoticeExit, Deadline,
         DrainEvent, Finish, CloseTakes

\* The pipes and the queue keep their types and their limits.
LEMMA ReadTyped ==
  ASSUME Typed, WorkerSound, Next
  PROVE  ReadType'
<1>. USE DEF Typed
<1>1. ASSUME NEW s \in Streams, NEW c \in Chunks, Emit(s, c) PROVE ReadType'
  <2>1. pipe[s] \in Seq(Chunks) /\ Len(pipe[s]) < PipeCap /\ PipeCap \in Nat
    BY <1>1, ConsoleAssumption DEF Emit, ReadType
  <2>2. Append(pipe[s], c) \in Seq(Chunks) /\ Len(Append(pipe[s], c)) <= PipeCap
    BY <2>1, AppendIs
  <2>. QED BY <1>1, <2>2 DEF Emit, ReadType
<1>2. CASE WriteMark \/ TakeLine
  <2>1. CASE UNCHANGED <<window, readVars>> BY <2>1 DEF readVars, ReadType
  <2>2. ASSUME NEW op \in Marks, NEW e \in Execs, Mark(op, e) PROVE ReadType'
    BY <1>1, <2>2, MarkIs
  <2>. QED BY <1>2, <2>1, <2>2, MarkersAre
<1>10. CASE WriteStatus
  <2>1. tool.e \in Execs BY <1>10 DEF WriteStatus, Doing, ToolType, Execs
  <2>2. Chunk(IF edaStatus = tool.e THEN "status" ELSE "stale", tool.e) \in Chunks
    BY <2>1 DEF Chunk, Chunks, Execs
  <2>. QED BY <1>1, <1>10, <2>2 DEF WriteStatus, Streams
<1>3. ASSUME NEW s \in Streams, EmitUnit(s) PROVE ReadType'
  BY <1>1, <1>3, PrintingIs
<1>11. CASE WriteBlankStatus
  BY <1>3, <1>11 DEF WriteBlankStatus, Streams
<1>12. ASSUME NEW s \in Streams, PrintUnit(s) PROVE ReadType'
  BY <1>3, <1>12 DEF PrintUnit
<1>4. ASSUME NEW s \in Streams, DrainPipe(s) PROVE ReadType'
  <2>0. Len(outputQ) < QueueCap /\ QueueCap \in Nat /\ streamEof' = streamEof
    BY <1>4, ConsoleAssumption DEF DrainPipe
  <2>1. CASE ReadChunk(s)
    <3>1. pipe[s] # <<>> /\ pipe[s] \in Seq(Chunks) BY <2>1 DEF ReadChunk, ReadType
    <3>2. Head(pipe[s]) \in Chunks /\ Tail(pipe[s]) \in Seq(Chunks)
          /\ Len(Tail(pipe[s])) = Len(pipe[s]) - 1
      BY <3>1, TailIs
    <3>3. [stream |-> s, chunk |-> Head(pipe[s])] \in Event BY <3>2 DEF Event
    <3>4. outputQ' \in Seq(Event) /\ Len(outputQ') <= QueueCap
      BY <2>0, <2>1, <3>3, AppendIs DEF ReadChunk, ReadType
    <3>5. Len(Tail(pipe[s])) <= PipeCap
      BY <3>1, <3>2, ConsoleAssumption DEF ReadType
    <3>. QED BY <2>0, <2>1, <3>2, <3>4, <3>5 DEF ReadChunk, ReadType
  <2>2. CASE ReadEof(s)
    <3>3. [stream |-> s, chunk |-> EOF] \in Event BY DEF Event
    <3>4. outputQ' \in Seq(Event) /\ Len(outputQ') <= QueueCap
      BY <2>0, <2>2, <3>3, AppendIs DEF ReadEof, ReadType
    <3>. QED BY <2>0, <2>2, <3>4 DEF ReadEof, ReadType
  <2>. QED BY <1>4, <2>1, <2>2 DEF DrainPipe
<1>5. ASSUME outputQ # <<>>, outputQ' = Tail(outputQ)
      PROVE outputQ' \in Seq(Event) /\ Len(outputQ') <= QueueCap
  BY <1>5, TailIs, ConsoleAssumption DEF ReadType
<1>6. CASE ConsumeEvent
  <2>1. outputQ # <<>> /\ outputQ' = Tail(outputQ) /\ UNCHANGED <<pipe, ended>>
    BY <1>6 DEF ConsumeEvent
  <2>2. streamEof' \in [Streams -> BOOLEAN]
    BY <1>6, TakeIs DEF ReadType
  <2>. QED BY <1>5, <2>1, <2>2 DEF ReadType
<1>7. CASE CloseTakes
  BY <1>5, <1>7 DEF CloseTakes, ReadType
<1>8. CASE ProcessEnds
  <2>1. pipe' = [s \in Streams |-> <<>>] /\ outputQ' = <<>> /\ ended' = {}
        /\ streamEof' = [s \in Streams |-> FALSE]
    BY <1>8 DEF ProcessEnds
  <2>2. /\ \A s \in Streams : pipe'[s] = <<>> /\ pipe' \in [Streams -> Seq(Chunks)]
        /\ outputQ' \in Seq(Event) /\ Len(<<>>) <= PipeCap /\ Len(<<>>) <= QueueCap
    BY <2>1, EmptySeq, ConsoleAssumption
  <2>. QED BY <2>1, <2>2 DEF ReadType
<1>9. CASE UNCHANGED readVars
  BY <1>9 DEF readVars, ReadType
<1>. QED
  BY NextIs, <1>2, <1>4, <1>6, <1>7, <1>8, <1>9, <1>10, <1>11, <1>12
     DEF CaptureStatus, PrepareExecution, ExecutePrepared, ExecuteInMemory, Begin, ReadLine,
         LeaveChild,
         CloseExecutor, StdinBroken, TakeEvent, NoticeExit, Deadline, DrainEvent, ChildEnds,
         Die, Finish, UserCodeEnds, WriteLine, Reply, readVars

\* What execute_to_sink returns, from the sink as it was finished.
LEMMA SnapshotIs ==
  ASSUME WorkerType, NEW k, SinkSound(k), NEW r \in Ends, r = "none" => k.reason = "none",
         NEW v, v = Snapshot(k, r)
  PROVE  /\ v \in Summaries /\ v # NoSummary
         /\ v.reason = TerminationReason /\ v.written = k.written
         /\ v.dropped # Unknown => /\ IncompleteReason = "none"
                                   /\ v.written + v.dropped = Observed(k)
         /\ v.complete => v.dropped = 0
         /\ v.exit \in {"status", "stale"} =>
              /\ v.exit = decoder.status /\ TerminationReason = "none" /\ v.incomplete \in Ends
              /\ (Complete => v.complete \/ v.incomplete # "none")
<1>1. /\ worker.reason \in Losses /\ decoder.status \in Codes
      /\ k.written \in Nat /\ Observed(k) \in Nat /\ k.written <= Observed(k)
      /\ k.reason = "none" => k.written = Observed(k)
  BY DEF WorkerType, SinkSound, Sinks, Observed, Decoders
<1>2. /\ TerminationReason \in Reasons /\ IncompleteReason \in Reasons
      /\ TerminationReason = "none" => IncompleteReason = "none"
  BY <1>1 DEF TerminationReason, IncompleteReason, Losses, Reasons
<1>3. Complete \in BOOLEAN /\ AllEof \in BOOLEAN BY DEF Complete, AllEof
<1>4. /\ ProtocolComplete \in BOOLEAN
      /\ TerminationReason = "none" => ProtocolComplete = Complete
      /\ ProtocolComplete => IncompleteReason = "none"
  BY <1>2, <1>3 DEF ProtocolComplete, IncompleteReason
<1>. DEFINE reason == IF IncompleteReason # "none" THEN IncompleteReason ELSE r
            lost == reason = "WRITE_FAILED" \/ IncompleteReason # "none"
<1>5. reason \in Reasons /\ (IncompleteReason = "none" => reason = r) /\ "none" \in Reasons
  BY <1>2 DEF Ends, Reasons
<1>6. v = [exit |-> IF decoder.status # "none" /\ TerminationReason = "none"
                   THEN decoder.status ELSE "-1",
           reason |-> TerminationReason, complete |-> ProtocolComplete /\ reason = "none",
           incomplete |-> reason, written |-> k.written,
           dropped |-> IF lost THEN Unknown ELSE Observed(k) - k.written]
  BY DEF Snapshot
<1>. HIDE DEF reason, lost
<1>7. /\ v.exit = (IF decoder.status # "none" /\ TerminationReason = "none"
                THEN decoder.status ELSE "-1")
      /\ v.reason = TerminationReason /\ v.complete = (ProtocolComplete /\ reason = "none")
      /\ v.incomplete = reason /\ v.written = k.written
      /\ v.dropped = IF lost THEN Unknown ELSE Observed(k) - k.written
  BY <1>6
<1>8. v \in Summaries
  <2>1. v.dropped \in Nat \cup {Unknown} BY <1>1, <1>7
  <2>2. v.exit \in Codes \cup {"-1"} BY <1>1, <1>7
  <2>3. v.complete \in BOOLEAN BY <1>4, <1>7
  <2>. QED BY <1>1, <1>2, <1>5, <1>6, <1>7, <2>1, <2>2, <2>3 DEF Summaries
<1>9. v # NoSummary
  <2>1. NoSummary.exit = "none" BY DEF NoSummary
  <2>. QED BY <1>7, <2>1
<1>10. v.dropped # Unknown => /\ IncompleteReason = "none"
                              /\ v.written + v.dropped = Observed(k)
  BY <1>1, <1>7 DEF lost
<1>11. v.complete => v.dropped = 0
  <2>1. ASSUME v.complete PROVE v.dropped = 0
    <3>1. ProtocolComplete /\ reason = "none" BY <1>7, <2>1
    <3>2. IncompleteReason = "none" /\ r = "none" BY <1>4, <1>5, <3>1
    <3>. QED BY <1>1, <1>7, <3>1, <3>2 DEF lost
  <2>. QED BY <2>1
<1>12. v.exit \in {"status", "stale"} =>
         /\ v.exit = decoder.status /\ TerminationReason = "none" /\ v.incomplete \in Ends
         /\ (Complete => v.complete \/ v.incomplete # "none")
  BY <1>2, <1>4, <1>5, <1>7
<1>. QED BY <1>7, <1>8, <1>9, <1>10, <1>11, <1>12

\* The result is made from the sink as it is, and the message of a time-out.
LEMMA FinishIs ==
  ASSUME WorkerType, Finish
  PROVE  \E k : /\ SinkSound(k) /\ k.own = sink.own /\ k.other = sink.other
                /\ k.notes = sink.notes + (IF worker.reason = "TIMED_OUT" THEN UnitBytes ELSE 0)
                /\ \E r \in Ends : (r = "none" => k.reason = "none") /\ summary' = Snapshot(k, r)
<1>0. SinkSound(sink) /\ sink.own \in Nat /\ sink.other \in Nat /\ sink.notes \in Nat
  BY DEF WorkerType, SinkSound, Sinks
<1>1. PICK k \in IF worker.reason = "TIMED_OUT" THEN Writes(sink, "notes") ELSE {sink} :
        \/ summary' = Snapshot(k, k.reason)
        \/ k.kind = "file" /\ summary' = Snapshot(k, "WRITE_FAILED")
  BY DEF Finish
<1>2. /\ SinkSound(k) /\ k.own = sink.own /\ k.other = sink.other
      /\ k.notes = sink.notes + (IF worker.reason = "TIMED_OUT" THEN UnitBytes ELSE 0)
  <2>1. CASE worker.reason = "TIMED_OUT"
    <3>1. k \in Writes(sink, "notes") BY <1>1, <2>1
    <3>. QED BY <1>0, <2>1, <3>1, WritesAre
  <2>2. CASE worker.reason # "TIMED_OUT"
    <3>1. k = sink BY <1>1, <2>2
    <3>. QED BY <1>0, <2>2, <3>1
  <2>. QED BY <2>1, <2>2
<1>3. \E r \in Ends : (r = "none" => k.reason = "none") /\ summary' = Snapshot(k, r)
  <2>1. k.reason \in Ends /\ "WRITE_FAILED" \in Ends BY <1>2 DEF SinkSound, Sinks, Ends
  <2>. QED BY <1>1, <2>1
<1>. QED BY <1>2, <1>3

\* A decoder and a sink at the beginning of an execution.
LEMMA FreshTypes ==
  /\ FreshDecoder \in Decoders /\ SinkSound(FreshSink("memory")) /\ SinkSound(FreshSink("file"))
  /\ NoSummary \in Summaries
<1>1. FreshDecoder \in Decoders
  BY DEF FreshDecoder, Decoders, Codes
<1>2. ASSUME NEW kind \in {"memory", "file"} PROVE SinkSound(FreshSink(kind))
  <2>1. /\ FreshSink(kind) \in Sinks /\ FreshSink(kind).written = 0
        /\ FreshSink(kind).own = 0 /\ FreshSink(kind).other = 0 /\ FreshSink(kind).notes = 0
    BY DEF FreshSink, Sinks, Ends
  <2>. QED BY <2>1, ConsoleAssumption DEF SinkSound, Observed
<1>3. NoSummary \in Summaries BY DEF NoSummary, Summaries, Codes, Reasons
<1>. QED BY <1>1, <1>2, <1>3

\* The fields of the worker and its executor keep their types.
LEMMA WorkerTyped ==
  ASSUME Typed, WorkerSound, Next
  PROVE  WorkerType'
<1>. USE DEF Typed
<1>0. worker \in [pc : Steps, e : 0..MaxExecs, unsent : Seq(Line), reason : Losses]
      /\ 0 \in 0..MaxExecs
  BY ConsoleAssumption DEF WorkerType
<1>1. CASE UNCHANGED workerVars
  BY <1>1 DEF workerVars, WorkerType
<1>2. CASE PrepareExecution
  BY <1>2, ConsoleAssumption DEF PrepareExecution, WorkerType
<1>3. ASSUME NEW e \in Execs, NEW kind \in {"memory", "file"}, Begin(e, kind)
      PROVE  /\ worker' \in [pc : Steps, e : 0..MaxExecs, unsent : Seq(Line), reason : Losses]
             /\ decoder' \in Decoders /\ SinkSound(sink') /\ summary' \in Summaries
  <2>1. Block(e) \in Seq(Line) BY BlockIs DEF ToolType
  <2>2. worker' \in [pc : Steps, e : 0..MaxExecs, unsent : Seq(Line), reason : Losses]
    BY <1>3, <2>1 DEF Begin, Execs, Steps, Losses
  <2>. QED BY <1>3, <2>2, FreshTypes DEF Begin, WorkerType
<1>4. CASE ExecutePrepared
  <2>1. prepared \in Execs BY <1>4, ConsoleAssumption DEF ExecutePrepared, WorkerType, Execs
  <2>. QED BY <1>0, <1>3, <1>4, <2>1 DEF ExecutePrepared, WorkerType
<1>5. CASE ExecuteInMemory
  <2>1. nextId + 1 \in Execs /\ nextId + 1 \in 0..MaxExecs
    BY <1>5, ConsoleAssumption DEF ExecuteInMemory, WorkerType, Execs
  <2>. QED BY <1>3, <1>5, <2>1 DEF ExecuteInMemory, WorkerType
<1>6. CASE WriteLine
  <2>1. worker.unsent # <<>> BY <1>6 DEF WriteLine, WorkerSound
  <2>2. Tail(worker.unsent) \in Seq(Line) BY <1>0, <2>1, TailIs
  <2>3. worker' \in [pc : Steps, e : 0..MaxExecs, unsent : Seq(Line), reason : Losses]
    BY <1>0, <1>6, <2>2 DEF WriteLine, Steps
  <2>. QED BY <1>6, <2>3 DEF WriteLine, SameRequests, WorkerType
<1>7. CASE StdinBroken
  <2>1. SinkSound(sink') BY <1>7, WritesAre DEF StdinBroken, WorkerType
  <2>2. worker' \in [pc : Steps, e : 0..MaxExecs, unsent : Seq(Line), reason : Losses]
    BY <1>0, <1>7 DEF StdinBroken, Steps, Losses
  <2>. QED BY <1>7, <2>1, <2>2 DEF StdinBroken, SameRequests, WorkerType
<1>8. CASE TakeEvent
  <2>1. decoder' \in Decoders /\ SinkSound(sink') BY <1>8, TakeIs DEF TakeEvent
  <2>2. worker' \in [pc : Steps, e : 0..MaxExecs, unsent : Seq(Line), reason : Losses]
    BY <1>0, <1>8 DEF TakeEvent, Steps, Losses
  <2>. QED BY <1>8, <2>1, <2>2 DEF TakeEvent, ConsumeEvent, WorkerType
<1>9. CASE DrainEvent
  <2>1. decoder' \in Decoders /\ SinkSound(sink') BY <1>9, TakeIs DEF DrainEvent
  <2>. QED BY <1>9, <2>1 DEF DrainEvent, ConsumeEvent, WorkerType
<1>10. CASE NoticeExit \/ Deadline
  <2>2. worker' \in [pc : Steps, e : 0..MaxExecs, unsent : Seq(Line), reason : Losses]
    BY <1>0, <1>10 DEF NoticeExit, Deadline, Steps, Losses
  <2>. QED BY <1>10, <2>2 DEF NoticeExit, Deadline, SameRequests, WorkerType
<1>11. CASE Finish
  <2>1. summary' \in Summaries
    <3>1. PICK k : /\ SinkSound(k)
                   /\ \E r \in Ends : (r = "none" => k.reason = "none") /\ summary' = Snapshot(k, r)
      BY <1>11, FinishIs
    <3>. QED BY <3>1, SnapshotIs
  <2>2. worker' \in [pc : Steps, e : 0..MaxExecs, unsent : Seq(Line), reason : Losses]
    BY <1>0, <1>11 DEF Finish, Steps, Losses
  <2>. QED BY <1>11, <2>1, <2>2, FreshTypes DEF Finish, SameRequests, WorkerType
<1>12. CASE Reply
  <2>2. worker' \in [pc : Steps, e : 0..MaxExecs, unsent : Seq(Line), reason : Losses]
    BY <1>0, <1>12 DEF Reply, Steps
  <2>. QED BY <1>12, <2>2, FreshTypes DEF Reply, SameRequests, WorkerType
<1>13. CASE CloseExecutor
  <2>2. worker' \in [pc : Steps, e : 0..MaxExecs, unsent : Seq(Line), reason : Losses]
    BY <1>0, <1>13 DEF CloseExecutor, Goto, Steps
  <2>. QED BY <1>0, <1>13, <2>2 DEF CloseExecutor, WorkerType
<1>14. CASE ProcessEnds
  <2>1. <<>> \in Seq(Line) BY EmptySeq
  <2>2. worker' \in [pc : Steps, e : 0..MaxExecs, unsent : Seq(Line), reason : Losses]
    BY <1>0, <1>14, <2>1 DEF ProcessEnds, Steps, Losses
  <2>. QED BY <1>0, <1>14, <2>2, FreshTypes DEF ProcessEnds, WorkerType
<1>. QED
  BY NextIs, <1>1, <1>2, <1>4, <1>5, <1>6, <1>7, <1>8, <1>9, <1>10, <1>11, <1>12, <1>13, <1>14
     DEF ReadLine, WriteMark, CaptureStatus, WriteStatus, WriteBlankStatus, TakeLine, PrintUnit,
         LeaveChild, ChildEnds, UserCodeEnds, Die,
         DrainPipe, CloseTakes

-----------------------------------------------------------------------------
(* What the main thread knows *)

\* What the main thread knows at each step is still so at the next.
LEMMA WorkerStaysSound ==
  ASSUME Typed, WorkerSound, EndsKnown, Next, ToolType'
  PROVE  WorkerSound'
<1>. USE DEF Typed, history
<1>0. /\ worker \in [pc : Steps, e : 0..MaxExecs, unsent : Seq(Line), reason : Losses]
      /\ decoder \in Decoders /\ sink.notes \in Nat /\ worker.reason \in Losses
  BY DEF WorkerType, SinkSound, Sinks
<1>1. CASE UNCHANGED workerVars /\ UNCHANGED <<sent, completed, robbed>>
  BY <1>1 DEF workerVars, WorkerSound, Executing, Decoding, At, Complete
<1>15. ASSUME NEW s \in Streams, EmitUnit(s), UNCHANGED workerVars, UNCHANGED <<completed, robbed>>
       PROVE  WorkerSound'
  <2>1. worker.e = 0 => sent' = sent BY <1>15, PrintingIs DEF UnitBytes
  <2>. QED BY <1>15, <2>1 DEF workerVars, WorkerSound, Executing, Decoding, At, Complete
<1>2. ASSUME NEW s \in Streams, PrintUnit(s) PROVE WorkerSound'
  BY <1>2, <1>15 DEF PrintUnit
<1>16. CASE WriteBlankStatus
  BY <1>15, <1>16 DEF WriteBlankStatus, Streams
<1>17. CASE TakeLine
  <2>1. UNCHANGED workerVars /\ UNCHANGED <<sent, completed>> BY <1>17 DEF TakeLine
  <2>2. worker.e = 0 => robbed' = robbed
    <3>1. stdin # <<>> /\ stdin \in Seq(Line) BY <1>17 DEF TakeLine, ToolType
    <3>2. Head(stdin) \in Line BY <3>1, TailIs
    <3>3. Head(stdin).e # 0 BY <3>2 DEF Line, Execs
    <3>. QED BY <1>17, <3>3 DEF TakeLine, ToolType
  <2>. QED BY <2>1, <2>2 DEF workerVars, WorkerSound, Executing, Decoding, At, Complete
<1>3. CASE UserCodeEnds
  <2>1. worker.e = 0 => completed' = completed
    BY <1>3 DEF UserCodeEnds, InUserCode, Doing, ToolType
  <2>2. UNCHANGED workerVars /\ UNCHANGED <<sent, robbed>> BY <1>3 DEF UserCodeEnds
  <2>. QED BY <2>1, <2>2 DEF workerVars, WorkerSound, Executing, Decoding, At, Complete
<1>4. CASE PrepareExecution
  BY <1>4 DEF PrepareExecution, toolVars, WorkerSound, Executing, Decoding, At, Complete
<1>5. ASSUME NEW e \in Execs, NEW kind \in {"memory", "file"}, Begin(e, kind), At("idle")
      PROVE  WorkerSound'
  <2>1. Block(e) # <<>> BY BlockIs DEF ToolType
  <2>2. FreshDecoder.fenced = {} /\ FreshDecoder.started = {} /\ FreshDecoder.status = "none"
        /\ FreshSink(kind).notes = 0
    BY DEF FreshDecoder, FreshSink
  <2>3. /\ worker'.pc = "write" /\ worker'.e = e /\ worker'.unsent = Block(e)
        /\ worker'.reason = "none" /\ summary' = summary /\ e # 0
        /\ decoder' = FreshDecoder /\ sink' = FreshSink(kind)
    BY <1>5 DEF Begin, Execs
  <2>4. summary = NoSummary BY <1>5 DEF WorkerSound, At
  <2>5. \A i \in DOMAIN Block(e) : Block(e)[i].e = e BY DEF Block
  <2>. QED BY <2>1, <2>2, <2>3, <2>4, <2>5 DEF WorkerSound, Executing, Decoding, At
<1>6. CASE ExecutePrepared \/ ExecuteInMemory
  <2>1. prepared # 0 => prepared \in Execs
    BY ConsoleAssumption DEF WorkerType, Execs
  <2>2. nextId < MaxExecs => nextId + 1 \in Execs
    BY ConsoleAssumption DEF WorkerType, Execs
  <2>. QED BY <1>5, <1>6, <2>1, <2>2 DEF ExecutePrepared, ExecuteInMemory
<1>7. CASE WriteLine
  <2>1. worker.pc = "write" /\ worker.unsent # <<>> /\ worker.reason = "none"
    BY <1>7 DEF WriteLine, WorkerSound, At
  <2>2. worker' = [worker EXCEPT !.unsent = Tail(worker.unsent),
                                 !.pc = IF Len(worker.unsent) = 1 THEN "collect" ELSE worker.pc]
    BY <1>7 DEF WriteLine
  <2>3. /\ worker'.pc = (IF Len(worker.unsent) = 1 THEN "collect" ELSE "write")
        /\ worker'.e = worker.e /\ worker'.reason = worker.reason
        /\ worker'.unsent = Tail(worker.unsent)
    BY <1>0, <2>1, <2>2
  <2>4. Len(worker.unsent) # 1 => Tail(worker.unsent) # <<>>
    <3>1. Len(Tail(worker.unsent)) = Len(worker.unsent) - 1 /\ Len(worker.unsent) \in Nat \ {0}
      BY <1>0, <2>1, TailIs
    <3>2. ASSUME Tail(worker.unsent) = <<>> PROVE Len(worker.unsent) = 1
      <4>1. Len(<<>>) = 0 OBVIOUS
      <4>2. Len(Tail(worker.unsent)) = Len(<<>>) BY <3>2, Zenon
      <4>. QED BY <3>1, <4>1, <4>2
    <3>. QED BY <3>2
  <2>5. UNCHANGED <<sent, completed, robbed, decoder, sink, summary>> BY <1>7 DEF WriteLine
  <2>6. \A i \in DOMAIN Tail(worker.unsent) : Tail(worker.unsent)[i].e = worker.e
    BY <1>0, <2>1, TailIs DEF WorkerSound, At
  <2>. QED BY <2>1, <2>3, <2>4, <2>5, <2>6 DEF WorkerSound, Executing, Decoding, At, Complete
<1>8. CASE StdinBroken
  <2>1. /\ worker.pc = "write" /\ worker'.pc = "finish" /\ worker'.e = worker.e
        /\ worker'.reason = "PROCESS_LOST"
        /\ UNCHANGED <<sent, completed, robbed, decoder, summary>>
    BY <1>0, <1>8 DEF StdinBroken, At, toolVars
  <2>. QED BY <2>1 DEF WorkerSound, Executing, Decoding, At
<1>9. CASE TakeEvent \/ DrainEvent
  <2>1. /\ ConsumeEvent /\ worker.pc \in {"collect", "drain"}
        /\ UNCHANGED <<sent, completed, robbed, summary>>
    BY <1>9 DEF TakeEvent, DrainEvent, At, ConsumeEvent, toolVars
  <2>2. sink'.notes = sink.notes BY <2>1, TakeIs
  <2>3. /\ decoder'.fenced \subseteq decoder'.started
        /\ decoder'.status # "none" => decoder'.started # {}
    <3>. DEFINE s == Head(outputQ).stream
                c == Head(outputQ).chunk
    <3>1. /\ s \in Streams /\ c \in Chunks \cup {EOF} /\ decoder' \in Decoders
          /\ c # EOF /\ s \in decoder.fenced => decoder' = decoder
          /\ c # EOF /\ s \notin decoder.fenced => decoder' = Consumed(decoder, s, c)
          /\ c = EOF => /\ decoder'.started = decoder.started /\ decoder'.fenced = decoder.fenced
                        /\ decoder'.status = decoder.status
      BY <2>1, TakeIs
    <3>. HIDE DEF s, c
    <3>2. /\ decoder.fenced \subseteq decoder.started
          /\ decoder.status # "none" => decoder.started # {}
      BY DEF WorkerSound
    <3>3. CASE c # EOF /\ s \notin decoder.fenced
      <4>1. c \in Chunks /\ decoder' = Consumed(decoder, s, c) BY <3>1, <3>3
      <4>. HIDE DEF Decoders
      <4>2. /\ \A t \in Streams : t \in decoder'.started <=>
                 t \in decoder.started \/ (t = s /\ IsRecord(c) /\ c.kind = "start")
            /\ \A t \in Streams : t \in decoder'.fenced <=>
                 \/ t \in decoder.fenced
                 \/ t = s /\ IsRecord(c) /\ c.kind = "fence" /\ s \in decoder.started
            /\ decoder'.status = decoder.status \/ s \in decoder.started
        BY <1>0, <3>1, <4>1, ConsumedIs
      <4>3. decoder'.fenced \subseteq Streams /\ decoder.started \subseteq Streams
        BY <1>0, <3>1 DEF Decoders
      <4>. QED BY <3>1, <3>2, <4>2, <4>3
    <3>. QED BY <3>1, <3>2, <3>3
  <2>4. CASE DrainEvent
    <3>1. worker' = worker /\ worker.pc = "drain" BY <2>4 DEF DrainEvent, At
    <3>. QED BY <2>1, <2>2, <2>3, <3>1 DEF WorkerSound, Executing, Decoding, At
  <2>5. CASE TakeEvent
    <3>1. /\ worker.pc = "collect"
          /\ \/ worker'.pc = "finish" /\ decoder'.fenced = Streams /\ worker'.reason = worker.reason
             \/ worker'.pc = "finish" /\ worker'.reason = "PROCESS_LOST"
             \/ worker'.pc = "collect" /\ worker'.reason = worker.reason
          /\ worker'.e = worker.e
      BY <1>0, <2>5 DEF TakeEvent, At
    <3>. QED BY <2>1, <2>2, <2>3, <3>1 DEF WorkerSound, Executing, Decoding, At, Complete
  <2>. QED BY <1>9, <2>4, <2>5
<1>10. CASE NoticeExit \/ Deadline
  <2>1. /\ worker.pc = "collect" /\ worker'.pc = "drain" /\ worker'.e = worker.e
        /\ worker'.reason \in {"PROCESS_LOST", "TIMED_OUT"}
        /\ UNCHANGED <<sent, completed, robbed, decoder, sink, summary>>
    BY <1>0, <1>10 DEF NoticeExit, Deadline, At, SameTool
  <2>. QED BY <2>1 DEF WorkerSound, Executing, Decoding, At
<1>11. CASE Finish
  <2>1. /\ worker.pc \in {"finish", "drain"} /\ worker'.pc = "reply" /\ worker'.e = worker.e
        /\ UNCHANGED <<sent, completed, robbed>>
        /\ decoder' = FreshDecoder /\ sink' = FreshSink("memory")
    BY <1>0, <1>11 DEF Finish, At, toolVars
  <2>2. FreshDecoder.fenced = {} /\ FreshSink("memory").notes = 0 /\ FreshDecoder.status = "none"
    BY DEF FreshDecoder, FreshSink
  <2>. QED BY <2>1, <2>2 DEF WorkerSound, Executing, Decoding, At
<1>12. CASE Reply
  <2>1. /\ worker.pc = "reply" /\ worker'.pc = "idle" /\ worker'.e = 0
        /\ UNCHANGED <<decoder, sink>> /\ summary' = NoSummary
        /\ sent' = 0 /\ completed' = 0 /\ robbed' = FALSE
    BY <1>0, <1>12 DEF Reply, At
  <2>. QED BY <2>1 DEF WorkerSound, Executing, Decoding, At
<1>13. CASE CloseExecutor
  <2>1. /\ worker.pc = "idle" /\ worker'.pc = "close" /\ worker'.e = worker.e
        /\ UNCHANGED <<decoder, sink, summary, sent, completed, robbed>>
    BY <1>0, <1>13 DEF CloseExecutor, At, Goto, SameTool
  <2>. QED BY <2>1 DEF WorkerSound, Executing, Decoding, At
<1>14. CASE ProcessEnds
  <2>1. /\ worker'.pc = "closed" /\ worker'.e = 0
        /\ decoder' = FreshDecoder /\ sink' = FreshSink("memory") /\ summary' = NoSummary
        /\ sent' = 0 /\ completed' = 0 /\ robbed' = FALSE
    BY <1>14 DEF ProcessEnds
  <2>2. FreshDecoder.fenced = {} /\ FreshSink("memory").notes = 0 /\ FreshDecoder.status = "none"
    BY DEF FreshDecoder, FreshSink
  <2>. QED BY <2>1, <2>2 DEF WorkerSound, Executing, Decoding, At
<1>. QED
  BY NextIs, <1>1, <1>2, <1>3, <1>4, <1>6, <1>7, <1>8, <1>9, <1>10, <1>11, <1>12, <1>13, <1>14,
     <1>16, <1>17
     DEF ReadLine, WriteMark, CaptureStatus, WriteStatus, LeaveChild, ChildEnds, Die, DrainPipe,
         CloseTakes, toolVars

-----------------------------------------------------------------------------
(* The ends of the streams *)

\* Nobody writes to a pipe that has ended, and nothing follows the end in the queue.
LEMMA EndsStayKnown ==
  ASSUME Typed, WorkerSound, EndsKnown, Next, ReadType'
  PROVE  EndsKnown'
<1>. USE DEF Typed
<1>0. /\ pipe \in [Streams -> Seq(Chunks)] /\ outputQ \in Seq(Event) /\ Len(outputQ) \in Nat
      /\ DOMAIN outputQ = 1..Len(outputQ)
  BY DEF ReadType
<1>1. ASSUME UNCHANGED readVars, WriteEndsClosed => WriteEndsClosed',
             UNCHANGED decoder \/ decoder' = FreshDecoder
      PROVE  EndsKnown'
  <2>1. \A s \in Streams : decoder.held[s] = None => decoder'.held[s] = None
    BY <1>1 DEF FreshDecoder
  <2>. QED BY <1>1, <2>1 DEF EndsKnown, readVars
<1>2. ASSUME NEW s \in Streams, NEW c, Emit(s, c), ~WriteEndsClosed, UNCHANGED decoder
      PROVE  EndsKnown'
  <2>1. s \notin ended /\ ended = {} BY <1>2 DEF EndsKnown, ReadType
  <2>2. ended' = {} /\ UNCHANGED <<outputQ, streamEof>> BY <1>2, <2>1 DEF Emit
  <2>. QED BY <1>2, <2>1, <2>2 DEF EndsKnown
<1>3. CASE WriteMark \/ TakeLine
  <2>1. ~WriteEndsClosed /\ UNCHANGED workerVars
    BY <1>3 DEF WriteMark, TakeLine, Doing, InUserCode, WriteEndsClosed
  <2>2. CASE TakeLine /\ UNCHANGED <<window, readVars>>
    BY <1>1, <2>1, <2>2 DEF workerVars
  <2>3. ASSUME NEW op \in Marks, NEW e \in Execs, Mark(op, e) PROVE EndsKnown'
    BY <1>2, <2>1, <2>3, MarkIs DEF workerVars
  <2>. QED BY <1>3, <2>2, <2>3, MarkersAre
<1>4. ASSUME NEW s \in Streams, PrintUnit(s) PROVE EndsKnown'
  BY <1>2, <1>4 DEF PrintUnit, EmitUnit, WriteEndsClosed, InUserCode, Doing, workerVars
<1>18. CASE WriteStatus \/ WriteBlankStatus
  BY <1>2, <1>18
     DEF WriteStatus, WriteBlankStatus, EmitUnit, WriteEndsClosed, Doing, Streams, workerVars
<1>5. CASE ReadLine \/ CaptureStatus \/ UserCodeEnds
  BY <1>1, <1>5
     DEF ReadLine, CaptureStatus, UserCodeEnds, InUserCode, Doing, WriteEndsClosed, workerVars
<1>6. CASE LeaveChild
  BY <1>1, <1>6 DEF LeaveChild, InUserCode, Doing, WriteEndsClosed, workerVars
<1>7. CASE ChildEnds
  BY <1>1, <1>7 DEF ChildEnds, WriteEndsClosed, workerVars
<1>8. CASE Die
  BY <1>1, <1>8 DEF Die, WriteEndsClosed, workerVars
<1>9. ASSUME NEW s \in Streams, DrainPipe(s), ReadChunk(s) PROVE EndsKnown'
  <2>. DEFINE y == [stream |-> s, chunk |-> Head(pipe[s])]
  <2>1. /\ s \notin ended /\ pipe[s] # <<>> /\ pipe[s] \in Seq(Chunks)
        /\ outputQ' = Append(outputQ, y) /\ pipe' = [pipe EXCEPT ![s] = Tail(@)]
        /\ UNCHANGED <<ended, streamEof, decoder>>
        /\ UNCHANGED WriteEndsClosed
    BY <1>0, <1>9 DEF DrainPipe, ReadChunk, toolVars, workerVars, WriteEndsClosed
  <2>2. Head(pipe[s]) \in Chunks BY <2>1, TailIs
  <2>3. y \in Event /\ y.stream = s /\ y.chunk # EOF
    BY <2>2 DEF Event, EOF, Chunks, Chunk
  <2>. HIDE DEF y
  <2>4. /\ DOMAIN outputQ' = 1..(Len(outputQ) + 1)
        /\ \A i \in 1..Len(outputQ) : outputQ'[i] = outputQ[i]
        /\ outputQ'[Len(outputQ) + 1] = y
    BY <1>0, <2>1, <2>3, AppendIs
  <2>5. ASSUME NEW t \in Streams PROVE
          /\ t \in ended => pipe'[t] = <<>> /\ WriteEndsClosed'
          /\ \A i \in DOMAIN outputQ' : outputQ'[i] = [stream |-> t, chunk |-> EOF] =>
               /\ t \in ended
               /\ \A j \in DOMAIN outputQ' : j > i => outputQ'[j].stream # t
          /\ streamEof[t] =>
               /\ t \in ended /\ decoder.held[t] = None
               /\ \A i \in DOMAIN outputQ' : outputQ'[i].stream # t
    <3>1. t \in ended => pipe'[t] = <<>> /\ WriteEndsClosed'
      BY <1>0, <2>1 DEF EndsKnown
    <3>2. ASSUME NEW i \in DOMAIN outputQ', outputQ'[i] = [stream |-> t, chunk |-> EOF]
          PROVE  /\ t \in ended
                 /\ \A j \in DOMAIN outputQ' : j > i => outputQ'[j].stream # t
      <4>1. i \in 1..Len(outputQ) /\ outputQ[i] = [stream |-> t, chunk |-> EOF]
        BY <1>0, <2>3, <2>4, <3>2
      <4>2. t \in ended /\ \A j \in DOMAIN outputQ : j > i => outputQ[j].stream # t
        BY <1>0, <4>1 DEF EndsKnown
      <4>. QED BY <1>0, <2>1, <2>3, <2>4, <4>2
    <3>3. ASSUME streamEof[t]
          PROVE  /\ t \in ended /\ decoder.held[t] = None
                 /\ \A i \in DOMAIN outputQ' : outputQ'[i].stream # t
      <4>1. t \in ended /\ decoder.held[t] = None /\ \A i \in DOMAIN outputQ : outputQ[i].stream # t
        BY <3>3 DEF EndsKnown
      <4>. QED BY <1>0, <2>1, <2>3, <2>4, <4>1
    <3>. QED BY <3>1, <3>2, <3>3
  <2>. QED BY <2>1, <2>5 DEF EndsKnown
<1>10. ASSUME NEW s \in Streams, DrainPipe(s), ReadEof(s) PROVE EndsKnown'
  <2>. DEFINE y == [stream |-> s, chunk |-> EOF]
  <2>1. /\ s \notin ended /\ pipe[s] = <<>> /\ WriteEndsClosed
        /\ outputQ' = Append(outputQ, y) /\ ended' = ended \cup {s}
        /\ UNCHANGED <<pipe, streamEof, decoder>>
        /\ UNCHANGED WriteEndsClosed
    BY <1>0, <1>10 DEF DrainPipe, ReadEof, toolVars, workerVars, WriteEndsClosed
  <2>3. y \in Event /\ y.stream = s BY DEF Event
  <2>. HIDE DEF y
  <2>4. /\ DOMAIN outputQ' = 1..(Len(outputQ) + 1)
        /\ \A i \in 1..Len(outputQ) : outputQ'[i] = outputQ[i]
        /\ outputQ'[Len(outputQ) + 1] = y
    BY <1>0, <2>1, <2>3, AppendIs
  <2>5. ASSUME NEW t \in Streams PROVE
          /\ t \in ended' => pipe[t] = <<>> /\ WriteEndsClosed'
          /\ \A i \in DOMAIN outputQ' : outputQ'[i] = [stream |-> t, chunk |-> EOF] =>
               /\ t \in ended'
               /\ \A j \in DOMAIN outputQ' : j > i => outputQ'[j].stream # t
          /\ streamEof[t] =>
               /\ t \in ended' /\ decoder.held[t] = None
               /\ \A i \in DOMAIN outputQ' : outputQ'[i].stream # t
    <3>1. t \in ended' => pipe[t] = <<>> /\ WriteEndsClosed'
      BY <1>0, <2>1 DEF EndsKnown
    <3>2. ASSUME NEW i \in DOMAIN outputQ', outputQ'[i] = [stream |-> t, chunk |-> EOF]
          PROVE  /\ t \in ended'
                 /\ \A j \in DOMAIN outputQ' : j > i => outputQ'[j].stream # t
      <4>1. CASE i = Len(outputQ) + 1
        <5>1. t = s BY <2>3, <2>4, <3>2, <4>1
        <5>. QED BY <1>0, <2>1, <2>4, <4>1, <5>1
      <4>2. CASE i \in 1..Len(outputQ)
        <5>1. outputQ[i] = [stream |-> t, chunk |-> EOF] BY <2>4, <3>2, <4>2
        <5>2. t \in ended /\ \A j \in DOMAIN outputQ : j > i => outputQ[j].stream # t
          BY <1>0, <4>2, <5>1 DEF EndsKnown
        <5>. QED BY <1>0, <2>1, <2>3, <2>4, <5>2
      <4>. QED BY <1>0, <2>4, <4>1, <4>2
    <3>3. ASSUME streamEof[t]
          PROVE  /\ t \in ended' /\ decoder.held[t] = None
                 /\ \A i \in DOMAIN outputQ' : outputQ'[i].stream # t
      <4>1. t \in ended /\ decoder.held[t] = None /\ \A i \in DOMAIN outputQ : outputQ[i].stream # t
        BY <3>3 DEF EndsKnown
      <4>. QED BY <1>0, <2>1, <2>3, <2>4, <4>1
    <3>. QED BY <3>1, <3>2, <3>3
  <2>. QED BY <2>1, <2>5 DEF EndsKnown
<1>11. ASSUME outputQ # <<>>, outputQ' = Tail(outputQ)
       PROVE  /\ DOMAIN outputQ' = 1..(Len(outputQ) - 1) /\ Len(outputQ) \in Nat \ {0}
              /\ \A i \in 1..(Len(outputQ) - 1) : outputQ'[i] = outputQ[i + 1]
              /\ Head(outputQ) = outputQ[1] /\ Head(outputQ) \in Event
  BY <1>0, <1>11, TailIs
<1>12. CASE ConsumeEvent
  <2>. DEFINE s == Head(outputQ).stream
              c == Head(outputQ).chunk
  <2>1. /\ outputQ # <<>> /\ outputQ' = Tail(outputQ) /\ UNCHANGED <<pipe, ended>>
        /\ UNCHANGED WriteEndsClosed
    BY <1>12 DEF ConsumeEvent, WriteEndsClosed, toolVars
  <2>2. /\ s \in Streams
        /\ streamEof' = (IF c = EOF THEN [streamEof EXCEPT ![s] = TRUE] ELSE streamEof)
        /\ \A t \in Streams \ {s} : decoder'.held[t] = decoder.held[t]
        /\ c = EOF => decoder'.held[s] = None
    BY <1>12, TakeIs
  <2>3. outputQ[1] = [stream |-> s, chunk |-> c]
    BY <1>11, <2>1 DEF Event
  <2>4. outputQ[1].stream = s BY <1>11, <2>1
  <2>. HIDE DEF s, c
  <2>5. ASSUME NEW t \in Streams PROVE
          /\ t \in ended => pipe[t] = <<>> /\ WriteEndsClosed'
          /\ \A i \in DOMAIN outputQ' : outputQ'[i] = [stream |-> t, chunk |-> EOF] =>
               /\ t \in ended
               /\ \A j \in DOMAIN outputQ' : j > i => outputQ'[j].stream # t
          /\ streamEof'[t] =>
               /\ t \in ended /\ decoder'.held[t] = None
               /\ \A i \in DOMAIN outputQ' : outputQ'[i].stream # t
    <3>1. t \in ended => pipe[t] = <<>> /\ WriteEndsClosed'
      BY <2>1 DEF EndsKnown
    <3>2. ASSUME NEW i \in DOMAIN outputQ', outputQ'[i] = [stream |-> t, chunk |-> EOF]
          PROVE  /\ t \in ended
                 /\ \A j \in DOMAIN outputQ' : j > i => outputQ'[j].stream # t
      <4>1. i + 1 \in DOMAIN outputQ /\ outputQ[i + 1] = [stream |-> t, chunk |-> EOF]
        BY <1>0, <1>11, <2>1, <3>2
      <4>2. t \in ended /\ \A j \in DOMAIN outputQ : j > i + 1 => outputQ[j].stream # t
        BY <4>1 DEF EndsKnown
      <4>. QED BY <1>0, <1>11, <2>1, <4>2
    <3>3. ASSUME streamEof'[t]
          PROVE  /\ t \in ended /\ decoder'.held[t] = None
                 /\ \A i \in DOMAIN outputQ' : outputQ'[i].stream # t
      <4>1. CASE t = s /\ c = EOF
        <5>1. 1 \in DOMAIN outputQ /\ outputQ[1] = [stream |-> t, chunk |-> EOF]
          BY <1>0, <1>11, <2>1, <2>3, <4>1
        <5>2. t \in ended /\ \A j \in DOMAIN outputQ : j > 1 => outputQ[j].stream # t
          BY <5>1 DEF EndsKnown
        <5>. QED BY <1>0, <1>11, <2>1, <2>2, <4>1, <5>2
      <4>2. CASE ~(t = s /\ c = EOF)
        <5>1. streamEof[t] BY <2>2, <3>3, <4>2 DEF ReadType
        <5>2. t \in ended /\ decoder.held[t] = None
                /\ \A i \in DOMAIN outputQ : outputQ[i].stream # t
          BY <5>1 DEF EndsKnown
        <5>3. t # s BY <1>0, <1>11, <2>1, <2>4, <5>2
        <5>. QED BY <1>0, <1>11, <2>1, <2>2, <5>2, <5>3
      <4>. QED BY <4>1, <4>2
    <3>. QED BY <3>1, <3>2, <3>3
  <2>. QED BY <2>1, <2>5 DEF EndsKnown
<1>13. CASE CloseTakes
  <2>1. /\ outputQ # <<>> /\ outputQ' = Tail(outputQ)
        /\ UNCHANGED <<pipe, ended, streamEof, decoder>>
        /\ UNCHANGED WriteEndsClosed
    BY <1>13 DEF CloseTakes, WriteEndsClosed, toolVars, workerVars
  <2>2. ASSUME NEW t \in Streams, NEW i \in DOMAIN outputQ', 
               outputQ'[i] = [stream |-> t, chunk |-> EOF]
        PROVE  /\ t \in ended
               /\ \A j \in DOMAIN outputQ' : j > i => outputQ'[j].stream # t
    <3>1. i + 1 \in DOMAIN outputQ /\ outputQ[i + 1] = [stream |-> t, chunk |-> EOF]
      BY <1>0, <1>11, <2>1, <2>2
    <3>2. t \in ended /\ \A j \in DOMAIN outputQ : j > i + 1 => outputQ[j].stream # t
      BY <3>1 DEF EndsKnown
    <3>. QED BY <1>0, <1>11, <2>1, <3>2
  <2>3. ASSUME NEW t \in Streams, streamEof[t]
        PROVE  \A i \in DOMAIN outputQ' : outputQ'[i].stream # t
    BY <1>0, <1>11, <2>1, <2>3 DEF EndsKnown
  <2>. QED BY <2>1, <2>2, <2>3 DEF EndsKnown
<1>14. CASE ProcessEnds
  <2>1. ended' = {} /\ outputQ' = <<>> /\ \A s \in Streams : streamEof'[s] = FALSE
    BY <1>14 DEF ProcessEnds
  <2>. QED BY <2>1 DEF EndsKnown
<1>15. CASE PrepareExecution \/ ExecutePrepared \/ ExecuteInMemory
  BY <1>1, <1>15
     DEF PrepareExecution, ExecutePrepared, ExecuteInMemory, Begin, toolVars, WriteEndsClosed
<1>16. CASE WriteLine \/ StdinBroken \/ Finish \/ Reply
  BY <1>1, <1>16 DEF WriteLine, StdinBroken, Finish, Reply, toolVars, WriteEndsClosed
<1>17. CASE NoticeExit \/ Deadline \/ CloseExecutor
  <2>1. tool'.alive = tool.alive /\ child' = child
    BY <1>17 DEF NoticeExit, Deadline, CloseExecutor, KillGroup, SameTool, ToolType
  <2>2. UNCHANGED readVars /\ UNCHANGED decoder
    BY <1>17 DEF NoticeExit, Deadline, CloseExecutor
  <2>. QED BY <1>1, <2>1, <2>2 DEF WriteEndsClosed
<1>. QED
  BY NextIs, <1>3, <1>4, <1>5, <1>6, <1>7, <1>8, <1>9, <1>10, <1>12, <1>13, <1>14, <1>15, <1>16,
     <1>17, <1>18
     DEF DrainPipe, TakeEvent, DrainEvent

-----------------------------------------------------------------------------
(* Names *)

\* A name is given out before it shows up in a pipe, a queue or a window.
LEMMA NamesStayKnown ==
  ASSUME Typed, WorkerSound, NamesKnown, Next
  PROVE  NamesKnown'
<1>. USE DEF Typed, history
<1>0. /\ pipe \in [Streams -> Seq(Chunks)] /\ outputQ \in Seq(Event) /\ stdin \in Seq(Line)
      /\ prepared \in 0..MaxExecs /\ nextId \in 0..MaxExecs /\ MaxExecs \in Nat
      /\ worker \in [pc : Steps, e : 0..MaxExecs, unsent : Seq(Line), reason : Losses]
  BY ConsoleAssumption DEF ToolType, ReadType, WorkerType
<1>1. ASSUME UNCHANGED <<prepared, nextId>>
      PROVE  \A e : Known(e) <=> Known(e)'
  BY <1>1 DEF Known
<1>2. Known(0) BY <1>0 DEF Known
<1>3. ASSUME stdin # <<>>
      PROVE  /\ Known(Head(stdin).e)
             /\ \A i \in DOMAIN Tail(stdin) : Known(Tail(stdin)[i].e)
  BY <1>0, <1>3, TailIs DEF NamesKnown
<1>4. CASE ReadLine
  <2>1. tool'.e = Head(stdin).e BY <1>4 DEF ReadLine, ToolType
  <2>. QED BY <1>1, <1>3, <1>4, <2>1 DEF ReadLine, NamesKnown, readVars, workerVars
<1>5. ASSUME tool.ops # <<>>, tool' = NextOp PROVE Known(tool'.e)
  <2>1. tool'.e \in {0, tool.e} BY <1>5, NextOpIs
  <2>. QED BY <1>2, <2>1 DEF NamesKnown
<1>6. ASSUME NEW s \in Streams, NEW c \in Chunks, Emit(s, c), Known(c.e),
             UNCHANGED <<prepared, nextId>>
      PROVE  \A t \in Streams : \A i \in DOMAIN pipe'[t] : Known(pipe'[t][i].e)
  <2>1. pipe' = [pipe EXCEPT ![s] = Append(@, c)] BY <1>6 DEF Emit
  <2>2. pipe'[s] = Append(pipe[s], c) /\ \A t \in Streams \ {s} : pipe'[t] = pipe[t]
    BY <1>0, <2>1
  <2>3. \A i \in DOMAIN pipe'[s] : Known(pipe'[s][i].e)
    BY <1>0, <1>6, <2>2, AppendIs DEF NamesKnown
  <2>. QED BY <1>1, <1>6, <2>2, <2>3 DEF NamesKnown
<1>7. CASE WriteMark \/ TakeLine
  <2>0. /\ UNCHANGED <<prepared, nextId, edaStatus, worker>>
        /\ tool' = tool \/ (tool.ops # <<>> /\ tool' = NextOp)
    BY <1>7 DEF WriteMark, TakeLine, Doing, workerVars
  <2>1. \A i \in DOMAIN stdin' : Known(stdin'[i].e)
    <3>1. CASE WriteMark BY <3>1 DEF WriteMark, NamesKnown
    <3>2. CASE TakeLine BY <1>3, <3>2, TakingIs
    <3>. QED BY <1>7, <3>1, <3>2
  <2>2. Known(tool'.e) BY <1>5, <2>0 DEF NamesKnown
  <2>3. ASSUME NEW op \in Marks, NEW e \in Execs, Mark(op, e), Known(e)
        PROVE  /\ \A t \in Streams : \A i \in DOMAIN pipe'[t] : Known(pipe'[t][i].e)
               /\ \A t \in Streams : Known(window'[t]) /\ outputQ' = outputQ
    <3>1. \A t \in Streams : \A i \in DOMAIN pipe'[t] : Known(pipe'[t][i].e)
      BY <1>6, <2>0, <2>3, MarkIs
    <3>2. \A t \in Streams : Known(window'[t]) /\ outputQ' = outputQ
      BY <1>2, <2>3, MarkIs DEF NamesKnown, Emit
    <3>. QED BY <3>1, <3>2
  <2>4. CASE TakeLine /\ UNCHANGED <<window, readVars>>
    BY <1>1, <2>0, <2>1, <2>2, <2>4 DEF NamesKnown, readVars
  <2>5. ASSUME NEW op \in Marks, NEW e \in Execs, Mark(op, e), Known(e) PROVE NamesKnown'
    <3>1. \A x : Known(x) => Known(x)' BY <1>1, <2>0
    <3>2. /\ prepared' <= nextId' /\ Known(tool.e)' /\ Known(worker.e)' /\ Known(edaStatus)'
      BY <2>0, <2>2, <3>1 DEF NamesKnown
    <3>3. \A i \in DOMAIN stdin' : Known(stdin[i].e)' BY <2>1, <3>1
    <3>4. /\ \A t \in Streams : \A i \in DOMAIN pipe'[t] : Known(pipe'[t][i].e)
          /\ \A t \in Streams : Known(window'[t]) /\ outputQ' = outputQ
      BY <2>3, <2>5
    <3>5. \A i \in DOMAIN outputQ' : Known(outputQ[i].chunk.e)'
      <4>1. outputQ' = outputQ BY <2>5 DEF Mark, Emit
      <4>2. \A i \in DOMAIN outputQ : Known(outputQ[i].chunk.e) BY DEF NamesKnown
      <4>. QED BY <3>1, <4>1, <4>2
    <3>6. \A s \in Streams : Known(window[s])' /\ \A i \in DOMAIN pipe'[s] : Known(pipe[s][i].e)'
      BY <3>1, <3>4
    <3>. QED BY <3>2, <3>3, <3>5, <3>6 DEF NamesKnown
  <2>6. TakeLine => Known(Head(stdin).e) BY <1>3, TakingIs
  <2>. QED BY <1>7, <2>4, <2>5, <2>6, MarkersAre DEF NamesKnown
<1>22. ASSUME NEW s \in Streams, EmitUnit(s), UNCHANGED <<prepared, nextId>>
       PROVE  \A t \in Streams : \A i \in DOMAIN pipe'[t] : Known(pipe'[t][i].e)
  <2>1. Chunk("user", window[s]).e = window[s] BY DEF Chunk
  <2>. QED BY <1>6, <1>22, <2>1, PrintingIs DEF NamesKnown
<1>23. CASE WriteStatus
  <2>. DEFINE c == Chunk(IF edaStatus = tool.e THEN "status" ELSE "stale", tool.e)
  <2>1. /\ UNCHANGED <<prepared, nextId, stdin, outputQ, worker, window, edaStatus>>
        /\ tool.ops # <<>> /\ tool' = NextOp /\ Emit("stdout", c) /\ tool.e \in Execs
    BY <1>23 DEF WriteStatus, Doing, Emit, workerVars, ToolType, Execs
  <2>2. c \in Chunks /\ c.e = tool.e BY <2>1 DEF Chunk, Chunks, Execs
  <2>. HIDE DEF c
  <2>3. \A t \in Streams : \A i \in DOMAIN pipe'[t] : Known(pipe'[t][i].e)
    BY <1>6, <2>1, <2>2 DEF NamesKnown, Streams
  <2>4. Known(tool'.e) BY <1>5, <2>1
  <2>. QED BY <1>1, <2>1, <2>3, <2>4 DEF NamesKnown
<1>24. CASE WriteBlankStatus
  <2>1. /\ UNCHANGED <<prepared, nextId, stdin, outputQ, worker, window, edaStatus>>
        /\ tool.ops # <<>> /\ tool' = NextOp /\ EmitUnit("stdout")
    BY <1>24 DEF WriteBlankStatus, EmitUnit, Doing, Emit, workerVars
  <2>2. \A t \in Streams : \A i \in DOMAIN pipe'[t] : Known(pipe'[t][i].e)
    BY <1>22, <2>1 DEF Streams
  <2>3. Known(tool'.e) BY <1>5, <2>1
  <2>. QED BY <1>1, <2>1, <2>2, <2>3 DEF NamesKnown
<1>25. CASE CaptureStatus
  <2>1. /\ UNCHANGED <<prepared, nextId, stdin, outputQ, worker, window, pipe>>
        /\ tool.ops # <<>> /\ tool' = NextOp /\ edaStatus' = tool.e
    BY <1>25 DEF CaptureStatus, Doing, workerVars, readVars
  <2>2. Known(tool'.e) BY <1>5, <2>1
  <2>. QED BY <1>1, <2>1, <2>2 DEF NamesKnown
<1>8. ASSUME NEW s \in Streams, PrintUnit(s) PROVE NamesKnown'
  <2>0. /\ UNCHANGED <<prepared, nextId, stdin, outputQ, worker, tool, window, edaStatus>>
        /\ EmitUnit(s)
    BY <1>8 DEF PrintUnit, EmitUnit, Emit, workerVars
  <2>5. \A t \in Streams : \A i \in DOMAIN pipe'[t] : Known(pipe'[t][i].e)
    BY <1>22, <2>0
  <2>. QED BY <1>1, <2>0, <2>5 DEF NamesKnown
<1>9. CASE UserCodeEnds
  <2>1. tool.ops # <<>> /\ tool' = NextOp BY <1>9 DEF UserCodeEnds, InUserCode, Doing
  <2>2. Known(tool'.e) BY <1>5, <2>1
  <2>. QED BY <1>1, <1>9, <2>2 DEF UserCodeEnds, NamesKnown, readVars, workerVars
<1>10. CASE LeaveChild \/ ChildEnds
  BY <1>1, <1>10 DEF LeaveChild, ChildEnds, NamesKnown, readVars, workerVars
<1>11. CASE Die
  <2>1. tool'.e = 0 /\ edaStatus' = 0 BY <1>11 DEF Die, ToolType
  <2>. QED BY <1>1, <1>2, <1>11, <2>1 DEF Die, NamesKnown, readVars, workerVars
<1>12. ASSUME NEW s \in Streams, DrainPipe(s) PROVE NamesKnown'
  <2>0. /\ UNCHANGED <<prepared, nextId, stdin, worker, tool, window, edaStatus>>
    BY <1>12 DEF DrainPipe, toolVars, workerVars
  <2>1. \E y \in Event : outputQ' = Append(outputQ, y) /\ Known(y.chunk.e)
    <3>1. CASE ReadChunk(s)
      <4>1. pipe[s] # <<>> /\ outputQ' = Append(outputQ, [stream |-> s, chunk |-> Head(pipe[s])])
        BY <3>1 DEF ReadChunk
      <4>2. Head(pipe[s]) = pipe[s][1] /\ 1 \in DOMAIN pipe[s] /\ Head(pipe[s]) \in Chunks
        BY <1>0, <4>1, TailIs
      <4>3. [stream |-> s, chunk |-> Head(pipe[s])] \in Event BY <4>2 DEF Event
      <4>4. Known(Head(pipe[s]).e) BY <4>2 DEF NamesKnown
      <4>. QED BY <4>1, <4>3, <4>4
    <3>2. CASE ReadEof(s)
      <4>1. [stream |-> s, chunk |-> EOF] \in Event /\ EOF.e = 0 BY DEF Event, EOF
      <4>. QED BY <1>2, <3>2, <4>1 DEF ReadEof
    <3>. QED BY <1>12, <3>1, <3>2 DEF DrainPipe
  <2>2. \A i \in DOMAIN outputQ' : Known(outputQ'[i].chunk.e)
    BY <1>0, <2>1, AppendIs DEF NamesKnown
  <2>3. \A t \in Streams : \A i \in DOMAIN pipe'[t] : Known(pipe'[t][i].e)
    <3>1. CASE ReadChunk(s)
      <4>1. pipe[s] # <<>> /\ pipe'[s] = Tail(pipe[s])
              /\ \A t \in Streams \ {s} : pipe'[t] = pipe[t]
        BY <1>0, <3>1 DEF ReadChunk
      <4>2. \A i \in DOMAIN Tail(pipe[s]) : Known(Tail(pipe[s])[i].e)
        BY <1>0, <4>1, TailIs DEF NamesKnown
      <4>. QED BY <4>1, <4>2 DEF NamesKnown
    <3>2. CASE ReadEof(s)
      BY <3>2 DEF ReadEof, NamesKnown
    <3>. QED BY <1>12, <3>1, <3>2 DEF DrainPipe
  <2>. QED BY <1>1, <2>0, <2>2, <2>3 DEF NamesKnown
<1>13. CASE TakeEvent \/ DrainEvent \/ CloseTakes
  <2>0. /\ UNCHANGED <<prepared, nextId, stdin, tool, window, edaStatus, pipe>>
        /\ outputQ # <<>> /\ outputQ' = Tail(outputQ)
    BY <1>13 DEF TakeEvent, DrainEvent, ConsumeEvent, CloseTakes, toolVars, workerVars
  <2>1. \A i \in DOMAIN outputQ' : Known(outputQ'[i].chunk.e)
    BY <1>0, <2>0, TailIs DEF NamesKnown
  <2>2. worker'.e = worker.e
    BY <1>0, <1>13 DEF TakeEvent, DrainEvent, CloseTakes, workerVars
  <2>. QED BY <1>1, <2>0, <2>1, <2>2 DEF NamesKnown
<1>14. CASE PrepareExecution
  <2>1. /\ prepared' = nextId + 1 /\ nextId' = nextId + 1 /\ prepared = 0
        /\ UNCHANGED <<tool, worker, stdin, outputQ, window, edaStatus, pipe>>
    BY <1>14 DEF PrepareExecution, toolVars, readVars
  <2>2. \A e : Known(e) => Known(e)' BY <1>0, <2>1 DEF Known
  <2>. QED BY <1>0, <2>1, <2>2 DEF NamesKnown
<1>15. CASE ExecutePrepared
  <2>1. /\ prepared' = 0 /\ nextId' = nextId /\ worker'.e = prepared
        /\ UNCHANGED <<tool, stdin, outputQ, window, edaStatus, pipe>>
    BY <1>15 DEF ExecutePrepared, Begin, toolVars, readVars
  <2>2. \A e : Known(e) => Known(e)' BY <1>0, <2>1 DEF Known
  <2>3. Known(worker.e)' BY <1>0, <2>1 DEF Known, NamesKnown
  <2>. QED BY <1>0, <2>1, <2>2, <2>3 DEF NamesKnown
<1>16. CASE ExecuteInMemory
  <2>1. /\ prepared' = prepared /\ nextId' = nextId + 1 /\ worker'.e = nextId + 1
        /\ UNCHANGED <<tool, stdin, outputQ, window, edaStatus, pipe>>
    BY <1>16 DEF ExecuteInMemory, Begin, toolVars, readVars
  <2>2. \A e : Known(e) => Known(e)' BY <1>0, <2>1 DEF Known
  <2>3. Known(worker.e)' /\ prepared <= nextId + 1 BY <1>0, <2>1 DEF Known, NamesKnown
  <2>. QED BY <1>0, <2>1, <2>2, <2>3 DEF NamesKnown
<1>17. CASE WriteLine
  <2>1. /\ UNCHANGED <<prepared, nextId, tool, outputQ, window, edaStatus, pipe>>
        /\ stdin' = Append(stdin, Head(worker.unsent)) /\ worker'.e = worker.e
    BY <1>0, <1>17 DEF WriteLine, SameRequests, readVars
  <2>2. worker.unsent # <<>> /\ \A i \in DOMAIN worker.unsent : worker.unsent[i].e = worker.e
    BY <1>17 DEF WriteLine, WorkerSound
  <2>3. Head(worker.unsent) \in Line /\ Head(worker.unsent).e = worker.e
    BY <1>0, <2>2, TailIs
  <2>4. \A i \in DOMAIN stdin' : Known(stdin'[i].e)
    BY <1>0, <2>1, <2>3, AppendIs DEF NamesKnown
  <2>. QED BY <1>1, <2>1, <2>4 DEF NamesKnown
<1>18. CASE StdinBroken \/ Finish \/ NoticeExit \/ Deadline
  <2>1. /\ UNCHANGED <<prepared, nextId, stdin, outputQ, window, edaStatus, pipe>>
        /\ tool'.e = tool.e /\ worker'.e = worker.e
    BY <1>0, <1>18 DEF StdinBroken, Finish, NoticeExit, Deadline, SameRequests, SameTool, KillGroup,
                       readVars, toolVars, ToolType
  <2>. QED BY <1>1, <2>1 DEF NamesKnown
<1>19. CASE Reply
  <2>1. /\ UNCHANGED <<prepared, nextId, stdin, outputQ, window, edaStatus, pipe, tool>>
        /\ worker'.e = 0
    BY <1>0, <1>19 DEF Reply, SameRequests, readVars
  <2>. QED BY <1>1, <1>2, <2>1 DEF NamesKnown
<1>20. CASE CloseExecutor
  <2>1. /\ UNCHANGED <<nextId, stdin, outputQ, window, edaStatus, pipe>> /\ prepared' = 0
        /\ worker'.e = worker.e /\ tool'.e = tool.e
    BY <1>0, <1>20 DEF CloseExecutor, Goto, KillGroup, SameTool, readVars, ToolType
  <2>2. \A e : Known(e) => Known(e)' BY <1>0, <2>1 DEF Known
  <2>. QED BY <1>0, <2>1, <2>2 DEF NamesKnown
<1>21. CASE ProcessEnds /\ (KillGroup \/ UNCHANGED tool)
  <2>1. /\ UNCHANGED <<nextId, stdin, window, edaStatus>> /\ prepared' = 0 /\ outputQ' = <<>>
        /\ worker'.e = 0 /\ tool'.e = tool.e /\ \A s \in Streams : pipe'[s] = <<>>
    BY <1>0, <1>21 DEF ProcessEnds, KillGroup, ToolType
  <2>2. \A e : Known(e) => Known(e)' BY <1>0, <2>1 DEF Known
  <2>. QED BY <1>0, <1>2, <2>1, <2>2 DEF NamesKnown
<1>. QED
  BY NextIs, <1>4, <1>7, <1>8, <1>9, <1>10, <1>11, <1>12, <1>13, <1>14, <1>15, <1>16, <1>17,
     <1>18, <1>19, <1>20, <1>21, <1>23, <1>24, <1>25

-----------------------------------------------------------------------------
(* What carries an execution's name stands between its records *)

\* What is among the first elements of a sequence that grows.
LEMMA AmongAppend ==
  ASSUME NEW S, NEW q \in Seq(S), NEW y \in S, NEW x
  PROVE  /\ \A i \in 0..Len(q) : Among(x, Append(q, y), i) <=> Among(x, q, i)
         /\ Among(x, Append(q, y), Len(q) + 1) <=> Among(x, q, Len(q)) \/ y = x
         /\ ~Among(x, q, 0)
<1>1. \A i \in 1..Len(q) : Append(q, y)[i] = q[i] BY AppendIs
<1>2. Append(q, y)[Len(q) + 1] = y /\ Len(q) \in Nat BY AppendIs
<1>3. \A i \in 0..Len(q) : Among(x, Append(q, y), i) <=> Among(x, q, i)
  BY <1>1, <1>2 DEF Among
<1>4. Among(x, Append(q, y), Len(q) + 1) <=> Among(x, q, Len(q)) \/ y = x
  BY <1>1, <1>2 DEF Among
<1>5. ~Among(x, q, 0) BY DEF Among
<1>. QED BY <1>3, <1>4, <1>5

\* What is among the first elements of a sequence whose head is taken.
LEMMA AmongTail ==
  ASSUME NEW S, NEW q \in Seq(S), q # <<>>, NEW x
  PROVE  \A i \in 0..(Len(q) - 1) : Among(x, q, i + 1) <=> Among(x, Tail(q), i) \/ Head(q) = x
<1>1. /\ \A i \in 1..(Len(q) - 1) : Tail(q)[i] = q[i + 1]
      /\ Head(q) = q[1] /\ Len(q) \in Nat \ {0}
  BY TailIs
<1>2. ASSUME NEW i \in 0..(Len(q) - 1)
      PROVE  Among(x, q, i + 1) <=> Among(x, Tail(q), i) \/ Head(q) = x
  <2>1. ASSUME Among(x, q, i + 1) PROVE Among(x, Tail(q), i) \/ Head(q) = x
    <3>1. PICK k \in 1..(i + 1) : q[k] = x BY <2>1 DEF Among
    <3>2. CASE k = 1 BY <1>1, <3>1, <3>2
    <3>3. CASE k # 1
      <4>1. k - 1 \in 1..i /\ k - 1 \in 1..(Len(q) - 1) /\ (k - 1) + 1 = k BY <1>1, <3>3
      <4>2. Tail(q)[k - 1] = x BY <1>1, <3>1, <4>1
      <4>. QED BY <4>1, <4>2 DEF Among
    <3>. QED BY <3>2, <3>3
  <2>2. ASSUME Among(x, Tail(q), i) PROVE Among(x, q, i + 1)
    <3>1. PICK k \in 1..i : Tail(q)[k] = x BY <2>2 DEF Among
    <3>2. k + 1 \in 1..(i + 1) /\ q[k + 1] = x BY <1>1, <3>1
    <3>. QED BY <3>2 DEF Among
  <2>3. Head(q) = x => Among(x, q, i + 1) BY <1>1 DEF Among
  <2>. QED BY <2>1, <2>2, <2>3
<1>. QED BY <1>2

\* A stream on which nothing happened.
LEMMA QuietStream ==
  ASSUME NEW s \in Streams, OwnBetween(s), worker'.e = worker.e,
         decoder'.held[s] = decoder.held[s], s \in decoder'.started <=> s \in decoder.started,
         s \in decoder'.fenced <=> s \in decoder.fenced,
         UNCHANGED outputQ, pipe'[s] = pipe[s], window'[s] = window[s]
  PROVE  OwnBetween(s)'
BY DEF OwnBetween, Named, Opened, Fenced, OpenedInPipe, FencedInPipe, StartOf, FenceOf, Chunk

\* A chunk is written to a pipe.
LEMMA WrittenIsBetween ==
  ASSUME Typed, WorkerSound, NEW s \in Streams, OwnBetween(s), NEW c \in Chunks, Emit(s, c),
         UNCHANGED <<decoder, worker>>,
         \/ /\ c.kind \notin {"start", "fence"} \/ c.e # worker.e
            /\ window[s] = worker.e => c.e = worker.e
            /\ Named(c) => window[s] = worker.e
            /\ window'[s] = worker.e <=> window[s] = worker.e
         \/ /\ c = Chunk("start", worker.e) /\ window'[s] = worker.e
            /\ ~FencedInPipe(s, Len(pipe[s]))
         \/ c = Chunk("fence", worker.e) /\ window'[s] # worker.e
  PROVE  OwnBetween(s)'
<1>1. PICK n, e, q : n = Len(pipe[s]) /\ e = worker.e /\ q = pipe[s] OBVIOUS
<1>2. /\ q \in Seq(Chunks) /\ pipe'[s] = Append(q, c) /\ UNCHANGED outputQ /\ worker'.e = e
      /\ n = Len(q)
  BY <1>1 DEF Emit, Typed, ReadType
<1>3. /\ n \in Nat /\ DOMAIN q = 1..n /\ DOMAIN pipe'[s] = 1..(n + 1) /\ Len(pipe'[s]) = n + 1
      /\ \A i \in 1..n : pipe'[s][i] = q[i]
      /\ pipe'[s][n + 1] = c
  BY <1>2, AppendIs
<1>4. ASSUME NEW x
      PROVE  /\ \A i \in 0..n : Among(x, pipe'[s], i) <=> Among(x, q, i)
             /\ Among(x, pipe'[s], n + 1) <=> Among(x, q, n) \/ c = x
  <2>1. /\ \A i \in 0..Len(q) : Among(x, Append(q, c), i) <=> Among(x, q, i)
        /\ Among(x, Append(q, c), Len(q) + 1) <=> Among(x, q, Len(q)) \/ c = x
    BY <1>2, AmongAppend
  <2>. QED BY <1>2, <2>1
<1>5. /\ \A i \in 0..n : OpenedInPipe(s, i)' <=> OpenedInPipe(s, i)
      /\ \A i \in 0..n : FencedInPipe(s, i)' <=> FencedInPipe(s, i)
      /\ OpenedInPipe(s, n + 1)' <=> OpenedInPipe(s, n) \/ c = Chunk("start", e)
      /\ FencedInPipe(s, n + 1)' <=> FencedInPipe(s, n) \/ c = Chunk("fence", e)
  BY <1>1, <1>2, <1>3, <1>4 DEF OpenedInPipe, FencedInPipe, Opened, Fenced, StartOf, FenceOf
<1>6. /\ \A i \in 1..n : /\ OpenedInPipe(s, i) /\ ~FencedInPipe(s, i - 1) => q[i].e = e
                         /\ Named(q[i]) => OpenedInPipe(s, i) /\ ~FencedInPipe(s, i - 1)
      /\ window[s] = e <=> OpenedInPipe(s, n) /\ ~FencedInPipe(s, n)
  BY <1>1, <1>3 DEF OwnBetween
<1>10. \A x : Named(x)' <=> Named(x) BY <1>1, <1>2 DEF Named
<1>7. /\ \A i \in 1..n :
           /\ OpenedInPipe(s, i)' /\ ~FencedInPipe(s, i - 1)' => pipe'[s][i].e = e
           /\ Named(pipe'[s][i]) => OpenedInPipe(s, i)' /\ ~FencedInPipe(s, i - 1)'
      /\ OpenedInPipe(s, n + 1)' /\ ~FencedInPipe(s, n)' => c.e = e
      /\ Named(c) => OpenedInPipe(s, n + 1)' /\ ~FencedInPipe(s, n)'
      /\ window'[s] = e <=> OpenedInPipe(s, n + 1)' /\ ~FencedInPipe(s, n + 1)'
  <2>1. \A i \in 1..n : i - 1 \in 0..n /\ i \in 0..n BY <1>3
  <2>2. \A i \in 1..n :
          /\ OpenedInPipe(s, i)' /\ ~FencedInPipe(s, i - 1)' => pipe'[s][i].e = e
          /\ Named(pipe'[s][i]) => OpenedInPipe(s, i)' /\ ~FencedInPipe(s, i - 1)'
    BY <1>3, <1>5, <1>6, <2>1
  <2>3. n \in 0..n BY <1>3
  <2>4. Chunk("start", e) # Chunk("fence", e) /\ Chunk("start", e).e = e /\ Chunk("fence", e).e = e
        /\ Chunk("start", e).kind = "start" /\ Chunk("fence", e).kind = "fence"
    BY DEF Chunk
  <2>5. CASE /\ c.kind \notin {"start", "fence"} \/ c.e # worker.e
             /\ window[s] = worker.e => c.e = worker.e
             /\ Named(c) => window[s] = worker.e
             /\ window'[s] = worker.e <=> window[s] = worker.e
    <3>1. c # Chunk("start", e) /\ c # Chunk("fence", e) BY <1>1, <2>4, <2>5
    <3>. QED BY <1>1, <1>5, <1>6, <2>2, <2>3, <2>5, <3>1
  <2>6. CASE /\ c = Chunk("start", worker.e) /\ window'[s] = worker.e
             /\ ~FencedInPipe(s, Len(pipe[s]))
    <3>1. c = Chunk("start", e) /\ ~FencedInPipe(s, n) BY <1>1, <2>6
    <3>. QED BY <1>1, <1>5, <2>2, <2>3, <2>4, <2>6, <3>1
  <2>7. CASE c = Chunk("fence", worker.e) /\ window'[s] # worker.e
    <3>1. c = Chunk("fence", e) BY <1>1, <2>7
    <3>2. ~Named(c) BY <2>4, <3>1 DEF Named
    <3>. QED BY <1>1, <1>5, <1>6, <2>2, <2>3, <2>4, <2>7, <3>1, <3>2
  <2>. QED BY <2>5, <2>6, <2>7
<1>8. /\ \A i \in DOMAIN pipe'[s] :
           /\ OpenedInPipe(s, i)' /\ ~FencedInPipe(s, i - 1)' => pipe'[s][i].e = worker'.e
           /\ Named(pipe'[s][i]) => OpenedInPipe(s, i)' /\ ~FencedInPipe(s, i - 1)'
      /\ window'[s] = worker'.e
           <=> OpenedInPipe(s, Len(pipe[s]))' /\ ~FencedInPipe(s, Len(pipe[s]))'
  <2>1. (n + 1) - 1 = n /\ \A i \in 1..(n + 1) : i \in 1..n \/ i = n + 1 BY <1>3
  <2>2. Len(pipe[s])' = n + 1 BY <1>3
  <2>3. \A i \in 1..(n + 1) :
          /\ OpenedInPipe(s, i)' /\ ~FencedInPipe(s, i - 1)' => pipe'[s][i].e = e
          /\ Named(pipe'[s][i]) => OpenedInPipe(s, i)' /\ ~FencedInPipe(s, i - 1)'
    BY <1>3, <1>7, <2>1
  <2>. QED BY <1>2, <1>3, <1>7, <2>2, <2>3
<1>9. /\ \A i : Opened(s, i)' <=> Opened(s, i)
      /\ \A i : Fenced(s, i)' <=> Fenced(s, i)
  BY <1>1, <1>2 DEF Opened, Fenced, StartOf, FenceOf
<1>11. /\ \A i \in DOMAIN pipe'[s] :
            /\ OpenedInPipe(s, i)' /\ ~FencedInPipe(s, i - 1)' => pipe'[s][i].e = worker'.e
            /\ Named(pipe[s][i])' => OpenedInPipe(s, i)' /\ ~FencedInPipe(s, i - 1)'
  BY <1>8, <1>10 DEF Named
<1>. QED BY <1>1, <1>2, <1>8, <1>9, <1>11 DEF OwnBetween, Named, Chunk

\* A reader moves the first chunk of its pipe to the queue.
LEMMA MovedIsBetween ==
  ASSUME Typed, NEW s \in Streams, ReadChunk(s), UNCHANGED <<decoder, worker, window>>,
         NEW t \in Streams, OwnBetween(t)
  PROVE  OwnBetween(t)'
<1>. DEFINE y == [stream |-> s, chunk |-> Head(pipe[s])]
<1>1. PICK n, e, q : n = Len(outputQ) /\ e = worker.e /\ q = outputQ OBVIOUS
<1>2. /\ pipe[s] # <<>> /\ pipe[s] \in Seq(Chunks) /\ q \in Seq(Event) /\ n = Len(q)
      /\ outputQ' = Append(q, y) /\ pipe'[s] = Tail(pipe[s])
      /\ worker'.e = e /\ \A r \in Streams \ {s} : pipe'[r] = pipe[r]
  BY <1>1 DEF ReadChunk, Typed, ReadType
<1>3. Head(pipe[s]) \in Chunks /\ Head(pipe[s]) = pipe[s][1] BY <1>2, TailIs
<1>4. y \in Event /\ y.stream = s /\ y.chunk = Head(pipe[s]) /\ y.chunk # EOF
  BY <1>3 DEF Event, EOF, Chunks, Chunk
<1>. HIDE DEF y
<1>5. /\ n \in Nat /\ DOMAIN q = 1..n /\ DOMAIN outputQ' = 1..(n + 1) /\ Len(outputQ') = n + 1
      /\ \A i \in 1..n : outputQ'[i] = q[i]
      /\ outputQ'[n + 1] = y
  BY <1>2, <1>4, AppendIs
<1>6. ASSUME NEW x
      PROVE  /\ \A i \in 0..n : Among(x, outputQ', i) <=> Among(x, q, i)
             /\ Among(x, outputQ', n + 1) <=> Among(x, q, n) \/ y = x
  <2>1. /\ \A i \in 0..Len(q) : Among(x, Append(q, y), i) <=> Among(x, q, i)
        /\ Among(x, Append(q, y), Len(q) + 1) <=> Among(x, q, Len(q)) \/ y = x
    BY <1>2, <1>4, AmongAppend
  <2>. QED BY <1>2, <2>1
<1>7. /\ \A i \in 0..n : Opened(t, i)' <=> Opened(t, i)
      /\ \A i \in 0..n : Fenced(t, i)' <=> Fenced(t, i)
      /\ Opened(t, n + 1)' <=> Opened(t, n) \/ y = [stream |-> t, chunk |-> Chunk("start", e)]
      /\ Fenced(t, n + 1)' <=> Fenced(t, n) \/ y = [stream |-> t, chunk |-> Chunk("fence", e)]
  BY <1>1, <1>2, <1>6 DEF Opened, Fenced, StartOf, FenceOf, Chunk
<1>8. CASE t # s
  <2>1. /\ y # [stream |-> t, chunk |-> Chunk("start", e)]
        /\ y # [stream |-> t, chunk |-> Chunk("fence", e)]
    BY <1>4, <1>8
  <2>2. /\ Opened(t, n + 1)' <=> Opened(t, n)
        /\ Fenced(t, n + 1)' <=> Fenced(t, n)
    BY <1>7, <2>1
  <2>3. /\ \A i : OpenedInPipe(t, i)' <=> OpenedInPipe(t, i)
        /\ \A i : FencedInPipe(t, i)' <=> FencedInPipe(t, i)
    <3>1. pipe'[t] = pipe[t] /\ Len(outputQ) = n /\ Len(outputQ') = n + 1
      BY <1>1, <1>2, <1>5, <1>8
    <3>2. \A k : Chunk(k, worker'.e) = Chunk(k, worker.e) BY <1>1, <1>2
    <3>3. /\ \A i : OpenedInPipe(t, i)' <=>
                     Opened(t, n + 1)' \/ Among(Chunk("start", worker'.e), pipe'[t], i)
          /\ \A i : FencedInPipe(t, i)' <=>
                     Fenced(t, n + 1)' \/ Among(Chunk("fence", worker'.e), pipe'[t], i)
      BY <3>1 DEF OpenedInPipe, FencedInPipe, Chunk
    <3>. QED BY <2>2, <3>1, <3>2, <3>3 DEF OpenedInPipe, FencedInPipe
  <2>4. \A i \in DOMAIN outputQ' : outputQ'[i].stream = t /\ outputQ'[i].chunk # EOF =>
          /\ Opened(t, i)' /\ ~Fenced(t, i - 1)' => outputQ'[i].chunk.e = worker'.e
          /\ Named(outputQ'[i].chunk) => Opened(t, i)' /\ ~Fenced(t, i - 1)'
    <3>1. \A i \in 1..n : i \in 0..n /\ i - 1 \in 0..n BY <1>5
    <3>2. \A i \in 1..n : q[i].stream = t /\ q[i].chunk # EOF =>
            /\ Opened(t, i) /\ ~Fenced(t, i - 1) => q[i].chunk.e = e
            /\ Named(q[i].chunk) => Opened(t, i) /\ ~Fenced(t, i - 1)
      BY <1>1, <1>5 DEF OwnBetween
    <3>3. ASSUME NEW i \in 1..n, outputQ'[i].stream = t, outputQ'[i].chunk # EOF
          PROVE  /\ Opened(t, i)' /\ ~Fenced(t, i - 1)' => outputQ'[i].chunk.e = worker'.e
                 /\ Named(outputQ'[i].chunk) => Opened(t, i)' /\ ~Fenced(t, i - 1)'
      <4>1. outputQ'[i] = q[i] /\ i \in 0..n /\ i - 1 \in 0..n BY <1>5, <3>1
      <4>2. Opened(t, i)' <=> Opened(t, i) BY <1>7, <4>1
      <4>3. Fenced(t, i - 1)' <=> Fenced(t, i - 1) BY <1>7, <4>1
      <4>4. /\ Opened(t, i) /\ ~Fenced(t, i - 1) => q[i].chunk.e = e
            /\ Named(q[i].chunk) => Opened(t, i) /\ ~Fenced(t, i - 1)
        BY <3>2, <3>3, <4>1
      <4>. QED BY <1>2, <4>1, <4>2, <4>3, <4>4
    <3>. QED BY <1>4, <1>5, <1>8, <3>3
  <2>5. pipe'[t] = pipe[t] /\ window' = window /\ decoder' = decoder /\ worker' = worker
    BY <1>2, <1>8
  <2>. QED BY <2>3, <2>4, <2>5 DEF OwnBetween, Named, Chunk
<1>9. CASE t = s
  <2>1. /\ y = [stream |-> t, chunk |-> Chunk("start", e)] <=> Head(pipe[s]) = Chunk("start", e)
        /\ y = [stream |-> t, chunk |-> Chunk("fence", e)] <=> Head(pipe[s]) = Chunk("fence", e)
    BY <1>9 DEF y
  <2>2. PICK m \in Nat \ {0} : m = Len(pipe[s]) /\ Len(Tail(pipe[s])) = m - 1
                             /\ DOMAIN Tail(pipe[s]) = 1..(m - 1) /\ DOMAIN pipe[s] = 1..m
                             /\ \A i \in 1..(m - 1) : Tail(pipe[s])[i] = pipe[s][i + 1]
    BY <1>2, TailIs
  <2>3. ASSUME NEW x
        PROVE  \A i \in 0..(m - 1) :
                 Among(x, pipe[s], i + 1) <=> Among(x, pipe'[s], i) \/ Head(pipe[s]) = x
    <3>1. \A i \in 0..(Len(pipe[s]) - 1) :
            Among(x, pipe[s], i + 1) <=> Among(x, Tail(pipe[s]), i) \/ Head(pipe[s]) = x
      BY <1>2, AmongTail
    <3>. QED BY <1>2, <2>2, <3>1
  <2>4. /\ \A i \in 0..(m - 1) : OpenedInPipe(s, i)' <=> OpenedInPipe(s, i + 1)
        /\ \A i \in 0..(m - 1) : FencedInPipe(s, i)' <=> FencedInPipe(s, i + 1)
    <3>1. /\ \A i : OpenedInPipe(s, i)'
               <=> Opened(s, n + 1)' \/ Among(Chunk("start", e), pipe'[s], i)
          /\ \A i : FencedInPipe(s, i)'
               <=> Fenced(s, n + 1)' \/ Among(Chunk("fence", e), pipe'[s], i)
      BY <1>2, <1>5 DEF OpenedInPipe, FencedInPipe, Chunk
    <3>2. /\ \A i : OpenedInPipe(s, i) <=> Opened(s, n) \/ Among(Chunk("start", e), pipe[s], i)
          /\ \A i : FencedInPipe(s, i) <=> Fenced(s, n) \/ Among(Chunk("fence", e), pipe[s], i)
      BY <1>1 DEF OpenedInPipe, FencedInPipe
    <3>. QED BY <1>7, <1>9, <2>1, <2>3, <3>1, <3>2
  <2>5. /\ OpenedInPipe(s, 1) <=> Opened(s, n + 1)'
        /\ ~FencedInPipe(s, 0) <=> ~Fenced(s, n)'
    <3>1. /\ \A x : Among(x, pipe[s], 1) <=> Head(pipe[s]) = x
          /\ \A x : ~Among(x, pipe[s], 0)
      BY <1>3 DEF Among
    <3>2. n \in 0..n BY <1>5
    <3>. QED BY <1>1, <1>7, <1>9, <2>1, <3>1, <3>2 DEF OpenedInPipe, FencedInPipe
  <2>6. /\ \A i \in 1..m :
             /\ OpenedInPipe(s, i) /\ ~FencedInPipe(s, i - 1) => pipe[s][i].e = e
             /\ Named(pipe[s][i]) => OpenedInPipe(s, i) /\ ~FencedInPipe(s, i - 1)
        /\ window[s] = e <=> OpenedInPipe(s, m) /\ ~FencedInPipe(s, m)
        /\ \A i \in 1..n : q[i].stream = s /\ q[i].chunk # EOF =>
              /\ Opened(s, i) /\ ~Fenced(s, i - 1) => q[i].chunk.e = e
              /\ Named(q[i].chunk) => Opened(s, i) /\ ~Fenced(s, i - 1)
    BY <1>1, <1>5, <1>9, <2>2 DEF OwnBetween
  <2>7. \A i \in DOMAIN outputQ' : outputQ'[i].stream = s /\ outputQ'[i].chunk # EOF =>
          /\ Opened(s, i)' /\ ~Fenced(s, i - 1)' => outputQ'[i].chunk.e = worker'.e
          /\ Named(outputQ'[i].chunk) => Opened(s, i)' /\ ~Fenced(s, i - 1)'
    <3>1. \A i \in 1..n : i \in 0..n /\ i - 1 \in 0..n BY <1>5
    <3>2. \A i \in 1..n : outputQ'[i].stream = s /\ outputQ'[i].chunk # EOF =>
            /\ Opened(s, i)' /\ ~Fenced(s, i - 1)' => outputQ'[i].chunk.e = worker'.e
            /\ Named(outputQ'[i].chunk) => Opened(s, i)' /\ ~Fenced(s, i - 1)'
      BY <1>2, <1>5, <1>7, <1>9, <2>6, <3>1
    <3>3. /\ Opened(s, n + 1)' /\ ~Fenced(s, n)' => y.chunk.e = e
          /\ Named(y.chunk) => Opened(s, n + 1)' /\ ~Fenced(s, n)'
      <4>1. /\ OpenedInPipe(s, 1) /\ ~FencedInPipe(s, 1 - 1) => pipe[s][1].e = e
            /\ Named(pipe[s][1]) => OpenedInPipe(s, 1) /\ ~FencedInPipe(s, 1 - 1)
        BY <2>6
      <4>2. 1 - 1 = 0 OBVIOUS
      <4>. QED BY <1>3, <1>4, <2>5, <4>1, <4>2
    <3>4. (n + 1) - 1 = n /\ \A i \in 1..(n + 1) : i \in 1..n \/ i = n + 1 BY <1>5
    <3>. QED BY <1>2, <1>5, <3>2, <3>3, <3>4
  <2>8. /\ \A i \in DOMAIN pipe'[s] :
             /\ OpenedInPipe(s, i)' /\ ~FencedInPipe(s, i - 1)' => pipe'[s][i].e = worker'.e
             /\ Named(pipe'[s][i]) => OpenedInPipe(s, i)' /\ ~FencedInPipe(s, i - 1)'
        /\ window'[s] = worker'.e
             <=> OpenedInPipe(s, Len(pipe[s]))' /\ ~FencedInPipe(s, Len(pipe[s]))'
    <3>1. Len(pipe[s])' = m - 1 /\ m - 1 \in 0..(m - 1) /\ (m - 1) + 1 = m BY <1>2, <2>2
    <3>2. \A i \in 1..(m - 1) : /\ i + 1 \in 1..m /\ (i + 1) - 1 = (i - 1) + 1
                                /\ i \in 0..(m - 1) /\ i - 1 \in 0..(m - 1)
      BY <2>2
    <3>3. \A i \in 1..(m - 1) :
            /\ OpenedInPipe(s, i)' /\ ~FencedInPipe(s, i - 1)' => pipe'[s][i].e = e
            /\ Named(pipe'[s][i]) => OpenedInPipe(s, i)' /\ ~FencedInPipe(s, i - 1)'
      BY <1>2, <2>2, <2>4, <2>6, <3>2
    <3>4. window'[s] = e <=> OpenedInPipe(s, m - 1)' /\ ~FencedInPipe(s, m - 1)'
      BY <2>4, <2>6, <3>1
    <3>. QED BY <1>2, <2>2, <3>1, <3>3, <3>4
  <2>. QED BY <1>1, <1>9, <2>7, <2>8 DEF OwnBetween, Named, Chunk
<1>. QED BY <1>8, <1>9

\* A reader queues the end of its stream.
LEMMA EndIsBetween ==
  ASSUME Typed, NEW s \in Streams, ReadEof(s), UNCHANGED <<decoder, worker, window>>,
         NEW t \in Streams, OwnBetween(t)
  PROVE  OwnBetween(t)'
<1>. DEFINE y == [stream |-> s, chunk |-> EOF]
<1>1. PICK n, e, q : n = Len(outputQ) /\ e = worker.e /\ q = outputQ OBVIOUS
<1>2. /\ q \in Seq(Event) /\ n = Len(q)
      /\ outputQ' = Append(q, y) /\ pipe' = pipe /\ worker'.e = e
  BY <1>1 DEF ReadEof, Typed, ReadType
<1>4. y \in Event /\ y.chunk = EOF /\ \A x : y.chunk # Chunk("start", x)
        /\ y.chunk # Chunk("fence", x)
  BY DEF Event, EOF, Chunk
<1>. HIDE DEF y
<1>5. /\ n \in Nat /\ DOMAIN q = 1..n /\ DOMAIN outputQ' = 1..(n + 1) /\ Len(outputQ') = n + 1
      /\ \A i \in 1..n : outputQ'[i] = q[i]
      /\ outputQ'[n + 1] = y
  BY <1>2, <1>4, AppendIs
<1>6. ASSUME NEW x
      PROVE  /\ \A i \in 0..n : Among(x, outputQ', i) <=> Among(x, q, i)
             /\ Among(x, outputQ', n + 1) <=> Among(x, q, n) \/ y = x
  <2>1. /\ \A i \in 0..Len(q) : Among(x, Append(q, y), i) <=> Among(x, q, i)
        /\ Among(x, Append(q, y), Len(q) + 1) <=> Among(x, q, Len(q)) \/ y = x
    BY <1>2, <1>4, AmongAppend
  <2>. QED BY <1>2, <2>1
<1>7. /\ y # [stream |-> t, chunk |-> Chunk("start", e)]
      /\ y # [stream |-> t, chunk |-> Chunk("fence", e)]
  BY <1>4
<1>8. /\ \A i \in 0..n : Opened(t, i)' <=> Opened(t, i)
      /\ \A i \in 0..n : Fenced(t, i)' <=> Fenced(t, i)
      /\ Opened(t, n + 1)' <=> Opened(t, n)
      /\ Fenced(t, n + 1)' <=> Fenced(t, n)
  BY <1>1, <1>2, <1>6, <1>7 DEF Opened, Fenced, StartOf, FenceOf, Chunk
<1>9. /\ \A i : OpenedInPipe(t, i)' <=> OpenedInPipe(t, i)
      /\ \A i : FencedInPipe(t, i)' <=> FencedInPipe(t, i)
  BY <1>1, <1>2, <1>5, <1>8 DEF OpenedInPipe, FencedInPipe, Chunk
<1>10. \A i \in DOMAIN outputQ' : outputQ'[i].stream = t /\ outputQ'[i].chunk # EOF =>
         /\ Opened(t, i)' /\ ~Fenced(t, i - 1)' => outputQ'[i].chunk.e = worker'.e
         /\ Named(outputQ'[i].chunk) => Opened(t, i)' /\ ~Fenced(t, i - 1)'
  <2>1. \A i \in 1..n : i \in 0..n /\ i - 1 \in 0..n BY <1>5
  <2>2. \A i \in 1..n : q[i].stream = t /\ q[i].chunk # EOF =>
          /\ Opened(t, i) /\ ~Fenced(t, i - 1) => q[i].chunk.e = e
          /\ Named(q[i].chunk) => Opened(t, i) /\ ~Fenced(t, i - 1)
    BY <1>1, <1>5 DEF OwnBetween
  <2>3. \A i \in 1..n : outputQ'[i].stream = t /\ outputQ'[i].chunk # EOF =>
          /\ Opened(t, i)' /\ ~Fenced(t, i - 1)' => outputQ'[i].chunk.e = worker'.e
          /\ Named(outputQ'[i].chunk) => Opened(t, i)' /\ ~Fenced(t, i - 1)'
    BY <1>2, <1>5, <1>8, <2>1, <2>2
  <2>. QED BY <1>4, <1>5, <2>3
<1>. QED BY <1>2, <1>9, <1>10 DEF OwnBetween, Named, Chunk

\* The main thread takes the first event of the queue.
LEMMA TakenIsBetween ==
  ASSUME Typed, WorkerSound, worker.e # 0, ConsumeEvent, worker'.e = worker.e,
         NEW t \in Streams, OwnBetween(t)
  PROVE  OwnBetween(t)'
<1>. DEFINE s == Head(outputQ).stream
            c == Head(outputQ).chunk
<1>1. PICK e, n, q : e = worker.e /\ n = Len(outputQ) /\ q = outputQ OBVIOUS
<1>2. /\ s \in Streams /\ c \in Chunks \cup {EOF} /\ decoder \in Decoders
      /\ q \in Seq(Event) /\ q # <<>> /\ outputQ' = Tail(q) /\ UNCHANGED <<pipe, window>>
      /\ worker'.e = e /\ e # 0
  BY <1>1, TakeIs DEF ConsumeEvent, Typed, WorkerType, ReadType, toolVars, history
<1>3. /\ \A r \in Streams \ {s} : decoder'.held[r] = decoder.held[r]
      /\ c # EOF /\ s \in decoder.fenced => decoder' = decoder
      /\ c # EOF /\ s \notin decoder.fenced => decoder' = Consumed(decoder, s, c)
      /\ c = EOF => /\ decoder'.started = decoder.started /\ decoder'.fenced = decoder.fenced
                    /\ decoder'.held[s] = None
      /\ decoder.fenced \subseteq decoder.started
  BY TakeIs DEF Typed, WorkerSound
<1>4. Head(q) = [stream |-> s, chunk |-> c] /\ Head(q) = q[1]
  <2>1. Head(q) \in Event /\ Head(q) = q[1] BY <1>2, TailIs
  <2>2. Head(q) = [stream |-> Head(q).stream, chunk |-> Head(q).chunk] BY <2>1 DEF Event
  <2>. QED BY <1>1, <2>1, <2>2
<1>. HIDE DEF s, c
<1>5. /\ n \in Nat \ {0} /\ DOMAIN q = 1..n /\ DOMAIN outputQ' = 1..(n - 1) /\ Len(outputQ') = n - 1
      /\ \A i \in 1..(n - 1) : outputQ'[i] = q[i + 1]
  BY <1>1, <1>2, TailIs
<1>6. ASSUME NEW x
      PROVE  \A i \in 0..(n - 1) : Among(x, q, i + 1) <=> Among(x, outputQ', i) \/ Head(q) = x
  <2>1. \A i \in 0..(Len(q) - 1) : Among(x, q, i + 1) <=> Among(x, Tail(q), i) \/ Head(q) = x
    BY <1>2, AmongTail
  <2>. QED BY <1>1, <1>2, <2>1
<1>7. /\ \A i \in 1..n : q[i].stream = t /\ q[i].chunk # EOF =>
           /\ Opened(t, i) /\ ~Fenced(t, i - 1) => q[i].chunk.e = e
           /\ Named(q[i].chunk) => Opened(t, i) /\ ~Fenced(t, i - 1)
      /\ decoder.held[t].e = e => t \in decoder.started \ decoder.fenced
      /\ t \in decoder.started \ decoder.fenced => decoder.held[t] \in {None, Chunk("user", e)}
  BY <1>1, <1>5 DEF OwnBetween
<1>8. \A x : Among(x, q, 1) <=> Head(q) = x
  BY <1>4 DEF Among
<1>9. \A x : ~Among(x, q, 0) BY DEF Among
\* A fence that finds the window of its stream unopened: no START follows it.
<1>14. CASE s = t /\ c = Chunk("fence", e) /\ t \notin decoder.started
  <2>1. /\ t \notin decoder.fenced /\ c \in Chunks /\ c # EOF
        /\ decoder' = Consumed(decoder, t, c) /\ IsRecord(c) /\ c.kind = "fence"
    <3>1. c.kind = "fence" /\ c.e = e /\ c # EOF BY <1>14 DEF Chunk, EOF
    <3>. QED BY <1>1, <1>2, <1>3, <1>14, <3>1 DEF IsRecord
  <2>2. t \notin decoder'.started /\ t \notin decoder'.fenced /\ decoder'.held[t] = None
    BY <1>2, <1>14, <2>1, ConsumedIs
  <2>3. ASSUME NEW i \in 1..n PROVE Fenced(t, i)
    <3>1. Among(FenceOf(t), outputQ, i)
      <4>1. 1 \in 1..i /\ outputQ[1] = FenceOf(t) BY <1>1, <1>4, <1>14 DEF FenceOf
      <4>. QED BY <4>1 DEF Among
    <3>. QED BY <3>1 DEF Fenced
  <2>4. ASSUME NEW i \in 1..n, q[i].stream = t, q[i].chunk # EOF PROVE ~Named(q[i].chunk)
    <3>1. CASE i = 1
      <4>1. q[1].chunk = c BY <1>4
      <4>. QED BY <2>1, <3>1, <4>1 DEF Named
    <3>2. CASE i # 1
      <4>1. i - 1 \in 1..n BY <1>5, <3>2
      <4>. QED BY <1>7, <2>3, <2>4, <4>1
    <3>. QED BY <3>1, <3>2
  <2>5. /\ Named(Chunk("start", e)) /\ Chunk("start", e) # EOF
        /\ Chunk("start", worker'.e) = Chunk("start", e)
    BY <1>1, <1>2 DEF Named, Chunk, EOF
  <2>6. \A i \in 1..n : q[i] # [stream |-> t, chunk |-> Chunk("start", e)] BY <2>4, <2>5
  <2>7. ASSUME NEW i \in 0..(n - 1) PROVE ~Opened(t, i)'
    <3>1. \A k \in 1..i : outputQ'[k] # [stream |-> t, chunk |-> Chunk("start", e)]
      BY <1>5, <2>6
    <3>2. ~Among([stream |-> t, chunk |-> Chunk("start", e)], outputQ', i) BY <3>1 DEF Among
    <3>. QED BY <2>2, <2>5, <3>2 DEF Opened, StartOf
  <2>8. \A i : FencedInPipe(t, i)
    <3>1. Len(outputQ) \in 1..n BY <1>1, <1>5
    <3>. QED BY <2>3, <3>1 DEF FencedInPipe
  <2>9. pipe[t] \in Seq(Chunks) BY DEF Typed, ReadType
  <2>10. \A i \in DOMAIN pipe[t] : ~Named(pipe[t][i]) BY <2>8 DEF OwnBetween
  <2>11. ASSUME NEW i \in 0..Len(pipe[t]) PROVE ~OpenedInPipe(t, i)'
    <3>1. \A k \in 1..i : k \in DOMAIN pipe[t] BY <2>9
    <3>2. \A k \in 1..i : pipe[t][k] # Chunk("start", e) BY <2>5, <2>10, <3>1
    <3>3. ~Among(Chunk("start", e), pipe[t], i) BY <3>2 DEF Among
    <3>4. ~Opened(t, Len(outputQ))'
      <4>1. n - 1 \in 0..(n - 1) /\ Len(outputQ') = n - 1 BY <1>5
      <4>2. ~Opened(t, n - 1)' BY <2>7, <4>1
      <4>. QED BY <4>1, <4>2 DEF Opened
    <3>. QED BY <1>2, <2>5, <3>3, <3>4 DEF OpenedInPipe
  <2>12. window[t] # e BY <1>1, <2>8 DEF OwnBetween
  <2>13. \A x : Named(x)' <=> Named(x) BY <1>1, <1>2 DEF Named
  <2>14. \A i \in DOMAIN outputQ' : outputQ'[i].stream = t /\ outputQ'[i].chunk # EOF =>
           ~Opened(t, i)' /\ ~Named(outputQ'[i].chunk)
    <3>1. \A i \in 1..(n - 1) : i \in 0..(n - 1) /\ i + 1 \in 1..n BY <1>5
    <3>. QED BY <1>5, <2>4, <2>7, <3>1
  <2>15. \A i \in DOMAIN pipe'[t] : ~OpenedInPipe(t, i)' /\ ~Named(pipe'[t][i])
    <3>1. \A i \in DOMAIN pipe[t] : i \in 0..Len(pipe[t]) BY <2>9
    <3>. QED BY <1>2, <2>10, <2>11, <3>1
  <2>16. ~OpenedInPipe(t, Len(pipe[t]))'
    <3>1. PICK m \in Nat : m = Len(pipe[t]) BY <2>9
    <3>2. ~OpenedInPipe(t, m)' BY <2>11, <3>1
    <3>3. Len(pipe[t])' = m BY <1>2, <3>1
    <3>. QED BY <3>2, <3>3 DEF OpenedInPipe
  <2>17. None.e = 0 BY DEF None
  <2>. QED BY <1>2, <2>2, <2>12, <2>14, <2>15, <2>16, <2>17 DEF OwnBetween, Named
<1>15. SUFFICES ASSUME ~(s = t /\ c = Chunk("fence", e) /\ t \notin decoder.started)
                PROVE  OwnBetween(t)'
  BY <1>14
\* The head counts as taken, or is with the decoder.
<1>10. /\ t \in decoder'.started
            <=> t \in decoder.started \/ Head(q) = [stream |-> t, chunk |-> Chunk("start", e)]
       /\ t \in decoder'.fenced
            <=> t \in decoder.fenced \/ Head(q) = [stream |-> t, chunk |-> Chunk("fence", e)]
       /\ decoder'.held[t].e = e => t \in decoder'.started \ decoder'.fenced
       /\ t \in decoder'.started \ decoder'.fenced => decoder'.held[t] \in {None, Chunk("user", e)}
  <2>0. Chunk("start", e).e = e /\ Chunk("fence", e).e = e BY DEF Chunk
  <2>1. CASE c = EOF
    <3>1. EOF # Chunk("start", e) /\ EOF # Chunk("fence", e) BY DEF EOF, Chunk
    <3>2. /\ Head(q) # [stream |-> t, chunk |-> Chunk("start", e)]
          /\ Head(q) # [stream |-> t, chunk |-> Chunk("fence", e)]
      BY <1>4, <2>1, <3>1
    <3>3. None.e = 0 BY DEF None
    <3>. QED BY <1>2, <1>3, <1>7, <2>1, <3>2, <3>3
  <2>2. CASE c # EOF /\ s # t
    <3>1. /\ Head(q) # [stream |-> t, chunk |-> Chunk("start", e)]
          /\ Head(q) # [stream |-> t, chunk |-> Chunk("fence", e)]
      BY <1>4, <2>2
    <3>2. c \in Chunks BY <1>2, <2>2
    <3>3. /\ t \in decoder'.started <=> t \in decoder.started
          /\ t \in decoder'.fenced <=> t \in decoder.fenced
      BY <1>2, <1>3, <2>2, <3>2, ConsumedIs
    <3>. QED BY <1>2, <1>3, <1>7, <2>2, <3>1, <3>3
  <2>3. CASE c # EOF /\ s = t
    <3>1. /\ Head(q) = [stream |-> t, chunk |-> Chunk("start", e)] <=> c = Chunk("start", e)
          /\ Head(q) = [stream |-> t, chunk |-> Chunk("fence", e)] <=> c = Chunk("fence", e)
      BY <1>4, <2>3
    <3>2. /\ (t \in decoder.started \/ c = Chunk("start", e)) /\ t \notin decoder.fenced => c.e = e
          /\ Named(c) => (t \in decoder.started \/ c = Chunk("start", e)) /\ t \notin decoder.fenced
      <4>1. q[1].stream = t /\ q[1].chunk = c /\ 1 \in 1..n BY <1>4, <1>5, <2>3
      <4>2. /\ Opened(t, 1) /\ ~Fenced(t, 1 - 1) => c.e = e
            /\ Named(c) => Opened(t, 1) /\ ~Fenced(t, 1 - 1)
        BY <1>7, <2>3, <4>1
      <4>3. /\ Opened(t, 1)
                 <=> t \in decoder.started \/ Head(q) = [stream |-> t, chunk |-> Chunk("start", e)]
            /\ Fenced(t, 0) <=> t \in decoder.fenced
        BY <1>1, <1>8, <1>9 DEF Opened, Fenced, StartOf, FenceOf
      <4>4. 1 - 1 = 0 OBVIOUS
      <4>. QED BY <3>1, <4>2, <4>3, <4>4
    <3>3. CASE t \in decoder.fenced
      <4>1. decoder' = decoder /\ t \in decoder.started BY <1>3, <2>3, <3>3
      <4>. QED BY <1>7, <3>1, <3>3, <4>1
    <3>4. CASE t \notin decoder.fenced
      <4>1. c \in Chunks /\ decoder' = Consumed(decoder, t, c) BY <1>2, <1>3, <2>3, <3>4
      <4>2. /\ decoder'.held[t] = (IF IsRecord(c) THEN None
                                   ELSE Chunk("user", IF c.kind = "user" THEN c.e ELSE 0))
            /\ t \in decoder'.started <=> t \in decoder.started \/ (IsRecord(c) /\ c.kind = "start")
            /\ t \in decoder'.fenced <=>
                 t \in decoder.fenced \/ (IsRecord(c) /\ c.kind = "fence" /\ t \in decoder.started)
        BY <1>2, <4>1, ConsumedIs
      <4>3. IsRecord(c) <=> c.kind # "user" /\ c.e = e BY <1>1 DEF IsRecord
      <4>4. /\ c.kind = "start" /\ c.e = e <=> c = Chunk("start", e)
            /\ c.kind = "fence" /\ c.e = e <=> c = Chunk("fence", e)
        BY <4>1 DEF Chunks, Chunk
      <4>5. Chunk("start", e) # Chunk("fence", e) BY DEF Chunk
      <4>6. /\ t \in decoder'.started <=> t \in decoder.started \/ c = Chunk("start", e)
            /\ t \in decoder'.fenced <=> c = Chunk("fence", e)
        BY <1>15, <2>3, <3>4, <4>2, <4>3, <4>4, <4>5
      <4>7. CASE IsRecord(c)
        <5>1. decoder'.held[t] = None /\ None.e = 0 BY <4>2, <4>7 DEF None
        <5>. QED BY <1>2, <3>1, <3>4, <4>6, <5>1
      <4>8. CASE ~IsRecord(c)
        <5>1. c # Chunk("fence", e) /\ c # Chunk("start", e) BY <4>3, <4>4, <4>8
        <5>2. decoder'.held[t] = Chunk("user", IF c.kind = "user" THEN c.e ELSE 0)
          BY <4>2, <4>8
        <5>3. decoder'.held[t].e = IF c.kind = "user" THEN c.e ELSE 0
          BY <5>2 DEF Chunk
        <5>4. ASSUME decoder'.held[t].e = e PROVE t \in decoder'.started \ decoder'.fenced
          <6>1. c.kind = "user" /\ c.e = e BY <1>2, <5>3, <5>4
          <6>2. Named(c) BY <1>1, <6>1 DEF Named
          <6>. QED BY <3>2, <4>6, <5>1, <6>2
        <5>5. ASSUME t \in decoder'.started \ decoder'.fenced
              PROVE decoder'.held[t] = Chunk("user", e)
          <6>1. c.e = e BY <3>2, <3>4, <4>6, <5>5
          <6>2. c.kind = "user" BY <4>3, <4>8, <6>1
          <6>. QED BY <5>2, <6>1, <6>2
        <5>. QED BY <3>1, <3>4, <4>6, <5>1, <5>4, <5>5
      <4>. QED BY <4>7, <4>8
    <3>. QED BY <3>3, <3>4
  <2>. QED BY <2>1, <2>2, <2>3
<1>11. /\ \A i \in 0..(n - 1) : Opened(t, i)' <=> Opened(t, i + 1)
       /\ \A i \in 0..(n - 1) : Fenced(t, i)' <=> Fenced(t, i + 1)
  <2>1. /\ \A i : Opened(t, i)' <=> t \in decoder'.started
                    \/ Among([stream |-> t, chunk |-> Chunk("start", e)], outputQ', i)
        /\ \A i : Fenced(t, i)' <=> t \in decoder'.fenced
                    \/ Among([stream |-> t, chunk |-> Chunk("fence", e)], outputQ', i)
        /\ \A i : Opened(t, i) <=> t \in decoder.started
                    \/ Among([stream |-> t, chunk |-> Chunk("start", e)], q, i)
        /\ \A i : Fenced(t, i) <=> t \in decoder.fenced
                    \/ Among([stream |-> t, chunk |-> Chunk("fence", e)], q, i)
    BY <1>1, <1>2 DEF Opened, Fenced, StartOf, FenceOf, Chunk
  <2>. QED BY <1>6, <1>10, <2>1
<1>12. /\ \A i : OpenedInPipe(t, i)' <=> OpenedInPipe(t, i)
       /\ \A i : FencedInPipe(t, i)' <=> FencedInPipe(t, i)
  <2>1. n - 1 \in 0..(n - 1) /\ (n - 1) + 1 = n BY <1>5
  <2>2. /\ Opened(t, n - 1)' <=> Opened(t, n)
        /\ Fenced(t, n - 1)' <=> Fenced(t, n)
    BY <1>11, <2>1
  <2>. QED BY <1>1, <1>2, <1>5, <2>2 DEF OpenedInPipe, FencedInPipe, Chunk
<1>16. \A x : Named(x)' <=> Named(x) BY <1>1, <1>2 DEF Named
<1>13. \A i \in DOMAIN outputQ' : outputQ'[i].stream = t /\ outputQ'[i].chunk # EOF =>
         /\ Opened(t, i)' /\ ~Fenced(t, i - 1)' => outputQ'[i].chunk.e = worker'.e
         /\ Named(outputQ'[i].chunk) => Opened(t, i)' /\ ~Fenced(t, i - 1)'
  <2>1. \A i \in 1..(n - 1) : /\ i + 1 \in 1..n /\ (i + 1) - 1 = (i - 1) + 1
                              /\ i \in 0..(n - 1) /\ i - 1 \in 0..(n - 1)
    BY <1>5
  <2>. QED BY <1>2, <1>5, <1>7, <1>11, <2>1
<1>. QED BY <1>1, <1>2, <1>10, <1>12, <1>13, <1>16 DEF OwnBetween, Named, Chunk

\* Which operation is which.
LEMMA OpIs ==
  ASSUME lang \in {"tcl", "shell"}, NEW p \in 0..(LastOp - 1)
  PROVE  /\ CodeOps \in Nat \ {0} /\ LastOp = CodeOps + 6 /\ Op(p + 1) \in Ops
         /\ Op(p + 1) = "startErr" <=> p = 0
         /\ Op(p + 1) = "startOut" <=> p = 1
         /\ Op(p + 1) = "user" <=> p \in 2..(CodeOps + 1)
         /\ Op(p + 1) = "capture" <=> p = CodeOps + 2
         /\ Op(p + 1) = "status" <=> p = CodeOps + 3
         /\ Op(p + 1) = "fenceErr" <=> p = CodeOps + 4
         /\ Op(p + 1) = "fenceOut" <=> p = CodeOps + 5
<1>1. CodeOps \in Nat \ {0} /\ LastOp = CodeOps + 6 BY ScriptIs
<1>2. CASE p = 0 BY <1>1, <1>2 DEF Op, Ops
<1>3. CASE p = 1 BY <1>1, <1>3 DEF Op, Ops
<1>4. CASE p \in 2..(CodeOps + 1) BY <1>1, <1>4 DEF Op, Ops
<1>5. CASE p = CodeOps + 2 BY <1>1, <1>5 DEF Op, Ops
<1>6. CASE p = CodeOps + 3 BY <1>1, <1>6 DEF Op, Ops
<1>7. CASE p = CodeOps + 4 BY <1>1, <1>7 DEF Op, Ops
<1>8. CASE p = CodeOps + 5 BY <1>1, <1>8 DEF Op, Ops
<1>. QED BY <1>1, <1>2, <1>3, <1>4, <1>5, <1>6, <1>7, <1>8

\* Where the interpreter stands before its next operation, if it carries out a line of the
\* worker's execution.
LEMMA BeforeOp ==
  ASSUME Typed, Progress, Executing, tool.alive, tool.ops # <<>>, tool.e = worker.e
  PROVE  \E n \in 1..Len(Pieces), p \in 0..(LastOp - 1) :
           /\ Reads(n) /\ Done(n, p) /\ Shows(n, p)
           /\ Head(tool.ops) = Op(p + 1) /\ p + 1 <= OpsIn(n)
           /\ OpsIn(n) \in 0..LastOp /\ LastOp \in Nat
<1>. USE DEF Typed
<1>1. PICK n \in 0..Len(Pieces), p \in 0..LastOp : Reads(n) /\ Done(n, p) /\ Shows(n, p)
  BY DEF Progress
<1>2. Len(Pieces) \in Nat \ {0} /\ LastOp \in Nat /\ tool.ops \in Seq(Ops)
  BY PiecesAre, ScriptIs DEF ToolType
<1>3. n # 0 /\ p + Len(tool.ops) <= OpsIn(n) /\ \A i \in DOMAIN tool.ops : tool.ops[i] = Op(p + i)
  BY <1>1 DEF Done
<1>4. n \in 1..Len(Pieces) BY <1>2, <1>3
<1>5. OpsIn(n) \in 0..LastOp BY <1>4, LineHas DEF ToolType
<1>6. Len(tool.ops) \in Nat \ {0} /\ DOMAIN tool.ops = 1..Len(tool.ops)
        /\ Head(tool.ops) = tool.ops[1]
  BY <1>2, TailIs
<1>7. Head(tool.ops) = Op(p + 1) BY <1>3, <1>6
<1>8. p + 1 <= OpsIn(n) /\ p \in 0..(LastOp - 1) BY <1>2, <1>3, <1>5, <1>6
<1>. QED BY <1>1, <1>2, <1>4, <1>5, <1>7, <1>8

\* While the interpreter carries out anything but code of another execution, nothing of this
\* one shows.
LEMMA ElsewhereIs ==
  ASSUME Typed, Progress, Unread, Executing, tool.alive, tool.ops # <<>>, tool.e # worker.e,
         lang = "tcl" \/ Head(tool.ops) # "user"
  PROVE  \A s \in Streams : Untouched(s)
<1>. USE DEF Typed
<1>1. PICK n \in 0..Len(Pieces), p \in 0..LastOp : Reads(n) /\ Done(n, p) /\ Shows(n, p)
  BY DEF Progress
<1>2. tool.e # 0 /\ LastOp \in Nat BY ScriptIs DEF ToolType
<1>3. CASE n = 0
  <2>1. p = 0 BY <1>1, <1>3 DEF Done, OpsIn
  <2>. QED BY <1>1, <2>1 DEF Shows, Opens
<1>4. CASE n # 0
  <2>1. lang = "tcl" /\ robbed
    <3>1. Head(<<"user">>) = "user" OBVIOUS
    <3>. QED BY <1>1, <1>2, <1>4, <3>1 DEF Reads, ToolType
  <2>. QED BY <2>1 DEF Unread
<1>. QED BY <1>3, <1>4

\* The first line in stdin is the next one of the worker's execution, or none of it has been
\* taken out yet.
LEMMA HeadIsNext ==
  ASSUME Typed, NEW n \in 0..Len(Pieces), Reads(n), stdin # <<>>, worker.e # 0
  PROVE  /\ Head(stdin) = stdin[1] /\ stdin[1] \in Line
         /\ Head(stdin).e = worker.e =>
              /\ n + 1 \in 1..Len(Pieces) /\ SentLines - n = Len(stdin)
              /\ Head(stdin) = Block(worker.e)[n + 1] /\ Head(stdin).ops = Pieces[n + 1]
         /\ Head(stdin).e # worker.e => n = 0 /\ SentLines - n < Len(stdin)
<1>. USE DEF Typed
<1>1. /\ stdin \in Seq(Line) /\ Len(stdin) \in Nat \ {0} /\ DOMAIN stdin = 1..Len(stdin)
      /\ Head(stdin) = stdin[1] /\ stdin[1] \in Line
  <2>1. stdin \in Seq(Line) BY DEF ToolType
  <2>. QED BY <2>1, TailIs
<1>0. Len(Pieces) \in Nat /\ Len(worker.unsent) \in Nat
  BY PiecesAre DEF ToolType, WorkerType
<1>2. PICK m : m = SentLines OBVIOUS
<1>3. m \in Int /\ m <= Len(Pieces) /\ Len(Pieces) \in Nat
  <2>1. m = Len(Pieces) - Len(worker.unsent) BY <1>2 DEF SentLines
  <2>. QED BY <1>0, <2>1
<1>4. /\ n \in 0..m /\ m - n <= Len(stdin) /\ (m - n < Len(stdin) => n = 0)
      /\ IF 1 > Len(stdin) - (m - n)
         THEN stdin[1] = Block(worker.e)[m - Len(stdin) + 1]
         ELSE stdin[1].e # worker.e
  BY <1>1, <1>2 DEF Reads, Lines
<1>5. worker.e \in Execs BY DEF WorkerType, Execs
<1>6. \A i \in 1..Len(Pieces) : Block(worker.e)[i] = [e |-> worker.e, ops |-> Pieces[i]]
  BY <1>5, BlockIs DEF ToolType
<1>7. CASE m - n = Len(stdin)
  <2>1. m - Len(stdin) + 1 = n + 1 /\ n + 1 \in 1..Len(Pieces) /\ 1 > Len(stdin) - (m - n)
    BY <1>1, <1>3, <1>4, <1>7
  <2>2. stdin[1] = Block(worker.e)[n + 1] BY <1>4, <2>1
  <2>3. Block(worker.e)[n + 1] = [e |-> worker.e, ops |-> Pieces[n + 1]] BY <1>6, <2>1
  <2>4. stdin[1].e = worker.e /\ stdin[1].ops = Pieces[n + 1] BY <2>2, <2>3
  <2>5. SentLines - n = Len(stdin) BY <1>2, <1>7
  <2>. HIDE DEF SentLines
  <2>. QED BY <1>1, <2>1, <2>2, <2>4, <2>5
<1>8. CASE m - n < Len(stdin)
  <2>1. ~(1 > Len(stdin) - (m - n)) /\ n = 0 BY <1>1, <1>3, <1>4, <1>8
  <2>2. stdin[1].e # worker.e BY <1>4, <2>1
  <2>3. SentLines - n < Len(stdin) BY <1>2, <1>8
  <2>. HIDE DEF SentLines
  <2>. QED BY <1>1, <2>1, <2>2, <2>3
<1>9. m - n = Len(stdin) \/ m - n < Len(stdin) BY <1>1, <1>3, <1>4
<1>. QED BY <1>7, <1>8, <1>9

\* Only a line of a shell's block can be one record.
LEMMA OneIsShell ==
  ASSUME Typed, Unread, stdin # <<>>, NEW op, Head(stdin).ops = <<op>>
  PROVE  lang = "shell"
<1>. USE DEF Typed
<1>1. SUFFICES ASSUME lang = "tcl" PROVE FALSE BY DEF ToolType
<1>2. Head(stdin) = stdin[1] /\ 1 \in DOMAIN stdin BY TailIs DEF ToolType
<1>3. <<op>> = Script BY <1>1, <1>2 DEF Unread, OneLine
<1>4. Len(Script) = LastOp /\ LastOp = CodeOps + 6 /\ CodeOps \in Nat BY ScriptIs DEF ToolType
<1>. HIDE DEF Script, LastOp
<1>5. Len(<<op>>) = Len(Script) BY <1>3
<1>6. Len(<<op>>) = 1 OBVIOUS
<1>7. LastOp = 1 BY <1>4, <1>5, <1>6
<1>8. CodeOps + 6 = 1 BY <1>4, <1>7
<1>. QED BY <1>4, <1>8

\* A record of another execution finds the window of its stream without this one, and a START of
\* this one finds nothing of it.
LEMMA MarksFit ==
  ASSUME Typed, WorkerSound, Progress, Unread, Executing, NEW op \in Marks, NEW e \in Execs,
         \/ WriteMark /\ tool.ops # <<>> /\ op = Head(tool.ops) /\ e = tool.e
         \/ /\ TakeLine /\ Head(stdin).ops = <<op>> /\ e = Head(stdin).e
            /\ op \in {"startOut", "fenceOut"}
  PROVE  /\ e # worker.e => window[StreamOf(op)] # worker.e
         /\ e = worker.e /\ op \in {"startErr", "startOut"} => Untouched(StreamOf(op))
<1>. USE DEF Typed
<1>0. /\ StreamOf(op) \in Streams
      /\ op = "startErr" => StreamOf(op) = "stderr"
      /\ op = "startOut" => StreamOf(op) = "stdout"
  BY DEF StreamOf, Streams
<1>1. CASE WriteMark /\ tool.ops # <<>> /\ op = Head(tool.ops) /\ e = tool.e
  <2>1. tool.alive /\ op # "user" BY <1>1 DEF WriteMark, Doing, Marks
  <2>2. CASE e # worker.e
    <3>1. Untouched(StreamOf(op)) BY <1>0, <1>1, <2>1, <2>2, ElsewhereIs
    <3>. QED BY <2>2, <3>1 DEF Untouched
  <2>3. CASE e = worker.e
    <3>1. PICK n \in 1..Len(Pieces), p \in 0..(LastOp - 1) : Shows(n, p) /\ op = Op(p + 1)
      BY <1>1, <2>1, <2>3, BeforeOp
    <3>2. (op = "startErr" => p = 0) /\ (op = "startOut" => p = 1)
      BY <3>1, OpIs DEF ToolType
    <3>3. op \in {"startErr", "startOut"} => p < Opens(StreamOf(op)) BY <1>0, <3>2 DEF Opens
    <3>. QED BY <1>0, <2>3, <3>1, <3>3 DEF Shows
  <2>. QED BY <2>2, <2>3
<1>2. CASE /\ TakeLine /\ Head(stdin).ops = <<op>> /\ e = Head(stdin).e
           /\ op \in {"startOut", "fenceOut"}
  <2>1. stdin # <<>> /\ stdin \in Seq(Line) BY <1>2 DEF TakeLine, ToolType
  <2>3. lang = "shell" BY <1>2, <2>1, OneIsShell
  <2>4. tool.alive /\ tool.ops # <<>> /\ Head(tool.ops) = "user" /\ tool.ops \in Seq(Ops)
    BY <1>2, <2>3 DEF TakeLine, InUserCode, Doing, ToolType
  <2>5. PICK n \in 0..Len(Pieces), p \in 0..LastOp : Reads(n) /\ Done(n, p) /\ Shows(n, p)
    BY <2>4 DEF Progress
  <2>6. worker.e # 0 BY DEF WorkerSound
  <2>7. LastOp = CodeOps + 6 /\ CodeOps \in Nat \ {0} /\ Len(Pieces) = LastOp
    BY <2>3, PiecesAre, ScriptIs DEF ToolType
  <2>8. CASE e # worker.e
    <3>1. n = 0 BY <1>2, <2>1, <2>5, <2>6, <2>8, HeadIsNext
    <3>2. p = 0
      <4>1. OpsIn(0) = 0 BY DEF OpsIn
      <4>. QED BY <2>5, <3>1, <4>1 DEF Done
    <3>3. 0 < Opens(StreamOf(op)) BY DEF Opens
    <3>4. Untouched(StreamOf(op)) BY <1>0, <2>5, <3>2, <3>3 DEF Shows
    <3>. QED BY <2>8, <3>4 DEF Untouched
  <2>9. CASE e = worker.e /\ op = "startOut"
    <3>1. n + 1 \in 1..Len(Pieces) /\ Pieces[n + 1] = <<op>>
      BY <1>2, <2>1, <2>5, <2>6, <2>9, HeadIsNext
    <3>2. Pieces[n + 1] = <<Script[n + 1]>> /\ Script[n + 1] = Op(n + 1)
      BY <2>3, <2>7, <3>1, PiecesAre, ScriptIs
    <3>3. Op(n + 1) = "startOut" /\ n \in 0..(LastOp - 1)
      <4>1. <<Op(n + 1)>>[1] = <<op>>[1] BY <3>1, <3>2
      <4>. QED BY <2>7, <2>9, <3>1, <4>1
    <3>4. n = 1 BY <3>3, OpIs DEF ToolType
    <3>5. OpsIn(1) = 1 BY <2>3 DEF OpsIn
    <3>6. CASE tool.e # worker.e
      <4>1. p = 1 BY <2>5, <3>4, <3>5, <3>6 DEF Done
      <4>2. 1 < Opens("stdout") BY DEF Opens
      <4>. QED BY <1>0, <2>5, <2>9, <4>1, <4>2 DEF Shows
    <3>7. CASE tool.e = worker.e
      <4>1. Len(tool.ops) \in Nat \ {0} /\ 1 \in DOMAIN tool.ops /\ Head(tool.ops) = tool.ops[1]
        BY <2>4, TailIs
      <4>2. p + Len(tool.ops) <= 1 /\ tool.ops[1] = Op(p + 1)
        BY <2>5, <3>4, <3>5, <3>7, <4>1 DEF Done
      <4>3. p = 0 BY <2>7, <4>1, <4>2
      <4>4. Op(p + 1) # "user"
        <5>1. 0 \in 0..(LastOp - 1) BY <2>7
        <5>2. Op(0 + 1) = "startErr" BY <5>1, OpIs DEF ToolType
        <5>. QED BY <4>3, <5>2
      <4>. QED BY <2>4, <4>1, <4>2, <4>4
    <3>. QED BY <3>6, <3>7
  <2>. QED BY <1>2, <2>8, <2>9
<1>. QED BY <1>1, <1>2

\* What an execution finds when it begins: nothing has its name.
LEMMA FreshIs ==
  ASSUME Typed, NamesKnown, NEW e \in Execs, ~Known(e)
  PROVE  /\ tool.e # e /\ \A i \in DOMAIN stdin : stdin[i].e # e
         /\ \A i \in DOMAIN outputQ : outputQ[i].chunk.e # e
         /\ \A s \in Streams : window[s] # e /\ \A i \in DOMAIN pipe[s] : pipe[s][i].e # e
BY DEF NamesKnown

\* An execution begins under a name that was never given out.
LEMMA BeginsFresh ==
  ASSUME Typed, NamesKnown, ExecutePrepared \/ ExecuteInMemory
  PROVE  \E e \in Execs, kind \in {"file", "memory"} : At("idle") /\ Begin(e, kind) /\ ~Known(e)
<1>1. prepared \in 0..MaxExecs /\ nextId \in 0..MaxExecs /\ MaxExecs \in Nat /\ prepared <= nextId
  BY ConsoleAssumption DEF Typed, WorkerType, NamesKnown
<1>2. CASE ExecutePrepared
  BY <1>1, <1>2 DEF ExecutePrepared, Known, Execs
<1>3. CASE ExecuteInMemory
  BY <1>1, <1>3 DEF ExecuteInMemory, Known, Execs
<1>. QED BY <1>2, <1>3

\* Before its first record nothing has the name of the execution.
LEMMA BeginIsBetween ==
  ASSUME Typed, NamesKnown, NEW e \in Execs, NEW kind, Begin(e, kind), ~Known(e),
         NEW s \in Streams
  PROVE  OwnBetween(s)'
<1>1. /\ worker'.e = e /\ decoder'.held[s] = None /\ None.e = 0 /\ e # 0
      /\ s \notin decoder'.started /\ s \notin decoder'.fenced
      /\ UNCHANGED <<outputQ, pipe, window>>
  BY DEF Begin, FreshDecoder, None, Execs, readVars, toolVars, history
<1>2. /\ \A i \in DOMAIN outputQ : outputQ[i].chunk.e # e
      /\ window[s] # e /\ \A i \in DOMAIN pipe[s] : pipe[s][i].e # e
  BY FreshIs
<1>3. /\ outputQ \in Seq(Event) /\ DOMAIN outputQ = 1..Len(outputQ) /\ Len(outputQ) \in Nat
      /\ pipe[s] \in Seq(Chunks) /\ DOMAIN pipe[s] = 1..Len(pipe[s]) /\ Len(pipe[s]) \in Nat
  BY DEF Typed, ReadType
<1>4. \A i \in 0..Len(outputQ) : ~Opened(s, i)'
  BY <1>1, <1>2, <1>3 DEF Opened, StartOf, Among, Chunk
<1>5. \A i \in 0..Len(pipe[s]) : ~OpenedInPipe(s, i)'
  BY <1>1, <1>2, <1>3, <1>4 DEF OpenedInPipe, Among, Chunk
<1>7. ~OpenedInPipe(s, Len(pipe[s]))'
  <2>1. PICK n \in Nat : n = Len(pipe[s]) BY <1>3
  <2>2. Len(pipe[s])' = n BY <1>1, <2>1
  <2>. QED BY <1>5, <2>1, <2>2
<1>. QED BY <1>1, <1>2, <1>3, <1>4, <1>5, <1>7 DEF OwnBetween, Named

\* With these steps the worker has no decoder, or no more.
LEMMA NotDecoding ==
  ASSUME Typed, Finish \/ Reply \/ CloseExecutor \/ CloseTakes \/ ProcessEnds
  PROVE  ~Decoding'
<1>0. worker \in [pc : Steps, e : 0..MaxExecs, unsent : Seq(Line), reason : Losses]
  BY DEF Typed, WorkerType
<1>1. worker'.pc \in {"reply", "idle", "close", "closed"}
  <2>1. CASE Finish BY <1>0, <2>1 DEF Finish
  <2>2. CASE Reply BY <1>0, <2>2 DEF Reply
  <2>3. CASE CloseExecutor BY <1>0, <2>3 DEF CloseExecutor, Goto
  <2>4. CASE CloseTakes BY <2>4 DEF CloseTakes, At, workerVars
  <2>5. CASE ProcessEnds BY <2>5 DEF ProcessEnds
  <2>. QED BY <2>1, <2>2, <2>3, <2>4, <2>5
<1>. QED BY <1>1 DEF Decoding

\* What has the name of the execution stands between its records, whoever moves.
LEMMA StaysBetween ==
  ASSUME Typed, WorkerSound, NamesKnown, Progress, Unread, Between, Next
  PROVE  Between'
<1>. USE DEF Typed
<1>0. worker \in [pc : Steps, e : 0..MaxExecs, unsent : Seq(Line), reason : Losses]
      /\ window \in [Streams -> 0..MaxExecs]
  BY DEF WorkerType, ToolType
<1>1. Decoding => Executing /\ worker.e # 0 BY DEF Decoding, Executing, WorkerSound
<1>2. ASSUME worker'.e = worker.e, Decoding' => Decoding,
             UNCHANGED <<decoder, outputQ, pipe, window>>
      PROVE  Between'
  BY <1>2, QuietStream DEF Between
<1>3. CASE WriteMark \/ TakeLine
  <2>1. UNCHANGED <<decoder, worker>> BY <1>3 DEF WriteMark, TakeLine, workerVars
  <2>2. CASE TakeLine /\ UNCHANGED <<window, readVars>>
    BY <1>2, <2>1, <2>2 DEF readVars, Decoding
  <2>3. ASSUME NEW op \in Marks, NEW e \in Execs, Mark(op, e), Decoding, NEW t \in Streams,
               \/ WriteMark /\ tool.ops # <<>> /\ op = Head(tool.ops) /\ e = tool.e
               \/ /\ TakeLine /\ Head(stdin).ops = <<op>> /\ e = Head(stdin).e
                  /\ op \in {"startOut", "fenceOut"}
        PROVE  OwnBetween(t)'
    <3>. DEFINE s == StreamOf(op)
                c == Chunk(RecordOf(op), e)
    <3>0. OwnBetween(t) /\ Executing /\ worker.e # 0 BY <1>1, <2>3 DEF Between
    <3>1. /\ s \in Streams /\ c \in Chunks /\ c.e = e /\ Emit(s, c)
          /\ c.kind = IF op \in {"startErr", "startOut"} THEN "start" ELSE "fence"
          /\ window'[s] = IF op \in {"startErr", "startOut"} THEN e ELSE 0
          /\ \A r \in Streams \ {s} : window'[r] = window[r]
      BY <2>3, MarkIs
    <3>2. /\ e # worker.e => window[s] # worker.e
          /\ e = worker.e /\ op \in {"startErr", "startOut"} => Untouched(s)
      BY <2>3, <3>0, MarksFit
    <3>3. c = Chunk(IF op \in {"startErr", "startOut"} THEN "start" ELSE "fence", e)
      BY <2>3 DEF RecordOf
    <3>. HIDE DEF s, c
    <3>4. outputQ' = outputQ /\ \A r \in Streams \ {s} : pipe'[r] = pipe[r]
      BY <3>1 DEF Emit, ReadType
    <3>5. CASE t # s
      BY <2>1, <3>0, <3>1, <3>4, <3>5, QuietStream
    <3>6. CASE t = s /\ e # worker.e
      <4>1. window[s] # worker.e /\ window'[s] # worker.e BY <3>0, <3>1, <3>2, <3>6
      <4>2. ~Named(c) BY <3>1, <3>6 DEF Named
      <4>. QED BY <2>1, <3>0, <3>1, <3>6, <4>1, <4>2, WrittenIsBetween
    <3>7. CASE t = s /\ e = worker.e /\ op \in {"startErr", "startOut"}
      <4>1. Untouched(s) BY <3>2, <3>7
      <4>2. ~FencedInPipe(s, Len(pipe[s]))
        <5>1. s \notin decoder.fenced BY <3>1, <4>1 DEF Untouched, WorkerSound
        <5>2. Chunk("fence", worker.e).e = worker.e /\ Chunk("fence", worker.e).kind = "fence"
              /\ Chunk("fence", worker.e) # EOF
          BY DEF Chunk, EOF
        <5>3. DOMAIN outputQ = 1..Len(outputQ) /\ DOMAIN pipe[s] = 1..Len(pipe[s])
          BY <3>1 DEF ReadType
        <5>4. ~Among(FenceOf(s), outputQ, Len(outputQ))
          BY <4>1, <5>2, <5>3 DEF Untouched, Absent, Among, FenceOf
        <5>5. ~Among(Chunk("fence", worker.e), pipe[s], Len(pipe[s]))
          BY <4>1, <5>2, <5>3 DEF Untouched, Absent, Among
        <5>. QED BY <5>1, <5>4, <5>5 DEF FencedInPipe, Fenced
      <4>3. c = Chunk("start", worker.e) /\ window'[s] = worker.e BY <3>1, <3>3, <3>7
      <4>. QED BY <2>1, <3>0, <3>1, <3>7, <4>2, <4>3, WrittenIsBetween
    <3>8. CASE t = s /\ e = worker.e /\ op \notin {"startErr", "startOut"}
      <4>1. c = Chunk("fence", worker.e) /\ window'[s] # worker.e BY <3>0, <3>1, <3>3, <3>8
      <4>. QED BY <2>1, <3>0, <3>1, <3>8, <4>1, WrittenIsBetween
    <3>. QED BY <3>5, <3>6, <3>7, <3>8
  <2>. QED BY <1>3, <2>1, <2>2, <2>3, MarkersAre DEF Between, Decoding
<1>11. CASE WriteStatus
  <2>. DEFINE c == Chunk(IF edaStatus = tool.e THEN "status" ELSE "stale", tool.e)
  <2>1. /\ tool.alive /\ tool.ops # <<>> /\ Head(tool.ops) # "user" /\ Emit("stdout", c)
        /\ tool.e \in Execs /\ UNCHANGED <<decoder, worker, outputQ, window>>
    BY <1>11 DEF WriteStatus, Doing, workerVars, history, Emit, ToolType, Execs
  <2>2. c \in Chunks /\ c.e = tool.e /\ c.kind \in {"status", "stale"}
    BY <2>1 DEF Chunk, Chunks, Execs
  <2>. HIDE DEF c
  <2>3. "stdout" \in Streams /\ \A t \in Streams \ {"stdout"} : pipe'[t] = pipe[t]
    BY <2>1 DEF Emit, ReadType, Streams
  <2>4. ~Named(c) BY <2>2 DEF Named
  <2>5. ASSUME Decoding, NEW t \in Streams PROVE OwnBetween(t)'
    <3>0. OwnBetween(t) /\ Executing BY <1>1, <2>5 DEF Between
    <3>1. CASE t # "stdout" BY <2>1, <2>3, <3>0, <3>1, QuietStream
    <3>2. CASE t = "stdout"
      <4>1. tool.e # worker.e => window["stdout"] # worker.e
        BY <2>1, <2>3, <3>0, ElsewhereIs DEF Untouched
      <4>. QED BY <2>1, <2>2, <2>3, <2>4, <3>0, <3>2, <4>1, WrittenIsBetween
    <3>. QED BY <3>1, <3>2
  <2>. QED BY <2>1, <2>5 DEF Between, Decoding
<1>4. ASSUME NEW s \in Streams, EmitUnit(s), UNCHANGED <<decoder, worker, window>> PROVE Between'
  <2>1. /\ Emit(s, Chunk("user", window[s])) /\ UNCHANGED <<decoder, worker, outputQ, window>>
        /\ \A t \in Streams \ {s} : pipe'[t] = pipe[t]
    BY <1>4 DEF EmitUnit, Emit, ReadType
  <2>2. /\ Chunk("user", window[s]) \in Chunks /\ Chunk("user", window[s]).e = window[s]
        /\ Chunk("user", window[s]).kind = "user"
    BY <1>0 DEF Chunks, Chunk
  <2>3. ASSUME Decoding, NEW t \in Streams PROVE OwnBetween(t)'
    <3>0. OwnBetween(t) BY <2>3 DEF Between
    <3>1. CASE t # s BY <2>1, <3>0, <3>1, QuietStream
    <3>2. CASE t = s
      <4>1. Named(Chunk("user", window[s])) => window[s] = worker.e BY <2>2 DEF Named
      <4>. QED BY <2>1, <2>2, <3>0, <3>2, <4>1, WrittenIsBetween
    <3>. QED BY <3>1, <3>2
  <2>. QED BY <2>1, <2>3 DEF Between, Decoding
<1>12. ASSUME NEW s \in Streams, PrintUnit(s) PROVE Between'
  BY <1>4, <1>12 DEF PrintUnit, workerVars
<1>13. CASE WriteBlankStatus
  BY <1>4, <1>13 DEF WriteBlankStatus, workerVars, Streams
<1>5. ASSUME NEW s \in Streams, DrainPipe(s) PROVE Between'
  <2>1. UNCHANGED <<decoder, worker, window>> /\ (ReadChunk(s) \/ ReadEof(s))
    BY <1>5 DEF DrainPipe, toolVars, workerVars, history
  <2>. QED BY <2>1, MovedIsBetween, EndIsBetween DEF Between, Decoding
<1>6. CASE TakeEvent \/ DrainEvent
  <2>1. ConsumeEvent /\ Decoding /\ worker'.e = worker.e
    BY <1>0, <1>6 DEF TakeEvent, DrainEvent, Decoding, At
  <2>. QED BY <1>1, <2>1, TakenIsBetween DEF Between
<1>7. CASE ExecutePrepared \/ ExecuteInMemory
  BY <1>7, BeginsFresh, BeginIsBetween DEF Between
<1>8. CASE ReadLine \/ CaptureStatus \/ LeaveChild \/ ChildEnds \/ UserCodeEnds \/ Die
  BY <1>2, <1>8
     DEF ReadLine, CaptureStatus, LeaveChild, ChildEnds, UserCodeEnds, Die, history, workerVars,
         readVars, Decoding
<1>9. CASE PrepareExecution \/ WriteLine \/ StdinBroken \/ NoticeExit \/ Deadline
  <2>1. /\ worker'.e = worker.e /\ (Decoding' => Decoding)
        /\ UNCHANGED <<decoder, outputQ, pipe, window>>
    BY <1>0, <1>9 DEF PrepareExecution, WriteLine, StdinBroken, NoticeExit, Deadline, SameTool,
                      history, toolVars, readVars, Decoding, At
  <2>. QED BY <1>2, <2>1
<1>10. CASE Finish \/ Reply \/ CloseExecutor \/ CloseTakes \/ ProcessEnds
  BY <1>10, NotDecoding DEF Between
<1>. QED
  BY NextIs, <1>3, <1>5, <1>6, <1>7, <1>8, <1>9, <1>10, <1>11, <1>12, <1>13

-----------------------------------------------------------------------------
(* What is not on a stream *)

\* Its block does not change during an execution.
LEMMA SameBlock ==
  ASSUME lang' = lang
  PROVE  /\ Pieces' = Pieces /\ CodeOps' = CodeOps /\ LastOp' = LastOp /\ Script' = Script
         /\ \A e : Block(e)' = Block(e)
         /\ \A n : OpsIn(n)' = OpsIn(n) /\ Op(n)' = Op(n)
         /\ \A s \in Streams : Opens(s)' = Opens(s) /\ Closes(s)' = Closes(s)
         /\ \A s, n, p : Taken(s, n, p)' = Taken(s, n, p)
<1>2. CodeOps' = CodeOps BY DEF CodeOps
<1>0. Script' = Script BY <1>2 DEF Script
<1>1. Pieces' = Pieces BY <1>0 DEF Pieces, Inline
<1>3. LastOp' = LastOp BY <1>2 DEF LastOp
<1>4. \A e : Block(e)' = Block(e) BY <1>1 DEF Block
<1>5. \A n : OpsIn(n)' = OpsIn(n) BY <1>3 DEF OpsIn
<1>6. \A n : Op(n)' = Op(n) BY <1>2 DEF Op
<1>7. \A s \in Streams : Opens(s)' = Opens(s) /\ Closes(s)' = Closes(s)
  BY <1>2, <1>3 DEF Opens, Closes
<1>8. \A s, n, p : Taken(s, n, p)' = Taken(s, n, p) BY <1>2, <1>3 DEF Taken
<1>. QED BY <1>0, <1>1, <1>2, <1>3, <1>4, <1>5, <1>6, <1>7, <1>8

\* What is not there does not come while nobody writes.
LEMMA AbsentSame ==
  ASSUME NEW t \in Streams, NEW kinds, Absent(t, kinds), UNCHANGED <<outputQ, pipe>>,
         worker'.e = worker.e
  PROVE  Absent(t, kinds)'
BY DEF Absent

\* Nor when something else is written.
LEMMA AbsentEmit ==
  ASSUME ReadType, NEW t \in Streams, NEW kinds, Absent(t, kinds), worker'.e = worker.e,
         NEW s \in Streams, NEW c \in Chunks, Emit(s, c),
         s = t => c.e # worker.e \/ c.kind \notin kinds
  PROVE  Absent(t, kinds)'
<1>1. /\ pipe[s] \in Seq(Chunks) /\ pipe'[s] = Append(pipe[s], c) /\ outputQ' = outputQ
      /\ \A r \in Streams \ {s} : pipe'[r] = pipe[r]
  BY DEF Emit, ReadType
<1>2. \A i \in DOMAIN pipe[t] : pipe[t][i].e # worker.e \/ pipe[t][i].kind \notin kinds
  BY DEF Absent
<1>3. \A i \in DOMAIN pipe'[t] : pipe'[t][i].e # worker.e \/ pipe'[t][i].kind \notin kinds
  <2>1. CASE t # s BY <1>1, <1>2, <2>1
  <2>2. CASE t = s
    <3>1. /\ DOMAIN pipe'[s] = 1..(Len(pipe[s]) + 1) /\ DOMAIN pipe[s] = 1..Len(pipe[s])
          /\ Len(pipe[s]) \in Nat /\ pipe'[s][Len(pipe[s]) + 1] = c
          /\ \A i \in 1..Len(pipe[s]) : pipe'[s][i] = pipe[s][i]
      BY <1>1, AppendIs
    <3>2. \A i \in DOMAIN pipe'[s] : i \in 1..Len(pipe[s]) \/ i = Len(pipe[s]) + 1 BY <3>1
    <3>. QED BY <1>2, <2>2, <3>1, <3>2
  <2>. QED BY <2>1, <2>2
<1>. QED BY <1>1, <1>3 DEF Absent

\* Nor when the readers or the main thread move what there is.
LEMMA AbsentRead ==
  ASSUME Typed, NEW t \in Streams, NEW kinds, Absent(t, kinds), worker'.e = worker.e,
         (\E s \in Streams : DrainPipe(s)) \/ ConsumeEvent
  PROVE  Absent(t, kinds)'
<1>. DEFINE Free(c) == c.e # worker.e \/ c.kind \notin kinds
<1>0. outputQ \in Seq(Event) /\ pipe \in [Streams -> Seq(Chunks)] BY DEF Typed, ReadType
<1>1. /\ \A i \in DOMAIN outputQ : outputQ[i].stream = t /\ outputQ[i].chunk # EOF
           => Free(outputQ[i].chunk)
      /\ \A i \in DOMAIN pipe[t] : Free(pipe[t][i])
  BY DEF Absent
<1>. SUFFICES /\ \A i \in DOMAIN outputQ' : outputQ'[i].stream = t /\ outputQ'[i].chunk # EOF
                   => Free(outputQ'[i].chunk)
              /\ \A i \in DOMAIN pipe'[t] : Free(pipe'[t][i])
  BY DEF Absent
<1>. HIDE DEF Free
<1>2. ASSUME NEW y \in Event, outputQ' = Append(outputQ, y),
             y.stream = t /\ y.chunk # EOF => Free(y.chunk)
      PROVE  \A i \in DOMAIN outputQ' : outputQ'[i].stream = t /\ outputQ'[i].chunk # EOF
               => Free(outputQ'[i].chunk)
  <2>1. /\ DOMAIN outputQ' = 1..(Len(outputQ) + 1) /\ DOMAIN outputQ = 1..Len(outputQ)
        /\ Len(outputQ) \in Nat /\ outputQ'[Len(outputQ) + 1] = y
        /\ \A i \in 1..Len(outputQ) : outputQ'[i] = outputQ[i]
    BY <1>0, <1>2, AppendIs
  <2>2. \A i \in DOMAIN outputQ' : i \in 1..Len(outputQ) \/ i = Len(outputQ) + 1 BY <2>1
  <2>. QED BY <1>1, <1>2, <2>1, <2>2
<1>3. ASSUME NEW s \in Streams, ReadChunk(s)
      PROVE  /\ \A i \in DOMAIN outputQ' : outputQ'[i].stream = t /\ outputQ'[i].chunk # EOF
                  => Free(outputQ'[i].chunk)
             /\ \A i \in DOMAIN pipe'[t] : Free(pipe'[t][i])
  <2>. DEFINE y == [stream |-> s, chunk |-> Head(pipe[s])]
  <2>1. pipe[s] # <<>> /\ pipe[s] \in Seq(Chunks) /\ outputQ' = Append(outputQ, y)
        /\ pipe'[s] = Tail(pipe[s]) /\ \A r \in Streams \ {s} : pipe'[r] = pipe[r]
    BY <1>0, <1>3 DEF ReadChunk
  <2>2. /\ Head(pipe[s]) \in Chunks /\ Head(pipe[s]) = pipe[s][1] /\ 1 \in DOMAIN pipe[s]
        /\ DOMAIN Tail(pipe[s]) = 1..(Len(pipe[s]) - 1) /\ DOMAIN pipe[s] = 1..Len(pipe[s])
        /\ Len(pipe[s]) \in Nat
        /\ \A i \in 1..(Len(pipe[s]) - 1) : Tail(pipe[s])[i] = pipe[s][i + 1]
    BY <2>1, TailIs
  <2>3. y \in Event /\ y.stream = s /\ y.chunk = Head(pipe[s]) BY <2>2 DEF Event
  <2>. HIDE DEF y
  <2>4. s = t => Free(y.chunk) BY <1>1, <2>2, <2>3
  <2>5. \A i \in DOMAIN pipe'[t] : Free(pipe'[t][i])
    <3>1. CASE s # t BY <1>1, <2>1, <3>1
    <3>2. CASE s = t
      <4>1. \A i \in 1..(Len(pipe[s]) - 1) : i + 1 \in 1..Len(pipe[s]) BY <2>2
      <4>2. \A i \in 1..Len(pipe[s]) : Free(pipe[s][i]) BY <1>1, <2>2, <3>2
      <4>3. \A i \in 1..(Len(pipe[s]) - 1) : Free(Tail(pipe[s])[i]) BY <2>2, <4>1, <4>2
      <4>. QED BY <2>1, <2>2, <3>2, <4>3
    <3>. QED BY <3>1, <3>2
  <2>. QED BY <1>2, <2>1, <2>3, <2>4, <2>5
<1>4. ASSUME NEW s \in Streams, ReadEof(s)
      PROVE  /\ \A i \in DOMAIN outputQ' : outputQ'[i].stream = t /\ outputQ'[i].chunk # EOF
                  => Free(outputQ'[i].chunk)
             /\ \A i \in DOMAIN pipe'[t] : Free(pipe'[t][i])
  <2>. DEFINE y == [stream |-> s, chunk |-> EOF]
  <2>1. pipe' = pipe /\ outputQ' = Append(outputQ, y) BY <1>4 DEF ReadEof
  <2>2. y \in Event /\ y.chunk = EOF BY DEF Event
  <2>. HIDE DEF y
  <2>. QED BY <1>1, <1>2, <2>1, <2>2
<1>5. CASE ConsumeEvent
  <2>1. outputQ # <<>> /\ outputQ' = Tail(outputQ) /\ pipe' = pipe BY <1>5 DEF ConsumeEvent
  <2>2. /\ DOMAIN outputQ = 1..Len(outputQ)
        /\ Len(outputQ) \in Nat \ {0} /\ DOMAIN outputQ' = 1..(Len(outputQ) - 1)
        /\ \A i \in 1..(Len(outputQ) - 1) : outputQ'[i] = outputQ[i + 1]
    BY <1>0, <2>1, TailIs
  <2>3. \A i \in 1..(Len(outputQ) - 1) : i + 1 \in 1..Len(outputQ) BY <2>2
  <2>. QED BY <1>1, <2>1, <2>2, <2>3
<1>. QED BY <1>3, <1>4, <1>5 DEF DrainPipe

\* What is not there the decoder does not see.
LEMMA UnseenIs ==
  ASSUME Typed, ConsumeEvent, NEW t \in Streams, NEW kinds, Absent(t, kinds)
  PROVE  /\ "start" \in kinds /\ t \notin decoder.started => t \notin decoder'.started
         /\ "fence" \in kinds /\ t \notin decoder.fenced => t \notin decoder'.fenced
         /\ \A kind \in kinds : decoder.status # kind /\ decoder'.status = kind
              => Head(outputQ).stream # t
<1>. PICK s, c : s = Head(outputQ).stream /\ c = Head(outputQ).chunk OBVIOUS
<1>1. /\ s \in Streams /\ c \in Chunks \cup {EOF} /\ decoder \in Decoders /\ outputQ # <<>>
      /\ c # EOF /\ s \in decoder.fenced => decoder' = decoder
      /\ c # EOF /\ s \notin decoder.fenced => decoder' = Consumed(decoder, s, c)
      /\ c = EOF => /\ decoder'.started = decoder.started /\ decoder'.fenced = decoder.fenced
                    /\ decoder'.status = decoder.status
  BY TakeIs DEF Typed, WorkerType
<1>2. Head(outputQ) = outputQ[1] /\ 1 \in DOMAIN outputQ BY <1>1, TailIs DEF Typed, ReadType
<1>3. s = t /\ c # EOF => c.e # worker.e \/ c.kind \notin kinds BY <1>2 DEF Absent
<1>4. CASE c # EOF /\ s \notin decoder.fenced
  <2>1. c \in Chunks /\ decoder' = Consumed(decoder, s, c) BY <1>1, <1>4
  <2>2. /\ t \in decoder'.started <=>
             t \in decoder.started \/ (t = s /\ IsRecord(c) /\ c.kind = "start")
        /\ t \in decoder'.fenced <=>
             \/ t \in decoder.fenced
             \/ t = s /\ IsRecord(c) /\ c.kind = "fence" /\ s \in decoder.started
        /\ decoder'.status = decoder.status \/ (IsRecord(c) /\ decoder'.status = c.kind)
    BY <1>1, <2>1, ConsumedIs
  <2>. QED BY <1>3, <1>4, <2>2 DEF IsRecord
<1>5. CASE c = EOF \/ s \in decoder.fenced BY <1>1, <1>5
<1>. QED BY <1>4, <1>5

\* A stream that has nothing of an execution has nothing when something else is written there.
LEMMA UntouchedEmit ==
  ASSUME ReadType, NEW t \in Streams, Untouched(t), worker'.e = worker.e, decoder' = decoder,
         window'[t] # worker.e, NEW s \in Streams, NEW c \in Chunks, Emit(s, c),
         s = t => c.e # worker.e
  PROVE  Untouched(t)'
BY AbsentEmit DEF Untouched

\* Nor when nothing is.
LEMMA UntouchedSame ==
  ASSUME NEW t \in Streams, Untouched(t), worker'.e = worker.e,
         UNCHANGED <<outputQ, pipe, window>>, decoder'.started \subseteq decoder.started
  PROVE  Untouched(t)'
BY AbsentSame DEF Untouched

\* Nor by reading.
LEMMA UntouchedRead ==
  ASSUME Typed, NEW t \in Streams, Untouched(t), worker'.e = worker.e,
         (\E s \in Streams : DrainPipe(s)) \/ ConsumeEvent
  PROVE  Untouched(t)'
<1>. DEFINE all == {"start", "status", "stale", "fence", "user"}
<1>1. Absent(t, all) /\ t \notin decoder.started /\ window[t] # worker.e BY DEF Untouched
<1>2. Absent(t, all)' BY <1>1, AbsentRead
<1>3. window' = window
  BY DEF DrainPipe, ConsumeEvent, toolVars, history
<1>4. t \notin decoder'.started
  <2>1. CASE \E s \in Streams : DrainPipe(s)
    <3>1. decoder' = decoder BY <2>1 DEF DrainPipe, workerVars
    <3>. QED BY <1>1, <3>1
  <2>2. CASE ConsumeEvent BY <1>1, <2>2, UnseenIs
  <2>. QED BY <2>1, <2>2
<1>. QED BY <1>1, <1>2, <1>3, <1>4 DEF Untouched

\* What a record leaves alone: the other stream, and both if it is of another execution.
LEMMA MarkLeaves ==
  ASSUME Typed, Executing, WorkerSound, NEW op \in Marks, NEW e \in Execs, Mark(op, e),
         UNCHANGED <<worker, decoder>>, NEW t \in Streams
  PROVE  /\ Untouched(t) /\ (e # worker.e \/ StreamOf(op) # t) => Untouched(t)'
         /\ Absent(t, {"fence"})
            /\ (e # worker.e \/ StreamOf(op) # t \/ op \in {"startErr", "startOut"})
              => Absent(t, {"fence"})'
<1>. DEFINE s == StreamOf(op)
            c == Chunk(RecordOf(op), e)
<1>1. /\ s \in Streams /\ c \in Chunks /\ c.e = e /\ Emit(s, c)
      /\ c.kind = IF op \in {"startErr", "startOut"} THEN "start" ELSE "fence"
      /\ window'[s] = IF op \in {"startErr", "startOut"} THEN e ELSE 0
      /\ \A r \in Streams \ {s} : window'[r] = window[r]
  BY MarkIs DEF Typed
<1>. HIDE DEF s, c
<1>2. worker.e # 0 BY DEF WorkerSound
<1>3. ASSUME Untouched(t), e # worker.e \/ s # t PROVE Untouched(t)'
  <2>1. window'[t] # worker.e BY <1>1, <1>2, <1>3 DEF Untouched
  <2>. QED BY <1>1, <1>3, <2>1, UntouchedEmit DEF Typed
<1>4. ASSUME Absent(t, {"fence"}), e # worker.e \/ s # t \/ op \in {"startErr", "startOut"}
      PROVE  Absent(t, {"fence"})'
  <2>1. s = t => c.e # worker.e \/ c.kind \notin {"fence"} BY <1>1, <1>4
  <2>. QED BY <1>1, <1>4, <2>1, AbsentEmit DEF Typed
<1>. QED BY <1>3, <1>4 DEF s

-----------------------------------------------------------------------------
(* What the interpreter has read and done *)

\* The lines of the execution stay in order while none is written or leaves.
LEMMA LinesSame ==
  ASSUME NEW n, Lines(n), UNCHANGED <<lang, stdin>>, worker'.e = worker.e,
         worker'.unsent = worker.unsent
  PROVE  Lines(n)'
<1>1. Pieces' = Pieces /\ \A e : Block(e)' = Block(e) BY SameBlock
<1>2. SentLines' = SentLines BY <1>1 DEF SentLines
<1>3. Block(worker.e)' = Block(worker.e) BY <1>1
<1>. QED BY <1>2, <1>3 DEF Lines

\* They stay in order when the first line in stdin leaves, whoever takes it.
LEMMA LinesTail ==
  ASSUME Typed, NEW n \in 0..Len(Pieces), Reads(n), worker.e # 0, stdin # <<>>,
         stdin' = Tail(stdin), UNCHANGED <<lang, worker>>
  PROVE  /\ Head(stdin).e # worker.e => n = 0 /\ Lines(0)'
         /\ Head(stdin).e = worker.e => /\ n + 1 \in 1..Len(Pieces) /\ Lines(n + 1)'
                                        /\ Head(stdin).ops = Pieces[n + 1]
<1>. USE DEF Typed
<1>1. PICK h \in Nat \ {0} : /\ h = Len(stdin) /\ Len(Tail(stdin)) = h - 1
                             /\ DOMAIN stdin = 1..h /\ DOMAIN Tail(stdin) = 1..(h - 1)
                             /\ \A i \in 1..(h - 1) : Tail(stdin)[i] = stdin[i + 1]
  <2>1. stdin \in Seq(Line) BY DEF ToolType
  <2>. QED BY <2>1, TailIs
<1>2. Pieces' = Pieces /\ \A e : Block(e)' = Block(e) BY SameBlock
<1>3. PICK m : m = SentLines OBVIOUS
<1>4. m \in Int /\ SentLines' = m
  <2>1. Len(Pieces) \in Nat /\ Len(worker.unsent) \in Nat BY PiecesAre DEF ToolType, WorkerType
  <2>2. m = Len(Pieces) - Len(worker.unsent) BY <1>3 DEF SentLines
  <2>3. SentLines' = Len(Pieces) - Len(worker.unsent) BY <1>2 DEF SentLines
  <2>. QED BY <2>1, <2>2, <2>3
<1>5. PICK b : b = Block(worker.e) /\ b = Block(worker.e)' BY <1>2
<1>6. /\ n \in 0..m /\ m - n <= h
      /\ \A i \in 1..h : IF i > h - (m - n) THEN stdin[i] = b[m - h + i] ELSE stdin[i].e # worker.e
      /\ \A i \in DOMAIN worker.unsent : worker.unsent[i] = b[m + i]
      /\ m - n < h => n = 0
  BY <1>1, <1>3, <1>5 DEF Reads, Lines
<1>7. /\ Head(stdin).e = worker.e => /\ n + 1 \in 1..Len(Pieces) /\ m - n = h
                                     /\ Head(stdin).ops = Pieces[n + 1]
      /\ Head(stdin).e # worker.e => n = 0 /\ m - n < h
  BY <1>1, <1>3, HeadIsNext
<1>8. Len(stdin') = h - 1 /\ DOMAIN stdin' = 1..(h - 1)
        /\ \A i \in 1..(h - 1) : i + 1 \in 1..h /\ stdin'[i] = stdin[i + 1]
  BY <1>1
<1>9. ASSUME Head(stdin).e # worker.e PROVE Lines(0)'
  <2>1. n = 0 /\ m - 0 < h /\ 0 \in 0..m /\ m - 0 <= h - 1 BY <1>1, <1>4, <1>6, <1>7, <1>9
  <2>2. \A i \in 1..(h - 1) : IF i > (h - 1) - (m - 0) THEN stdin'[i] = b[m - (h - 1) + i]
                              ELSE stdin'[i].e # worker.e
    <3>1. \A i \in 1..(h - 1) : /\ (i + 1 > h - (m - n) <=> i > (h - 1) - (m - 0))
                                /\ m - h + (i + 1) = m - (h - 1) + i
      BY <1>1, <1>4, <2>1
    <3>. QED BY <1>6, <1>8, <3>1
  <2>3. m - 0 < h - 1 => 0 = 0 OBVIOUS
  <2>4. b = Block(worker.e)' /\ worker'.e = worker.e /\ worker'.unsent = worker.unsent BY <1>5
  <2>. QED BY <1>4, <1>6, <1>8, <2>1, <2>2, <2>4 DEF Lines
<1>10. ASSUME Head(stdin).e = worker.e PROVE Lines(n + 1)'
  <2>0. n \in 0..m /\ h \in Nat \ {0} /\ m \in Int BY <1>1, <1>4, <1>6
  <2>6. m - n = h BY <1>7, <1>10
  <2>1. m - n = h /\ n + 1 \in 0..m /\ m - (n + 1) = h - 1 BY <2>0, <2>6
  <2>2. \A i \in 1..(h - 1) : IF i > (h - 1) - (m - (n + 1)) THEN stdin'[i] = b[m - (h - 1) + i]
                              ELSE stdin'[i].e # worker.e
    <3>1. \A i \in 1..(h - 1) : /\ i + 1 > h - (m - n) /\ i > (h - 1) - (m - (n + 1))
                                /\ m - h + (i + 1) = m - (h - 1) + i
      BY <2>0, <2>1
    <3>. QED BY <1>6, <1>8, <3>1
  <2>3. m - (n + 1) <= h - 1 /\ ~(m - (n + 1) < h - 1) BY <1>1, <2>1
  <2>4. b = Block(worker.e)' /\ worker'.e = worker.e /\ worker'.unsent = worker.unsent BY <1>5
  <2>. QED BY <1>4, <1>6, <1>8, <2>1, <2>2, <2>3, <2>4 DEF Lines
<1>. QED BY <1>7, <1>9, <1>10

\* The lines read stay as they are while stdin does, even when a line is over.
LEMMA SameReads ==
  ASSUME NEW n, Reads(n), UNCHANGED <<lang, stdin, robbed>>, worker'.e = worker.e,
         worker'.unsent = worker.unsent,
         n # 0 /\ tool'.e \notin {0, worker.e} =>
           tool'.e = tool.e /\ (tool'.ops = tool.ops \/ lang = "tcl")
  PROVE  Reads(n)'
<1>1. Lines(n)' BY LinesSame DEF Reads
<1>. QED BY <1>1 DEF Reads

\* What the interpreter has done shows as before while nothing it shows in moves.
LEMMA SameShows ==
  ASSUME NEW n, NEW p, Shows(n, p),
         UNCHANGED <<lang, window, completed, robbed, edaStatus, outputQ, pipe>>,
         worker'.e = worker.e, decoder'.started \subseteq decoder.started,
         decoder'.fenced \subseteq decoder.fenced,
         At("reply")' => At("reply") /\ summary' = summary
  PROVE  Shows(n, p)'
<1>1. /\ CodeOps' = CodeOps /\ LastOp' = LastOp
      /\ \A s \in Streams : Opens(s)' = Opens(s) /\ Closes(s)' = Closes(s)
      /\ \A s : Taken(s, n, p)' = Taken(s, n, p)
  BY SameBlock
<1>2. ASSUME NEW s \in Streams
      PROVE  /\ Untouched(s) => Untouched(s)'
             /\ Absent(s, {"fence"}) => Absent(s, {"fence"})'
             /\ s \notin decoder.fenced => s \notin decoder'.fenced
  BY UntouchedSame, AbsentSame
<1>. QED BY <1>1, <1>2 DEF Shows

\* A step that touches neither stdin nor the line nor the output makes no progress.
LEMMA SameProgress ==
  ASSUME Progress, Executing, tool.alive,
         UNCHANGED <<lang, stdin, window, completed, robbed, edaStatus, outputQ, pipe>>,
         tool'.e = tool.e, tool'.ops = tool.ops,
         worker'.e = worker.e, worker'.unsent = worker.unsent,
         decoder'.started \subseteq decoder.started, decoder'.fenced \subseteq decoder.fenced,
         At("reply")' => At("reply") /\ summary' = summary
  PROVE  Progress'
<1>1. PICK n \in 0..Len(Pieces), p \in 0..LastOp : Reads(n) /\ Done(n, p) /\ Shows(n, p)
  BY DEF Progress
<1>2. Reads(n)' BY <1>1, SameReads
<1>3. Done(n, p)' BY <1>1, SameBlock DEF Done
<1>4. Shows(n, p)' BY <1>1, SameShows
<1>5. n \in 0..Len(Pieces)' /\ p \in 0..LastOp' BY <1>1, SameBlock
<1>. QED BY <1>2, <1>3, <1>4, <1>5 DEF Progress

\* The interpreter reads the next line.
LEMMA LineIsProgress ==
  ASSUME Typed, WorkerSound, Progress, Executing, ReadLine
  PROVE  Progress'
<1>. USE DEF Typed
<1>1. PICK n \in 0..Len(Pieces), p \in 0..LastOp : Reads(n) /\ Done(n, p) /\ Shows(n, p)
  BY DEF Progress, ReadLine
<1>2. /\ tool.ops = <<>> /\ tool.e = 0 /\ stdin # <<>> /\ stdin \in Seq(Line)
      /\ stdin' = Tail(stdin) /\ tool'.ops = Head(stdin).ops /\ tool'.e = Head(stdin).e
      /\ UNCHANGED <<lang, worker, window, completed, robbed, edaStatus, outputQ, pipe, decoder,
                     summary>>
      /\ worker.e \in Execs /\ worker.e # 0
  BY DEF ReadLine, ToolType, WorkerType, workerVars, readVars, history, WorkerSound, Execs
<1>4. /\ Len(Pieces') = Len(Pieces) /\ Pieces' = Pieces
      /\ \A i : OpsIn(i)' = OpsIn(i) /\ Op(i)' = Op(i)
      /\ LastOp' = LastOp
  BY <1>2, SameBlock
<1>5. Shows(n, p)' BY <1>1, <1>2, SameShows DEF At
<1>6. p = OpsIn(n) BY <1>1, <1>2 DEF Done
<1>7. CASE Head(stdin).e # worker.e
  <2>1. n = 0 /\ Lines(0)' BY <1>1, <1>2, <1>7, LinesTail
  <2>2. Reads(n)' BY <1>1, <1>2, <2>1 DEF Reads
  <2>3. Done(n, p)' BY <1>2, <1>4, <1>6, <1>7 DEF Done
  <2>. QED BY <1>1, <1>4, <1>5, <2>2, <2>3 DEF Progress
<1>8. CASE Head(stdin).e = worker.e
  <2>1. n + 1 \in 1..Len(Pieces) /\ Lines(n + 1)' /\ Head(stdin).ops = Pieces[n + 1]
    BY <1>1, <1>2, <1>8, LinesTail
  <2>2. tool'.e = worker.e /\ tool'.ops = Pieces[n + 1] BY <1>2, <1>8, <2>1
  <2>3. Reads(n + 1)'
    <3>1. n + 1 # 0 /\ tool'.e \in {0, worker'.e} BY <1>2, <2>1, <2>2
    <3>. QED BY <2>1, <3>1 DEF Reads
  <2>4. Done(n + 1, p)'
    <3>1. /\ OpsIn((n + 1) - 1) + Len(Pieces[n + 1]) = OpsIn(n + 1)
          /\ \A i \in 1..Len(Pieces[n + 1]) : Pieces[n + 1][i] = Op(OpsIn((n + 1) - 1) + i)
          /\ OpsIn(n + 1) \in 0..LastOp /\ LastOp \in Nat
      BY <2>1, LineHas DEF ToolType
    <3>2. (n + 1) - 1 = n OBVIOUS
    <3>3. DOMAIN Pieces[n + 1] = 1..Len(Pieces[n + 1])
      <4>1. Pieces \in Seq(Seq(Ops) \ {<<>>}) BY PiecesAre DEF ToolType
      <4>2. Pieces[n + 1] \in Seq(Ops) BY <2>1, <4>1
      <4>. QED BY <4>2
    <3>4. n + 1 # 0 BY <2>1
    <3>5. p + Len(Pieces[n + 1]) = OpsIn(n + 1) /\ p + Len(Pieces[n + 1]) <= OpsIn(n + 1)
      BY <1>6, <3>1, <3>2
    <3>6. \A i \in DOMAIN Pieces[n + 1] : Pieces[n + 1][i] = Op(p + i)
      BY <1>6, <3>1, <3>2, <3>3
    <3>. QED BY <1>2, <1>4, <2>2, <3>4, <3>5, <3>6 DEF Done
  <2>5. Shows(n + 1, p)'
    <3>1. ASSUME NEW s \in Streams, ~Taken(s, n + 1, p)' PROVE ~Taken(s, n, p)'
      <4>1. n # LastOp \/ lang # "shell"
        <5>1. lang = "shell" => Len(Pieces) = LastOp /\ LastOp \in Nat
          BY PiecesAre, ScriptIs DEF ToolType
        <5>. QED BY <2>1, <5>1 DEF ToolType
      <4>. QED BY <1>2, <1>4, <4>1 DEF Taken
    <3>. QED BY <1>5, <3>1 DEF Shows
  <2>6. n + 1 \in 0..Len(Pieces') BY <1>4, <2>1
  <2>. QED BY <1>1, <1>4, <2>3, <2>4, <2>5, <2>6 DEF Progress
<1>. QED BY <1>7, <1>8

\* An operation of a line, whatever it is: what it changes, and what of the streams it leaves.
OpStep == WriteMark \/ CaptureStatus \/ WriteStatus \/ WriteBlankStatus \/ UserCodeEnds

LEMMA OpLeaves ==
  ASSUME Typed, WorkerSound, Executing, OpStep
  PROVE  /\ tool.alive /\ tool.ops # <<>> /\ tool' = NextOp
         /\ UNCHANGED <<lang, stdin, worker, outputQ, decoder, summary, robbed>>
         /\ completed' = IF Head(tool.ops) = "user" /\ tool.e = worker.e
                         THEN completed + 1 ELSE completed
         /\ edaStatus' = IF Head(tool.ops) = "capture" THEN tool.e ELSE edaStatus
         /\ \A t \in Streams :
              /\ Untouched(t) /\ (tool.e # worker.e \/ StreamOf(Head(tool.ops)) # t)
                   => Untouched(t)'
              /\ /\ Absent(t, {"fence"})
                 /\ \/ tool.e # worker.e \/ StreamOf(Head(tool.ops)) # t
                    \/ Head(tool.ops) \notin {"fenceErr", "fenceOut"}
                 => Absent(t, {"fence"})'
<1>. USE DEF Typed
<1>0. worker.e # 0 /\ "stdout" \in Streams BY DEF WorkerSound, Streams
<1>. DEFINE op == Head(tool.ops)
            Leaves(t) ==
              /\ Untouched(t) /\ (tool.e # worker.e \/ StreamOf(op) # t) => Untouched(t)'
              /\ /\ Absent(t, {"fence"})
                 /\ tool.e # worker.e \/ StreamOf(op) # t \/ op \notin {"fenceErr", "fenceOut"}
                 => Absent(t, {"fence"})'
<1>1. CASE WriteMark
  <2>1. /\ tool.alive /\ tool.ops # <<>> /\ tool' = NextOp /\ op \in Marks /\ Mark(op, tool.e)
        /\ UNCHANGED <<lang, stdin, worker, outputQ, decoder, summary, robbed, completed,
                       edaStatus>>
    BY <1>1 DEF WriteMark, Doing, Marks, Mark, Emit, workerVars
  <2>2. tool.e \in Execs /\ op # "user" /\ op # "capture" BY <2>1, NextOpIs DEF Marks
  <2>3. ASSUME NEW t \in Streams PROVE Leaves(t)
    <3>1. op \notin {"fenceErr", "fenceOut"} => op \in {"startErr", "startOut"}
      BY <2>1 DEF Marks
    <3>2. UNCHANGED <<worker, decoder>> BY <2>1
    <3>3. /\ Untouched(t) /\ (tool.e # worker.e \/ StreamOf(op) # t) => Untouched(t)'
          /\ Absent(t, {"fence"})
             /\ (tool.e # worker.e \/ StreamOf(op) # t \/ op \in {"startErr", "startOut"})
               => Absent(t, {"fence"})'
      BY <2>1, <2>2, <3>2, MarkLeaves
    <3>. QED BY <3>1, <3>3
  <2>. HIDE DEF Leaves
  <2>4. \A t \in Streams : Leaves(t) BY <2>3
  <2>. QED BY <2>1, <2>2, <2>4 DEF Leaves
<1>2. CASE CaptureStatus \/ UserCodeEnds
  <2>1. /\ tool.alive /\ tool.ops # <<>> /\ tool' = NextOp
        /\ UNCHANGED <<lang, stdin, worker, outputQ, decoder, summary, robbed, window, pipe>>
        /\ op \in {"capture", "user"}
        /\ completed' = IF op = "user" /\ tool.e = worker.e THEN completed + 1 ELSE completed
        /\ edaStatus' = IF op = "capture" THEN tool.e ELSE edaStatus
    BY <1>2 DEF CaptureStatus, UserCodeEnds, InUserCode, Doing, workerVars, readVars, history
  <2>2. ASSUME NEW t \in Streams PROVE Leaves(t)
    <3>1. Untouched(t) => Untouched(t)' BY <2>1, UntouchedSame
    <3>2. Absent(t, {"fence"}) => Absent(t, {"fence"})' BY <2>1, AbsentSame
    <3>. QED BY <3>1, <3>2
  <2>. HIDE DEF Leaves
  <2>3. \A t \in Streams : Leaves(t) BY <2>2
  <2>. QED BY <2>1, <2>3 DEF Leaves
<1>3. CASE WriteStatus \/ WriteBlankStatus
  <2>1. /\ tool.alive /\ tool.ops # <<>> /\ tool' = NextOp
        /\ UNCHANGED <<lang, stdin, worker, outputQ, decoder, summary, robbed, window, completed,
                       edaStatus>>
        /\ op = "status"
    BY <1>3 DEF WriteStatus, WriteBlankStatus, Doing, EmitUnit, Emit, workerVars, history
  <2>2. PICK c \in Chunks : /\ Emit("stdout", c) /\ c.kind # "fence"
                            /\ c.e = tool.e \/ c.e = window["stdout"]
    <3>1. CASE WriteStatus
      <4>. DEFINE c == Chunk(IF edaStatus = tool.e THEN "status" ELSE "stale", tool.e)
      <4>1. Emit("stdout", c) BY <3>1 DEF WriteStatus
      <4>2. c \in Chunks BY DEF Chunks, ToolType
      <4>3. c.kind # "fence" /\ c.e = tool.e BY DEF Chunk
      <4>. QED BY <4>1, <4>2, <4>3
    <3>2. CASE WriteBlankStatus
      <4>1. EmitUnit("stdout") BY <3>2 DEF WriteBlankStatus
      <4>. DEFINE c == Chunk("user", window["stdout"])
      <4>2. c \in Chunks /\ Emit("stdout", c) BY <1>0, <4>1, PrintingIs
      <4>3. c.kind # "fence" /\ c.e = window["stdout"] BY DEF Chunk
      <4>. QED BY <4>2, <4>3
    <3>. QED BY <1>3, <3>1, <3>2
  <2>3. StreamOf(op) = "stdout" BY <2>1 DEF StreamOf
  <2>4. ASSUME NEW t \in Streams PROVE Leaves(t)
    <3>1. ASSUME Untouched(t), tool.e # worker.e \/ StreamOf(op) # t PROVE Untouched(t)'
      <4>1. window[t] # worker.e BY <3>1 DEF Untouched
      <4>2. "stdout" = t => c.e # worker.e BY <2>2, <2>3, <3>1, <4>1
      <4>. QED BY <1>0, <2>1, <2>2, <3>1, <4>1, <4>2, UntouchedEmit
    <3>2. ASSUME Absent(t, {"fence"}) PROVE Absent(t, {"fence"})'
      BY <1>0, <2>1, <2>2, <3>2, AbsentEmit
    <3>. QED BY <3>1, <3>2
  <2>. HIDE DEF Leaves
  <2>5. \A t \in Streams : Leaves(t) BY <2>4
  <2>. QED BY <2>1, <2>5 DEF Leaves
<1>. QED BY <1>1, <1>2, <1>3 DEF OpStep

\* It carries out an operation of its own execution, of another one, or of none.
LEMMA OpIsProgress ==
  ASSUME Typed, WorkerSound, Progress, OneByOne, Executing, OpStep
  PROVE  Progress'
<1>. USE DEF Typed
<1>. DEFINE op == Head(tool.ops)
<1>1. /\ tool.alive /\ tool.ops # <<>> /\ tool' = NextOp
      /\ UNCHANGED <<lang, stdin, worker, outputQ, decoder, summary, robbed>>
      /\ completed' = IF op = "user" /\ tool.e = worker.e THEN completed + 1 ELSE completed
      /\ edaStatus' = IF op = "capture" THEN tool.e ELSE edaStatus
      /\ \A t \in Streams :
           /\ Untouched(t) /\ (tool.e # worker.e \/ StreamOf(op) # t) => Untouched(t)'
           /\ /\ Absent(t, {"fence"})
              /\ tool.e # worker.e \/ StreamOf(op) # t \/ op \notin {"fenceErr", "fenceOut"}
              => Absent(t, {"fence"})'
  BY OpLeaves
<1>. HIDE DEF op
<1>2. /\ Len(Pieces') = Len(Pieces) /\ LastOp' = LastOp /\ CodeOps' = CodeOps
      /\ \A i : OpsIn(i)' = OpsIn(i) /\ Op(i)' = Op(i)
      /\ \A t \in Streams : Opens(t)' = Opens(t) /\ Closes(t)' = Closes(t)
      /\ \A s, n, p : Taken(s, n, p)' = Taken(s, n, p)
  BY <1>1, SameBlock
<1>3. PICK l \in Nat \ {0} :
        /\ l = Len(tool.ops) /\ DOMAIN tool.ops = 1..l
        /\ Len(Tail(tool.ops)) = l - 1 /\ DOMAIN Tail(tool.ops) = 1..(l - 1)
        /\ \A i \in 1..(l - 1) : Tail(tool.ops)[i] = tool.ops[i + 1]
  <2>1. tool.ops \in Seq(Ops) BY DEF ToolType
  <2>. QED BY <1>1, <2>1, TailIs
<1>4. tool'.ops = Tail(tool.ops) /\ tool'.e = IF l = 1 THEN 0 ELSE tool.e
  BY <1>1, <1>3, NextOpIs
<1>5. worker.e # 0 /\ tool.e # 0 BY <1>1 DEF WorkerSound, ToolType
<1>6. CASE tool.e # worker.e
  <2>1. PICK n \in 0..Len(Pieces), p \in 0..LastOp : Reads(n) /\ Done(n, p) /\ Shows(n, p)
    BY <1>1 DEF Progress
  <2>2. n # 0 => IF lang = "tcl" THEN robbed ELSE tool.ops = <<"user">>
    BY <1>5, <1>6, <2>1 DEF Reads
  <2>3. tool.ops = <<"user">> => l = 1 /\ op = "user"
    <3>1. Len(<<"user">>) = 1 /\ Head(<<"user">>) = "user" OBVIOUS
    <3>. QED BY <1>3, <3>1 DEF op
  <2>4. Reads(n)'
    <3>1. n # 0 /\ tool'.e \notin {0, worker.e} => tool'.e = tool.e /\ lang = "tcl"
      BY <1>4, <2>2, <2>3
    <3>. QED BY <1>1, <2>1, <3>1, SameReads
  <2>5. Done(n, p)'
    <3>1. tool'.e # worker'.e /\ p = OpsIn(n) BY <1>1, <1>4, <1>5, <1>6, <2>1 DEF Done
    <3>. QED BY <1>2, <3>1 DEF Done
  <2>6. Shows(n, p)'
    <3>1. ~robbed /\ p > CodeOps + 2 => op # "capture"
      <4>1. ASSUME n = 0 PROVE ~(p > CodeOps + 2)
        <5>1. p = 0 BY <1>6, <2>1, <4>1 DEF Done, OpsIn
        <5>2. CodeOps \in Nat BY ScriptIs DEF ToolType
        <5>. QED BY <5>1, <5>2
      <4>. QED BY <2>2, <2>3, <4>1
    <3>2. completed' = completed BY <1>1, <1>6
    <3>3. ~robbed /\ p > CodeOps + 2 => edaStatus' = worker.e
      BY <1>1, <2>1, <3>1 DEF Shows
    <3>. QED BY <1>1, <1>2, <1>6, <2>1, <3>2, <3>3 DEF Shows, At
  <2>. QED BY <1>2, <2>1, <2>4, <2>5, <2>6 DEF Progress
<1>7. CASE tool.e = worker.e
  <2>1. PICK n \in 1..Len(Pieces), p \in 0..(LastOp - 1) :
          /\ Reads(n) /\ Done(n, p) /\ Shows(n, p) /\ op = Op(p + 1) /\ p + 1 <= OpsIn(n)
          /\ OpsIn(n) \in 0..LastOp /\ LastOp \in Nat
    BY <1>1, <1>7, BeforeOp DEF op
  <2>2. /\ CodeOps \in Nat \ {0} /\ p \in Nat /\ LastOp = CodeOps + 6
        /\ op = "startErr" <=> p = 0
        /\ op = "startOut" <=> p = 1
        /\ op = "user" <=> p \in 2..(CodeOps + 1)
        /\ op = "capture" <=> p = CodeOps + 2
        /\ op = "fenceErr" <=> p = CodeOps + 4
        /\ op = "fenceOut" <=> p = CodeOps + 5
    <3>1. /\ CodeOps \in Nat \ {0} /\ LastOp = CodeOps + 6
          /\ Op(p + 1) = "startErr" <=> p = 0
          /\ Op(p + 1) = "startOut" <=> p = 1
          /\ Op(p + 1) = "user" <=> p \in 2..(CodeOps + 1)
          /\ Op(p + 1) = "capture" <=> p = CodeOps + 2
          /\ Op(p + 1) = "fenceErr" <=> p = CodeOps + 4
          /\ Op(p + 1) = "fenceOut" <=> p = CodeOps + 5
      BY OpIs DEF ToolType
    <3>2. p \in Nat BY <3>1
    <3>. QED BY <2>1, <3>1, <3>2
  <2>3. Reads(n)'
    <3>1. tool'.e \in {0, worker.e} BY <1>4, <1>7
    <3>. QED BY <1>1, <2>1, <3>1, SameReads
  <2>4. /\ p + l <= OpsIn(n)
        /\ p + l = OpsIn(n) \/ (lang = "shell" /\ robbed /\ op = "user")
        /\ \A i \in 1..l : tool.ops[i] = Op(p + i)
        /\ lang = "shell" => l = 1
    <3>1. tool.ops = <<"user">> => op = "user" BY DEF op
    <3>3. lang = "shell" => l <= 1 BY <1>3 DEF OneByOne
    <3>2. lang = "shell" => l = 1 BY <3>3
    <3>4. /\ p + l <= OpsIn(n)
          /\ p + l = OpsIn(n) \/ (lang = "shell" /\ robbed /\ tool.ops = <<"user">>)
          /\ \A i \in DOMAIN tool.ops : tool.ops[i] = Op(p + i)
      BY <1>3, <1>7, <2>1 DEF Done
    <3>. QED BY <1>3, <3>1, <3>2, <3>4
  <2>5. At("reply") /\ summary.dropped # Unknown => FALSE
    <3>1. p # LastOp BY <2>1
    <3>. QED BY <2>1, <3>1 DEF Shows
  <2>6. lang \in {"tcl", "shell"} /\ (lang = "shell" => OpsIn(n) = n) /\ n # 0
    BY <2>1 DEF ToolType, OpsIn
\* A command ends that has let lines be taken after its own.
  <2>7. CASE p + l # OpsIn(n)
    <3>0. PICK q \in 0..LastOp : q = OpsIn(n) /\ OpsIn(n)' = q BY <1>2, <2>1
    <3>1. lang = "shell" /\ robbed /\ op = "user" /\ l = 1 /\ OpsIn(n) = n BY <2>4, <2>6, <2>7
    <3>2. Done(n, q)'
      <4>1. tool'.e # worker'.e BY <1>1, <1>4, <1>5, <3>1
      <4>. QED BY <3>0, <4>1 DEF Done
    <3>3. Shows(n, q)'
      <4>1. ASSUME NEW t \in Streams, q < Opens(t) PROVE Untouched(t)'
        <5>1. Opens(t) \in {1, 2} BY DEF Opens
        <5>2. n >= 1 /\ n = q BY <2>1, <2>6, <3>0, <3>1
        <5>3. FALSE BY <2>1, <2>2, <2>4, <3>0, <3>1, <4>1, <5>1
        <5>. QED BY <5>3
      <4>2. ASSUME NEW t \in Streams, q < Closes(t)
            PROVE  t \notin decoder'.fenced /\ Absent(t, {"fence"})'
        <5>1. Closes(t) \in {CodeOps + 5, CodeOps + 6}
                /\ (t = "stdout" => Closes(t) = LastOp)
          BY <2>2 DEF Closes
        <5>2. p < Closes(t) BY <2>1, <2>2, <3>0, <4>2, <5>1
        <5>3. ~Taken(t, n, p)
          <6>1. t = "stdout" => n # LastOp BY <2>1, <2>2, <3>0, <3>1, <4>2, <5>1
          <6>. QED BY <6>1 DEF Taken
        <5>4. op \notin {"fenceErr", "fenceOut"} BY <3>1
        <5>. QED BY <1>1, <2>1, <5>2, <5>3, <5>4 DEF Shows
      <4>. QED BY <1>1, <1>2, <2>5, <3>1, <4>1, <4>2 DEF Shows, At
    <3>4. n \in 0..Len(Pieces') /\ q \in 0..LastOp' BY <1>2, <2>1
    <3>. QED BY <2>3, <3>2, <3>3, <3>4 DEF Progress
  <2>8. CASE p + l = OpsIn(n)
    <3>0. p \in Nat /\ l \in Nat \ {0} BY <2>2
    <3>1. Done(n, p + 1)'
      <4>1. CASE l = 1
        <5>1. tool'.e # worker'.e /\ p + 1 = OpsIn(n) BY <1>1, <1>4, <1>5, <2>8, <4>1
        <5>. QED BY <1>2, <5>1 DEF Done
      <4>2. CASE l # 1
        <5>1. tool'.e = worker'.e /\ n # 0 BY <1>1, <1>4, <1>7, <2>6, <4>2
        <5>2. (p + 1) + (l - 1) = OpsIn(n) BY <2>8, <3>0
        <5>3. \A i \in 1..(l - 1) : i + 1 \in 1..l /\ p + (i + 1) = (p + 1) + i BY <3>0
        <5>4. \A i \in 1..(l - 1) : Tail(tool.ops)[i] = Op((p + 1) + i)
          BY <1>3, <2>4, <5>3
        <5>5. (p + 1) + Len(tool'.ops) = OpsIn(n) /\ DOMAIN tool'.ops = 1..(l - 1)
          BY <1>3, <1>4, <5>2
        <5>7. OpsIn(n) \in Nat BY <2>1
        <5>8. OpsIn(n) <= OpsIn(n) BY <5>7
        <5>6. (p + 1) + Len(tool'.ops) <= OpsIn(n) BY ONLY <5>5, <5>8
        <5>. QED BY <1>2, <1>4, <5>1, <5>4, <5>5, <5>6 DEF Done
      <4>. QED BY <4>1, <4>2
    <3>2. Shows(n, p + 1)'
      <4>1. ASSUME NEW t \in Streams, p + 1 < Opens(t) PROVE Untouched(t)'
        <5>1. t = "stdout" /\ p = 0 /\ p < Opens(t) BY <3>0, <4>1 DEF Opens, Streams
        <5>2. op = "startErr" BY <2>2, <5>1
        <5>3. StreamOf(op) = "stderr" BY <5>2 DEF StreamOf
        <5>4. Untouched(t) BY <2>1, <5>1 DEF Shows
        <5>. QED BY <1>1, <5>1, <5>3, <5>4
      <4>2. ASSUME NEW t \in Streams, p + 1 < Closes(t), ~Taken(t, n, p + 1)
            PROVE  t \notin decoder'.fenced /\ Absent(t, {"fence"})'
        <5>1. /\ t = "stderr" => Closes(t) = CodeOps + 5
              /\ t = "stdout" => Closes(t) = CodeOps + 6
              /\ t \in {"stderr", "stdout"}
          BY <2>2 DEF Closes, Streams
        <5>2. p < Closes(t) BY <2>2, <4>2, <5>1
        <5>3. ~Taken(t, n, p)
          <6>1. ASSUME t = "stdout", lang = "shell", n = LastOp PROVE FALSE
            BY <2>1, <2>2, <2>4, <2>6, <2>8, <4>2, <5>1, <6>1
          <6>. QED BY <6>1 DEF Taken
        <5>4. Absent(t, {"fence"}) /\ t \notin decoder.fenced BY <2>1, <5>2, <5>3 DEF Shows
        <5>5. op \in {"fenceErr", "fenceOut"} => op = "fenceErr" /\ t = "stdout"
          BY <2>2, <4>2, <5>1
        <5>6. op = "fenceErr" => StreamOf(op) = "stderr" BY DEF StreamOf
        <5>7. StreamOf(op) # t \/ op \notin {"fenceErr", "fenceOut"} BY <5>5, <5>6
        <5>. QED BY <1>1, <5>4, <5>7
      <4>3. ASSUME ~robbed
            PROVE  /\ completed' = IF p + 1 <= 2 THEN 0
                                   ELSE IF (p + 1) - 2 <= CodeOps THEN (p + 1) - 2 ELSE CodeOps
                   /\ p + 1 > CodeOps + 2 => edaStatus' = worker.e
        <5>1. /\ completed = IF p <= 2 THEN 0 ELSE IF p - 2 <= CodeOps THEN p - 2 ELSE CodeOps
              /\ p > CodeOps + 2 => edaStatus = worker.e
          BY <2>1, <4>3 DEF Shows
        <5>2. completed' = IF op = "user" THEN completed + 1 ELSE completed BY <1>1, <1>7
        <5>3. op = "user" <=> p \in 2..(CodeOps + 1) BY <2>2
        <5>4. p \in Nat /\ CodeOps \in Nat \ {0} BY <2>2
        <5>5. CASE op = "user"
          <6>1. p \in 2..(CodeOps + 1) BY <5>3, <5>5
          <6>. QED BY <5>1, <5>2, <5>4, <5>5, <6>1
        <5>6. CASE op # "user"
          <6>1. completed' = completed /\ ~(p \in 2..(CodeOps + 1)) BY <5>2, <5>3, <5>6
          <6>2. completed' = IF p + 1 <= 2 THEN 0
                             ELSE IF (p + 1) - 2 <= CodeOps THEN (p + 1) - 2 ELSE CodeOps
            BY <5>1, <5>4, <6>1
          <6>3. p + 1 > CodeOps + 2 => p > CodeOps + 2 \/ op = "capture" BY <2>2
          <6>. QED BY <1>1, <1>7, <5>1, <6>2, <6>3
        <5>. QED BY <5>5, <5>6
      <4>. QED BY <1>1, <1>2, <2>5, <4>1, <4>2, <4>3 DEF Shows, At
    <3>3. n \in 0..Len(Pieces') /\ p + 1 \in 0..LastOp' BY <1>2, <2>1, <2>2
    <3>. QED BY <2>3, <3>1, <3>2, <3>3 DEF Progress
  <2>. QED BY <2>7, <2>8
<1>. QED BY <1>6, <1>7

\* What is left of a stream when a line is taken from stdin, and perhaps printed.
LEMMA TakingLeaves ==
  ASSUME Typed, WorkerSound, Executing, TakeLine, NEW t \in Streams
  PROVE  /\ /\ Untouched(t)
            /\ Head(stdin).e = worker.e
                 => t # "stdout" \/ Head(stdin).ops \notin {<<"startOut">>, <<"fenceOut">>}
            => Untouched(t)'
         /\ /\ Absent(t, {"fence"})
            /\ Head(stdin).e = worker.e => t # "stdout" \/ Head(stdin).ops # <<"fenceOut">>
            => Absent(t, {"fence"})'
<1>. USE DEF Typed
<1>1. UNCHANGED <<worker, decoder>> BY TakingIs DEF workerVars
<1>2. CASE UNCHANGED <<window, readVars>>
  <2>1. Untouched(t) => Untouched(t)' BY <1>1, <1>2, UntouchedSame DEF readVars
  <2>2. Absent(t, {"fence"}) => Absent(t, {"fence"})' BY <1>1, <1>2, AbsentSame DEF readVars
  <2>. QED BY <2>1, <2>2
<1>3. ASSUME NEW op \in Marks, NEW e \in Execs, Mark(op, e), Head(stdin).ops = <<op>>,
             e = Head(stdin).e, op \in {"startOut", "fenceOut"}
      PROVE  /\ /\ Untouched(t)
                /\ Head(stdin).e = worker.e
                     => t # "stdout" \/ Head(stdin).ops \notin {<<"startOut">>, <<"fenceOut">>}
                => Untouched(t)'
             /\ /\ Absent(t, {"fence"})
                /\ Head(stdin).e = worker.e => t # "stdout" \/ Head(stdin).ops # <<"fenceOut">>
                => Absent(t, {"fence"})'
  <2>1. StreamOf(op) = "stdout" BY <1>3 DEF StreamOf
  <2>2. /\ Untouched(t) /\ (e # worker.e \/ StreamOf(op) # t) => Untouched(t)'
        /\ Absent(t, {"fence"})
           /\ (e # worker.e \/ StreamOf(op) # t \/ op \in {"startErr", "startOut"})
             => Absent(t, {"fence"})'
    BY <1>1, <1>3, MarkLeaves
  <2>. QED BY <1>3, <2>1, <2>2
<1>4. \/ UNCHANGED <<window, readVars>>
      \/ \E op \in Marks, e \in Execs :
           Mark(op, e) /\ Head(stdin).ops = <<op>> /\ e = Head(stdin).e
             /\ op \in {"startOut", "fenceOut"}
  <2>1. ~WriteMark \/ UNCHANGED stdin BY DEF WriteMark
  <2>2. ASSUME WriteMark PROVE FALSE
    <3>1. stdin # <<>> /\ stdin \in Seq(Line) /\ stdin' = Tail(stdin) BY TakingIs
    <3>2. Len(Tail(stdin)) = Len(stdin) - 1 /\ Len(stdin) \in Nat BY <3>1, TailIs
    <3>3. Tail(stdin) = stdin BY <2>1, <2>2, <3>1
    <3>4. Len(stdin) = Len(stdin) - 1 BY <3>2, <3>3
    <3>. QED BY <3>2, <3>4
  <2>. QED BY <2>2, MarkersAre
<1>. QED BY <1>2, <1>3, <1>4

\* A line is taken from stdin.  One of the execution's own counts as read and, unless the
\* interpreter is in code of this execution, as carried out.
LEMMA TakeIsProgress ==
  ASSUME Typed, WorkerSound, Progress, Unread, OneByOne, Executing, tool.alive, TakeLine
  PROVE  Progress'
<1>. USE DEF Typed
<1>1. /\ stdin # <<>> /\ stdin \in Seq(Line) /\ stdin' = Tail(stdin)
      /\ robbed' = (robbed \/ Head(stdin).e = worker.e)
      /\ UNCHANGED <<lang, tool, edaStatus, completed, worker, decoder, summary>>
      /\ worker.e # 0
  BY TakingIs DEF workerVars, WorkerSound
<1>2. /\ Len(Pieces') = Len(Pieces) /\ LastOp' = LastOp /\ CodeOps' = CodeOps
      /\ \A i : OpsIn(i)' = OpsIn(i) /\ Op(i)' = Op(i)
      /\ \A t \in Streams : Opens(t)' = Opens(t) /\ Closes(t)' = Closes(t)
      /\ \A s, n, p : Taken(s, n, p)' = Taken(s, n, p)
  BY <1>1, SameBlock
<1>3. \A t \in Streams :
        /\ /\ Untouched(t)
           /\ Head(stdin).e = worker.e
                => t # "stdout" \/ Head(stdin).ops \notin {<<"startOut">>, <<"fenceOut">>}
           => Untouched(t)'
        /\ /\ Absent(t, {"fence"})
           /\ Head(stdin).e = worker.e => t # "stdout" \/ Head(stdin).ops # <<"fenceOut">>
           => Absent(t, {"fence"})'
  BY TakingLeaves
<1>4. CodeOps \in Nat \ {0} /\ LastOp = CodeOps + 6 /\ lang \in {"tcl", "shell"}
  BY ScriptIs DEF ToolType
<1>5. \A t \in Streams : /\ t = "stderr" \/ t = "stdout"
                         /\ t = "stderr" => Opens(t) = 1 /\ Closes(t) = CodeOps + 5
                         /\ t = "stdout" => Opens(t) = 2 /\ Closes(t) = CodeOps + 6
  BY <1>4 DEF Opens, Closes, Streams
<1>6. CASE Head(stdin).e # worker.e
  <2>1. PICK n \in 0..Len(Pieces), p \in 0..LastOp : Reads(n) /\ Done(n, p) /\ Shows(n, p)
    BY DEF Progress
  <2>2. n = 0 /\ Lines(0)' BY <1>1, <1>6, <2>1, LinesTail
  <2>3. robbed' = robbed BY <1>1, <1>6 DEF ToolType
  <2>4. Reads(n)' BY <1>1, <2>1, <2>2, <2>3 DEF Reads
  <2>5. Done(n, p)'
    <3>1. tool.e = worker.e => n # 0 BY <2>1 DEF Done
    <3>2. tool'.e # worker'.e /\ p = OpsIn(n) BY <1>1, <2>1, <2>2, <3>1 DEF Done
    <3>. QED BY <1>2, <3>2 DEF Done
  <2>6. Shows(n, p)' BY <1>1, <1>2, <1>3, <1>6, <2>1, <2>3 DEF Shows, At
  <2>. QED BY <1>2, <2>1, <2>4, <2>5, <2>6 DEF Progress
<1>7. CASE Head(stdin).e = worker.e /\ lang = "tcl"
  <2>1. PICK n \in 0..Len(Pieces), p \in 0..LastOp : Reads(n) /\ Done(n, p) /\ Shows(n, p)
    BY DEF Progress
  <2>2. n + 1 \in 1..Len(Pieces) /\ Lines(n + 1)' BY <1>1, <1>7, <2>1, LinesTail
  <2>3. n = 0
    <3>1. Len(Pieces) = 1 BY <1>4, <1>7, PiecesAre
    <3>2. n \in 0..1 /\ n + 1 \in 1..1 BY <2>1, <2>2, <3>1
    <3>. QED BY <3>2
  <2>4. tool.e # worker.e
    <3>1. Head(stdin) = stdin[1] /\ 1 \in DOMAIN stdin BY <1>1, TailIs
    <3>. QED BY <1>7, <3>1 DEF Unread
  <2>5. 0 + 1 = 1 /\ OpsIn(1) = LastOp BY <1>7 DEF OpsIn
  <2>6. Reads(1)'
    <3>1. PICK m \in {1} : m = n + 1 BY <2>3
    <3>2. Lines(m)' /\ m # 0 BY <2>2, <3>1
    <3>3. Reads(m)' BY <1>1, <1>7, <3>2 DEF Reads
    <3>. QED BY <3>3
  <2>7. PICK q \in 0..LastOp : q = LastOp /\ q = LastOp' BY <1>2, <1>4
  <2>8. Done(1, q)' BY <1>1, <1>2, <2>4, <2>5, <2>7 DEF Done
  <2>9. Shows(1, q)'
    <3>1. \A t \in Streams : ~(q < Opens(t)') /\ ~(q < Closes(t)') BY <1>2, <1>4, <1>5, <2>7
    <3>2. robbed' BY <1>1, <1>7
    <3>. QED BY <2>7, <3>1, <3>2 DEF Shows
  <2>10. 1 \in 0..Len(Pieces') /\ q \in 0..LastOp' BY <1>2, <2>2, <2>3, <2>7
  <2>. QED BY <2>6, <2>8, <2>9, <2>10 DEF Progress
<1>8. CASE Head(stdin).e = worker.e /\ lang = "shell"
  <2>1. /\ tool.ops # <<>> /\ Head(tool.ops) = "user" /\ tool.ops = <<"user">>
        /\ Len(tool.ops) = 1 /\ robbed'
    <3>1. tool.ops # <<>> /\ Head(tool.ops) = "user" BY <1>8 DEF TakeLine, InUserCode, Doing
    <3>2. tool.ops \in Seq(Ops) /\ Len(tool.ops) <= 1 BY <1>8 DEF ToolType, OneByOne
    <3>3. Len(tool.ops) \in Nat \ {0} /\ tool.ops[1] = "user" /\ DOMAIN tool.ops = 1..Len(tool.ops)
      BY <3>1, <3>2, TailIs
    <3>6. Len(tool.ops) <= 1 /\ Len(tool.ops) \in Nat \ {0} BY <3>2, <3>3
    <3>7. PICK k \in Nat \ {0} : k = Len(tool.ops) BY <3>6
    <3>8. k = 1
      <4>1. k <= 1 BY <3>6, <3>7
      <4>. QED BY <4>1
    <3>4. Len(tool.ops) = 1 BY <3>7, <3>8
    <3>5. tool.ops = <<"user">> BY <3>2, <3>3, <3>4
    <3>. QED BY <1>1, <1>8, <3>1, <3>4, <3>5
  <2>2. Len(Pieces) = LastOp /\ \A i \in 1..LastOp : Pieces[i] = <<Op(i)>> /\ OpsIn(i) = i
    BY <1>4, <1>8, PiecesAre, ScriptIs DEF OpsIn
  <2>3. ASSUME NEW n \in 0..(LastOp - 1), Head(stdin).ops = Pieces[n + 1]
        PROVE  /\ Head(stdin).ops = <<"fenceOut">> => n + 1 = LastOp
               /\ Head(stdin).ops = <<"startOut">> => n = 1
    <3>1. Head(stdin).ops = <<Op(n + 1)>> BY <1>4, <2>2, <2>3
    <3>2. \A o : <<Op(n + 1)>> = <<o>> => Op(n + 1) = o
      <4>1. ASSUME NEW o, <<Op(n + 1)>> = <<o>> PROVE Op(n + 1) = o
        <5>1. <<Op(n + 1)>>[1] = <<o>>[1] BY <4>1
        <5>. QED BY <5>1
      <4>. QED BY <4>1
    <3>3. (Op(n + 1) = "startOut" => n = 1) /\ (Op(n + 1) = "fenceOut" => n = CodeOps + 5)
      BY OpIs DEF ToolType
    <3>. QED BY <1>4, <3>1, <3>2, <3>3
  <2>4. CASE tool.e = worker.e
    <3>1. PICK n \in 1..Len(Pieces), p \in 0..(LastOp - 1) :
            /\ Reads(n) /\ Done(n, p) /\ Shows(n, p)
            /\ "user" = Op(p + 1) /\ p + 1 <= OpsIn(n)
      BY <2>1, <2>4, BeforeOp
    <3>2. n + 1 \in 1..Len(Pieces) /\ Lines(n + 1)' /\ Head(stdin).ops = Pieces[n + 1]
      <4>1. n \in 0..Len(Pieces) BY <2>2, <3>1
      <4>. QED BY <1>1, <1>8, <3>1, <4>1, LinesTail
    <3>3. p \in 2..(CodeOps + 1) BY <3>1, OpIs DEF ToolType
    <3>4. n \in 1..(LastOp - 1) /\ OpsIn(n + 1) = n + 1 /\ p + 1 <= n BY <1>4, <2>2, <3>1, <3>2
    <3>9. PICK q \in 1..LastOp : q = n + 1 BY <1>4, <3>4
    <3>5. Reads(q)'
      <4>1. q # 0 /\ Lines(q)' /\ tool'.e \in {0, worker'.e} BY <1>1, <2>4, <3>2, <3>9
      <4>. QED BY <4>1 DEF Reads
    <3>6. Done(q, p)'
      <4>1. q # 0 /\ p + Len(tool'.ops) <= OpsIn(q)'
        <5>1. OpsIn(q)' = q /\ Len(tool'.ops) = 1 BY <1>1, <1>2, <2>1, <3>4, <3>9
        <5>. QED BY <3>3, <3>4, <3>9, <5>1
      <4>2. \A i \in DOMAIN tool'.ops : tool'.ops[i] = Op(p + i)'
        BY <1>1, <1>2, <2>4, <3>1 DEF Done
      <4>3. lang' = "shell" /\ robbed' /\ tool'.ops = <<"user">> /\ tool'.e = worker'.e
        BY <1>1, <1>8, <2>1, <2>4
      <4>. QED BY <4>1, <4>2, <4>3 DEF Done
    <3>7. Shows(q, p)'
      <4>1. \A t \in Streams : ~(p < Opens(t)) BY <1>5, <3>3
      <4>2. ASSUME NEW t \in Streams, p < Closes(t), ~Taken(t, q, p)
            PROVE  t \notin decoder'.fenced /\ Absent(t, {"fence"})'
        <5>1. ~Taken(t, n, p)
          <6>1. n # LastOp BY <1>4, <3>4
          <6>. QED BY <6>1 DEF Taken
        <5>2. Absent(t, {"fence"}) /\ t \notin decoder.fenced BY <3>1, <4>2, <5>1 DEF Shows
        <5>3. t # "stdout" \/ Head(stdin).ops # <<"fenceOut">>
          <6>1. ASSUME t = "stdout", Head(stdin).ops = <<"fenceOut">> PROVE FALSE
            <7>1. q = LastOp
              <8>1. n \in 0..(LastOp - 1) BY <1>4, <3>4
              <8>. QED BY <2>3, <3>2, <3>9, <6>1, <8>1
            <7>2. p < CodeOps + 2 BY <1>4, <3>3
            <7>. QED BY <1>8, <4>2, <6>1, <7>1, <7>2 DEF Taken
          <6>. QED BY <6>1
        <5>. QED BY <1>1, <1>3, <5>2, <5>3
      <4>3. ~(At("reply") /\ summary.dropped # Unknown)
        <5>1. p # LastOp BY <1>4, <3>3
        <5>. QED BY <3>1, <5>1 DEF Shows
      <4>. QED BY <1>1, <1>2, <2>1, <4>1, <4>2, <4>3 DEF Shows, At
    <3>8. q \in 0..Len(Pieces') /\ p \in 0..LastOp' BY <1>2, <1>4, <2>2, <3>3
    <3>. QED BY <3>5, <3>6, <3>7, <3>8 DEF Progress
  <2>5. CASE tool.e # worker.e
    <3>1. PICK n \in 0..Len(Pieces), p \in 0..LastOp : Reads(n) /\ Done(n, p) /\ Shows(n, p)
      BY DEF Progress
    <3>2. n + 1 \in 1..Len(Pieces) /\ Lines(n + 1)' /\ Head(stdin).ops = Pieces[n + 1]
      BY <1>1, <1>8, <3>1, LinesTail
    <3>3. n \in 0..(LastOp - 1) BY <1>4, <2>2, <3>1, <3>2
    <3>4. p = n
      <4>1. p = OpsIn(n) BY <2>5, <3>1 DEF Done
      <4>. QED BY <1>8, <4>1 DEF OpsIn
    <3>5. PICK q \in 1..LastOp : q = n + 1 BY <2>2, <3>2
    <3>6. OpsIn(q) = q BY <2>2
    <3>7. Reads(q)' BY <1>1, <1>8, <2>1, <3>2, <3>5 DEF Reads
    <3>8. Done(q, q)'
      <4>1. tool'.e # worker'.e BY <1>1, <2>5
      <4>2. q = OpsIn(q)' BY <1>2, <3>6
      <4>. QED BY <4>1, <4>2 DEF Done
    <3>9. Shows(q, q)'
      <4>1. ASSUME NEW t \in Streams, q < Opens(t) PROVE Untouched(t)'
        <5>1. t = "stdout" /\ n = 0 /\ p < Opens(t) BY <1>5, <3>3, <3>4, <3>5, <4>1
        <5>2. Head(stdin).ops \notin {<<"startOut">>, <<"fenceOut">>}
          <6>1. 0 + 1 # LastOp /\ n # 1 BY <1>4, <5>1
          <6>2. /\ Head(stdin).ops = <<"fenceOut">> => n + 1 = LastOp
                /\ Head(stdin).ops = <<"startOut">> => n = 1
            BY <2>3, <3>2, <3>3
          <6>. QED BY <5>1, <6>1, <6>2
        <5>3. Untouched(t) BY <3>1, <5>1 DEF Shows
        <5>. QED BY <1>3, <5>2, <5>3
      <4>2. ASSUME NEW t \in Streams, q < Closes(t)
            PROVE  t \notin decoder'.fenced /\ Absent(t, {"fence"})'
        <5>1. p < Closes(t) /\ n # LastOp BY <1>4, <1>5, <3>3, <3>4, <3>5, <4>2
        <5>2. Absent(t, {"fence"}) /\ t \notin decoder.fenced BY <3>1, <5>1 DEF Shows, Taken
        <5>3. t # "stdout" \/ Head(stdin).ops # <<"fenceOut">>
          <6>1. Head(stdin).ops = <<"fenceOut">> => q = LastOp BY <2>3, <3>2, <3>3, <3>5
          <6>. QED BY <1>4, <1>5, <4>2, <6>1
        <5>. QED BY <1>1, <1>3, <5>2, <5>3
      <4>3. ~(At("reply") /\ summary.dropped # Unknown)
        <5>1. p # LastOp BY <1>4, <3>3, <3>4
        <5>. QED BY <3>1, <5>1 DEF Shows
      <4>. QED BY <1>1, <1>2, <2>1, <4>1, <4>2, <4>3 DEF Shows, At
    <3>10. q \in 0..Len(Pieces') /\ q \in 0..LastOp' BY <1>2, <1>4, <2>2
    <3>. QED BY <3>7, <3>8, <3>9, <3>10 DEF Progress
  <2>. QED BY <2>4, <2>5
<1>. QED BY <1>4, <1>6, <1>7, <1>8

\* The main thread writes the next line to stdin.
LEMMA WriteIsProgress ==
  ASSUME Typed, WorkerSound, Progress, tool.alive, WriteLine
  PROVE  Progress'
<1>. USE DEF Typed
<1>0. Executing BY DEF WriteLine, Executing, At
<1>1. PICK n \in 0..Len(Pieces), p \in 0..LastOp : Reads(n) /\ Done(n, p) /\ Shows(n, p)
  BY <1>0 DEF Progress
<1>2. /\ worker.pc = "write" /\ worker.unsent # <<>> /\ worker.unsent \in Seq(Line)
      /\ stdin \in Seq(Line) /\ stdin' = Append(stdin, Head(worker.unsent))
      /\ worker'.unsent = Tail(worker.unsent) /\ worker'.e = worker.e
      /\ worker'.pc \in {"write", "collect"}
      /\ UNCHANGED <<lang, tool, window, completed, robbed, edaStatus, outputQ, pipe, decoder>>
  BY DEF WriteLine, At, ToolType, WorkerType, WorkerSound, readVars, history
<1>3. PICK u \in Nat \ {0} : /\ u = Len(worker.unsent) /\ Len(Tail(worker.unsent)) = u - 1
                             /\ DOMAIN worker.unsent = 1..u
                             /\ DOMAIN Tail(worker.unsent) = 1..(u - 1)
                             /\ \A i \in 1..(u - 1) : Tail(worker.unsent)[i] = worker.unsent[i + 1]
                             /\ Head(worker.unsent) = worker.unsent[1]
                             /\ Head(worker.unsent) \in Line
  BY <1>2, TailIs
<1>4. PICK h \in Nat : /\ h = Len(stdin) /\ Len(stdin') = h + 1
                       /\ DOMAIN stdin = 1..h /\ DOMAIN stdin' = 1..(h + 1)
                       /\ \A i \in 1..h : stdin'[i] = stdin[i]
                       /\ stdin'[h + 1] = Head(worker.unsent)
  BY <1>2, <1>3, AppendIs
<1>5. PICK m, b : m = SentLines /\ b = Block(worker.e) OBVIOUS
<1>6. Pieces' = Pieces /\ Block(worker.e)' = b /\ Len(Pieces) \in Nat
  BY <1>2, <1>5, SameBlock, PiecesAre DEF ToolType
<1>7. m \in Nat /\ SentLines' = m + 1
  <2>1. n \in 0..SentLines BY <1>1 DEF Reads, Lines
  <2>2. m = Len(Pieces) - u BY <1>3, <1>5 DEF SentLines
  <2>3. SentLines' = Len(Pieces) - (u - 1) BY <1>2, <1>3, <1>6 DEF SentLines
  <2>. QED BY <1>5, <1>6, <2>1, <2>2, <2>3
<1>8. /\ n \in 0..m /\ m - n <= h
      /\ \A i \in 1..h : IF i > h - (m - n) THEN stdin[i] = b[m - h + i] ELSE stdin[i].e # worker.e
      /\ \A i \in 1..u : worker.unsent[i] = b[m + i]
      /\ m - n < h => n = 0
  BY <1>1, <1>3, <1>4, <1>5 DEF Reads, Lines
<1>9. Lines(n)'
  <2>0. n \in 0..m /\ m \in Nat /\ h \in Nat /\ u \in Nat \ {0} /\ m - n <= h BY <1>7, <1>8
  <2>1. /\ n \in 0..(m + 1) /\ (m + 1) - n <= h + 1
        /\ ((m + 1) - n < h + 1 <=> m - n < h)
    BY <2>0
  <2>2. \A i \in 1..h : /\ i > h - (m - n) <=> i > (h + 1) - ((m + 1) - n)
                        /\ m - h + i = (m + 1) - (h + 1) + i
    BY <2>0
  <2>3. h + 1 > (h + 1) - ((m + 1) - n) /\ (m + 1) - (h + 1) + (h + 1) = m + 1 BY <2>0
  <2>4. \A i \in 1..(h + 1) : i \in 1..h \/ i = h + 1 BY <2>0
  <2>5. stdin'[h + 1] = b[m + 1] BY <1>3, <1>4, <1>8, <2>0
  <2>6. \A i \in 1..(h + 1) : IF i > (h + 1) - ((m + 1) - n)
                              THEN stdin'[i] = b[(m + 1) - (h + 1) + i]
                              ELSE stdin'[i].e # worker.e
    <3>1. \A i \in 1..h : IF i > (h + 1) - ((m + 1) - n) THEN stdin'[i] = b[(m + 1) - (h + 1) + i]
                          ELSE stdin'[i].e # worker.e
      BY <1>4, <1>8, <2>2
    <3>. QED BY <2>3, <2>4, <2>5, <3>1
  <2>7. \A i \in 1..(u - 1) : i + 1 \in 1..u /\ m + (i + 1) = (m + 1) + i BY <2>0
  <2>8. \A i \in 1..(u - 1) : Tail(worker.unsent)[i] = b[(m + 1) + i] BY <1>3, <1>8, <2>7
  <2>9. n \in 0..SentLines' /\ SentLines' - n <= Len(stdin') BY <1>4, <1>7, <2>1
  <2>10. \A i \in DOMAIN stdin' :
           IF i > Len(stdin') - (SentLines' - n)
           THEN stdin'[i] = Block(worker.e)'[SentLines' - Len(stdin') + i]
           ELSE stdin'[i].e # worker'.e
    BY <1>2, <1>4, <1>6, <1>7, <2>6
  <2>11. \A i \in DOMAIN worker'.unsent : worker'.unsent[i] = Block(worker.e)'[SentLines' + i]
    <3>1. worker'.unsent = Tail(worker.unsent) /\ DOMAIN worker'.unsent = 1..(u - 1)
      BY <1>2, <1>3
    <3>2. \A i : Block(worker.e)'[SentLines' + i] = b[(m + 1) + i] BY <1>6, <1>7
    <3>. QED BY <2>8, <3>1, <3>2
  <2>12. SentLines' - n < Len(stdin') => n = 0 BY <1>4, <1>7, <1>8, <2>1
  <2>. QED BY <2>9, <2>10, <2>11, <2>12 DEF Lines
<1>13. Reads(n)' BY <1>1, <1>2, <1>9 DEF Reads
<1>10. Done(n, p)' BY <1>1, <1>2, SameBlock DEF Done
<1>11. Shows(n, p)' BY <1>1, <1>2, SameShows DEF At
<1>12. n \in 0..Len(Pieces)' /\ p \in 0..LastOp' BY <1>1, <1>2, SameBlock
<1>. QED BY <1>10, <1>11, <1>12, <1>13 DEF Progress

\* When an execution begins, nothing of it shows.
LEMMA BeginIsUntouched ==
  ASSUME Typed, NamesKnown, NEW e \in Execs, NEW kind, Begin(e, kind), ~Known(e),
         NEW s \in Streams
  PROVE  Untouched(s)'
<1>1. /\ worker'.e = e /\ decoder'.started = {} /\ UNCHANGED <<outputQ, pipe, window>>
  BY DEF Begin, FreshDecoder, readVars, toolVars, history
<1>2. /\ \A i \in DOMAIN outputQ : outputQ[i].chunk.e # e
      /\ window[s] # e /\ \A i \in DOMAIN pipe[s] : pipe[s][i].e # e
  BY FreshIs
<1>. QED BY <1>1, <1>2 DEF Untouched, Absent

\* An execution begins.
LEMMA BeginIsProgress ==
  ASSUME Typed, WorkerSound, NamesKnown, NEW e \in Execs, NEW kind, At("idle"),
         Begin(e, kind), ~Known(e)
  PROVE  Progress'
<1>. USE DEF Typed
<1>1. /\ worker'.e = e /\ worker'.unsent = Block(e) /\ worker'.pc = "write"
      /\ decoder'.started = {} /\ decoder'.fenced = {}
      /\ UNCHANGED <<lang, tool, stdin, outputQ, pipe, window, completed, robbed>>
  BY DEF Begin, FreshDecoder, readVars, toolVars, history
<1>2. /\ tool.e # e /\ \A i \in DOMAIN stdin : stdin[i].e # e
  BY FreshIs
<1>3. /\ Pieces' = Pieces /\ Block(e)' = Block(e) /\ OpsIn(0)' = OpsIn(0) /\ OpsIn(0) = 0
      /\ LastOp' = LastOp /\ LastOp \in Nat /\ CodeOps' \in Nat
      /\ Len(Pieces) \in Nat \ {0} /\ Len(Block(e)) = Len(Pieces)
  <2>1. Len(Pieces) \in Nat \ {0} /\ CodeOps \in Nat /\ Len(Block(e)) = Len(Pieces)
    BY PiecesAre, BlockIs, ScriptIs DEF ToolType
  <2>2. LastOp \in Nat BY ScriptIs DEF ToolType
  <2>. QED BY <1>1, <2>1, <2>2, SameBlock DEF OpsIn
<1>4. SentLines' = 0 BY <1>1, <1>3 DEF SentLines
<1>9. completed = 0 /\ ~robbed BY DEF WorkerSound, At, Executing
<1>5. Lines(0)'
  <2>1. Len(stdin) \in Nat /\ DOMAIN stdin = 1..Len(stdin) BY DEF ToolType
  <2>2. \A i \in DOMAIN stdin : ~(i > Len(stdin) - (0 - 0)) BY <2>1
  <2>3. \A i \in DOMAIN Block(e) : 0 + i = i
    <3>1. DOMAIN Block(e) = 1..Len(Block(e)) BY BlockIs DEF ToolType
    <3>. QED BY <1>3, <3>1
  <2>4. Block(worker.e)' = Block(e) BY <1>1, SameBlock DEF Block
  <2>5. /\ 0 \in 0..0 /\ 0 - 0 <= Len(stdin) BY <2>1
  <2>. QED BY <1>1, <1>2, <1>4, <2>2, <2>3, <2>4, <2>5 DEF Lines
<1>10. Reads(0)' BY <1>1, <1>5, <1>9 DEF Reads
<1>6. Done(0, 0)' BY <1>1, <1>2, <1>3 DEF Done
<1>7. Shows(0, 0)'
  <2>1. \A s \in Streams : Untouched(s)' BY BeginIsUntouched
  <2>2. \A s \in Streams : Absent(s, {"fence"})' BY <2>1 DEF Untouched, Absent
  <2>3. ~(0 > CodeOps' + 2)
    <3>1. PICK c \in Nat : c = CodeOps' BY <1>3
    <3>2. ~(0 > c + 2) OBVIOUS
    <3>. QED BY <3>1, <3>2
  <2>. QED BY <1>1, <1>9, <2>1, <2>2, <2>3 DEF Shows, At
<1>8. 0 \in 0..Len(Pieces)' /\ 0 \in 0..LastOp' BY <1>3
<1>. QED BY <1>6, <1>7, <1>8, <1>10 DEF Progress

\* A chunk that was read, or taken from the queue, says no more than before.
LEMMA ReadIsProgress ==
  ASSUME Typed, WorkerSound, Progress, tool.alive, Executing,
         (\E s \in Streams : DrainPipe(s)) \/ TakeEvent \/ DrainEvent
  PROVE  Progress'
<1>. USE DEF Typed
<1>0. worker \in [pc : Steps, e : 0..MaxExecs, unsent : Seq(Line), reason : Losses]
  BY DEF WorkerType
<1>1. PICK n \in 0..Len(Pieces), p \in 0..LastOp : Reads(n) /\ Done(n, p) /\ Shows(n, p)
  BY DEF Progress
<1>2. /\ UNCHANGED <<lang, tool, stdin, window, completed, robbed, edaStatus, summary>>
      /\ worker'.e = worker.e /\ worker'.unsent = worker.unsent
      /\ At("reply")' => At("reply")
      /\ (\E s \in Streams : DrainPipe(s)) \/ ConsumeEvent
  <2>1. CASE \E s \in Streams : DrainPipe(s)
    BY <2>1 DEF DrainPipe, toolVars, history, workerVars, At
  <2>2. CASE TakeEvent
    BY <1>0, <2>2 DEF TakeEvent, ConsumeEvent, toolVars, history, At
  <2>3. CASE DrainEvent
    BY <2>3 DEF DrainEvent, ConsumeEvent, toolVars, history, At
  <2>. QED BY <2>1, <2>2, <2>3
<1>3. Reads(n)' BY <1>1, <1>2, SameReads
<1>4. Done(n, p)' BY <1>1, <1>2, SameBlock DEF Done
<1>5. n \in 0..Len(Pieces)' /\ p \in 0..LastOp' BY <1>1, <1>2, SameBlock
<1>6. ASSUME NEW t \in Streams
      PROVE  /\ Untouched(t) => Untouched(t)'
             /\ t \notin decoder.fenced /\ Absent(t, {"fence"})
                  => t \notin decoder'.fenced /\ Absent(t, {"fence"})'
  <2>1. Untouched(t) => Untouched(t)' BY <1>2, UntouchedRead
  <2>2. ASSUME t \notin decoder.fenced, Absent(t, {"fence"})
        PROVE  t \notin decoder'.fenced /\ Absent(t, {"fence"})'
    <3>1. Absent(t, {"fence"})' BY <1>2, <2>2, AbsentRead
    <3>2. CASE ConsumeEvent BY <2>2, <3>1, <3>2, UnseenIs
    <3>3. CASE \E s \in Streams : DrainPipe(s)
      <4>1. decoder' = decoder BY <3>3 DEF DrainPipe, workerVars
      <4>. QED BY <2>2, <3>1, <4>1
    <3>. QED BY <1>2, <3>2, <3>3
  <2>. QED BY <2>1, <2>2
<1>7. Shows(n, p)'
  <2>1. /\ \A s \in Streams : Opens(s)' = Opens(s) /\ Closes(s)' = Closes(s)
        /\ CodeOps' = CodeOps /\ LastOp' = LastOp
        /\ \A s : Taken(s, n, p)' = Taken(s, n, p)
    BY <1>2, SameBlock
  <2>. QED BY <1>1, <1>2, <1>6, <2>1 DEF Shows
<1>. QED BY <1>3, <1>4, <1>5, <1>7 DEF Progress

-----------------------------------------------------------------------------
(* The end of an execution *)

\* A summary that knows its loss was made after both fences, or after both ends of file.
LEMMA KnownIsFinal ==
  ASSUME Typed, WorkerSound, Finish, summary'.dropped # Unknown
  PROVE  /\ \/ worker.reason = "none" /\ Complete
            \/ worker.reason = "TIMED_OUT" /\ AllEof
         /\ sink.notes = 0 /\ Decoding
         /\ summary'.reason = worker.reason
         /\ summary'.written + summary'.dropped =
              sink.own + sink.other + (IF worker.reason = "TIMED_OUT" THEN UnitBytes ELSE 0)
<1>. USE DEF Typed
<1>1. PICK k : /\ SinkSound(k) /\ k.own = sink.own /\ k.other = sink.other
               /\ k.notes = sink.notes + (IF worker.reason = "TIMED_OUT" THEN UnitBytes ELSE 0)
               /\ \E r \in Ends : (r = "none" => k.reason = "none") /\ summary' = Snapshot(k, r)
  BY FinishIs
<1>2. /\ summary'.reason = TerminationReason /\ IncompleteReason = "none"
      /\ summary'.written + summary'.dropped = Observed(k)
  BY <1>1, SnapshotIs
<1>3. worker.reason \in Losses /\ worker.pc \in {"finish", "drain"}
  BY DEF WorkerType, Finish, At
<1>4. \/ TerminationReason = "none"
      \/ TerminationReason = "TIMED_OUT" /\ AllEof
  BY <1>2, <1>3 DEF IncompleteReason, TerminationReason, Losses
<1>5. \/ worker.reason = "none" /\ TerminationReason = "none"
      \/ worker.reason = "TIMED_OUT" /\ AllEof /\ TerminationReason = "TIMED_OUT"
  BY <1>3, <1>4 DEF TerminationReason, Losses
<1>6. worker.reason = "none" => Complete BY <1>3 DEF WorkerSound, At
<1>7. sink.notes = 0 BY <1>5 DEF WorkerSound
<1>8. Observed(k) = sink.own + sink.other + (IF worker.reason = "TIMED_OUT" THEN UnitBytes ELSE 0)
  <2>1. sink.own \in Nat /\ sink.other \in Nat BY DEF WorkerType, SinkSound, Sinks
  <2>. QED BY <1>1, <1>7, <2>1 DEF Observed, UnitBytes
<1>. QED BY <1>2, <1>3, <1>5, <1>6, <1>7, <1>8 DEF Decoding

\* After its fences no stream is in the window, and nothing of the execution is on its way.
LEMMA FencedIsOver ==
  ASSUME Typed, WorkerSound, EndsKnown, Between, Decoding, Complete \/ AllEof, NEW s \in Streams
  PROVE  OnTheWay(s) = 0 /\ (Complete => window[s] # worker.e)
<1>. USE DEF Typed
<1>1. /\ pipe[s] \in Seq(Chunks) /\ outputQ \in Seq(Event)
      /\ DOMAIN pipe[s] = 1..Len(pipe[s]) /\ DOMAIN outputQ = 1..Len(outputQ)
      /\ Len(pipe[s]) \in Nat /\ Len(outputQ) \in Nat
  BY DEF ReadType
<1>2. OwnBetween(s) BY DEF Between
<1>3. Unit.e = worker.e /\ Unit # EOF /\ Unit # None /\ Named(Unit)
  BY DEF Unit, Chunk, EOF, None, Named
<1>4. ASSUME Complete
      PROVE  /\ decoder.held[s] # Unit /\ window[s] # worker.e
             /\ \A i \in DOMAIN pipe[s] : pipe[s][i] # Unit
             /\ \A i \in DOMAIN outputQ : outputQ[i] # [stream |-> s, chunk |-> Unit]
  <2>1. s \in decoder.fenced BY <1>4 DEF Complete
  <2>2. \A i : Fenced(s, i) /\ FencedInPipe(s, i) BY <2>1 DEF Fenced, FencedInPipe
  <2>3. decoder.held[s] # Unit /\ window[s] # worker.e BY <1>2, <1>3, <2>1, <2>2 DEF OwnBetween
  <2>4. \A i \in DOMAIN pipe[s] : pipe[s][i] # Unit BY <1>2, <1>3, <2>2 DEF OwnBetween
  <2>5. \A i \in DOMAIN outputQ : outputQ[i] # [stream |-> s, chunk |-> Unit]
    BY <1>2, <1>3, <2>2 DEF OwnBetween
  <2>. QED BY <2>3, <2>4, <2>5
<1>5. ASSUME AllEof
      PROVE  /\ decoder.held[s] # Unit
             /\ \A i \in DOMAIN pipe[s] : pipe[s][i] # Unit
             /\ \A i \in DOMAIN outputQ : outputQ[i] # [stream |-> s, chunk |-> Unit]
  <2>1. streamEof[s] BY <1>5 DEF AllEof
  <2>2. /\ s \in ended /\ decoder.held[s] = None /\ \A i \in DOMAIN outputQ : outputQ[i].stream # s
        /\ pipe[s] = <<>>
    BY <2>1 DEF EndsKnown
  <2>. QED BY <1>3, <2>2
<1>6. Count(pipe[s], Unit) = 0 BY <1>1, <1>4, <1>5, CountNone
<1>7. Count(outputQ, [stream |-> s, chunk |-> Unit]) = 0 BY <1>1, <1>4, <1>5, CountNone
<1>. QED BY <1>4, <1>5, <1>6, <1>7 DEF OnTheWay

\* An execution whose loss is known is over for its interpreter too.
LEMMA FinishIsProgress ==
  ASSUME Typed, WorkerSound, EndsKnown, Progress, tool.alive, Finish
  PROVE  Progress'
<1>. USE DEF Typed
<1>0. /\ Executing /\ Decoding /\ worker'.e = worker.e /\ worker'.unsent = worker.unsent
      /\ decoder'.started = {} /\ decoder'.fenced = {}
      /\ UNCHANGED <<lang, tool, stdin, window, completed, robbed, edaStatus, outputQ, pipe>>
  BY DEF Finish, Executing, Decoding, At, WorkerType, FreshDecoder, toolVars, readVars, history
<1>1. PICK n \in 0..Len(Pieces), p \in 0..LastOp : Reads(n) /\ Done(n, p) /\ Shows(n, p)
  BY <1>0 DEF Progress
<1>2. Reads(n)' BY <1>0, <1>1, SameReads
<1>3. Done(n, p)' BY <1>0, <1>1, SameBlock DEF Done
<1>4. summary'.dropped # Unknown => p = LastOp
  <2>1. SUFFICES ASSUME summary'.dropped # Unknown PROVE p = LastOp OBVIOUS
  <2>2. Complete \/ AllEof BY <2>1, KnownIsFinal
  <2>3. Complete
    <3>1. ASSUME AllEof PROVE FALSE
      <4>1. streamEof["stdout"] BY <3>1 DEF AllEof, Streams
      <4>. QED BY <4>1 DEF EndsKnown, WriteEndsClosed, Streams
    <3>. QED BY <2>2, <3>1
  <2>4. \A s \in Streams : s \in decoder.fenced BY <2>3 DEF Complete
  <2>5. CodeOps \in Nat \ {0} /\ LastOp = CodeOps + 6 BY ScriptIs DEF ToolType
  <2>6. ~(p < Closes("stderr"))
    <3>1. "stderr" \in Streams /\ ~Taken("stderr", n, p) BY DEF Streams, Taken
    <3>. QED BY <1>1, <2>4, <3>1 DEF Shows
  <2>7. p >= CodeOps + 5 BY <1>1, <2>5, <2>6 DEF Closes
  <2>8. ~(p < Closes("stdout"))
    <3>1. "stdout" \in Streams /\ ~Taken("stdout", n, p) BY <1>1, <2>5, <2>7 DEF Streams, Taken
    <3>. QED BY <1>1, <2>4, <3>1 DEF Shows
  <2>9. ~(p < LastOp) BY <2>8 DEF Closes
  <2>. QED BY <1>1, <2>5, <2>9
<1>5. Shows(n, p)'
  <2>1. /\ \A s \in Streams : Opens(s)' = Opens(s) /\ Closes(s)' = Closes(s)
        /\ CodeOps' = CodeOps /\ LastOp' = LastOp
        /\ \A s : Taken(s, n, p)' = Taken(s, n, p)
    BY <1>0, SameBlock
  <2>2. ASSUME NEW s \in Streams
        PROVE  /\ Untouched(s) => Untouched(s)'
               /\ Absent(s, {"fence"}) => Absent(s, {"fence"})'
    BY <1>0, UntouchedSame, AbsentSame
  <2>3. summary'.dropped # Unknown => p = LastOp' BY <1>4, <2>1
  <2>4. \A s : s \notin decoder'.fenced BY <1>0
  <2>. QED BY <1>0, <1>1, <2>1, <2>2, <2>3, <2>4 DEF Shows
<1>6. n \in 0..Len(Pieces)' /\ p \in 0..LastOp' BY <1>0, <1>1, SameBlock
<1>. QED BY <1>2, <1>3, <1>5, <1>6 DEF Progress

\* Text that is written changes nothing of where the interpreter is.
LEMMA PrintIsProgress ==
  ASSUME Typed, WorkerSound, Progress, Executing, tool.alive, NEW s \in Streams, PrintUnit(s)
  PROVE  Progress'
<1>. USE DEF Typed
<1>1. /\ UNCHANGED <<lang, tool, stdin, window, completed, robbed, edaStatus, worker, decoder,
                     summary>>
      /\ EmitUnit(s)
  BY DEF PrintUnit, workerVars
<1>. DEFINE c == Chunk("user", window[s])
<1>2. c \in Chunks /\ Emit(s, c) /\ c.e = window[s] /\ c.kind = "user"
  <2>1. c \in Chunks /\ Emit(s, c) BY <1>1, PrintingIs
  <2>. QED BY <2>1 DEF Chunk
<1>. HIDE DEF c
<1>3. PICK n \in 0..Len(Pieces), p \in 0..LastOp : Reads(n) /\ Done(n, p) /\ Shows(n, p)
  BY DEF Progress
<1>4. Reads(n)' BY <1>1, <1>3, SameReads
<1>5. Done(n, p)' BY <1>1, <1>3, SameBlock DEF Done
<1>6. ASSUME NEW t \in Streams
      PROVE  /\ Untouched(t) => Untouched(t)'
             /\ Absent(t, {"fence"}) => Absent(t, {"fence"})'
  <2>1. ASSUME Untouched(t) PROVE Untouched(t)'
    <3>1. window[t] # worker.e BY <2>1 DEF Untouched
    <3>2. s = t => c.e # worker.e BY <1>2, <3>1
    <3>. QED BY <1>1, <1>2, <2>1, <3>1, <3>2, UntouchedEmit
  <2>2. ASSUME Absent(t, {"fence"}) PROVE Absent(t, {"fence"})'
    <3>1. c.kind \notin {"fence"} BY <1>2
    <3>. QED BY <1>1, <1>2, <2>2, <3>1, AbsentEmit
  <2>. QED BY <2>1, <2>2
<1>7. Shows(n, p)'
  <2>1. /\ \A t \in Streams : Opens(t)' = Opens(t) /\ Closes(t)' = Closes(t)
        /\ CodeOps' = CodeOps /\ LastOp' = LastOp
        /\ \A t : Taken(t, n, p)' = Taken(t, n, p)
    BY <1>1, SameBlock
  <2>. QED BY <1>1, <1>3, <1>6, <2>1 DEF Shows, At
<1>8. n \in 0..Len(Pieces)' /\ p \in 0..LastOp' BY <1>1, <1>3, SameBlock
<1>. QED BY <1>4, <1>5, <1>7, <1>8 DEF Progress

\* The interpreter stays in the order of its operations, whatever the readers do.
LEMMA StaysInProgress ==
  ASSUME Typed, WorkerSound, EndsKnown, NamesKnown, Progress, Unread, OneByOne, Next
  PROVE  Progress'
<1>. USE DEF Typed
<1>0. /\ worker \in [pc : Steps, e : 0..MaxExecs, unsent : Seq(Line), reason : Losses]
      /\ tool \in [alive : BOOLEAN, killed : BOOLEAN, ops : Seq(Ops), e : 0..MaxExecs]
  BY DEF WorkerType, ToolType
<1>1. ASSUME worker' = worker, ~Executing \/ ~tool.alive, tool'.alive => tool.alive
      PROVE  Progress'
  BY <1>1 DEF Progress, Executing
<1>2. ASSUME ~tool'.alive \/ worker'.pc \in {"idle", "close", "closed"} PROVE Progress'
  BY <1>2 DEF Progress, Executing
<1>3. CASE ReadLine
  <2>1. worker' = worker /\ tool'.alive = tool.alive BY <1>0, <1>3 DEF ReadLine, workerVars
  <2>. QED BY <1>1, <1>3, <2>1, LineIsProgress
<1>4. CASE OpStep
  <2>1. tool.alive /\ tool.ops # <<>> /\ tool' = NextOp /\ worker' = worker
    BY <1>4 DEF OpStep, WriteMark, CaptureStatus, WriteStatus, WriteBlankStatus, UserCodeEnds,
                InUserCode, Doing, workerVars
  <2>2. CASE Executing BY <1>4, <2>2, OpIsProgress
  <2>. QED BY <1>1, <2>1, <2>2, NextOpIs
<1>5. ASSUME NEW s \in Streams, PrintUnit(s) PROVE Progress'
  <2>1. UNCHANGED <<tool, worker>> BY <1>5 DEF PrintUnit, workerVars
  <2>. QED BY <1>1, <1>5, <2>1, PrintIsProgress
<1>6. CASE TakeLine
  <2>1. UNCHANGED <<tool, worker>> BY <1>6 DEF TakeLine, workerVars
  <2>. QED BY <1>1, <1>6, <2>1, TakeIsProgress
<1>7. CASE Die
  <2>1. ~tool'.alive BY <1>0, <1>7 DEF Die
  <2>. QED BY <1>2, <2>1
<1>8. CASE LeaveChild \/ ChildEnds \/ CloseTakes
  <2>1. /\ UNCHANGED <<lang, tool, stdin, window, completed, robbed, edaStatus>>
        /\ UNCHANGED <<worker, decoder, summary, pipe>>
        /\ CloseTakes \/ outputQ' = outputQ
    BY <1>8 DEF LeaveChild, ChildEnds, CloseTakes, workerVars, readVars, toolVars, history
  <2>2. CASE CloseTakes BY <1>2, <2>1, <2>2 DEF CloseTakes, At
  <2>3. CASE outputQ' = outputQ BY <1>1, <2>1, <2>3, SameProgress DEF At
  <2>. QED BY <2>1, <2>2, <2>3
<1>9. CASE (\E s \in Streams : DrainPipe(s)) \/ TakeEvent \/ DrainEvent
  <2>1. tool' = tool
    BY <1>9 DEF DrainPipe, TakeEvent, DrainEvent, ConsumeEvent, toolVars
  <2>2. ASSUME tool.alive, ~Executing PROVE Progress'
    <3>1. \E s \in Streams : DrainPipe(s) BY <1>9, <2>2 DEF TakeEvent, DrainEvent, Executing, At
    <3>2. worker' = worker BY <3>1 DEF DrainPipe, workerVars
    <3>. QED BY <1>1, <2>1, <2>2, <3>2
  <2>3. CASE ~tool.alive BY <1>2, <2>1, <2>3
  <2>. QED BY <1>9, <2>2, <2>3, ReadIsProgress
<1>10. CASE PrepareExecution \/ Reply \/ CloseExecutor \/ ProcessEnds
  <2>1. worker'.pc \in {"idle", "close", "closed"}
    <3>1. CASE PrepareExecution BY <3>1 DEF PrepareExecution, At
    <3>2. CASE Reply BY <1>0, <3>2 DEF Reply
    <3>3. CASE CloseExecutor BY <1>0, <3>3 DEF CloseExecutor, Goto
    <3>4. CASE ProcessEnds BY <3>4 DEF ProcessEnds
    <3>. QED BY <1>10, <3>1, <3>2, <3>3, <3>4
  <2>. QED BY <1>2, <2>1
<1>11. CASE ExecutePrepared \/ ExecuteInMemory
  BY <1>11, BeginsFresh, BeginIsProgress
<1>12. CASE WriteLine
  <2>1. tool' = tool BY <1>12 DEF WriteLine
  <2>. QED BY <1>2, <1>12, <2>1, WriteIsProgress
<1>13. CASE StdinBroken \/ NoticeExit \/ Deadline
  <2>1. /\ Executing /\ worker'.pc \in {"finish", "drain"}
        /\ worker'.e = worker.e /\ worker'.unsent = worker.unsent
        /\ tool'.e = tool.e /\ tool'.ops = tool.ops /\ tool'.alive = tool.alive
        /\ UNCHANGED <<lang, stdin, window, completed, robbed, edaStatus, outputQ, pipe, decoder>>
    <3>1. CASE StdinBroken
      BY <1>0, <3>1 DEF StdinBroken, Executing, At, toolVars, readVars, history
    <3>2. CASE NoticeExit \/ Deadline
      BY <1>0, <3>2 DEF NoticeExit, Deadline, Executing, At, KillGroup, SameTool, readVars, history
    <3>. QED BY <1>13, <3>1, <3>2
  <2>2. CASE tool.alive BY <2>1, <2>2, SameProgress DEF At
  <2>. QED BY <1>2, <2>1, <2>2
<1>14. CASE Finish
  <2>1. tool' = tool BY <1>14 DEF Finish, toolVars
  <2>. QED BY <1>2, <1>14, <2>1, FinishIsProgress
<1>. QED
  BY NextIs, <1>3, <1>4, <1>5, <1>6, <1>7, <1>8, <1>9, <1>10, <1>11, <1>12, <1>13, <1>14
     DEF OpStep

-----------------------------------------------------------------------------
(* The lines of a block *)

\* What text leaves of a stream.
LEMMA PrintLeaves ==
  ASSUME Typed, NEW s \in Streams, EmitUnit(s), UNCHANGED <<worker, decoder, window>>,
         NEW t \in Streams
  PROVE  /\ Untouched(t) => Untouched(t)'
         /\ \A kind : Absent(t, {kind}) /\ kind # "user" => Absent(t, {kind})'
<1>. USE DEF Typed
<1>. DEFINE c == Chunk("user", window[s])
<1>1. c \in Chunks /\ Emit(s, c) /\ c.e = window[s] /\ c.kind = "user"
  <2>1. c \in Chunks /\ Emit(s, c) BY PrintingIs
  <2>. QED BY <2>1 DEF Chunk
<1>. HIDE DEF c
<1>2. ASSUME Untouched(t) PROVE Untouched(t)'
  <2>1. window[t] # worker.e BY <1>2 DEF Untouched
  <2>2. s = t => c.e # worker.e BY <1>1, <2>1
  <2>. QED BY <1>1, <1>2, <2>1, <2>2, UntouchedEmit
<1>3. ASSUME NEW kind, Absent(t, {kind}), kind # "user" PROVE Absent(t, {kind})'
  <2>1. c.kind \notin {kind} BY <1>1, <1>3
  <2>. QED BY <1>1, <1>3, <2>1, AbsentEmit
<1>. QED BY <1>2, <1>3

\* A Tcl block stays one line, and nothing of its execution shows before it is read.
LEMMA UnreadStays ==
  ASSUME Typed, WorkerSound, NamesKnown, Progress, Unread, Next
  PROVE  Unread'
<1>. USE DEF Typed
<1>0. /\ worker \in [pc : Steps, e : 0..MaxExecs, unsent : Seq(Line), reason : Losses]
      /\ tool \in [alive : BOOLEAN, killed : BOOLEAN, ops : Seq(Ops), e : 0..MaxExecs]
      /\ stdin \in Seq(Line)
  BY DEF WorkerType, ToolType
<1>. DEFINE Waits == At("write") \/ robbed \/ \E i \in DOMAIN stdin : stdin[i].e = worker.e
<1>1. lang' = lang
  BY NextIs DEF ReadLine, WriteMark, CaptureStatus, WriteStatus, WriteBlankStatus, TakeLine,
       ChildEnds, Die, PrintUnit, LeaveChild, UserCodeEnds, DrainPipe, PrepareExecution,
       ExecutePrepared, ExecuteInMemory, Begin, CloseExecutor, WriteLine, StdinBroken, TakeEvent,
       DrainEvent, ConsumeEvent, NoticeExit, Deadline, Finish, Reply, CloseTakes, ProcessEnds,
       SameTool, toolVars
<1>. SUFFICES ASSUME lang = "tcl" PROVE Unread'
  BY <1>1 DEF Unread
<1>2. /\ \A i \in DOMAIN stdin : stdin[i].ops = Script
      /\ \A i \in DOMAIN worker.unsent : worker.unsent[i].ops = Script
      /\ Executing /\ Waits => tool.e # worker.e /\ \A s \in Streams : Untouched(s)
      /\ Script' = Script
  BY <1>1, SameBlock DEF Unread, OneLine
<1>3. ASSUME \A i \in DOMAIN stdin' : stdin'[i].ops = Script,
             \A i \in DOMAIN worker'.unsent : worker'.unsent[i].ops = Script,
             Executing' /\ Waits' =>
               /\ Executing /\ Waits /\ worker'.e = worker.e /\ tool'.e \in {0, tool.e}
               /\ \A s \in Streams : Untouched(s) => Untouched(s)'
      PROVE  Unread'
  <2>1. OneLine(stdin)' /\ OneLine(worker.unsent)' BY <1>2, <1>3 DEF OneLine
  <2>2. ASSUME Executing', Waits' PROVE tool'.e # worker'.e /\ \A s \in Streams : Untouched(s)'
    <3>1. worker.e # 0 BY <1>3, <2>2 DEF WorkerSound
    <3>. QED BY <1>2, <1>3, <2>2, <3>1
  <2>. QED BY <2>1, <2>2 DEF Unread
\* Neither stdin nor the streams move.
<1>4. ASSUME UNCHANGED <<stdin, robbed, window, pipe, outputQ>>, worker'.e = worker.e,
             worker'.unsent = worker.unsent, decoder'.started \subseteq decoder.started,
             Executing' => Executing, At("write")' => At("write"), tool'.e \in {0, tool.e}
      PROVE  Unread'
  <2>1. \A s \in Streams : Untouched(s) => Untouched(s)' BY <1>4, UntouchedSame
  <2>. QED BY <1>2, <1>3, <1>4, <2>1
\* The first line leaves stdin.
<1>5. ASSUME stdin # <<>>, stdin' = Tail(stdin)
      PROVE  /\ \A i \in DOMAIN stdin' : stdin'[i].ops = Script
             /\ Head(stdin).ops = Script /\ Head(stdin) = stdin[1] /\ 1 \in DOMAIN stdin
             /\ (\E i \in DOMAIN stdin' : stdin'[i].e = worker.e)
                  => \E i \in DOMAIN stdin : stdin[i].e = worker.e
  <2>1. /\ DOMAIN Tail(stdin) = 1..(Len(stdin) - 1) /\ DOMAIN stdin = 1..Len(stdin)
        /\ Len(stdin) \in Nat \ {0} /\ Head(stdin) = stdin[1]
        /\ \A i \in 1..(Len(stdin) - 1) : Tail(stdin)[i] = stdin[i + 1]
    BY <1>0, <1>5, TailIs
  <2>2. \A i \in 1..(Len(stdin) - 1) : i + 1 \in 1..Len(stdin) BY <2>1
  <2>3. 1 \in DOMAIN stdin BY <2>1
  <2>. QED BY <1>2, <1>5, <2>1, <2>2, <2>3
<1>6. CASE ReadLine
  <2>1. /\ tool.alive /\ stdin # <<>> /\ stdin' = Tail(stdin)
        /\ tool'.e = Head(stdin).e /\ UNCHANGED <<worker, robbed, window, outputQ, pipe, decoder>>
    BY <1>0, <1>6 DEF ReadLine, workerVars, readVars, history
  <2>2. /\ \A i \in DOMAIN stdin' : stdin'[i].ops = Script
        /\ Head(stdin) = stdin[1] /\ 1 \in DOMAIN stdin
        /\ (\E i \in DOMAIN stdin' : stdin'[i].e = worker.e)
             => \E i \in DOMAIN stdin : stdin[i].e = worker.e
    BY <1>5, <2>1
  <2>3. \A s \in Streams : Untouched(s) => Untouched(s)' BY <2>1, UntouchedSame
  <2>4. /\ OneLine(stdin)' /\ OneLine(worker.unsent)' BY <1>2, <2>1, <2>2 DEF OneLine
  <2>5. (Executing' <=> Executing) /\ (At("write")' <=> At("write")) BY <2>1 DEF Executing, At
  <2>6. CASE Head(stdin).e # worker.e
    <3>1. Waits' => Waits BY <2>1, <2>2, <2>5
    <3>. QED BY <1>2, <2>1, <2>3, <2>4, <2>5, <2>6, <3>1 DEF Unread
  <2>7. CASE Head(stdin).e = worker.e
    <3>1. ASSUME Executing PROVE ~Waits'
      <4>1. PICK n \in 0..Len(Pieces), p \in 0..LastOp : Reads(n) /\ Done(n, p) /\ Shows(n, p)
        BY <2>1, <3>1 DEF Progress
      <4>2. worker.e # 0 BY <3>1 DEF WorkerSound
      <4>3. n + 1 \in 1..Len(Pieces) /\ SentLines - n = Len(stdin)
        BY <2>1, <2>7, <4>1, <4>2, HeadIsNext
      <4>4. Len(Pieces) = 1 BY PiecesAre
      <4>5. n = 0
        <5>1. n \in 0..1 /\ n + 1 \in 1..1 BY <4>1, <4>3, <4>4
        <5>. QED BY <5>1
      <4>6. PICK h \in Nat \ {0}, u \in Nat : h = Len(stdin) /\ u = Len(worker.unsent)
        BY <1>0, <2>1, TailIs
      <4>7. h = 1 /\ u = 0
        <5>1. SentLines = 1 - u BY <4>4, <4>6 DEF SentLines
        <5>2. (1 - u) - 0 = h BY <4>3, <4>5, <4>6, <5>1
        <5>. QED BY <5>2
      <4>8. ~At("write")
        <5>1. worker.unsent = <<>>
          <6>1. worker.unsent # <<>> => u \in Nat \ {0} BY <1>0, <4>6, TailIs
          <6>. QED BY <4>7, <6>1
        <5>. QED BY <5>1 DEF WorkerSound
      <4>9. ~robbed BY <4>1, <4>5 DEF Reads
      <4>10. DOMAIN stdin' = {}
        <5>1. DOMAIN Tail(stdin) = 1..(Len(stdin) - 1) BY <1>0, <2>1, TailIs
        <5>2. 1..(1 - 1) = {} OBVIOUS
        <5>. QED BY <2>1, <4>6, <4>7, <5>1, <5>2
      <4>. QED BY <2>1, <2>5, <4>8, <4>9, <4>10
    <3>. QED BY <2>4, <2>5, <3>1 DEF Unread
  <2>. QED BY <2>6, <2>7
<1>7. CASE OpStep
  <2>1. tool.ops # <<>> /\ tool' = NextOp /\ UNCHANGED <<stdin, worker, robbed>>
    BY <1>7 DEF OpStep, WriteMark, CaptureStatus, WriteStatus, WriteBlankStatus, UserCodeEnds,
                InUserCode, Doing, workerVars, history
  <2>2. tool'.e \in {0, tool.e} BY <2>1, NextOpIs
  <2>3. (Executing' <=> Executing) /\ (At("write")' <=> At("write")) BY <2>1 DEF Executing, At
  <2>4. ASSUME Executing, Waits PROVE \A s \in Streams : Untouched(s) => Untouched(s)'
    BY <1>2, <1>7, <2>4, OpLeaves
  <2>5. Waits' => Waits BY <2>1, <2>3
  <2>. QED BY <1>2, <1>3, <2>1, <2>2, <2>3, <2>4, <2>5
<1>8. ASSUME NEW s \in Streams, PrintUnit(s) PROVE Unread'
  <2>1. UNCHANGED <<stdin, worker, robbed, tool, decoder, window>> /\ EmitUnit(s)
    BY <1>8 DEF PrintUnit, workerVars
  <2>2. (Executing' <=> Executing) /\ (At("write")' <=> At("write")) BY <2>1 DEF Executing, At
  <2>3. \A t \in Streams : Untouched(t) => Untouched(t)' BY <2>1, PrintLeaves
  <2>4. Waits' => Waits BY <2>1, <2>2
  <2>. QED BY <1>2, <1>3, <2>1, <2>2, <2>3, <2>4
<1>9. CASE TakeLine
  <2>1. /\ stdin # <<>> /\ stdin' = Tail(stdin) /\ UNCHANGED <<tool, worker>>
        /\ robbed' = (robbed \/ Head(stdin).e = worker.e)
    BY <1>9, TakingIs DEF workerVars
  <2>2. /\ \A i \in DOMAIN stdin' : stdin'[i].ops = Script
        /\ Head(stdin).ops = Script /\ Head(stdin) = stdin[1] /\ 1 \in DOMAIN stdin
        /\ (\E i \in DOMAIN stdin' : stdin'[i].e = worker.e)
             => \E i \in DOMAIN stdin : stdin[i].e = worker.e
    BY <1>5, <2>1
  <2>3. (Executing' <=> Executing) /\ (At("write")' <=> At("write")) BY <2>1 DEF Executing, At
  <2>4. Waits' => Waits BY <2>1, <2>2, <2>3
  <2>5. Head(stdin).ops \notin {<<"startOut">>, <<"fenceOut">>}
    <3>1. PICK m \in Nat : m = Len(Script) /\ m > 1
      <4>1. Len(Script) = LastOp /\ LastOp = CodeOps + 6 /\ CodeOps \in Nat BY ScriptIs
      <4>. HIDE DEF LastOp, Script
      <4>2. PICK k \in Nat : k = CodeOps BY <4>1
      <4>3. Len(Script) = k + 6 BY <4>1, <4>2
      <4>. QED BY <4>3
    <3>2. \A x : Len(<<x>>) = 1 OBVIOUS
    <3>3. ~(1 > 1) OBVIOUS
    <3>. HIDE DEF Script
    <3>. QED BY <2>2, <3>1, <3>2, <3>3
  <2>6. Executing => \A t \in Streams : Untouched(t) => Untouched(t)'
    BY <1>9, <2>5, TakingLeaves
  <2>. QED BY <1>2, <1>3, <2>1, <2>2, <2>3, <2>4, <2>6
<1>10. CASE LeaveChild \/ ChildEnds \/ Die
  <2>1. /\ UNCHANGED <<stdin, robbed, window, pipe, outputQ, worker, decoder>>
        /\ tool'.e \in {0, tool.e}
    BY <1>0, <1>10 DEF LeaveChild, ChildEnds, Die, workerVars, readVars, history
  <2>. QED BY <1>4, <2>1 DEF Executing, At
<1>11. CASE (\E s \in Streams : DrainPipe(s)) \/ TakeEvent \/ DrainEvent
  <2>1. /\ UNCHANGED <<stdin, robbed, tool>> /\ worker'.e = worker.e
        /\ worker'.unsent = worker.unsent /\ (Executing' => Executing)
        /\ At("write")' => At("write")
        /\ (\E s \in Streams : DrainPipe(s)) \/ ConsumeEvent
    <3>1. CASE \E s \in Streams : DrainPipe(s)
      BY <3>1 DEF DrainPipe, toolVars, history, workerVars, At, Executing
    <3>2. CASE TakeEvent
      BY <1>0, <3>2 DEF TakeEvent, ConsumeEvent, toolVars, history, At, Executing
    <3>3. CASE DrainEvent
      BY <3>3 DEF DrainEvent, ConsumeEvent, toolVars, history, At, Executing
    <3>. QED BY <1>11, <3>1, <3>2, <3>3
  <2>2. \A t \in Streams : Untouched(t) => Untouched(t)' BY <2>1, UntouchedRead
  <2>3. Waits' => Waits BY <2>1
  <2>. QED BY <1>2, <1>3, <2>1, <2>2, <2>3
<1>12. CASE PrepareExecution \/ StdinBroken \/ NoticeExit \/ Deadline
  <2>1. /\ UNCHANGED <<stdin, robbed, window, pipe, outputQ, decoder>> /\ worker'.e = worker.e
        /\ worker'.unsent = worker.unsent /\ (Executing' => Executing)
        /\ At("write")' => At("write")
        /\ tool'.e = tool.e
    BY <1>0, <1>12 DEF PrepareExecution, StdinBroken, NoticeExit, Deadline, KillGroup, SameTool,
                       toolVars, readVars, history, At, Executing
  <2>. QED BY <1>4, <2>1
<1>13. CASE ExecutePrepared \/ ExecuteInMemory
  <2>1. PICK e \in Execs, kind \in {"file", "memory"} : Begin(e, kind) /\ ~Known(e)
    BY <1>13, BeginsFresh
  <2>2. \A s \in Streams : Untouched(s)' BY <2>1, BeginIsUntouched
  <2>3. tool.e # e BY <2>1, FreshIs
  <2>4. worker'.e = e /\ worker'.unsent = Block(e) /\ UNCHANGED <<tool, stdin>>
    BY <2>1 DEF Begin, toolVars
  <2>5. \A i \in DOMAIN Block(e) : Block(e)[i].ops = Script
    <3>1. DOMAIN Block(e) = 1..1 /\ Block(e)[1] = [e |-> e, ops |-> Script]
      <4>1. Len(Pieces) = 1 /\ Pieces[1] = Script BY PiecesAre
      <4>2. /\ Block(e) \in Seq(Line) /\ Len(Block(e)) = 1
            /\ Block(e)[1] = [e |-> e, ops |-> Pieces[1]]
        BY <4>1, BlockIs
      <4>. QED BY <4>1, <4>2
    <3>2. [e |-> e, ops |-> Script].ops = Script OBVIOUS
    <3>. HIDE DEF Script
    <3>. QED BY <3>1, <3>2
  <2>6. OneLine(stdin)' /\ OneLine(worker.unsent)' BY <1>2, <2>4, <2>5 DEF OneLine
  <2>. QED BY <2>2, <2>3, <2>4, <2>6 DEF Unread
<1>14. CASE WriteLine
  <2>1. /\ At("write") /\ Executing /\ worker.unsent # <<>> /\ worker.unsent \in Seq(Line)
        /\ stdin' = Append(stdin, Head(worker.unsent))
        /\ worker'.unsent = Tail(worker.unsent) /\ worker'.e = worker.e
        /\ UNCHANGED <<tool, window, outputQ, pipe, decoder>>
    BY <1>0, <1>14 DEF WriteLine, WorkerSound, At, Executing, readVars, history
  <2>2. /\ DOMAIN Tail(worker.unsent) = 1..(Len(worker.unsent) - 1)
        /\ DOMAIN worker.unsent = 1..Len(worker.unsent) /\ Len(worker.unsent) \in Nat \ {0}
        /\ \A i \in 1..(Len(worker.unsent) - 1) : Tail(worker.unsent)[i] = worker.unsent[i + 1]
        /\ Head(worker.unsent) = worker.unsent[1] /\ Head(worker.unsent) \in Line
    BY <2>1, TailIs
  <2>3. \A i \in DOMAIN worker'.unsent : worker'.unsent[i].ops = Script
    <3>1. \A i \in 1..(Len(worker.unsent) - 1) : i + 1 \in 1..Len(worker.unsent) BY <2>2
    <3>. QED BY <1>2, <2>1, <2>2, <3>1
  <2>4. \A i \in DOMAIN stdin' : stdin'[i].ops = Script
    <3>1. Head(worker.unsent).ops = Script
      <4>1. 1 \in DOMAIN worker.unsent BY <2>2
      <4>. QED BY <1>2, <2>2, <4>1
    <3>2. /\ DOMAIN stdin' = 1..(Len(stdin) + 1) /\ DOMAIN stdin = 1..Len(stdin)
          /\ Len(stdin) \in Nat /\ \A i \in 1..Len(stdin) : stdin'[i] = stdin[i]
          /\ stdin'[Len(stdin) + 1] = Head(worker.unsent)
      BY <1>0, <2>1, <2>2, AppendIs
    <3>3. \A i \in DOMAIN stdin' : i \in 1..Len(stdin) \/ i = Len(stdin) + 1 BY <3>2
    <3>. HIDE DEF Script
    <3>. QED BY <1>2, <3>1, <3>2, <3>3
  <2>5. \A s \in Streams : Untouched(s) => Untouched(s)' BY <2>1, UntouchedSame
  <2>. QED BY <1>2, <1>3, <2>1, <2>3, <2>4, <2>5
<1>15. CASE Finish
  <2>1. /\ UNCHANGED <<stdin, robbed, window, pipe, outputQ, tool>> /\ worker'.e = worker.e
        /\ worker'.unsent = worker.unsent /\ Executing /\ ~At("write")' /\ decoder'.started = {}
    BY <1>0, <1>15 DEF Finish, toolVars, readVars, history, At, Executing, FreshDecoder
  <2>. QED BY <1>4, <2>1
<1>16. CASE Reply \/ CloseExecutor \/ CloseTakes \/ ProcessEnds
  <2>1. /\ ~Executing' /\ stdin' = stdin /\ worker'.unsent \in {worker.unsent, <<>>}
    <3>1. CASE Reply BY <1>0, <3>1 DEF Reply, Executing
    <3>2. CASE CloseExecutor BY <1>0, <3>2 DEF CloseExecutor, Goto, SameTool, Executing
    <3>3. CASE CloseTakes BY <3>3 DEF CloseTakes, At, toolVars, workerVars, Executing
    <3>4. CASE ProcessEnds BY <3>4 DEF ProcessEnds, Executing
    <3>. QED BY <1>16, <3>1, <3>2, <3>3, <3>4
  <2>2. \A i \in DOMAIN worker'.unsent : worker'.unsent[i].ops = Script
    <3>1. DOMAIN <<>> = {} OBVIOUS
    <3>. HIDE DEF Script
    <3>. QED BY <1>2, <2>1, <3>1
  <2>. QED BY <1>2, <1>3, <2>1, <2>2
<1>. QED
  BY NextIs, <1>6, <1>7, <1>8, <1>9, <1>10, <1>11, <1>12, <1>13, <1>14, <1>15, <1>16 DEF OpStep

\* A line of a shell's block stays one operation.
LEMMA StaysOneByOne ==
  ASSUME Typed, WorkerSound, OneByOne, Next
  PROVE  OneByOne'
<1>. USE DEF Typed
<1>0. /\ worker \in [pc : Steps, e : 0..MaxExecs, unsent : Seq(Line), reason : Losses]
      /\ stdin \in Seq(Line) /\ tool.ops \in Seq(Ops)
      /\ tool \in [alive : BOOLEAN, killed : BOOLEAN, ops : Seq(Ops), e : 0..MaxExecs]
  BY DEF WorkerType, ToolType
<1>1. lang' = lang
  BY NextIs DEF ReadLine, WriteMark, CaptureStatus, WriteStatus, WriteBlankStatus, TakeLine,
                LeaveChild, UserCodeEnds, ChildEnds, Die, PrintUnit, DrainPipe, PrepareExecution,
                ExecutePrepared, ExecuteInMemory, Begin, CloseExecutor, SameTool, WriteLine,
                StdinBroken, TakeEvent, DrainEvent, ConsumeEvent, NoticeExit, Deadline, Finish,
                Reply, CloseTakes, ProcessEnds, toolVars, history
<1>2. SUFFICES ASSUME lang = "shell"
               PROVE  /\ Len(tool'.ops) <= 1
                      /\ \A i \in DOMAIN stdin' : Len(stdin'[i].ops) = 1
                      /\ \A i \in DOMAIN worker'.unsent : Len(worker'.unsent[i].ops) = 1
  BY <1>1 DEF OneByOne
<1>3. /\ Len(tool.ops) <= 1
      /\ \A i \in DOMAIN stdin : Len(stdin[i].ops) = 1
      /\ \A i \in DOMAIN worker.unsent : Len(worker.unsent[i].ops) = 1
  BY <1>2 DEF OneByOne
<1>4. ASSUME NEW q \in Seq(Line), q # <<>>, \A i \in DOMAIN q : Len(q[i].ops) = 1
      PROVE  /\ \A i \in DOMAIN Tail(q) : Len(Tail(q)[i].ops) = 1
             /\ Len(Head(q).ops) = 1 /\ Head(q) \in Line
  <2>1. /\ DOMAIN Tail(q) = 1..(Len(q) - 1) /\ DOMAIN q = 1..Len(q) /\ Len(q) \in Nat \ {0}
        /\ \A i \in 1..(Len(q) - 1) : Tail(q)[i] = q[i + 1]
        /\ Head(q) = q[1] /\ Head(q) \in Line
    BY <1>4, TailIs
  <2>2. \A i \in 1..(Len(q) - 1) : i + 1 \in 1..Len(q) BY <2>1
  <2>3. 1 \in 1..Len(q) BY <2>1
  <2>. QED BY <1>4, <2>1, <2>2, <2>3
<1>5. ASSUME tool'.ops = tool.ops, UNCHANGED stdin, worker'.unsent = worker.unsent
      PROVE  /\ Len(tool'.ops) <= 1
             /\ \A i \in DOMAIN stdin' : Len(stdin'[i].ops) = 1
             /\ \A i \in DOMAIN worker'.unsent : Len(worker'.unsent[i].ops) = 1
  BY <1>3, <1>5
<1>6. CASE ReadLine
  <2>1. /\ stdin # <<>> /\ stdin' = Tail(stdin) /\ worker' = worker
        /\ tool'.ops = Head(stdin).ops
    BY <1>0, <1>6 DEF ReadLine, workerVars
  <2>2. /\ \A i \in DOMAIN Tail(stdin) : Len(Tail(stdin)[i].ops) = 1
        /\ Len(Head(stdin).ops) = 1
    BY <1>0, <1>3, <1>4, <2>1
  <2>3. Len(tool'.ops) = 1 BY <2>1, <2>2, Zenon
  <2>4. Len(tool'.ops) <= 1 BY <2>3
  <2>. QED BY <1>3, <2>1, <2>2, <2>4
<1>7. CASE OpStep
  <2>1. tool.ops # <<>> /\ tool' = NextOp /\ UNCHANGED <<stdin, worker>>
    BY <1>7 DEF OpStep, WriteMark, CaptureStatus, WriteStatus, WriteBlankStatus, UserCodeEnds,
                InUserCode, Doing, workerVars
  <2>2. tool'.ops = Tail(tool.ops) BY <2>1, NextOpIs
  <2>3. Len(Tail(tool.ops)) = Len(tool.ops) - 1 /\ Len(tool.ops) \in Nat \ {0}
    BY <1>0, <2>1, TailIs
  <2>4. Len(tool'.ops) <= 1 BY <1>3, <2>2, <2>3
  <2>. QED BY <1>3, <2>1, <2>4
<1>8. CASE TakeLine
  <2>1. stdin # <<>> /\ stdin' = Tail(stdin) /\ UNCHANGED <<tool, worker>>
    BY <1>8, TakingIs DEF workerVars
  <2>2. \A i \in DOMAIN Tail(stdin) : Len(Tail(stdin)[i].ops) = 1 BY <1>0, <1>3, <1>4, <2>1
  <2>. QED BY <1>3, <2>1, <2>2
<1>9. CASE WriteLine
  <2>1. /\ worker.unsent # <<>> /\ worker.unsent \in Seq(Line)
        /\ stdin' = Append(stdin, Head(worker.unsent))
        /\ worker'.unsent = Tail(worker.unsent) /\ tool' = tool
    BY <1>0, <1>9 DEF WriteLine, WorkerSound, At
  <2>2. /\ \A i \in DOMAIN Tail(worker.unsent) : Len(Tail(worker.unsent)[i].ops) = 1
        /\ Len(Head(worker.unsent).ops) = 1 /\ Head(worker.unsent) \in Line
    BY <1>3, <1>4, <2>1
  <2>3. /\ DOMAIN stdin' = 1..(Len(stdin) + 1) /\ DOMAIN stdin = 1..Len(stdin)
        /\ Len(stdin) \in Nat /\ \A i \in 1..Len(stdin) : stdin'[i] = stdin[i]
        /\ stdin'[Len(stdin) + 1] = Head(worker.unsent)
    BY <1>0, <2>1, <2>2, AppendIs
  <2>4. \A i \in DOMAIN stdin' : i \in 1..Len(stdin) \/ i = Len(stdin) + 1 BY <2>3
  <2>5. \A i \in DOMAIN stdin' : Len(stdin'[i].ops) = 1 BY <1>3, <2>2, <2>3, <2>4
  <2>. QED BY <1>3, <2>1, <2>2, <2>5
<1>10. CASE ExecutePrepared \/ ExecuteInMemory
  <2>1. PICK e : worker'.unsent = Block(e) /\ UNCHANGED <<tool, stdin>>
    BY <1>10 DEF ExecutePrepared, ExecuteInMemory, Begin, toolVars
  <2>2. \A i \in DOMAIN Block(e) : Len(Block(e)[i].ops) = 1
    <3>1. DOMAIN Pieces = 1..Len(Pieces) BY PiecesAre DEF ToolType
    <3>2. \A i \in DOMAIN Pieces : Pieces[i] = <<Script[i]>> BY <1>2, <3>1, PiecesAre
    <3>3. Block(e) = [i \in DOMAIN Pieces |-> [e |-> e, ops |-> Pieces[i]]] BY DEF Block
    <3>4. \A i \in DOMAIN Pieces : Block(e)[i].ops = <<Script[i]>> BY <3>2, <3>3
    <3>5. \A x : Len(<<x>>) = 1 OBVIOUS
    <3>6. DOMAIN Block(e) = DOMAIN Pieces BY <3>3
    <3>. HIDE DEF Script
    <3>. QED BY <3>4, <3>5, <3>6
  <2>. QED BY <1>3, <2>1, <2>2
<1>11. CASE Die
  <2>1. tool'.ops = <<>> /\ UNCHANGED <<stdin, worker>> BY <1>0, <1>11 DEF Die, workerVars
  <2>2. Len(<<>>) <= 1 OBVIOUS
  <2>. QED BY <1>3, <2>1, <2>2
<1>12. CASE ProcessEnds /\ (KillGroup \/ UNCHANGED tool)
  <2>1. tool'.ops = tool.ops /\ UNCHANGED stdin /\ worker'.unsent = <<>>
    BY <1>0, <1>12 DEF ProcessEnds, KillGroup
  <2>2. DOMAIN worker'.unsent = {}
    <3>1. DOMAIN <<>> = {} OBVIOUS
    <3>. QED BY <2>1, <3>1
  <2>3. Len(tool'.ops) <= 1 /\ \A i \in DOMAIN stdin' : Len(stdin'[i].ops) = 1 BY <1>3, <2>1
  <2>. QED BY <2>2, <2>3
<1>13. CASE \/ LeaveChild \/ ChildEnds \/ (\E s \in Streams : PrintUnit(s) \/ DrainPipe(s))
            \/ PrepareExecution \/ CloseExecutor \/ StdinBroken \/ TakeEvent \/ NoticeExit
            \/ Deadline \/ DrainEvent \/ Finish \/ Reply \/ CloseTakes
  <2>1. tool'.ops = tool.ops /\ UNCHANGED stdin /\ worker'.unsent = worker.unsent
    BY <1>0, <1>13 DEF LeaveChild, ChildEnds, PrintUnit, DrainPipe, PrepareExecution,
                CloseExecutor, Goto, SameTool, StdinBroken, TakeEvent, DrainEvent, ConsumeEvent,
                NoticeExit, Deadline, KillGroup, Finish, Reply, CloseTakes, toolVars, workerVars
  <2>. QED BY <1>5, <2>1
<1>. QED
  BY NextIs, <1>6, <1>7, <1>8, <1>9, <1>10, <1>11, <1>12, <1>13 DEF OpStep

-----------------------------------------------------------------------------
(* The status *)

\* A status is written when the code has run to its end.
LEMMA StatusStaysTrue ==
  ASSUME Typed, WorkerSound, NamesKnown, Progress, Unread, StatusTrue, Next
  PROVE  StatusTrue'
<1>. USE DEF Typed
<1>. DEFINE Own == lang = "tcl" \/ ~robbed
            Kinds == {"status", "stale"}
<1>0. /\ worker \in [pc : Steps, e : 0..MaxExecs, unsent : Seq(Line), reason : Losses]
      /\ Decoding => Executing
  BY DEF WorkerType, Decoding, Executing
<1>1. ASSUME lang' = lang, Decoding' => Decoding, robbed => robbed',
             Decoding /\ Own => completed' = completed \/ completed # CodeOps,
             \A kind \in Kinds : NoStatus(kind) => NoStatus(kind)'
      PROVE  StatusTrue'
  <2>1. CodeOps' = CodeOps BY <1>1, SameBlock
  <2>. QED BY <1>1, <2>1 DEF StatusTrue
<1>2. ASSUME UNCHANGED <<outputQ, pipe>>, worker'.e = worker.e, decoder'.status = decoder.status,
             NEW kind, NoStatus(kind)
      PROVE  NoStatus(kind)'
  BY <1>2, AbsentSame DEF NoStatus
<1>3. ASSUME NEW s \in Streams, NEW c \in Chunks, Emit(s, c), UNCHANGED <<worker, decoder>>,
             NEW kind, NoStatus(kind), c.e # worker.e \/ c.kind # kind
      PROVE  NoStatus(kind)'
  <2>1. ASSUME NEW t \in Streams PROVE Absent(t, {kind})' BY <1>3, AbsentEmit DEF NoStatus
  <2>. QED BY <1>3, <2>1 DEF NoStatus
<1>4. CASE WriteMark \/ TakeLine
  <2>1. UNCHANGED <<lang, worker, decoder, completed>> /\ (robbed => robbed')
    BY <1>4, TakingIs DEF WriteMark, workerVars
  <2>2. ASSUME NEW kind \in Kinds, NoStatus(kind) PROVE NoStatus(kind)'
    <3>1. CASE UNCHANGED <<window, readVars>> BY <1>2, <2>1, <2>2, <3>1 DEF readVars
    <3>2. ASSUME NEW op \in Marks, NEW e \in Execs, Mark(op, e) PROVE NoStatus(kind)'
      <4>. DEFINE s == StreamOf(op)
                  c == Chunk(RecordOf(op), e)
      <4>1. s \in Streams /\ c \in Chunks /\ Emit(s, c) /\ c.kind \in {"start", "fence"}
        BY <3>2, MarkIs
      <4>. HIDE DEF s, c
      <4>. QED BY <1>3, <2>1, <2>2, <4>1
    <3>. QED BY <1>4, <3>1, <3>2, MarkersAre
  <2>. QED BY <1>1, <2>1, <2>2 DEF Decoding
<1>5. CASE WriteBlankStatus \/ \E s \in Streams : PrintUnit(s)
  <2>1. /\ UNCHANGED <<lang, worker, decoder, completed, window, robbed>>
        /\ \E s \in Streams : EmitUnit(s)
    BY <1>5 DEF WriteBlankStatus, PrintUnit, workerVars, Streams
  <2>2. ASSUME NEW kind \in Kinds, NoStatus(kind) PROVE NoStatus(kind)'
    <3>1. kind # "user" OBVIOUS
    <3>. QED BY <2>1, <2>2, <3>1, PrintLeaves DEF NoStatus
  <2>. QED BY <1>1, <2>1, <2>2 DEF Decoding
<1>6. CASE WriteStatus
  <2>. DEFINE c == Chunk(IF edaStatus = tool.e THEN "status" ELSE "stale", tool.e)
  <2>1. /\ UNCHANGED <<lang, worker, decoder, completed, robbed>> /\ Emit("stdout", c)
        /\ tool.alive /\ tool.ops # <<>> /\ Head(tool.ops) = "status" /\ "stdout" \in Streams
    BY <1>6 DEF WriteStatus, Doing, workerVars, history, Streams
  <2>2. tool.e \in Execs BY <2>1, NextOpIs
  <2>3. /\ c \in Chunks /\ c.e = tool.e
        /\ c.kind = IF edaStatus = tool.e THEN "status" ELSE "stale"
    BY <2>2 DEF Chunk, Chunks, Execs
  <2>. HIDE DEF c
  <2>4. CASE ~(Decoding /\ Own) BY <2>1, <2>4 DEF StatusTrue, Decoding
  <2>5. CASE Decoding /\ tool.e # worker.e
    <3>1. \A kind \in Kinds : NoStatus(kind) => NoStatus(kind)' BY <1>3, <2>1, <2>3, <2>5
    <3>. QED BY <1>1, <2>1, <3>1 DEF Decoding
  <2>6. CASE Decoding /\ Own /\ tool.e = worker.e
    <3>1. ~robbed BY <1>0, <2>6 DEF Unread
    <3>2. PICK n \in 1..Len(Pieces), p \in 0..(LastOp - 1) :
            Shows(n, p) /\ Head(tool.ops) = Op(p + 1)
      BY <1>0, <2>1, <2>6, BeforeOp
    <3>3. p = CodeOps + 3 /\ CodeOps \in Nat \ {0} BY <2>1, <3>2, OpIs DEF ToolType
    <3>4. /\ completed = IF p <= 2 THEN 0 ELSE IF p - 2 <= CodeOps THEN p - 2 ELSE CodeOps
          /\ p > CodeOps + 2 => edaStatus = worker.e
      BY <3>1, <3>2 DEF Shows
    <3>5. ~(p <= 2) /\ ~(p - 2 <= CodeOps) /\ p > CodeOps + 2 BY <3>3
    <3>6. completed = CodeOps /\ edaStatus = worker.e BY <3>4, <3>5
    <3>7. c.kind = "status" BY <2>3, <2>6, <3>6
    <3>8. NoStatus("stale")
      BY <2>6 DEF StatusTrue
    <3>9. NoStatus("stale")' BY <1>3, <2>1, <2>3, <3>7, <3>8
    <3>10. CodeOps' = CodeOps BY <2>1, SameBlock
    <3>. QED BY <2>1, <3>6, <3>9, <3>10 DEF StatusTrue
  <2>. QED BY <2>4, <2>5, <2>6
<1>7. CASE UserCodeEnds
  <2>1. /\ tool.alive /\ tool.ops # <<>> /\ Head(tool.ops) = "user"
        /\ UNCHANGED <<lang, outputQ, pipe, decoder, worker, robbed>>
        /\ completed' = IF tool.e = worker.e THEN completed + 1 ELSE completed
    BY <1>7 DEF UserCodeEnds, InUserCode, Doing, workerVars, readVars
  <2>2. ASSUME Decoding, Own, tool.e = worker.e PROVE completed # CodeOps
    <3>1. ~robbed BY <1>0, <2>2 DEF Unread
    <3>2. PICK n \in 1..Len(Pieces), p \in 0..(LastOp - 1) :
            Shows(n, p) /\ Head(tool.ops) = Op(p + 1)
      BY <1>0, <2>1, <2>2, BeforeOp
    <3>3. p \in 2..(CodeOps + 1) /\ CodeOps \in Nat \ {0} BY <2>1, <3>2, OpIs DEF ToolType
    <3>4. completed = IF p <= 2 THEN 0 ELSE IF p - 2 <= CodeOps THEN p - 2 ELSE CodeOps
      BY <3>1, <3>2 DEF Shows
    <3>. QED BY <3>3, <3>4
  <2>3. \A kind \in Kinds : NoStatus(kind) => NoStatus(kind)' BY <1>2, <2>1
  <2>. QED BY <1>1, <2>1, <2>2, <2>3 DEF Decoding
<1>8. CASE (\E s \in Streams : DrainPipe(s)) \/ TakeEvent \/ DrainEvent
  <2>1. /\ (\E s \in Streams : DrainPipe(s)) \/ ConsumeEvent
        /\ worker'.e = worker.e /\ (Decoding' => Decoding)
        /\ UNCHANGED <<lang, completed, robbed>>
    <3>1. CASE \E s \in Streams : DrainPipe(s)
      BY <3>1 DEF DrainPipe, toolVars, history, workerVars, Decoding
    <3>2. CASE TakeEvent
      BY <1>0, <3>2 DEF TakeEvent, ConsumeEvent, toolVars, history, At, Decoding
    <3>3. CASE DrainEvent
      BY <3>3 DEF DrainEvent, ConsumeEvent, toolVars, history, Decoding
    <3>. QED BY <1>8, <3>1, <3>2, <3>3
  <2>2. ASSUME NEW kind \in Kinds, NoStatus(kind) PROVE NoStatus(kind)'
    <3>1. \A t \in Streams : Absent(t, {kind})' BY <2>1, <2>2, AbsentRead DEF NoStatus
    <3>2. decoder'.status # kind
      <4>1. CASE \E s \in Streams : DrainPipe(s)
        BY <2>2, <4>1 DEF DrainPipe, workerVars, NoStatus
      <4>2. CASE ConsumeEvent
        <5>1. Head(outputQ).stream \in Streams BY <4>2, TakeIs
        <5>2. \A t \in Streams : decoder'.status = kind => Head(outputQ).stream # t
          BY <2>2, <4>2, UnseenIs DEF NoStatus
        <5>. QED BY <5>1, <5>2
      <4>. QED BY <2>1, <4>1, <4>2
    <3>. QED BY <3>1, <3>2 DEF NoStatus
  <2>. QED BY <1>1, <2>1, <2>2
<1>9. CASE ExecutePrepared \/ ExecuteInMemory
  <2>1. PICK e \in Execs, kind \in {"file", "memory"} : Begin(e, kind) /\ ~Known(e)
    BY <1>9, BeginsFresh
  <2>2. \A s \in Streams : Untouched(s)' BY <2>1, BeginIsUntouched
  <2>3. decoder'.status = "none" BY <2>1 DEF Begin, FreshDecoder
  <2>4. \A kd \in Kinds : NoStatus(kd)' BY <2>2, <2>3 DEF NoStatus, Untouched, Absent
  <2>. QED BY <2>4 DEF StatusTrue
<1>10. CASE \/ ReadLine \/ CaptureStatus \/ LeaveChild \/ ChildEnds \/ Die
            \/ PrepareExecution \/ WriteLine \/ StdinBroken \/ NoticeExit \/ Deadline
  <2>1. /\ worker'.e = worker.e /\ (Decoding' => Decoding)
        /\ UNCHANGED <<lang, completed, robbed, decoder, outputQ, pipe>>
    BY <1>0, <1>10 DEF ReadLine, CaptureStatus, LeaveChild, ChildEnds, Die, PrepareExecution,
                       WriteLine, StdinBroken, NoticeExit, Deadline, SameTool, toolVars, history,
                       workerVars, readVars, Decoding, At
  <2>2. \A kind \in Kinds : NoStatus(kind) => NoStatus(kind)' BY <1>2, <2>1
  <2>. QED BY <1>1, <2>1, <2>2
<1>11. CASE Finish \/ Reply \/ CloseExecutor \/ CloseTakes \/ ProcessEnds
  BY <1>11, NotDecoding DEF StatusTrue
<1>. QED
  BY NextIs, <1>4, <1>5, <1>6, <1>7, <1>8, <1>9, <1>10, <1>11

-----------------------------------------------------------------------------
(* What was sent *)

\* The two streams together, when one of them changes.
LEMMA OnTheWayIs ==
  ASSUME ReadType, NEW s \in Streams
  PROVE  OnTheWay(s) \in Nat
<1>1. Count(pipe[s], Unit) \in Nat /\ Count(outputQ, [stream |-> s, chunk |-> Unit]) \in Nat
  BY CountIs DEF ReadType
<1>. QED BY <1>1 DEF OnTheWay

\* Every unit of the execution that is sent is in the sink or on its way there.
LEMMA AllStayCounted ==
  ASSUME Typed, WorkerSound, NamesKnown, Between, AllCounted, Next, ReadType'
  PROVE  AllCounted'
<1>. USE DEF Typed
<1>0. /\ worker \in [pc : Steps, e : 0..MaxExecs, unsent : Seq(Line), reason : Losses]
      /\ outputQ \in Seq(Event) /\ pipe \in [Streams -> Seq(Chunks)]
      /\ window \in [Streams -> 0..MaxExecs]
      /\ Decoding => worker.e # 0
      /\ sent \in Nat /\ sink.own \in Nat /\ sink.other \in Nat /\ UnitBytes = 2
      /\ "stdout" \in Streams /\ "stderr" \in Streams
      /\ \A t \in Streams : t = "stdout" \/ t = "stderr"
  BY DEF WorkerType, ReadType, ToolType, Decoding, Executing, WorkerSound, SinkSound, Sinks,
         UnitBytes, Streams
<1>1. \A t \in Streams : OnTheWay(t) \in Nat /\ OnTheWay(t)' \in Nat
  <2>1. \A t \in Streams : OnTheWay(t) \in Nat BY OnTheWayIs
  <2>2. ASSUME NEW t \in Streams PROVE OnTheWay(t)' \in Nat
    <3>1. /\ Count(pipe'[t], Unit') \in Nat
          /\ Count(outputQ', [stream |-> t, chunk |-> Unit']) \in Nat
      BY CountIs DEF ReadType
    <3>. QED BY <3>1 DEF OnTheWay
  <2>. QED BY <2>1, <2>2
<1>2. ASSUME UNCHANGED <<sent, outputQ, pipe>>, worker'.e = worker.e, Decoding' => Decoding,
             sink'.own = sink.own, sink'.other = sink.other, decoder' = decoder
      PROVE  AllCounted'
  <2>1. Unit' = Unit BY <1>2 DEF Unit, Chunk
  <2>2. \A t \in Streams : OnTheWay(t)' = OnTheWay(t) BY <1>2, <2>1 DEF OnTheWay
  <2>. QED BY <1>0, <1>2, <2>2 DEF AllCounted
\* What one stream gains or loses, the sum does.
<1>3. ASSUME NEW s \in Streams, NEW a \in Int, NEW b \in Int,
             OnTheWay(s)' = OnTheWay(s) + a, \A t \in Streams \ {s} : OnTheWay(t)' = OnTheWay(t),
             sent' = sent + UnitBytes * (a + b), sink'.own = sink.own + UnitBytes * b,
             sink'.other = 0, Decoding' => Decoding
      PROVE  AllCounted'
  <2>1. SUFFICES ASSUME Decoding PROVE
          sent' = sink'.own + UnitBytes * (OnTheWay("stdout")' + OnTheWay("stderr")')
    BY <1>3 DEF AllCounted
  <2>2. sent = sink.own + UnitBytes * (OnTheWay("stdout") + OnTheWay("stderr"))
    BY <2>1 DEF AllCounted
  <2>. PICK x, y \in Int : x = OnTheWay("stdout") /\ y = OnTheWay("stderr") BY <1>0, <1>1
  <2>. PICK x1, y1 \in Int : x1 = OnTheWay("stdout")' /\ y1 = OnTheWay("stderr")' BY <1>0, <1>1
  <2>. PICK w, o \in Int : w = sent /\ o = sink.own BY <1>0
  <2>3. sent' \in Int /\ sink'.own \in Int
    <3>1. sent' = w + 2 * (a + b) /\ sink'.own = o + 2 * b BY <1>0, <1>3
    <3>. QED BY <3>1
  <2>. PICK w1, o1 \in Int : w1 = sent' /\ o1 = sink'.own BY <2>3
  <2>4. w1 = w + 2 * (a + b) /\ o1 = o + 2 * b /\ w = o + 2 * (x + y)
    BY <1>0, <1>3, <2>2, <2>3
  <2>5. (x1 = x + a /\ y1 = y) \/ (x1 = x /\ y1 = y + a)
    <3>1. CASE s = "stdout"
      <4>1. OnTheWay("stderr")' = OnTheWay("stderr") BY <1>0, <1>3, <3>1
      <4>. QED BY <1>3, <2>3, <3>1, <4>1
    <3>2. CASE s = "stderr"
      <4>1. OnTheWay("stdout")' = OnTheWay("stdout") BY <1>0, <1>3, <3>2
      <4>. QED BY <1>3, <2>3, <3>2, <4>1
    <3>. QED BY <1>0, <3>1, <3>2
  <2>6. w1 = o1 + 2 * (x1 + y1) BY <2>4, <2>5
  <2>. QED BY <1>0, <2>3, <2>6
<1>4. ASSUME NEW s \in Streams, NEW c \in Chunks, Emit(s, c), UNCHANGED <<decoder, worker, sink>>,
             Decoding => sent' = IF c = Unit THEN sent + UnitBytes ELSE sent
      PROVE  AllCounted'
  <2>1. /\ pipe'[s] = Append(pipe[s], c) /\ \A t \in Streams \ {s} : pipe'[t] = pipe[t]
        /\ outputQ' = outputQ /\ Unit' = Unit
    BY <1>0, <1>4 DEF Emit, Unit, Chunk
  <2>2. Count(pipe'[s], Unit) = Count(pipe[s], Unit) + (IF c = Unit THEN 1 ELSE 0)
    BY <1>0, <1>4, <2>1, CountAppend
  <2>3. OnTheWay(s)' = OnTheWay(s) + (IF c = Unit THEN 1 ELSE 0)
    <3>1. /\ Count(pipe[s], Unit) \in Nat /\ Count(outputQ, [stream |-> s, chunk |-> Unit]) \in Nat
      BY <1>0, CountIs
    <3>. QED BY <1>4, <2>1, <2>2, <3>1 DEF OnTheWay
  <2>4. \A t \in Streams \ {s} : OnTheWay(t)' = OnTheWay(t) BY <1>4, <2>1 DEF OnTheWay
  <2>5. CASE ~Decoding BY <1>4, <2>5 DEF AllCounted, Decoding
  <2>6. CASE Decoding
    <3>1. sink.other = 0 BY <2>6 DEF AllCounted
    <3>2. CASE c = Unit
      <4>1. sent' = sent + UnitBytes * (1 + 0) /\ sink'.own = sink.own + UnitBytes * 0
        BY <1>0, <1>4, <2>6, <3>2
      <4>. QED BY <1>3, <1>4, <2>3, <2>4, <2>6, <3>1, <3>2, <4>1
    <3>3. CASE c # Unit
      <4>1. sent' = sent + UnitBytes * (0 + 0) /\ sink'.own = sink.own + UnitBytes * 0
        BY <1>0, <1>4, <2>6, <3>3
      <4>. QED BY <1>3, <1>4, <2>3, <2>4, <2>6, <3>1, <3>3, <4>1
    <3>. QED BY <3>2, <3>3
  <2>. QED BY <2>5, <2>6
<1>5. CASE WriteMark \/ TakeLine
  <2>1. UNCHANGED <<sent, decoder, worker, sink>>
    BY <1>5 DEF WriteMark, TakeLine, workerVars
  <2>2. CASE UNCHANGED <<window, readVars>> BY <1>2, <2>1, <2>2 DEF readVars, Decoding
  <2>3. ASSUME NEW op \in Marks, NEW e \in Execs, Mark(op, e) PROVE AllCounted'
    <3>. DEFINE s == StreamOf(op)
                c == Chunk(RecordOf(op), e)
    <3>1. s \in Streams /\ c \in Chunks /\ Emit(s, c) /\ c.kind \in {"start", "fence"}
      BY <2>3, MarkIs
    <3>. HIDE DEF s, c
    <3>2. c # Unit BY <3>1 DEF Unit, Chunk
    <3>. QED BY <1>4, <2>1, <3>1, <3>2
  <2>. QED BY <1>5, <2>2, <2>3, MarkersAre
<1>14. CASE WriteStatus
  <2>. DEFINE c == Chunk(IF edaStatus = tool.e THEN "status" ELSE "stale", tool.e)
  <2>1. UNCHANGED <<sent, decoder, worker, sink>> /\ Emit("stdout", c) /\ tool.ops # <<>>
    BY <1>14 DEF WriteStatus, Doing, workerVars, history
  <2>2. tool.e \in Execs BY <2>1, NextOpIs
  <2>3. c \in Chunks /\ c # Unit BY <2>2 DEF Unit, Chunk, Chunks, Execs
  <2>. HIDE DEF c
  <2>. QED BY <1>0, <1>4, <2>1, <2>3
<1>6. CASE WriteBlankStatus \/ \E s \in Streams : PrintUnit(s)
  <2>1. PICK s \in Streams : EmitUnit(s)
    BY <1>0, <1>6 DEF WriteBlankStatus, PrintUnit
  <2>2. UNCHANGED <<decoder, worker, sink>> BY <1>6 DEF WriteBlankStatus, PrintUnit, workerVars
  <2>. DEFINE c == Chunk("user", window[s])
  <2>3. /\ c \in Chunks /\ Emit(s, c)
        /\ sent' = sent + IF window[s] # 0 /\ window[s] = worker.e THEN UnitBytes ELSE 0
    BY <2>1, PrintingIs
  <2>4. c = Unit <=> window[s] = worker.e BY DEF Unit, Chunk
  <2>5. Decoding => sent' = IF c = Unit THEN sent + UnitBytes ELSE sent BY <1>0, <2>3, <2>4
  <2>. HIDE DEF c
  <2>. QED BY <1>4, <2>2, <2>3, <2>5
<1>7. ASSUME NEW s \in Streams, DrainPipe(s) PROVE AllCounted'
  <2>0. UNCHANGED <<sent, decoder, worker, sink>> /\ Unit' = Unit
    BY <1>7 DEF DrainPipe, toolVars, history, workerVars, Unit, Chunk
  <2>1. ASSUME NEW t \in Streams PROVE OnTheWay(t)' = OnTheWay(t)
    <3>. DEFINE x == [stream |-> t, chunk |-> Unit]
    <3>1. Count(pipe[t], Unit) \in Nat /\ Count(outputQ, x) \in Nat BY <1>0, CountIs
    <3>2. CASE ReadChunk(s)
      <4>. DEFINE y == [stream |-> s, chunk |-> Head(pipe[s])]
      <4>1. /\ pipe[s] # <<>> /\ outputQ' = Append(outputQ, y)
            /\ pipe'[s] = Tail(pipe[s]) /\ \A r \in Streams \ {s} : pipe'[r] = pipe[r]
        BY <1>0, <3>2 DEF ReadChunk
      <4>2. Head(pipe[s]) \in Chunks BY <1>0, <4>1, TailIs
      <4>3. y \in Event BY <4>2 DEF Event
      <4>4. y = x <=> s = t /\ Head(pipe[s]) = Unit OBVIOUS
      <4>. HIDE DEF x, y
      <4>5. Count(outputQ', x) = Count(outputQ, x) + (IF y = x THEN 1 ELSE 0)
        BY <1>0, <4>1, <4>3, CountAppend
      <4>6. Count(pipe[s], Unit) = Count(pipe'[s], Unit) + (IF Head(pipe[s]) = Unit THEN 1 ELSE 0)
        BY <1>0, <4>1, CountTail
      <4>7. Count(pipe'[t], Unit) \in Nat
        BY CountIs DEF ReadType
      <4>8. Count(pipe'[t], Unit) + Count(outputQ', x) = Count(pipe[t], Unit) + Count(outputQ, x)
        BY <3>1, <4>1, <4>4, <4>5, <4>6, <4>7
      <4>. QED BY <2>0, <3>1, <4>5, <4>7, <4>8 DEF OnTheWay, x
    <3>3. CASE ReadEof(s)
      <4>. DEFINE y == [stream |-> s, chunk |-> EOF]
      <4>1. outputQ' = Append(outputQ, y) /\ pipe' = pipe BY <3>3 DEF ReadEof
      <4>2. y \in Event /\ y # x BY DEF Event, EOF, Unit, Chunk
      <4>. HIDE DEF x, y
      <4>3. Count(outputQ', x) = Count(outputQ, x) BY <1>0, <3>1, <4>1, <4>2, CountAppend
      <4>. QED BY <2>0, <4>1, <4>3 DEF OnTheWay, x
    <3>. QED BY <1>7, <3>2, <3>3 DEF DrainPipe
  <2>. QED BY <1>0, <2>0, <2>1 DEF AllCounted, Decoding
<1>8. CASE TakeEvent \/ DrainEvent
  <2>0. /\ ConsumeEvent /\ Decoding /\ worker'.e = worker.e /\ Unit' = Unit
        /\ UNCHANGED <<sent, pipe>> /\ outputQ # <<>> /\ outputQ' = Tail(outputQ)
    BY <1>0, <1>8 DEF TakeEvent, DrainEvent, ConsumeEvent, Decoding, At, toolVars, history, Unit,
                      Chunk
  <2>. PICK s, c : s = Head(outputQ).stream /\ c = Head(outputQ).chunk OBVIOUS
  <2>1. /\ s \in Streams /\ c \in Chunks \cup {EOF} /\ decoder \in Decoders
        /\ \A t \in Streams \ {s} : decoder'.held[t] = decoder.held[t]
        /\ sink'.own = sink.own + (IF s \notin decoder.fenced /\ Flushes(s)
                                      /\ decoder.held[s].e = worker.e THEN UnitBytes ELSE 0)
        /\ sink'.other = sink.other + (IF s \notin decoder.fenced /\ Flushes(s)
                                          /\ decoder.held[s].e # worker.e THEN UnitBytes ELSE 0)
        /\ c # EOF /\ s \in decoder.fenced => decoder' = decoder
        /\ c # EOF /\ s \notin decoder.fenced => decoder' = Consumed(decoder, s, c)
        /\ c = EOF => decoder'.held[s] = None
    BY <2>0, TakeIs DEF WorkerType
  <2>2. Head(outputQ) = [stream |-> s, chunk |-> c] /\ Head(outputQ) = outputQ[1]
          /\ 1 \in DOMAIN outputQ
    <3>1. Head(outputQ) \in Event /\ Head(outputQ) = outputQ[1] /\ 1 \in DOMAIN outputQ
      BY <1>0, <2>0, TailIs
    <3>. QED BY <3>1 DEF Event
  <2>3. /\ decoder.held[s].e = worker.e => s \in decoder.started \ decoder.fenced
        /\ s \in decoder.started \ decoder.fenced => decoder.held[s] \in {None, Unit}
        /\ c = Unit => s \notin decoder.fenced
        /\ sink.other = 0
    <3>1. OwnBetween(s) /\ sink.other = 0 BY <2>0, <2>1 DEF Between, AllCounted
    <3>2. c = Unit => ~Fenced(s, 1 - 1)
      <4>1. Unit # EOF /\ Named(Unit) BY DEF Unit, EOF, Chunk, Named
      <4>. QED BY <2>2, <3>1, <4>1 DEF OwnBetween
    <3>. QED BY <3>1, <3>2 DEF OwnBetween, Unit, Fenced
  <2>4. Unit.e = worker.e /\ Unit # None /\ Unit # EOF /\ worker.e # 0
    BY <1>0, <2>0 DEF Unit, None, EOF, Chunk
  <2>5. PICK had, has \in {0, 1} : /\ had = IF decoder.held[s] = Unit THEN 1 ELSE 0
                                   /\ has = IF c = Unit THEN 1 ELSE 0
    OBVIOUS
  <2>6. sink'.other = 0 /\ sink'.own = sink.own + UnitBytes * had
    <3>1. decoder.held[s] = Unit => Flushes(s) /\ s \notin decoder.fenced
      BY <2>3, <2>4 DEF Flushes
    <3>2. s \notin decoder.fenced /\ Flushes(s) => decoder.held[s] = Unit
      BY <2>3 DEF Flushes
    <3>3. s \notin decoder.fenced /\ Flushes(s) /\ decoder.held[s].e # worker.e => FALSE
      BY <2>4, <3>2
    <3>4. (s \notin decoder.fenced /\ Flushes(s) /\ decoder.held[s].e = worker.e)
            <=> decoder.held[s] = Unit
      BY <2>4, <3>1, <3>2
    <3>5. sink'.other = sink.other + 0 BY <2>1, <3>3
    <3>6. sink'.own = sink.own + (IF decoder.held[s] = Unit THEN UnitBytes ELSE 0) BY <2>1, <3>4
    <3>. QED BY <1>0, <2>3, <2>5, <3>5, <3>6
  <2>7. (IF decoder'.held[s] = Unit THEN 1 ELSE 0) = has
    <3>1. CASE c = EOF BY <2>1, <2>4, <2>5, <3>1
    <3>2. CASE c # EOF /\ s \in decoder.fenced
      BY <2>1, <2>3, <2>4, <2>5, <3>2
    <3>3. CASE c # EOF /\ s \notin decoder.fenced
      <4>1. c \in Chunks /\ decoder' = Consumed(decoder, s, c) BY <2>1, <3>3
      <4>2. decoder'.held[s] = (IF IsRecord(c) THEN None
                                ELSE Chunk("user", IF c.kind = "user" THEN c.e ELSE 0))
        BY <2>1, <4>1, ConsumedIs
      <4>3. c = Unit <=> c.kind = "user" /\ c.e = worker.e
        <5>1. PICK k, e : c = Chunk(k, e) BY <4>1 DEF Chunks
        <5>. QED BY <5>1 DEF Chunk, Unit
      <4>4. IsRecord(c) <=> c.kind # "user" /\ c.e = worker.e BY DEF IsRecord
      <4>5. decoder'.held[s] = Unit <=> c = Unit
        <5>1. CASE IsRecord(c) BY <2>4, <4>2, <4>3, <4>4, <5>1
        <5>2. CASE ~IsRecord(c)
          <6>1. decoder'.held[s] = Chunk("user", IF c.kind = "user" THEN c.e ELSE 0) BY <4>2, <5>2
          <6>2. decoder'.held[s] = Unit <=> worker.e = (IF c.kind = "user" THEN c.e ELSE 0)
            BY <6>1 DEF Unit, Chunk
          <6>. QED BY <2>4, <4>3, <6>2
        <5>. QED BY <5>1, <5>2
      <4>. QED BY <2>5, <4>5
    <3>. QED BY <3>1, <3>2, <3>3
  <2>8. ASSUME NEW t \in Streams
        PROVE  OnTheWay(t)' = OnTheWay(t) + (IF t = s THEN 0 - had ELSE 0)
    <3>. DEFINE x == [stream |-> t, chunk |-> Unit]
    <3>1. /\ Count(pipe[t], Unit) \in Nat /\ Count(outputQ, x) \in Nat /\ Count(outputQ', x) \in Nat
      BY <1>0, CountIs DEF ReadType
    <3>2. Head(outputQ) = x <=> s = t /\ c = Unit BY <2>2
    <3>. HIDE DEF x
    <3>3. Count(outputQ, x) = Count(outputQ', x) + (IF Head(outputQ) = x THEN 1 ELSE 0)
      BY <1>0, <2>0, CountTail
    <3>4. OnTheWay(t) =
            Count(pipe[t], Unit) + Count(outputQ, x) + (IF decoder.held[t] = Unit THEN 1 ELSE 0)
      BY DEF OnTheWay, x
    <3>5. OnTheWay(t)' =
            Count(pipe[t], Unit) + Count(outputQ', x) + (IF decoder'.held[t] = Unit THEN 1 ELSE 0)
      BY <2>0 DEF OnTheWay, x
    <3>6. CASE t = s
      <4>1. Count(outputQ, x) = Count(outputQ', x) + has BY <2>5, <3>2, <3>3, <3>6
      <4>2. OnTheWay(t) = Count(pipe[t], Unit) + Count(outputQ, x) + had BY <2>5, <3>4, <3>6
      <4>3. OnTheWay(t)' = Count(pipe[t], Unit) + Count(outputQ', x) + has BY <2>7, <3>5, <3>6
      <4>. QED BY <2>5, <3>1, <3>6, <4>1, <4>2, <4>3
    <3>7. CASE t # s
      <4>1. Count(outputQ, x) = Count(outputQ', x) BY <3>1, <3>2, <3>3, <3>7
      <4>2. decoder'.held[t] = decoder.held[t] BY <2>1, <3>7
      <4>3. OnTheWay(t)' = OnTheWay(t) BY <3>4, <3>5, <4>1, <4>2
      <4>. QED BY <1>1, <3>7, <4>3
    <3>. QED BY <3>6, <3>7
  <2>9. /\ OnTheWay(s)' = OnTheWay(s) + (0 - had)
        /\ \A t \in Streams \ {s} : OnTheWay(t)' = OnTheWay(t)
    <3>1. OnTheWay(s)' = OnTheWay(s) + (0 - had) BY <2>1, <2>8
    <3>2. ASSUME NEW t \in Streams \ {s} PROVE OnTheWay(t)' = OnTheWay(t)
      <4>1. OnTheWay(t)' = OnTheWay(t) + 0 BY <2>8
      <4>2. OnTheWay(t) \in Nat BY <1>1
      <4>. QED BY <4>1, <4>2
    <3>. QED BY <3>1, <3>2
  <2>10. PICK lost \in Int : lost = 0 - had BY <2>5
  <2>11. sent' = sent + UnitBytes * (lost + had) BY <1>0, <2>0, <2>5, <2>10
  <2>12. OnTheWay(s)' = OnTheWay(s) + lost BY <2>9, <2>10
  <2>13. had \in Int /\ (Decoding' => Decoding) BY <2>0, <2>5
  <2>. QED BY <1>3, <2>1, <2>6, <2>9, <2>11, <2>12, <2>13
<1>9. CASE ExecutePrepared \/ ExecuteInMemory
  <2>1. PICK e \in Execs, kind \in {"file", "memory"} : At("idle") /\ Begin(e, kind) /\ ~Known(e)
    BY <1>9, BeginsFresh
  <2>2. /\ \A i \in DOMAIN outputQ : outputQ[i].chunk.e # e
        /\ \A s \in Streams : \A i \in DOMAIN pipe[s] : pipe[s][i].e # e
    BY <2>1, FreshIs
  <2>3. /\ worker'.e = e /\ sink'.own = 0 /\ sink'.other = 0 /\ UNCHANGED <<outputQ, pipe, sent>>
        /\ \A s \in Streams : decoder'.held[s] = None
    BY <2>1 DEF Begin, FreshDecoder, FreshSink, readVars, toolVars, history
  <2>4. Unit'.e = e /\ Unit' # None BY <2>3 DEF Unit, Chunk, None
  <2>5. sent = 0 BY <2>1 DEF WorkerSound, Executing, At
  <2>6. ASSUME NEW s \in Streams PROVE OnTheWay(s)' = 0
    <3>1. PICK u : u = Unit' OBVIOUS
    <3>2. Count(pipe[s], u) = 0 BY <1>0, <2>2, <2>4, <3>1, CountNone
    <3>3. Count(outputQ, [stream |-> s, chunk |-> u]) = 0 BY <1>0, <2>2, <2>4, <3>1, CountNone
    <3>. QED BY <2>3, <2>4, <3>1, <3>2, <3>3 DEF OnTheWay
  <2>. QED BY <1>0, <2>3, <2>5, <2>6 DEF AllCounted
<1>10. CASE ReadLine \/ CaptureStatus \/ LeaveChild \/ ChildEnds \/ Die \/ UserCodeEnds
  BY <1>2, <1>10
     DEF ReadLine, CaptureStatus, LeaveChild, ChildEnds, Die, UserCodeEnds, workerVars, readVars,
         history, Decoding
<1>11. CASE PrepareExecution \/ WriteLine \/ NoticeExit \/ Deadline
  <2>1. worker'.e = worker.e /\ (Decoding' => Decoding)
        /\ UNCHANGED <<sent, decoder, outputQ, pipe, sink>>
    BY <1>0, <1>11 DEF PrepareExecution, WriteLine, NoticeExit, Deadline, SameTool,
                       toolVars, history, readVars, Decoding, At
  <2>. QED BY <1>2, <2>1
<1>12. CASE StdinBroken
  <2>1. worker'.e = worker.e /\ Decoding /\ UNCHANGED <<sent, decoder, outputQ, pipe>>
    BY <1>0, <1>12 DEF StdinBroken, toolVars, history, readVars, Decoding, At
  <2>2. sink'.own = sink.own /\ sink'.other = sink.other
    BY <1>0, <1>12, WritesAre DEF StdinBroken, WorkerType
  <2>. QED BY <1>2, <2>1, <2>2
<1>13. CASE Finish \/ Reply \/ CloseExecutor \/ CloseTakes \/ ProcessEnds
  BY <1>13, NotDecoding DEF AllCounted
<1>. QED
  BY NextIs, <1>5, <1>6, <1>7, <1>8, <1>9, <1>10, <1>11, <1>12, <1>13, <1>14

-----------------------------------------------------------------------------
(* The result *)

\* After a result that knows its loss no record of the execution is left to be written: the
\* interpreter is past them all.
LEMMA MarksArePast ==
  ASSUME Typed, WorkerSound, Progress, Unread, At("reply"), summary.dropped # Unknown,
         NEW op \in Marks, NEW e \in Execs,
         \/ WriteMark /\ tool.ops # <<>> /\ op = Head(tool.ops) /\ e = tool.e
         \/ /\ TakeLine /\ Head(stdin).ops = <<op>> /\ e = Head(stdin).e
            /\ op \in {"startOut", "fenceOut"}
  PROVE  e # worker.e
<1>. USE DEF Typed
<1>1. SUFFICES ASSUME e = worker.e PROVE FALSE OBVIOUS
<1>2. worker.e # 0 /\ Executing BY DEF WorkerSound, At, Executing
<1>3. LastOp \in Nat /\ LastOp > 1
  <2>1. CodeOps \in Nat \ {0} /\ LastOp = CodeOps + 6 BY ScriptIs DEF ToolType
  <2>. HIDE DEF LastOp
  <2>. PICK k \in Nat : k = CodeOps BY <2>1
  <2>2. LastOp = k + 6 BY <2>1
  <2>. QED BY <2>2
<1>. HIDE DEF LastOp
<1>4. tool.e = worker.e /\ tool.alive => tool.ops = <<>>
  <2>1. SUFFICES ASSUME tool.alive, tool.ops # <<>>, tool.e = worker.e PROVE FALSE OBVIOUS
  <2>2. PICK n \in 1..Len(Pieces), p \in 0..(LastOp - 1) : Shows(n, p)
    BY <1>2, <2>1, BeforeOp
  <2>3. p = LastOp BY <2>2 DEF Shows
  <2>. QED BY <1>3, <2>3
<1>5. CASE WriteMark /\ tool.ops # <<>> /\ e = tool.e
  BY <1>1, <1>4, <1>5 DEF WriteMark, Doing
<1>6. CASE TakeLine /\ Head(stdin).ops = <<op>> /\ e = Head(stdin).e
  <2>1. stdin # <<>> BY <1>6 DEF TakeLine
  <2>2. lang = "shell" BY <1>6, <2>1, OneIsShell
  <2>3. tool.alive /\ tool.ops # <<>> BY <1>6, <2>2 DEF TakeLine, InUserCode, Doing
  <2>4. PICK n \in 0..Len(Pieces), p \in 0..LastOp : Reads(n) /\ Done(n, p) /\ Shows(n, p)
    BY <1>2, <2>3 DEF Progress
  <2>5. p = LastOp BY <2>4 DEF Shows
  <2>6. OpsIn(n) = LastOp BY <1>4, <2>3, <2>4, <2>5 DEF Done
  <2>7. n = LastOp BY <1>3, <2>2, <2>6 DEF OpsIn
  <2>8. Len(Pieces) = LastOp BY <2>2, PiecesAre
  <2>9. n + 1 \in 1..Len(Pieces) BY <1>1, <1>2, <1>6, <2>1, <2>4, HeadIsNext
  <2>10. LastOp + 1 \in 1..LastOp BY <2>7, <2>8, <2>9
  <2>. QED BY <1>3, <2>10
<1>. QED BY <1>5, <1>6

\* After a result that knows its loss no stream is still in the execution's window, or nobody
\* is left to write.
LEMMA StaysSettled ==
  ASSUME Typed, WorkerSound, EndsKnown, Between, Progress, Unread, Settled, Next
  PROVE  Settled'
<1>. USE DEF Typed
<1>0. /\ worker \in [pc : Steps, e : 0..MaxExecs, unsent : Seq(Line), reason : Losses]
      /\ window \in [Streams -> 0..MaxExecs]
      /\ At("reply") => Executing /\ worker.e # 0
  BY DEF WorkerType, ToolType, Executing, WorkerSound, At
<1>1. ASSUME At("reply")' => At("reply") /\ summary' = summary, worker'.e = worker.e,
             window' = window, WriteEndsClosed => WriteEndsClosed'
      PROVE  Settled'
  BY <1>1 DEF Settled
<1>2. CASE WriteMark \/ TakeLine
  <2>1. UNCHANGED <<worker, summary>> /\ (WriteEndsClosed => WriteEndsClosed')
    <3>1. CASE WriteMark BY <3>1 DEF WriteMark, Doing, WriteEndsClosed, workerVars
    <3>2. CASE TakeLine BY <3>2 DEF TakeLine, WriteEndsClosed, workerVars
    <3>. QED BY <1>2, <3>1, <3>2
  <2>2. CASE UNCHANGED <<window, readVars>> BY <1>1, <2>1, <2>2 DEF At
  <2>3. ASSUME NEW op \in Marks, NEW e \in Execs, Mark(op, e),
               \/ WriteMark /\ tool.ops # <<>> /\ op = Head(tool.ops) /\ e = tool.e
               \/ /\ TakeLine /\ Head(stdin).ops = <<op>> /\ e = Head(stdin).e
                  /\ op \in {"startOut", "fenceOut"}
        PROVE  Settled'
    <3>1. SUFFICES ASSUME At("reply"), summary.dropped # Unknown, ~WriteEndsClosed
                   PROVE  \A t \in Streams : window'[t] # worker.e
      BY <2>1 DEF Settled, At
    <3>2. \A t \in Streams : window[t] # worker.e BY <3>1 DEF Settled
    <3>3. e # worker.e BY <2>3, <3>1, MarksArePast
    <3>4. \A t \in Streams : window'[t] \in {e, 0, window[t]}
      <4>. DEFINE s == StreamOf(op)
      <4>1. /\ s \in Streams
            /\ window'[s] = IF op \in {"startErr", "startOut"} THEN e ELSE 0
            /\ \A t \in Streams \ {s} : window'[t] = window[t]
        BY <2>3, MarkIs
      <4>. HIDE DEF s
      <4>. QED BY <4>1
    <3>. QED BY <1>0, <3>1, <3>2, <3>3, <3>4
  <2>. QED BY <1>2, <2>2, <2>3, MarkersAre
<1>3. CASE Finish
  <2>1. SUFFICES ASSUME summary'.dropped # Unknown
                 PROVE  WriteEndsClosed' \/ \A s \in Streams : window'[s] # worker'.e
    BY DEF Settled
  <2>2. UNCHANGED <<tool, child, window>> /\ worker'.e = worker.e
    BY <1>0, <1>3 DEF Finish, toolVars, history
  <2>3. (Complete \/ AllEof) /\ Decoding BY <1>3, <2>1, KnownIsFinal
  <2>4. CASE Complete
    <3>1. \A s \in Streams : window[s] # worker.e BY <2>3, <2>4, FencedIsOver
    <3>. QED BY <2>2, <3>1
  <2>5. CASE AllEof
    <3>1. WriteEndsClosed BY <2>5 DEF AllEof, EndsKnown, Streams
    <3>. QED BY <2>2, <3>1 DEF WriteEndsClosed
  <2>. QED BY <2>3, <2>4, <2>5
<1>4. CASE \/ ReadLine \/ CaptureStatus \/ WriteStatus \/ WriteBlankStatus
           \/ LeaveChild \/ ChildEnds \/ Die \/ UserCodeEnds
  <2>1. UNCHANGED <<worker, summary, window>>
    BY <1>4 DEF ReadLine, CaptureStatus, WriteStatus, WriteBlankStatus, LeaveChild, ChildEnds, Die,
                UserCodeEnds, workerVars, history
  <2>2. WriteEndsClosed => WriteEndsClosed'
    <3>1. CASE CaptureStatus \/ WriteStatus \/ WriteBlankStatus \/ UserCodeEnds \/ ReadLine
               \/ LeaveChild
      BY <3>1 DEF CaptureStatus, WriteStatus, WriteBlankStatus, UserCodeEnds, ReadLine, LeaveChild,
                  InUserCode, Doing, WriteEndsClosed
    <3>2. CASE ChildEnds \/ Die
      <4>1. tool \in [alive : BOOLEAN, killed : BOOLEAN, ops : Seq(Ops), e : 0..MaxExecs]
        BY DEF ToolType
      <4>. QED BY <3>2, <4>1 DEF ChildEnds, Die, WriteEndsClosed
    <3>. QED BY <1>4, <3>1, <3>2
  <2>. QED BY <1>1, <2>1, <2>2 DEF At
<1>5. ASSUME NEW s \in Streams, PrintUnit(s) \/ DrainPipe(s) PROVE Settled'
  BY <1>1, <1>5 DEF PrintUnit, DrainPipe, workerVars, toolVars, history, WriteEndsClosed, At
<1>6. CASE PrepareExecution \/ ExecutePrepared \/ ExecuteInMemory \/ WriteLine \/ StdinBroken
           \/ TakeEvent \/ NoticeExit \/ Deadline \/ DrainEvent \/ Reply \/ CloseExecutor
           \/ CloseTakes \/ ProcessEnds
  <2>1. CASE PrepareExecution \/ NoticeExit \/ Deadline \/ DrainEvent \/ CloseTakes
    BY <1>0, <1>6, <2>1
       DEF PrepareExecution, NoticeExit, Deadline, DrainEvent, CloseTakes, workerVars, At,
                            Settled
  <2>2. CASE ExecutePrepared \/ ExecuteInMemory \/ CloseExecutor \/ Reply \/ ProcessEnds
    <3>1. CASE ExecutePrepared \/ ExecuteInMemory \/ ProcessEnds
      BY <3>1 DEF ExecutePrepared, ExecuteInMemory, Begin, ProcessEnds, At, Settled
    <3>2. CASE CloseExecutor
      <4>1. worker'.pc = "close" BY <1>0, <3>2 DEF CloseExecutor, Goto
      <4>. QED BY <4>1 DEF At, Settled
    <3>3. CASE Reply
      <4>1. worker'.pc = "idle" BY <1>0, <3>3 DEF Reply
      <4>. QED BY <4>1 DEF At, Settled
    <3>. QED BY <2>2, <3>1, <3>2, <3>3
  <2>3. CASE WriteLine \/ StdinBroken
    <3>1. worker'.pc \in {"write", "collect", "finish"} BY <1>0, <2>3 DEF WriteLine, StdinBroken, At
    <3>. QED BY <3>1 DEF At, Settled
  <2>4. CASE TakeEvent
    <3>1. worker'.pc \in {"collect", "finish"} BY <1>0, <2>4 DEF TakeEvent, At
    <3>. QED BY <3>1 DEF At, Settled
  <2>. QED BY <1>6, <2>1, <2>2, <2>3, <2>4
<1>. QED
  BY NextIs, <1>2, <1>3, <1>4, <1>5, <1>6

\* A step that is not the end of an execution leaves its result alone or takes it away.
LEMMA ResultIsMadeOnce ==
  ASSUME Typed, Next, ~Finish
  PROVE  summary' = summary \/ summary' = NoSummary
<1>1. CASE TakeLine BY <1>1 DEF TakeLine, workerVars
<1>. QED
  BY <1>1, NextIs
     DEF ReadLine, WriteMark, CaptureStatus, WriteStatus, WriteBlankStatus, ChildEnds, Die,
         PrintUnit, LeaveChild, UserCodeEnds, DrainPipe, PrepareExecution, ExecutePrepared,
         ExecuteInMemory, Begin, CloseExecutor, WriteLine, StdinBroken, TakeEvent, DrainEvent, ConsumeEvent,
         NoticeExit, Deadline, Reply, CloseTakes, ProcessEnds, workerVars

\* Nor does it change what the result is about, but for output, the end of user code and a line
\* taken from stdin.
LEMMA HistoryIsKept ==
  ASSUME Next, ~Finish, summary' # NoSummary
  PROVE  /\ lang' = lang /\ (robbed => robbed')
         /\ ~UserCodeEnds => completed' = completed
         /\ ~(WriteBlankStatus \/ \E s \in Streams : PrintUnit(s)) => sent' = sent
<1>1. CASE ReadLine \/ WriteMark \/ CaptureStatus \/ WriteStatus \/ WriteBlankStatus
  BY <1>1 DEF ReadLine, WriteMark, CaptureStatus, WriteStatus, WriteBlankStatus, history
<1>2. CASE LeaveChild \/ UserCodeEnds \/ ChildEnds \/ Die \/ \E s \in Streams : PrintUnit(s)
  BY <1>2 DEF LeaveChild, UserCodeEnds, ChildEnds, Die, PrintUnit, history
<1>6. CASE TakeLine
  <2>1. robbed' = (robbed \/ Head(stdin).e = worker.e) BY <1>6 DEF TakeLine
  <2>2. robbed => robbed' BY <2>1
  <2>. QED BY <1>6, <2>2 DEF TakeLine
<1>3. CASE \/ PrepareExecution \/ ExecutePrepared \/ ExecuteInMemory \/ WriteLine \/ StdinBroken
           \/ TakeEvent \/ DrainEvent \/ CloseTakes \/ \E s \in Streams : DrainPipe(s)
  BY <1>3 DEF PrepareExecution, ExecutePrepared, ExecuteInMemory, Begin, WriteLine, StdinBroken,
              TakeEvent, DrainEvent, ConsumeEvent, CloseTakes, DrainPipe, toolVars, history
<1>4. CASE CloseExecutor \/ NoticeExit \/ Deadline
  BY <1>4 DEF CloseExecutor, NoticeExit, Deadline, SameTool, history
<1>5. CASE Reply \/ ProcessEnds
  BY <1>5 DEF Reply, ProcessEnds
<1>. QED BY <1>1, <1>2, <1>3, <1>4, <1>5, <1>6, NextIs

\* A status in a result stays the one of an execution whose code has run to its end.
LEMMA StatusStaysOwn ==
  ASSUME Typed, WorkerSound, Progress, Unread, StatusTrue, StatusIsOwn, Next
  PROVE  StatusIsOwn'
<1>. USE DEF Typed
<1>1. CASE Finish
  <2>1. PICK k, r : /\ SinkSound(k) /\ r \in Ends
                    /\ r = "none" => k.reason = "none"
                    /\ summary' = Snapshot(k, r)
    BY <1>1, FinishIs
  <2>2. SUFFICES ASSUME summary'.exit \in {"status", "stale"}
                 PROVE  /\ lang' = "tcl" \/ ~robbed' =>
                             summary'.exit = "status" /\ completed' = CodeOps'
                        /\ summary'.complete
                             \/ summary'.incomplete \in {"QUOTA_EXCEEDED", "WRITE_FAILED"}
    BY DEF StatusIsOwn, ExitCodeIsReal, HasStatus
  <2>. PICK v : v = Snapshot(k, r) OBVIOUS
  <2>3. /\ summary'.exit = decoder.status /\ TerminationReason = "none"
        /\ summary'.incomplete \in Ends
        /\ Complete => summary'.complete \/ summary'.incomplete # "none"
    <3>1. v.exit \in {"status", "stale"} /\ v = summary' BY <2>1, <2>2
    <3>2. /\ v.exit = decoder.status /\ TerminationReason = "none" /\ v.incomplete \in Ends
          /\ Complete => v.complete \/ v.incomplete # "none"
      BY <2>1, <3>1, SnapshotIs
    <3>. QED BY <3>1, <3>2
  <2>4. worker.reason = "none" BY <2>2, <2>3 DEF TerminationReason
  <2>5. Complete /\ Decoding BY <1>1, <2>4 DEF Finish, WorkerSound, Decoding, At
  <2>6. lang = "tcl" \/ ~robbed => decoder.status = "status" /\ completed = CodeOps
    BY <2>2, <2>3, <2>5 DEF StatusTrue, NoStatus
  <2>7. UNCHANGED <<lang, robbed, completed>> /\ CodeOps' = CodeOps
    BY <1>1, SameBlock DEF Finish, toolVars, history
  <2>. QED BY <2>3, <2>5, <2>6, <2>7 DEF Ends
<1>2. CASE ~Finish
  <2>1. CASE summary' = NoSummary
    BY <2>1 DEF StatusIsOwn, ExitCodeIsReal, HasStatus, NoSummary
  <2>2. CASE summary' # NoSummary
    <3>1. summary' = summary /\ lang' = lang /\ (robbed => robbed')
      BY <1>2, <2>2, ResultIsMadeOnce, HistoryIsKept
    <3>2. CodeOps' = CodeOps BY <3>1, SameBlock
    <3>3. CASE ~UserCodeEnds
      <4>1. completed' = completed BY <1>2, <2>2, <3>3, HistoryIsKept
      <4>. QED BY <3>1, <3>2, <4>1 DEF StatusIsOwn, ExitCodeIsReal, HasStatus
    <3>4. CASE UserCodeEnds
      <4>1. /\ tool.alive /\ tool.ops # <<>> /\ Head(tool.ops) = "user"
            /\ completed' = IF tool.e = worker.e THEN completed + 1 ELSE completed
        BY <3>4 DEF UserCodeEnds, InUserCode, Doing
      <4>2. Executing BY <2>2, <3>1 DEF WorkerSound, Executing, At
      <4>3. ASSUME tool.e = worker.e, lang = "tcl" \/ ~robbed PROVE completed # CodeOps
        <5>1. ~robbed BY <4>2, <4>3 DEF Unread
        <5>2. PICK n \in 1..Len(Pieces), p \in 0..(LastOp - 1) :
                Shows(n, p) /\ Head(tool.ops) = Op(p + 1)
          BY <4>1, <4>2, <4>3, BeforeOp
        <5>3. p \in 2..(CodeOps + 1) /\ CodeOps \in Nat \ {0} BY <4>1, <5>2, OpIs DEF ToolType
        <5>4. completed = IF p <= 2 THEN 0 ELSE IF p - 2 <= CodeOps THEN p - 2 ELSE CodeOps
          BY <5>1, <5>2 DEF Shows
        <5>. QED BY <5>3, <5>4
      <4>. QED BY <3>1, <3>2, <4>1, <4>3 DEF StatusIsOwn, ExitCodeIsReal, HasStatus
    <3>. QED BY <3>3, <3>4
  <2>. QED BY <2>1, <2>2
<1>. QED BY <1>1, <1>2

\* A result that knows its loss stays exact.
LEMMA LossStaysExact ==
  ASSUME Typed, WorkerSound, EndsKnown, Between, AllCounted, Settled, KnownLossIsExact, Next
  PROVE  KnownLossIsExact'
<1>. USE DEF Typed
<1>1. CASE Finish
  <2>1. PICK k, r : /\ SinkSound(k) /\ r \in Ends
                    /\ r = "none" => k.reason = "none"
                    /\ summary' = Snapshot(k, r)
    BY <1>1, FinishIs
  <2>. PICK v : v = Snapshot(k, r) OBVIOUS
  <2>2. summary'.complete => summary'.dropped = 0
    <3>1. v.complete => v.dropped = 0 BY <2>1, SnapshotIs
    <3>. QED BY <2>1, <3>1
  <2>3. ASSUME summary'.dropped # Unknown
        PROVE  summary'.written + summary'.dropped =
                 sent' + (IF summary'.reason = "TIMED_OUT" THEN UnitBytes ELSE 0)
    <3>1. /\ Decoding /\ (Complete \/ AllEof) /\ summary'.reason = worker.reason
          /\ summary'.written + summary'.dropped =
               sink.own + sink.other + (IF worker.reason = "TIMED_OUT" THEN UnitBytes ELSE 0)
      BY <1>1, <2>3, KnownIsFinal
    <3>2. OnTheWay("stdout") = 0 /\ OnTheWay("stderr") = 0 BY <3>1, FencedIsOver DEF Streams
    <3>3. sink.other = 0 /\ sent = sink.own + UnitBytes * (OnTheWay("stdout") + OnTheWay("stderr"))
      BY <3>1 DEF AllCounted
    <3>4. sent \in Nat /\ sink.own \in Nat BY DEF ToolType, WorkerType, SinkSound, Sinks
    <3>5. sent = sink.own + UnitBytes * (0 + 0) BY <3>2, <3>3
    <3>6. sent = sink.own + sink.other BY <3>3, <3>4, <3>5 DEF UnitBytes
    <3>7. sent' = sent BY <1>1 DEF Finish, toolVars, history
    <3>. QED BY <3>1, <3>6, <3>7
  <2>. QED BY <2>2, <2>3 DEF KnownLossIsExact
<1>2. CASE ~Finish
  <2>1. CASE summary' = NoSummary BY <2>1 DEF KnownLossIsExact
  <2>2. CASE summary' # NoSummary
    <3>1. summary' = summary BY <1>2, <2>2, ResultIsMadeOnce
    <3>2. CASE sent' = sent BY <2>2, <3>1, <3>2 DEF KnownLossIsExact
    <3>3. CASE sent' # sent
      <4>1. WriteBlankStatus \/ \E s \in Streams : PrintUnit(s) BY <1>2, <2>2, <3>3, HistoryIsKept
      <4>2. At("reply") BY <2>2, <3>1 DEF WorkerSound
      <4>3. PICK s \in Streams : window[s] = worker.e
        <5>1. PICK s \in Streams : EmitUnit(s) BY <4>1 DEF WriteBlankStatus, PrintUnit, Streams
        <5>2. /\ sent' = sent + IF window[s] # 0 /\ window[s] = worker.e THEN UnitBytes ELSE 0
              /\ sent \in Nat
          BY <5>1, PrintingIs
        <5>. QED BY <3>3, <5>2
      <4>4. ~WriteEndsClosed
        BY <4>1 DEF WriteBlankStatus, PrintUnit, InUserCode, Doing, WriteEndsClosed
      <4>5. summary.dropped = Unknown BY <4>2, <4>3, <4>4 DEF Settled
      <4>. QED BY <2>2, <3>1, <4>5 DEF KnownLossIsExact
    <3>. QED BY <3>2, <3>3
  <2>. QED BY <2>1, <2>2
<1>. QED BY <1>1, <1>2

-----------------------------------------------------------------------------
(* Theorems *)

\* A worker begins with nothing asked for, nothing in the pipes and its interpreter idle.
LEMMA InitIsSound ==
  ASSUME Init
  PROVE  ConsoleInv
<1>1. /\ {MaxExecs, CodeLines, QueueCap, PipeCap, StdinCap} \subseteq Nat \ {0}
      /\ Len(<<>>) = 0 /\ DOMAIN <<>> = {}
      /\ \A S : <<>> \in Seq(S)
  BY ConsoleAssumption
<1>2. ToolType
  <2>1. lang \in {"tcl", "shell"} BY ConsoleAssumption DEF Init
  <2>2. 0 \in 0..MaxExecs /\ Len(<<>>) <= StdinCap BY <1>1
  <2>3. /\ tool \in [alive : BOOLEAN, killed : BOOLEAN, ops : Seq(Ops), e : 0..MaxExecs]
        /\ tool.e = 0 /\ tool.ops = <<>> /\ stdin \in Seq(Line) /\ stdin = <<>>
        /\ window \in [Streams -> 0..MaxExecs]
    BY <1>1, <2>2 DEF Init
  <2>4. /\ child = "none" /\ sent = 0 /\ printed = 0 /\ completed = 0 /\ robbed = FALSE
        /\ edaStatus = 0
    BY DEF Init
  <2>. QED BY <2>1, <2>2, <2>3, <2>4 DEF ToolType
<1>3. ReadType BY <1>1 DEF Init, ReadType, Streams
<1>4. WorkerType
  <2>1. worker \in [pc : Steps, e : 0..MaxExecs, unsent : Seq(Line), reason : Losses]
    <3>1. <<>> \in Seq(Line) BY <1>1
    <3>. QED BY <1>1, <3>1 DEF Init, Steps, Losses
  <2>. QED BY <1>1, <2>1, FreshTypes DEF Init, WorkerType
<1>5. WorkerSound
  BY DEF Init, WorkerSound, Executing, At, FreshDecoder, FreshSink, Decoding
<1>6. EndsKnown BY <1>1 DEF Init, EndsKnown
<1>7. NamesKnown BY <1>1 DEF Init, NamesKnown, Known
<1>8. ~Decoding /\ ~Executing /\ ~At("reply") /\ summary = NoSummary
  BY DEF Init, Decoding, Executing, At
<1>9. Between /\ Progress /\ StatusTrue /\ AllCounted /\ Settled
  BY <1>8 DEF Between, Progress, StatusTrue, AllCounted, Settled
<1>10. Unread /\ OneByOne
  <2>1. stdin = <<>> /\ worker.unsent = <<>> /\ tool.ops = <<>> BY DEF Init
  <2>2. DOMAIN stdin = {} /\ DOMAIN worker.unsent = {} /\ Len(tool.ops) <= 1 BY <1>1, <2>1
  <2>. QED BY <1>8, <2>2 DEF Unread, OneLine, OneByOne
<1>11. StatusIsOwn /\ KnownLossIsExact
  BY <1>8 DEF StatusIsOwn, ExitCodeIsReal, HasStatus, KnownLossIsExact, NoSummary
<1>. QED BY <1>2, <1>3, <1>4, <1>5, <1>6, <1>7, <1>9, <1>10, <1>11 DEF ConsoleInv

\* A step that changes nothing keeps all of it.
LEMMA NothingHappens ==
  ASSUME ConsoleInv, UNCHANGED vars
  PROVE  ConsoleInv'
<1>1. /\ UNCHANGED <<lang, tool, child, stdin, window, sent, printed, completed, robbed, edaStatus>>
      /\ UNCHANGED <<worker, decoder, sink, prepared, nextId, summary>>
      /\ UNCHANGED <<pipe, outputQ, ended, streamEof>>
  BY DEF vars, toolVars, history, workerVars, readVars
<1>2. Typed' /\ EndsKnown' /\ NamesKnown'
  <2>1. ToolType' /\ ReadType' BY <1>1 DEF ConsoleInv, ToolType, ReadType
  <2>2. WorkerType' BY <1>1 DEF ConsoleInv, WorkerType, SinkSound, Observed
  <2>3. EndsKnown' BY <1>1 DEF ConsoleInv, EndsKnown, WriteEndsClosed
  <2>4. NamesKnown' BY <1>1 DEF ConsoleInv, NamesKnown, Known
  <2>. QED BY <2>1, <2>2, <2>3, <2>4 DEF Typed
<1>3. WorkerSound'
  <2>1. WorkerSound BY DEF ConsoleInv
  <2>2. /\ Executing' = Executing /\ Complete' = Complete /\ Decoding' = Decoding
        /\ \A pc : At(pc)' = At(pc)
    BY <1>1 DEF Executing, Complete, Decoding, At
  <2>. QED BY <1>1, <2>1, <2>2 DEF WorkerSound
<1>4. Between'
  <2>1. ASSUME NEW s \in Streams, OwnBetween(s) PROVE OwnBetween(s)'
    BY <1>1, <2>1, QuietStream
  <2>. QED BY <1>1, <2>1 DEF ConsoleInv, Between, Decoding
<1>5. Progress'
  <2>1. CASE Executing /\ tool.alive BY <1>1, <2>1, SameProgress DEF ConsoleInv, At
  <2>2. CASE ~(Executing /\ tool.alive) BY <1>1, <2>2 DEF Progress, Executing
  <2>. QED BY <2>1, <2>2
<1>6. CodeOps' = CodeOps /\ Script' = Script BY <1>1, SameBlock
<1>7. StatusTrue'
  <2>1. ASSUME NEW kind, NoStatus(kind) PROVE NoStatus(kind)'
    BY <1>1, <2>1, AbsentSame DEF NoStatus
  <2>. QED BY <1>1, <1>6, <2>1 DEF ConsoleInv, StatusTrue, Decoding
<1>11. Unread'
  <2>1. \A s \in Streams : Untouched(s) => Untouched(s)' BY <1>1, UntouchedSame
  <2>. HIDE DEF Script
  <2>. QED BY <1>1, <1>6, <2>1 DEF ConsoleInv, Unread, OneLine, Executing, At
<1>12. OneByOne' BY <1>1 DEF ConsoleInv, OneByOne
<1>8. AllCounted'
  <2>1. Unit' = Unit BY <1>1 DEF Unit, Chunk
  <2>2. OnTheWay("stdout")' = OnTheWay("stdout") /\ OnTheWay("stderr")' = OnTheWay("stderr")
    BY <1>1, <2>1 DEF OnTheWay
  <2>. QED BY <1>1, <2>2 DEF ConsoleInv, AllCounted, Decoding
<1>9. Settled' BY <1>1 DEF ConsoleInv, Settled, WriteEndsClosed, At
<1>10. StatusIsOwn' /\ KnownLossIsExact'
  BY <1>1, <1>6 DEF ConsoleInv, StatusIsOwn, ExitCodeIsReal, HasStatus, KnownLossIsExact
<1>. QED BY <1>2, <1>3, <1>4, <1>5, <1>7, <1>8, <1>9, <1>10, <1>11, <1>12 DEF ConsoleInv, Typed

\* Everything an execution's result rests on is kept by every step of the interpreter, of
\* what it leaves behind, of the readers and of the worker.
LEMMA StepKeeps ==
  ASSUME ConsoleInv, Next
  PROVE  ConsoleInv'
<1>1. /\ Typed /\ WorkerSound /\ EndsKnown /\ NamesKnown /\ Between /\ Progress /\ Unread
      /\ OneByOne /\ StatusTrue /\ AllCounted /\ Settled /\ StatusIsOwn /\ KnownLossIsExact
  BY DEF ConsoleInv, Typed
<1>2. ToolType' /\ ReadType' /\ WorkerType' BY <1>1, ToolTyped, ReadTyped, WorkerTyped
<1>3. WorkerSound' /\ EndsKnown' /\ NamesKnown'
  BY <1>1, <1>2, WorkerStaysSound, EndsStayKnown, NamesStayKnown
<1>4. Between' /\ Progress' BY <1>1, StaysBetween, StaysInProgress
<1>8. Unread' /\ OneByOne' BY <1>1, UnreadStays, StaysOneByOne
<1>5. StatusTrue' /\ AllCounted' BY <1>1, <1>2, StatusStaysTrue, AllStayCounted
<1>6. Settled' BY <1>1, StaysSettled
<1>7. StatusIsOwn' /\ KnownLossIsExact' BY <1>1, StatusStaysOwn, LossStaysExact
<1>. QED BY <1>2, <1>3, <1>4, <1>5, <1>6, <1>7, <1>8 DEF ConsoleInv

\* The invariant holds in every state a worker reaches: what has an execution's name stands
\* between its records, the interpreter is somewhere in the order of its operations, ahead of
\* which user code may have taken lines from stdin, and no byte it wrote is lost between the
\* pipe and the sink.
THEOREM ConsoleInvariant == Spec => []ConsoleInv
<1>1. Init => ConsoleInv BY InitIsSound
<1>2. ConsoleInv /\ [Next]_vars => ConsoleInv' BY NothingHappens, StepKeeps
<1>. QED BY <1>1, <1>2, PTL DEF Spec

\* The executor's fields keep their ranges, and no queue, pipe or log outgrows its limit,
\* whatever the limits are.
THEOREM TypeCorrect == Spec => []TypeOK
<1>1. ConsoleInv => TypeOK
  <2>. SUFFICES ASSUME ConsoleInv PROVE TypeOK OBVIOUS
  <2>1. ToolType /\ ReadType /\ WorkerType BY DEF ConsoleInv
  <2>2. /\ tool.alive \in BOOLEAN /\ tool.killed \in BOOLEAN /\ tool.e \in 0..MaxExecs
        /\ child \in {"none", "group", "stray"} /\ Len(stdin) <= StdinCap
        /\ \A s \in Streams : window[s] \in 0..MaxExecs
    BY <2>1 DEF ToolType
  <2>3. /\ Len(outputQ) <= QueueCap /\ ended \subseteq Streams
        /\ \A s \in Streams : /\ pipe[s] \in Seq(Chunks) /\ Len(pipe[s]) <= PipeCap
                              /\ streamEof[s] \in BOOLEAN
    BY <2>1 DEF ReadType
  <2>4. /\ worker.pc \in {"idle", "write", "collect", "drain", "finish", "reply", "close", "closed"}
        /\ worker.e \in 0..MaxExecs /\ worker.reason \in Reasons
    BY <2>1 DEF WorkerType, Steps, Losses, Reasons
  <2>5. /\ decoder.started \subseteq Streams /\ decoder.fenced \subseteq Streams
        /\ decoder.held \in [Streams -> Chunks \cup {None}]
        /\ prepared \in 0..MaxExecs /\ nextId \in 0..MaxExecs
    BY <2>1 DEF WorkerType, Decoders
  <2>6. /\ sink.written \in 0..Observed(sink) /\ sink.reason \in Reasons
        /\ sink.kind = "file" => sink.written <= Budget
    <3>1. /\ sink.written \in Nat /\ sink.own \in Nat /\ sink.other \in Nat /\ sink.notes \in Nat
          /\ sink.reason \in Ends
      BY <2>1 DEF WorkerType, SinkSound, Sinks
    <3>2. /\ sink.written <= Observed(sink) /\ (sink.kind = "file" => sink.written <= Budget)
      BY <2>1 DEF WorkerType, SinkSound
    <3>. QED BY <3>1, <3>2 DEF Observed, Ends, Reasons
  <2>7. summary.reason \in Reasons /\ summary.dropped \in Nat \cup {Unknown}
    BY <2>1 DEF WorkerType, Summaries
  <2>. QED BY <2>2, <2>3, <2>4, <2>5, <2>6, <2>7 DEF TypeOK
<1>. QED BY <1>1, ConsoleInvariant, PTL

\* No byte of another execution, or from between two of them, is counted in the output of an
\* execution, even if user code has taken records from stdin and printed them.
THEOREM OutputsAreOwn == Spec => []OutputIsOwn
<1>1. ConsoleInv => OutputIsOwn
  <2>1. SUFFICES ASSUME ConsoleInv PROVE OutputIsOwn OBVIOUS
  <2>2. CASE Decoding BY <2>1, <2>2 DEF ConsoleInv, AllCounted, OutputIsOwn
  <2>3. CASE ~Decoding BY <2>1, <2>3 DEF ConsoleInv, WorkerSound, FreshSink, OutputIsOwn
  <2>. QED BY <2>2, <2>3
<1>. QED BY <1>1, ConsoleInvariant, PTL

\* A status that is returned is that of the execution's code, which ran to its end: in Tcl
\* whatever is read from stdin, in a shell if the code takes no line of its own block.
THEOREM StatusesAreOwn == Spec => []StatusIsOwn
<1>1. ConsoleInv => StatusIsOwn BY DEF ConsoleInv
<1>. QED BY <1>1, ConsoleInvariant, PTL

\* Both together: what a result holds is of its execution.
THEOREM ResultsAreOwn == Spec => []ResultIsOwn
<1>1. OutputIsOwn /\ StatusIsOwn => ResultIsOwn BY DEF ResultIsOwn
<1>. QED BY <1>1, OutputsAreOwn, StatusesAreOwn, PTL

\* A result that says how much was dropped is right to the last byte, and a full log lacks
\* nothing.
THEOREM KnownLossesAreExact == Spec => []KnownLossIsExact
<1>1. ConsoleInv => KnownLossIsExact BY DEF ConsoleInv
<1>. QED BY <1>1, ConsoleInvariant, PTL
=============================================================================
