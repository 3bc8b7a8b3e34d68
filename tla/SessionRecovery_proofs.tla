----------------------- MODULE SessionRecovery_proofs -----------------------
(***************************************************************************)
(* Theorems about SessionRecovery, for every number of calls, retries and  *)
(* failures and every set of kinds.                                        *)
(***************************************************************************)
EXTENDS SessionRecovery, SequenceTheorems, TLAPS

(* The parts of the inductive invariant *)

\* Where a call is says what kind of session it is for; it has a number, and attempts left.
CallInv ==
  /\ pc # "idle" => call \in 1..MaxCalls
  /\ pc \in {"restart", "replay"} => Owned
  /\ pc \in {"check", "lease", "begin"} => ~Owned
  /\ Owned /\ pc # "idle" => attempt < MaxAttempts

\* A replay has run as much of the history as it says; a retry has run all of it.
ReplayInv ==
  /\ pc = "replay" => Len(state) = replayed /\ \A k \in 1..replayed : state[k] = history[k]
  /\ kind = "history" /\ pc = "run" /\ attempt > 0 => state = history

\* What was answered with success since the last loss is in the tool, whenever code may run
\* in it or the client may ask.
SinceInv ==
  Owned /\ pc \in {"idle", "run"} => \A k \in (told + 1)..Len(acked) : acked[k] \in Ran

\* A pooled session that repeats, or may repeat, its code is at the first of its life.
FirstInv ==
  ~Owned =>
    /\ ~attempted => acked = <<>> /\ attempt = 0 /\ pc \notin {"run", "failed"}
    /\ pc \in {"check", "begin"} => attempt = 0
    /\ pc \in {"check", "lease", "begin"} /\ attempt = 0 => ~mayRetry
    /\ pc \in {"lease", "run", "failed"} /\ (mayRetry \/ attempt > 0) => acked = <<>>
    /\ pc = "run" /\ attempt > 0 => state = <<>>

\* What goes wrong after the first attempt went wrong in this call.
FaultInv ==
  LET inThisCall == faults > faultsBefore
  IN  /\ failure = "timeout" => inThisCall
      /\ Owned /\ attempt > 0 =>
           /\ pc = "failed" => inThisCall
           /\ pc \in {"replay", "run"} /\ worker # "alive" => inThisCall
      /\ ~Owned =>
           /\ pc = "failed" => inThisCall
           /\ pc \in {"begin", "run"} /\ worker # "alive" => inThisCall

USE RecoveryAssumption
USE DEF At, Goto, Fault, Returns, Tells, Owned, MaxAttempts,
        sessVars, toolVars, callVars, loopVars, heard

-----------------------------------------------------------------------------
(* Every step keeps every part *)

SeqTypes ==
  /\ state \in Codes /\ history \in Codes /\ acked \in Codes
  /\ replayed \in 0..Len(history) /\ told \in 0..Len(acked)
Flags ==
  /\ suspect \in BOOLEAN /\ attempted \in BOOLEAN /\ mayRetry \in BOOLEAN
Counts ==
  /\ kind \in Kinds
  /\ worker \in {"alive", "dead", "absent"}
  /\ pc \in Steps /\ call \in 0..MaxCalls
  /\ attempt \in 0..MaxAttempts
  /\ failure \in {"none", "exit", "timeout"}
  /\ answer \in {"none", "ok", "error", "lost", "raised"}
  /\ faults \in 0..MaxFaults /\ faultsBefore \in 0..faults

\* A code more is a sequence of codes that is longer by one.
LEMMA AppendCode ==
  /\ <<>> \in Codes /\ Len(<<>>) = 0
  /\ \A s \in Codes : Len(s) \in Nat /\ \A k \in 1..Len(s) : s[k] \in 1..MaxCalls
  /\ \A s \in Codes, e \in 1..MaxCalls :
       /\ Append(s, e) \in Codes /\ Len(Append(s, e)) = Len(s) + 1
       /\ Append(s, e)[Len(s) + 1] = e
       /\ \A k \in 1..Len(s) : Append(s, e)[k] = s[k]
BY AppendProperties, EmptySeq DEF Codes

\* What is at the positions of a sequence that got a code more.
LEMMA LongerCode ==
  ASSUME NEW s \in Codes, NEW e \in 1..MaxCalls, NEW n, n = Append(s, e)
  PROVE  /\ Len(s) \in Nat /\ Len(n) = Len(s) + 1
         /\ DOMAIN s = 1..Len(s) /\ DOMAIN n = 1..(Len(s) + 1)
         /\ n[Len(s) + 1] = e
         /\ \A k \in 1..Len(s) : n[k] = s[k]
<1>1. s \in Seq(1..MaxCalls) /\ n \in Seq(1..MaxCalls) /\ Len(n) = Len(s) + 1
  BY AppendCode DEF Codes
<1>2. DOMAIN s = 1..Len(s) /\ DOMAIN n = 1..Len(n) /\ Len(s) \in Nat
  BY <1>1, LenProperties
<1>3. n[Len(s) + 1] = e /\ \A k \in 1..Len(s) : n[k] = s[k]
  BY AppendCode
<1>. QED BY <1>1, <1>2, <1>3

\* What ran before still counts as run, and so does the code.
LEMMA MoreRan ==
  ASSUME NEW s \in Codes, NEW e \in 1..MaxCalls, NEW n, n = Append(s, e)
  PROVE  /\ {s[k] : k \in DOMAIN s} \subseteq {n[k] : k \in DOMAIN n}
         /\ e \in {n[k] : k \in DOMAIN n}
<1>1. /\ Len(s) \in Nat /\ DOMAIN s = 1..Len(s) /\ DOMAIN n = 1..(Len(s) + 1)
      /\ n[Len(s) + 1] = e /\ \A k \in 1..Len(s) : n[k] = s[k]
  BY LongerCode
<1>2. \A k \in DOMAIN s : k \in DOMAIN n /\ n[k] = s[k]
  BY <1>1
<1>3. Len(s) + 1 \in DOMAIN n
  BY <1>1
<1>. QED BY <1>1, <1>2, <1>3

\* Every step keeps where calls are.
LEMMA CallStep ==
  ASSUME TypeOK, CallInv, [Next]_vars
  PROVE  CallInv'
<1>. USE DEF TypeOK, CallInv, Steps
<1>1. CASE Execute
  BY <1>1 DEF Execute
<1>2. CASE Succeeds \/ CodeError
  BY <1>2 DEF Succeeds, CodeError, Acknowledges
<1>3. CASE ProcessFails \/ TimesOut
  BY <1>3 DEF ProcessFails, TimesOut
<1>4. CASE Recover \/ Restart \/ RestartFails
  BY <1>4 DEF Recover, Restart, RestartFails, Surrenders, AttemptsLeft
<1>5. CASE ReplayNext \/ ReplayFails \/ ReplayDone
  BY <1>5 DEF ReplayNext, ReplayFails, ReplayDone, Surrenders
<1>6. CASE Check \/ LeaseWorker \/ LeaseFails \/ Begin \/ DiscardWorker
  BY <1>6 DEF Check, LeaseWorker, LeaseFails, Begin, DiscardWorker
<1>7. CASE WorkerDies \/ UNCHANGED vars
  BY <1>7 DEF WorkerDies, vars
<1>. QED BY <1>1, <1>2, <1>3, <1>4, <1>5, <1>6, <1>7 DEF Next

\* A sequence of codes that stays, is emptied or gets one more remains one.
LEMMA GrownCode ==
  ASSUME NEW s \in Codes, NEW n, n \in {s, <<>>} \/ \E e \in 1..MaxCalls : n = Append(s, e)
  PROVE  n \in Codes /\ Len(n) \in Nat /\ Len(s) \in Nat /\ (n # <<>> => Len(s) <= Len(n))
<1>1. CASE n \in {s, <<>>}
  BY <1>1, AppendCode
<1>2. ASSUME NEW e \in 1..MaxCalls, n = Append(s, e)
      PROVE  n \in Codes /\ Len(n) = Len(s) + 1
  BY <1>2, AppendCode
<1>3. Len(s) \in Nat
  BY AppendCode
<1>. QED BY <1>1, <1>2, <1>3

\* What a step may do to the sequences.
CodesMove ==
  /\ state' \in {state, <<>>} \/ \E e \in 1..MaxCalls : state' = Append(state, e)
  /\ \/ history' = history
     \/ \E e \in 1..MaxCalls : history' = Append(history, e)
  /\ \/ acked' = acked /\ told' \in {told, Len(acked)}
     \/ told' = told /\ \E e \in 1..MaxCalls : acked' = Append(acked, e)
  /\ \/ replayed' \in {replayed, 0}
     \/ history' = history /\ replayed < Len(history) /\ replayed' = replayed + 1

LEMMA CodeMoves ==
  ASSUME TypeOK, CallInv, [Next]_vars
  PROVE  CodesMove
<1>. USE DEF CodesMove, CallInv
<1>1. CASE Execute
  BY <1>1 DEF Execute
<1>2. CASE Succeeds \/ CodeError
  BY <1>2 DEF Succeeds, CodeError, Acknowledges
<1>3. CASE ProcessFails \/ TimesOut
  BY <1>3 DEF ProcessFails, TimesOut
<1>4. CASE Recover \/ Restart \/ RestartFails
  BY <1>4 DEF Recover, Restart, RestartFails
<1>5. CASE ReplayNext
  <2>1. replayed + 1 \in 1..Len(history)
    BY <1>5, AppendCode DEF ReplayNext, TypeOK
  <2>2. history[replayed + 1] \in 1..MaxCalls
    BY <2>1, AppendCode DEF TypeOK
  <2>. QED BY <1>5, <2>2 DEF ReplayNext
<1>6. CASE ReplayFails \/ ReplayDone
  BY <1>6 DEF ReplayFails, ReplayDone
<1>7. CASE Check \/ LeaseWorker \/ LeaseFails \/ Begin \/ DiscardWorker
  BY <1>7 DEF Check, LeaseWorker, LeaseFails, Begin, DiscardWorker
<1>8. CASE WorkerDies \/ UNCHANGED vars
  BY <1>8 DEF WorkerDies, vars
<1>. QED BY <1>1, <1>2, <1>3, <1>4, <1>5, <1>6, <1>7, <1>8 DEF Next

\* Codes keep their types.
LEMMA CodeTypes ==
  ASSUME TypeOK, CallInv, [Next]_vars
  PROVE  SeqTypes'
<1>1. SeqTypes /\ CodesMove
  BY CodeMoves DEF TypeOK, SeqTypes
<1>2. state' \in Codes
  BY <1>1, GrownCode DEF SeqTypes, CodesMove
<1>3. \A s \in Codes : \A n :
        n = s \/ (\E e \in 1..MaxCalls : n = Append(s, e)) =>
          n \in Codes /\ Len(n) \in Nat /\ Len(s) \in Nat /\ Len(s) <= Len(n)
  <2> SUFFICES ASSUME NEW s \in Codes, NEW n, n = s \/ \E e \in 1..MaxCalls : n = Append(s, e)
               PROVE  n \in Codes /\ Len(n) \in Nat /\ Len(s) \in Nat /\ Len(s) <= Len(n)
    OBVIOUS
  <2>1. n = s => Len(n) = Len(s)
    OBVIOUS
  <2>2. ASSUME NEW e \in 1..MaxCalls, n = Append(s, e) PROVE n # <<>>
    BY <2>2, AppendProperties DEF Codes
  <2>. QED BY <2>1, <2>2, GrownCode
<1>4. history' \in Codes /\ Len(history) <= Len(history') /\ Len(history') \in Nat
  BY <1>1, <1>3 DEF SeqTypes, CodesMove
<1>5. acked' \in Codes /\ Len(acked) <= Len(acked') /\ Len(acked') \in Nat /\ Len(acked) \in Nat
  BY <1>1, <1>3 DEF SeqTypes, CodesMove
<1>6. told' \in 0..Len(acked')
  <2>1. told \in 0..Len(acked) /\ told' \in {told, Len(acked)}
    BY <1>1 DEF SeqTypes, CodesMove
  <2>. QED BY <1>5, <2>1
<1>7. replayed' \in 0..Len(history')
  <2>1. replayed \in 0..Len(history) /\ Len(history) \in Nat
    BY <1>1, AppendCode DEF SeqTypes
  <2>. QED BY <1>1, <1>4, <2>1 DEF CodesMove
<1>. QED BY <1>2, <1>4, <1>5, <1>6, <1>7 DEF SeqTypes

\* So do the fields of the session.
LEMMA FlagTypes ==
  ASSUME TypeOK, CallInv, [Next]_vars
  PROVE  Flags'
<1>. USE DEF TypeOK, CallInv, Flags, Steps
<1>1. CASE Execute
  BY <1>1 DEF Execute
<1>2. CASE Succeeds \/ CodeError
  BY <1>2 DEF Succeeds, CodeError, Acknowledges
<1>3. CASE ProcessFails \/ TimesOut
  BY <1>3 DEF ProcessFails, TimesOut
<1>4. CASE Recover \/ Restart \/ RestartFails
  BY <1>4 DEF Recover, Restart, RestartFails, Surrenders, AttemptsLeft
<1>5. CASE ReplayNext \/ ReplayFails \/ ReplayDone
  BY <1>5 DEF ReplayNext, ReplayFails, ReplayDone, Surrenders
<1>6. CASE Check \/ LeaseWorker \/ LeaseFails \/ Begin \/ DiscardWorker
  <2>1. CASE Begin
    <3>1. mayRetry' = (suspect /\ ~attempted) /\ attempted' = TRUE /\ suspect' = suspect
      BY <2>1 DEF Begin
    <3>2. mayRetry' \in BOOLEAN /\ attempted' \in BOOLEAN
      BY <3>1, Zenon
    <3>. QED BY <3>1, <3>2
  <2>2. CASE LeaseWorker
    BY <2>2 DEF LeaseWorker
  <2>3. CASE Check \/ LeaseFails \/ DiscardWorker
    BY <2>3 DEF Check, LeaseFails, DiscardWorker
  <2>. QED BY <1>6, <2>1, <2>2, <2>3
<1>7. CASE WorkerDies \/ UNCHANGED vars
  BY <1>7 DEF WorkerDies, vars
<1>. QED BY <1>1, <1>2, <1>3, <1>4, <1>5, <1>6, <1>7 DEF Next

\* So do the counters.
LEMMA CountTypes ==
  ASSUME Counts, CallInv, [Next]_vars
  PROVE  Counts'
<1>. USE DEF CallInv, Counts, Steps
<1>1. CASE Execute
  BY <1>1 DEF Execute
<1>2. CASE Succeeds \/ CodeError
  BY <1>2 DEF Succeeds, CodeError, Acknowledges
<1>3. CASE ProcessFails \/ TimesOut
  <2>1. CASE ProcessFails
    BY <2>1 DEF ProcessFails
  <2>2. CASE TimesOut
    BY <2>2 DEF TimesOut
  <2>. QED BY <1>3, <2>1, <2>2
<1>4. CASE Recover \/ Restart \/ RestartFails
  BY <1>4 DEF Recover, Restart, RestartFails, Surrenders, AttemptsLeft
<1>5. CASE ReplayNext \/ ReplayFails \/ ReplayDone
  <2>1. CASE ReplayNext
    BY <2>1 DEF ReplayNext
  <2>2. CASE ReplayFails
    BY <2>2 DEF ReplayFails
  <2>3. CASE ReplayDone
    BY <2>3 DEF ReplayDone, Surrenders
  <2>. QED BY <1>5, <2>1, <2>2, <2>3
<1>6. CASE Check \/ LeaseWorker \/ LeaseFails \/ Begin \/ DiscardWorker
  <2>1. CASE Check \/ LeaseFails
    BY <2>1 DEF Check, LeaseFails
  <2>2. CASE LeaseWorker
    <3>1. /\ At("lease") /\ worker' = "alive" /\ state' = <<>>
          /\ pc' = IF attempt = 0 THEN "begin" ELSE "run"
          /\ UNCHANGED <<kind, attempted, history, callVars, loopVars, heard, faults>>
      BY <2>2 DEF LeaseWorker
    <3>. QED BY <3>1
  <2>3. CASE Begin
    <3>1. /\ Goto("run") /\ UNCHANGED <<kind, suspect, toolVars, history, callVars, attempt>>
          /\ UNCHANGED <<failure, replayed, heard, faults>>
      BY <2>3 DEF Begin
    <3>. QED BY <3>1
  <2>4. CASE DiscardWorker
    <3>1. 1 \in 0..(MaxRetries + 1)
      OBVIOUS
    <3>. QED BY <2>4, <3>1 DEF DiscardWorker
  <2>. QED BY <1>6, <2>1, <2>2, <2>3, <2>4
<1>7. CASE WorkerDies \/ UNCHANGED vars
  BY <1>7 DEF WorkerDies, vars
<1>. QED BY <1>1, <1>2, <1>3, <1>4, <1>5, <1>6, <1>7 DEF Next

\* Every step keeps the history.
LEMMA HistoryStep ==
  ASSUME TypeOK, CallInv, HistoryIsAcked, [Next]_vars
  PROVE  HistoryIsAcked'
<1>. USE DEF TypeOK, CallInv, HistoryIsAcked
<1>1. CASE Execute
  BY <1>1 DEF Execute
<1>2. CASE Succeeds \/ CodeError
  BY <1>2 DEF Succeeds, CodeError, Acknowledges
<1>3. CASE ProcessFails \/ TimesOut
  BY <1>3 DEF ProcessFails, TimesOut
<1>4. CASE Recover \/ Restart \/ RestartFails
  BY <1>4 DEF Recover, Restart, RestartFails, Surrenders, AttemptsLeft
<1>5. CASE ReplayNext \/ ReplayFails \/ ReplayDone
  BY <1>5 DEF ReplayNext, ReplayFails, ReplayDone, Surrenders
<1>6. CASE Check \/ LeaseWorker \/ LeaseFails \/ Begin \/ DiscardWorker
  BY <1>6 DEF Check, LeaseWorker, LeaseFails, Begin, DiscardWorker
<1>7. CASE WorkerDies \/ UNCHANGED vars
  BY <1>7 DEF WorkerDies, vars
<1>. QED BY <1>1, <1>2, <1>3, <1>4, <1>5, <1>6, <1>7 DEF Next

\* Every step keeps what was replayed.
LEMMA ReplayInvStep ==
  ASSUME TypeOK, CallInv, ReplayInv, [Next]_vars
  PROVE  ReplayInv'
<1>. USE DEF TypeOK, CallInv, ReplayInv, Steps
<1>1. CASE Execute
  BY <1>1 DEF Execute
<1>2. CASE Succeeds \/ CodeError
  BY <1>2 DEF Succeeds, CodeError, Acknowledges
<1>3. CASE ProcessFails \/ TimesOut
  BY <1>3 DEF ProcessFails, TimesOut
<1>4. CASE Recover \/ Restart \/ RestartFails
  BY <1>4 DEF Recover, Restart, RestartFails, Surrenders, AttemptsLeft
<1>5. CASE ReplayNext
  <2>1. /\ replayed + 1 \in 1..Len(history) /\ history[replayed + 1] \in 1..MaxCalls
        /\ Len(state) = replayed /\ \A k \in 1..replayed : state[k] = history[k]
    BY <1>5, AppendCode DEF ReplayNext
  <2>2. state' = Append(state, history[replayed + 1]) /\ replayed' = replayed + 1
    BY <1>5 DEF ReplayNext
  <2>3. Len(state') = replayed' /\ \A k \in 1..replayed' : state'[k] = history[k]
    <3>1. /\ Len(state') = Len(state) + 1 /\ Len(state) \in Nat
          /\ state'[Len(state) + 1] = history[replayed + 1]
          /\ \A k \in 1..Len(state) : state'[k] = state[k]
      BY <2>1, <2>2, LongerCode
    <3>. QED BY <2>1, <2>2, <3>1
  <2>. QED BY <1>5, <2>3 DEF ReplayNext
<1>6. CASE ReplayFails
  BY <1>6 DEF ReplayFails
<1>7. CASE ReplayDone
  <2>1. /\ Len(state) = Len(history)
        /\ \A k \in 1..Len(history) : state[k] = history[k]
    BY <1>7 DEF ReplayDone
  <2>2. state = history
    <3>1. state \in Seq(1..MaxCalls) /\ history \in Seq(1..MaxCalls)
      BY DEF Codes
    <3>2. \A k \in 1..Len(state) : state[k] = history[k]
      BY <2>1
    <3>. QED BY <2>1, <3>1, <3>2, SeqEqual
  <2>. QED BY <1>7, <2>2 DEF ReplayDone
<1>8. CASE Check \/ LeaseWorker \/ LeaseFails \/ Begin \/ DiscardWorker
  BY <1>8 DEF Check, LeaseWorker, LeaseFails, Begin, DiscardWorker
<1>9. CASE WorkerDies \/ UNCHANGED vars
  BY <1>9 DEF WorkerDies, vars
<1>. QED BY <1>1, <1>2, <1>3, <1>4, <1>5, <1>6, <1>7, <1>8, <1>9 DEF Next

\* Every step keeps what the client relies on.
LEMMA SinceStep ==
  ASSUME TypeOK, CallInv, ReplayInv, HistoryIsAcked, SinceInv, [Next]_vars
  PROVE  SinceInv'
<1>. USE DEF TypeOK, CallInv, ReplayInv, HistoryIsAcked, SinceInv, Ran, Steps
<1>1. CASE Execute
  BY <1>1 DEF Execute
<1>2. CASE Succeeds \/ CodeError
  <2>1. /\ call \in 1..MaxCalls /\ state' = Append(state, call) /\ told' = told
        /\ kind' = kind /\ acked' \in {acked, Append(acked, call)} /\ pc = "run"
    BY <1>2 DEF Succeeds, CodeError, Acknowledges
  <2>2. Ran \subseteq Ran' /\ call \in Ran'
    BY SMTT(30), <2>1, MoreRan DEF Ran
  <2>3. /\ Len(acked) \in Nat
        /\ Len(acked') \in {Len(acked), Len(acked) + 1}
        /\ \A k \in 1..Len(acked) : acked'[k] = acked[k]
        /\ \A k \in 1..Len(acked') : k > Len(acked) => acked'[k] = call
    <3>1. CASE acked' = acked
      BY <3>1, AppendCode
    <3>2. CASE acked' = Append(acked, call)
      <4>1. /\ Len(acked') = Len(acked) + 1 /\ Len(acked) \in Nat
            /\ acked'[Len(acked) + 1] = call
            /\ \A k \in 1..Len(acked) : acked'[k] = acked[k]
        BY <2>1, <3>2, AppendCode
      <4>. QED BY <4>1
    <3>. QED BY <2>1, <3>1, <3>2
  <2>4. told \in Nat
    BY <2>3
  <2> SUFFICES ASSUME Owned, NEW k \in (told + 1)..Len(acked')
               PROVE  acked'[k] \in Ran'
    BY <2>1
  <2>5. CASE k <= Len(acked)
    <3>1. k \in (told + 1)..Len(acked) /\ k \in 1..Len(acked)
      BY <2>3, <2>4, <2>5
    <3>. QED BY <2>1, <2>2, <2>3, <3>1
  <2>6. CASE k > Len(acked)
    BY <2>2, <2>3, <2>4, <2>6
  <2>. QED BY <2>3, <2>4, <2>5, <2>6
<1>3. CASE ProcessFails \/ TimesOut
  BY <1>3 DEF ProcessFails, TimesOut
<1>4. CASE Recover \/ Restart \/ RestartFails
  BY <1>4 DEF Recover, Restart, RestartFails, Surrenders, AttemptsLeft
<1>5. CASE ReplayNext \/ ReplayFails \/ ReplayDone
  BY <1>5 DEF ReplayNext, ReplayFails, ReplayDone, Surrenders
<1>6. CASE Check \/ LeaseWorker \/ LeaseFails \/ Begin \/ DiscardWorker
  BY <1>6 DEF Check, LeaseWorker, LeaseFails, Begin, DiscardWorker
<1>7. CASE WorkerDies \/ UNCHANGED vars
  BY <1>7 DEF WorkerDies, vars
<1>. QED BY <1>1, <1>2, <1>3, <1>4, <1>5, <1>6, <1>7 DEF Next

\* Every step keeps what pooled sessions repeat.
LEMMA FirstStep ==
  ASSUME TypeOK, CallInv, FirstInv, [Next]_vars
  PROVE  FirstInv'
<1>. USE DEF TypeOK, CallInv, FirstInv, Steps
<1>1. CASE Execute
  BY <1>1 DEF Execute
<1>2. CASE Succeeds \/ CodeError
  BY <1>2 DEF Succeeds, CodeError, Acknowledges
<1>3. CASE ProcessFails \/ TimesOut
  BY <1>3 DEF ProcessFails, TimesOut
<1>4. CASE Recover \/ Restart \/ RestartFails
  BY <1>4 DEF Recover, Restart, RestartFails, Surrenders, AttemptsLeft
<1>5. CASE ReplayNext \/ ReplayFails \/ ReplayDone
  BY <1>5 DEF ReplayNext, ReplayFails, ReplayDone, Surrenders
<1>6. CASE Check \/ LeaseWorker \/ LeaseFails \/ Begin \/ DiscardWorker
  <2>1. CASE Check \/ LeaseFails
    BY <2>1 DEF Check, LeaseFails
  <2>2. CASE LeaseWorker
    <3>1. /\ At("lease") /\ worker' = "alive" /\ state' = <<>>
          /\ pc' = IF attempt = 0 THEN "begin" ELSE "run"
          /\ UNCHANGED <<kind, attempted, history, callVars, loopVars, heard, faults>>
      BY <2>2 DEF LeaseWorker
    <3>. QED BY <3>1
  <2>3. CASE Begin
    <3>1. (mayRetry' => ~attempted) /\ attempted' = TRUE
      BY <2>3, Zenon DEF Begin
    <3>2. /\ At("begin") /\ Goto("run")
          /\ UNCHANGED <<kind, suspect, toolVars, history, callVars, attempt, failure>>
          /\ UNCHANGED <<replayed, heard, faults>>
      BY <2>3 DEF Begin
    <3>. QED BY <3>1, <3>2
  <2>4. CASE DiscardWorker
    BY <2>4 DEF DiscardWorker
  <2>. QED BY <1>6, <2>1, <2>2, <2>3, <2>4
<1>7. CASE WorkerDies \/ UNCHANGED vars
  BY <1>7 DEF WorkerDies, vars
<1>. QED BY <1>1, <1>2, <1>3, <1>4, <1>5, <1>6, <1>7 DEF Next

\* Every step keeps the faults of this call.
LEMMA FaultStep ==
  ASSUME TypeOK, CallInv, FirstInv, FaultInv, [Next]_vars
  PROVE  FaultInv'
<1>. USE DEF TypeOK, CallInv, FirstInv, FaultInv, Steps
<1>1. CASE Execute
  BY <1>1 DEF Execute
<1>2. CASE Succeeds \/ CodeError
  BY <1>2 DEF Succeeds, CodeError, Acknowledges
<1>3. CASE ProcessFails \/ TimesOut
  BY <1>3 DEF ProcessFails, TimesOut
<1>4. CASE Recover \/ Restart \/ RestartFails
  BY <1>4 DEF Recover, Restart, RestartFails, Surrenders, AttemptsLeft
<1>5. CASE ReplayNext \/ ReplayFails \/ ReplayDone
  BY <1>5 DEF ReplayNext, ReplayFails, ReplayDone, Surrenders
<1>6. CASE Check \/ LeaseWorker \/ LeaseFails \/ Begin \/ DiscardWorker
  <2>1. CASE Check \/ LeaseFails
    BY <2>1 DEF Check, LeaseFails
  <2>2. CASE LeaseWorker
    <3>1. /\ At("lease") /\ worker' = "alive" /\ state' = <<>>
          /\ pc' = IF attempt = 0 THEN "begin" ELSE "run"
          /\ UNCHANGED <<kind, attempted, history, callVars, loopVars, heard, faults>>
      BY <2>2 DEF LeaseWorker
    <3>. QED BY <3>1
  <2>3. CASE Begin
    <3>1. (mayRetry' => ~attempted) /\ attempted' = TRUE
      BY <2>3, Zenon DEF Begin
    <3>2. /\ At("begin") /\ Goto("run")
          /\ UNCHANGED <<kind, suspect, toolVars, history, callVars, attempt, failure>>
          /\ UNCHANGED <<replayed, heard, faults>>
      BY <2>3 DEF Begin
    <3>. QED BY <3>1, <3>2
  <2>4. CASE DiscardWorker
    BY <2>4 DEF DiscardWorker
  <2>. QED BY <1>6, <2>1, <2>2, <2>3, <2>4
<1>7. CASE WorkerDies \/ UNCHANGED vars
  BY <1>7 DEF WorkerDies, vars
<1>. QED BY <1>1, <1>2, <1>3, <1>4, <1>5, <1>6, <1>7 DEF Next

\* Every step keeps that sessions mend themselves.
LEMMA MendsStep ==
  ASSUME TypeOK, CallInv, FaultInv, MendsItself, [Next]_vars
  PROVE  MendsItself'
<1>. USE DEF TypeOK, CallInv, FaultInv, MendsItself, Steps
<1>1. CASE Execute
  BY <1>1 DEF Execute
<1>2. CASE Succeeds \/ CodeError
  BY <1>2 DEF Succeeds, CodeError, Acknowledges
<1>3. CASE ProcessFails \/ TimesOut
  BY <1>3 DEF ProcessFails, TimesOut
<1>4. CASE Recover \/ Restart \/ RestartFails
  BY <1>4 DEF Recover, Restart, RestartFails, Surrenders, AttemptsLeft
<1>5. CASE ReplayNext \/ ReplayFails \/ ReplayDone
  BY <1>5 DEF ReplayNext, ReplayFails, ReplayDone, Surrenders
<1>6. CASE Check \/ LeaseWorker \/ LeaseFails \/ Begin \/ DiscardWorker
  BY <1>6 DEF Check, LeaseWorker, LeaseFails, Begin, DiscardWorker
<1>7. CASE WorkerDies \/ UNCHANGED vars
  BY <1>7 DEF WorkerDies, vars
<1>. QED BY <1>1, <1>2, <1>3, <1>4, <1>5, <1>6, <1>7 DEF Next

-----------------------------------------------------------------------------
(* The theorems *)

\* What holds whenever the manager is between two steps of a call.
RecoveryInv ==
  TypeOK /\ CallInv /\ HistoryIsAcked /\ ReplayInv /\ SinceInv /\ FirstInv /\ FaultInv
    /\ MendsItself

\* A session that create_session has returned is in order.
LEMMA InitRecovery == Init => RecoveryInv
<1> SUFFICES ASSUME Init PROVE RecoveryInv
  OBVIOUS
<1>1. <<>> \in Codes /\ Len(<<>>) = 0
  BY AppendCode
<1>2. suspect \in BOOLEAN
  <2>1. CASE kind = "innovus"
    BY <2>1 DEF Init
  <2>2. CASE kind # "innovus"
    <3>1. suspect = FALSE
      BY <2>2 DEF Init
    <3>. QED BY <3>1
  <2>. QED BY <2>1, <2>2
<1>3. TypeOK
  <2>1. SeqTypes /\ Flags
    <3>1. /\ state = <<>> /\ history = <<>> /\ acked = <<>> /\ replayed = 0 /\ told = 0
          /\ attempted = FALSE /\ mayRetry = FALSE
      BY DEF Init
    <3>2. SeqTypes
      BY <1>1, <3>1 DEF SeqTypes
    <3>3. Flags
      BY <1>2, <3>1 DEF Flags
    <3>. QED BY <3>2, <3>3
  <2>2. Counts
    BY DEF Init, Counts, Steps
  <2>. QED BY <2>1, <2>2 DEF TypeOK, SeqTypes, Flags, Counts
<1>4. CallInv /\ HistoryIsAcked /\ ReplayInv
  BY DEF Init, CallInv, HistoryIsAcked, ReplayInv
<1>5. SinceInv
  BY <1>1 DEF Init, SinceInv
<1>6. FirstInv /\ FaultInv /\ MendsItself
  BY DEF Init, FirstInv, FaultInv, MendsItself
<1>. QED BY <1>3, <1>4, <1>5, <1>6 DEF RecoveryInv

\* It stays so, whatever a call or a fault does.
LEMMA RecoveryStep == RecoveryInv /\ [Next]_vars => RecoveryInv'
<1> SUFFICES ASSUME RecoveryInv, [Next]_vars PROVE RecoveryInv'
  OBVIOUS
<1>1. SeqTypes' /\ Flags' /\ Counts'
  <2>1. Counts
    BY DEF RecoveryInv, TypeOK, Counts
  <2>. QED BY <2>1, CodeTypes, FlagTypes, CountTypes DEF RecoveryInv
<1>2. TypeOK'
  BY <1>1 DEF TypeOK, SeqTypes, Flags, Counts
<1>3. CallInv' /\ HistoryIsAcked' /\ ReplayInv' /\ SinceInv'
  BY CallStep, HistoryStep, ReplayInvStep, SinceStep DEF RecoveryInv
<1>4. FirstInv' /\ FaultInv' /\ MendsItself'
  BY FirstStep, FaultStep, MendsStep DEF RecoveryInv
<1>. QED BY <1>2, <1>3, <1>4 DEF RecoveryInv

\* However many calls, retries and failures: every part of the invariant holds.
THEOREM RecoveryInvariant == Spec => []RecoveryInv
BY InitRecovery, RecoveryStep, PTL DEF Spec

\* The fields of the session and of the call keep their types.
THEOREM TypeCorrect == Spec => []TypeOK
<1>1. RecoveryInv => TypeOK
  BY DEF RecoveryInv
<1>. QED BY <1>1, RecoveryInvariant, PTL

\* execution_history is what the client was told succeeded, once each and in that order.
THEOREM HistoryAcknowledged == Spec => []HistoryIsAcked
<1>1. RecoveryInv => HistoryIsAcked
  BY DEF RecoveryInv
<1>. QED BY <1>1, RecoveryInvariant, PTL

\* An answer that mentions no loss is given by a tool that still holds everything the client
\* was told succeeded since the last loss it heard of.
THEOREM LossesAreTold == Spec => []NoSilentLoss
<1>1. RecoveryInv => NoSilentLoss
  BY DEF RecoveryInv, SinceInv, NoSilentLoss
<1>. QED BY <1>1, RecoveryInvariant, PTL

\* The code of a retry runs on the history alone; pooled sessions repeat only their first.
THEOREM RetriesClean == Spec => []RetriesOnHistory
<1>1. RecoveryInv => RetriesOnHistory
  BY DEF RecoveryInv, ReplayInv, FirstInv, RetriesOnHistory, TypeOK
<1>. QED BY <1>1, RecoveryInvariant, PTL

\* A call in which nothing goes wrong is not answered with the loss of its runtime.
THEOREM LossHasCause == Spec => []MendsItself
<1>1. RecoveryInv => MendsItself
  BY DEF RecoveryInv
<1>. QED BY <1>1, RecoveryInvariant, PTL
=============================================================================
