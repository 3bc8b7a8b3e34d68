----------------------- MODULE ExecutionLogs_proofs -----------------------
(***************************************************************************)
(* Lemmas about ExecutionLogs: what one transaction on the registry makes  *)
(* of the rows and the runtime, for every registry with RegInv, and of the *)
(* sum of the bytes that its rows account for.                             *)
(***************************************************************************)
EXTENDS ExecutionLogs, SequenceTheorems, FiniteSetTheorems, TLAPS

Outcomes == {"DONE", "TIMED_OUT", "LOST"}

IsRow(r) ==
  {"req", "state"} \subseteq DOMAIN r /\ r.req \in Requests /\ r.state \in Active \cup Outcomes

IsTable(rows) ==
  /\ Len(rows) \in Nat /\ rows = [k \in 1..Len(rows) |-> rows[k]]
  /\ \A k \in DOMAIN rows : IsRow(rows[k])

\* As much as matters here of the shape of the registry.
Shaped(g) == {"session", "runtime", "current", "rows"} \subseteq DOMAIN g /\ IsTable(g.rows)

\* An execution that has not ended is the current one of its runtime, which waits for it if
\* it is queued and is busy with it if it runs.
OneCurrent(g) ==
  \A k \in DOMAIN g.rows :
    /\ g.rows[k].state = "QUEUED"  => g.current = k /\ g.runtime = "READY"
    /\ g.rows[k].state = "RUNNING" => g.current = k /\ g.runtime = "BUSY"

RegInv(g) == Shaped(g) /\ OneCurrent(g) /\ (g.session = "none" => Len(g.rows) = 0)

\* A step of the registry that begins and starts no execution, and one that does not offer
\* the runtime to another either.
Steady(g, h) ==
  /\ RegInv(h) /\ Len(h.rows) = Len(g.rows)
  /\ \A k \in DOMAIN g.rows :
       /\ h.rows[k].req = g.rows[k].req
       /\ h.rows[k].state \in Active => h.rows[k].state = g.rows[k].state

Gentle(g, h) == Steady(g, h) /\ (h.runtime = "READY" => g.runtime = "READY")

\* A function on the rows' numbers is a table of the same length.
LEMMA TableOfRows ==
  ASSUME NEW rows, NEW n \in Nat, DOMAIN rows = 1..n, rows = [k \in 1..n |-> rows[k]],
         \A k \in 1..n : IsRow(rows[k])
  PROVE  Len(rows) = n /\ IsTable(rows)
<1>. DEFINE S == {rows[k] : k \in 1..n}
<1>1. rows \in [1..n -> S]
  OBVIOUS
<1>2. rows \in Seq(S)
  BY <1>1, SeqDef
<1>3. Len(rows) = n
  <2>. HIDE DEF S
  <2>. QED BY <1>2, LenProperties
<1>. QED BY <1>3 DEF IsTable

\* A row that is added goes to the end.
LEMMA TableGrows ==
  ASSUME NEW rows, NEW row, IsTable(rows), IsRow(row)
  PROVE  /\ IsTable(Append(rows, row)) /\ Len(Append(rows, row)) = Len(rows) + 1
         /\ Append(rows, row)[Len(rows) + 1] = row
         /\ \A k \in DOMAIN rows : Append(rows, row)[k] = rows[k]
<1>. DEFINE S == {rows[k] : k \in 1..Len(rows)} \cup {row}
            more == Append(rows, row)
<1>1. rows \in [1..Len(rows) -> S] /\ Len(rows) \in Nat
  BY DEF IsTable
<1>2. rows \in Seq(S) /\ row \in S
  BY <1>1, SeqDef
<1>3. /\ more \in Seq(S) /\ Len(more) = Len(rows) + 1 /\ more[Len(rows) + 1] = row
      /\ \A k \in 1..Len(rows) : more[k] = rows[k]
  <2>. HIDE DEF S
  <2>. QED BY <1>2, AppendProperties
<1>4. more \in [1..Len(rows) + 1 -> S]
  <2>. HIDE DEF S, more
  <2>. QED BY <1>3, LenProperties
<1>5. more = [k \in 1..Len(rows) + 1 |-> more[k]] /\ DOMAIN more = 1..Len(rows) + 1
  BY <1>4
<1>6. \A k \in 1..Len(rows) + 1 : IsRow(more[k])
  <2>. HIDE DEF more
  <2>. QED BY <1>3, <1>1 DEF IsTable
<1>7. DOMAIN rows = 1..Len(rows)
  BY DEF IsTable
<1>8. IsTable(more)
  <2>. HIDE DEF more
  <2>. QED BY <1>1, <1>5, <1>6, TableOfRows
<1>. QED BY <1>3, <1>7, <1>8

\* Ending executions in a hurry leaves a table, and the other rows alone.
LEMMA RowsLost ==
  ASSUME NEW g, NEW which, IsTable(g.rows)
  PROVE  /\ IsTable(LostRows(g, which)) /\ Len(LostRows(g, which)) = Len(g.rows)
         /\ \A k \in DOMAIN g.rows :
              /\ LostRows(g, which)[k].req = g.rows[k].req
              /\ LostRows(g, which)[k].state =
                   IF k \in which /\ g.rows[k].state \in Active THEN "LOST" ELSE g.rows[k].state
<1>. DEFINE rows == LostRows(g, which)
<1>1. DOMAIN g.rows = 1..Len(g.rows) /\ Len(g.rows) \in Nat
  BY DEF IsTable
<1>2. DOMAIN rows = 1..Len(g.rows) /\ rows = [k \in 1..Len(g.rows) |-> rows[k]]
  BY <1>1 DEF LostRows
<1>3. ASSUME NEW k \in DOMAIN g.rows
      PROVE  /\ IsRow(rows[k]) /\ rows[k].req = g.rows[k].req
             /\ rows[k].state =
                  IF k \in which /\ g.rows[k].state \in Active THEN "LOST" ELSE g.rows[k].state
  <2>1. CASE k \in which /\ g.rows[k].state \in Active
    <3>1. rows[k] = [g.rows[k] EXCEPT !.state = "LOST", !.complete = FALSE, !.written = Null]
      BY <2>1 DEF LostRows
    <3>. HIDE DEF rows
    <3>. QED BY <3>1, <2>1 DEF IsTable, IsRow, Outcomes
  <2>2. CASE ~(k \in which /\ g.rows[k].state \in Active)
    <3>1. rows[k] = g.rows[k]
      BY <2>2 DEF LostRows
    <3>. HIDE DEF rows
    <3>. QED BY <3>1, <2>2 DEF IsTable
  <2>. QED BY <2>1, <2>2
<1>. HIDE DEF rows
<1>4. Len(rows) = Len(g.rows) /\ IsTable(rows)
  BY <1>1, <1>2, <1>3, TableOfRows
<1>. QED BY <1>3, <1>4 DEF rows

\* A transaction on a registry that changes these columns, and rows but not their number.
LEMMA RegistryStep ==
  ASSUME NEW g, NEW h, RegInv(g), IsTable(h.rows), Len(h.rows) = Len(g.rows),
         {"session", "runtime", "current", "rows"} \subseteq DOMAIN h,
         h.session = "none" => g.session = "none",
         h.runtime = "READY" => g.runtime = "READY",
         \A k \in DOMAIN g.rows : h.rows[k].req = g.rows[k].req,
         \A k \in DOMAIN g.rows :
           \/ h.rows[k].state \in Outcomes
           \/ /\ h.rows[k].state = g.rows[k].state
              /\ h.runtime = g.runtime /\ h.current = g.current
  PROVE  Gentle(g, h)
<1>1. DOMAIN h.rows = DOMAIN g.rows
  BY DEF RegInv, Shaped, IsTable
<1>2. RegInv(h)
  BY <1>1 DEF RegInv, Shaped, OneCurrent, Outcomes
<1>. QED BY <1>2 DEF Gentle, Steady, Active, Outcomes

\* Once the current execution is among those that are ended, none goes on.
LEMMA NoneGoesOn ==
  ASSUME NEW g, NEW which, RegInv(g), g.current \in which \/ DOMAIN g.rows \subseteq which
  PROVE  /\ IsTable(LostRows(g, which)) /\ Len(LostRows(g, which)) = Len(g.rows)
         /\ \A k \in DOMAIN g.rows : /\ LostRows(g, which)[k].state \in Outcomes
                                     /\ LostRows(g, which)[k].req = g.rows[k].req
<1>1. IsTable(g.rows)
  BY DEF RegInv, Shaped
<1>2. ASSUME NEW k \in DOMAIN g.rows PROVE LostRows(g, which)[k].state \in Outcomes
  <2>1. g.rows[k].state \in Active \cup Outcomes
    BY <1>1 DEF IsTable, IsRow
  <2>2. g.rows[k].state \in Active => k \in which
    BY DEF RegInv, OneCurrent, Active
  <2>. QED BY <1>1, <2>1, <2>2, RowsLost DEF Outcomes
<1>. QED BY <1>1, <1>2, RowsLost

\* mark_runtime_lost ends the current execution, and offers the runtime to nobody.
LEMMA RuntimeLostGentle == ASSUME NEW g, RegInv(g) PROVE Gentle(g, RuntimeLost(g))
<1>1. CASE g.runtime \in {"LOST", "STOPPED"}
  BY <1>1, RegistryStep DEF RuntimeLost, RegInv, Shaped
<1>2. CASE g.runtime \notin {"LOST", "STOPPED"}
  <2>. DEFINE rows == LostRows(g, {g.current})
              h == RuntimeLost(g)
  <2>1. /\ {"session", "runtime", "current", "rows"} \subseteq DOMAIN h
        /\ h.session = g.session /\ h.runtime = "LOST" /\ h.rows = rows
    BY <1>2 DEF RuntimeLost, RegInv, Shaped
  <2>2. /\ IsTable(rows) /\ Len(rows) = Len(g.rows)
        /\ \A k \in DOMAIN g.rows : rows[k].state \in Outcomes /\ rows[k].req = g.rows[k].req
    BY NoneGoesOn
  <2>. HIDE DEF rows, h
  <2>3. Gentle(g, h)
    BY <2>1, <2>2, RegistryStep
  <2>. QED BY <2>3 DEF h
<1>. QED BY <1>1, <1>2

\* Nor does close_workspace_session,
LEMMA ClosedGentle ==
  ASSUME NEW g, NEW terminated, RegInv(g)
  PROVE  Gentle(g, Closed(g, terminated))
<1>1. CASE g.session = "CLOSED"
  BY <1>1, RegistryStep DEF Closed, RegInv, Shaped
<1>2. CASE g.session # "CLOSED"
  <2>. DEFINE rows == LostRows(g, {g.current})
              h == Closed(g, terminated)
  <2>1. /\ {"session", "runtime", "current", "rows"} \subseteq DOMAIN h
        /\ h.session = "CLOSED" /\ h.runtime = "STOPPED" /\ h.rows = rows
    BY <1>2 DEF Closed, RegInv, Shaped
  <2>2. /\ IsTable(rows) /\ Len(rows) = Len(g.rows)
        /\ \A k \in DOMAIN g.rows : rows[k].state \in Outcomes /\ rows[k].req = g.rows[k].req
    BY NoneGoesOn
  <2>. HIDE DEF rows, h
  <2>3. Gentle(g, h)
    BY <2>1, <2>2, RegistryStep
  <2>. QED BY <2>3 DEF h
<1>. QED BY <1>1, <1>2

\* nor a reconciliation,
LEMMA ReconciledGentle == ASSUME NEW g, RegInv(g) PROVE Gentle(g, Reconciled(g))
<1>. DEFINE rows == LostRows(g, DOMAIN g.rows)
            h == Reconciled(g)
<1>1. /\ {"session", "runtime", "current", "rows"} \subseteq DOMAIN h
      /\ h.session = g.session /\ h.runtime # "READY" /\ h.rows = rows
  BY DEF Reconciled, RegInv, Shaped
<1>2. /\ IsTable(rows) /\ Len(rows) = Len(g.rows)
      /\ \A k \in DOMAIN g.rows : rows[k].state \in Outcomes /\ rows[k].req = g.rows[k].req
  BY NoneGoesOn
<1>. HIDE DEF rows, h
<1>3. Gentle(g, h)
  BY <1>1, <1>2, RegistryStep
<1>. QED BY <1>3 DEF h

\* nor forgetting the process ids.
LEMMA DisownedGentle == ASSUME NEW g, RegInv(g) PROVE Gentle(g, Disowned(g))
<1>. DEFINE h == Disowned(g)
<1>1. /\ {"session", "runtime", "current", "rows"} \subseteq DOMAIN h
      /\ h.session = g.session /\ h.runtime = g.runtime /\ h.current = g.current
      /\ h.rows = g.rows
  BY DEF Disowned, RegInv, Shaped
<1>. HIDE DEF h
<1>2. Gentle(g, h)
  BY <1>1, RegistryStep DEF RegInv, Shaped
<1>. QED BY <1>2 DEF h

\* Sealing a log changes its bytes, and no outcome.
LEMMA SealedGentle == ASSUME NEW g, RegInv(g) PROVE Gentle(g, Sealed(g))
<1>. DEFINE h == Sealed(g)
            rows == h.rows
<1>1. rows = [k \in DOMAIN g.rows |->
               IF k \in Unsealed(g)
               THEN [g.rows[k] EXCEPT !.written = Found(g, k), !.accounted = g.rows[k].reserved]
               ELSE g.rows[k]]
  BY DEF Sealed, RegInv, Shaped
<1>2. /\ {"session", "runtime", "current", "rows"} \subseteq DOMAIN h
      /\ h.session = g.session /\ h.runtime = g.runtime /\ h.current = g.current
  BY DEF Sealed, RegInv, Shaped
<1>3. DOMAIN g.rows = 1..Len(g.rows) /\ Len(g.rows) \in Nat
  BY DEF RegInv, Shaped, IsTable
<1>. HIDE DEF rows, h
<1>4. ASSUME NEW k \in DOMAIN g.rows
      PROVE  IsRow(rows[k]) /\ rows[k].state = g.rows[k].state /\ rows[k].req = g.rows[k].req
  <2>0. IsRow(g.rows[k])
    BY DEF RegInv, Shaped, IsTable
  <2>1. CASE k \in Unsealed(g)
    BY <1>1, <2>0, <2>1 DEF IsRow
  <2>2. CASE k \notin Unsealed(g)
    BY <1>1, <2>0, <2>2
  <2>. QED BY <2>1, <2>2
<1>5. DOMAIN rows = 1..Len(g.rows) /\ rows = [k \in 1..Len(g.rows) |-> rows[k]]
  BY <1>1, <1>3
<1>6. IsTable(rows) /\ Len(rows) = Len(g.rows)
  BY <1>3, <1>4, <1>5, TableOfRows
<1>7. Gentle(g, h)
  BY <1>2, <1>4, <1>6, RegistryStep DEF rows
<1>. QED BY <1>7 DEF h

\* Completing an execution that goes on offers the runtime again, unless it is lost with it.
LEMMA CompletedSteps ==
  ASSUME NEW g, NEW k \in DOMAIN g.rows, NEW state \in Outcomes, NEW written, NEW complete,
         NEW full, RegInv(g)
  PROVE  LET h == Completed(g, k, state, written, complete, full)
         IN  /\ Steady(g, h)
             /\ h.runtime = "READY" => \/ g.runtime = "READY"
                                       \/ state = "DONE" /\ g.rows[k].state = "RUNNING"
<1>. DEFINE h == Completed(g, k, state, written, complete, full)
<1>1. CASE g.rows[k].state \notin Active
  BY <1>1 DEF Completed, Steady
<1>2. CASE g.rows[k].state \in Active
  <2>. DEFINE row  == h.rows[k]
              rows == h.rows
  <2>1. IsTable(g.rows) /\ IsRow(g.rows[k])
    BY DEF RegInv, Shaped, IsTable
  <2>2. /\ DOMAIN rows = DOMAIN g.rows /\ rows = [i \in DOMAIN g.rows |-> rows[i]]
        /\ IsRow(row) /\ row.state = state /\ row.req = g.rows[k].req
        /\ \A i \in DOMAIN g.rows : i # k => rows[i] = g.rows[i]
    BY <1>2, <2>1 DEF Completed, RegInv, Shaped, IsRow
  <2>3. /\ {"session", "runtime", "current", "rows"} \subseteq DOMAIN h
        /\ h.session = g.session
        /\ h.runtime = IF state = "DONE" THEN "READY" ELSE "LOST"
    BY <1>2 DEF Completed, RegInv, Shaped
  <2>. HIDE DEF h
  <2>4. Len(g.rows) \in Nat /\ DOMAIN g.rows = 1..Len(g.rows)
    BY <2>1 DEF IsTable
  <2>5. IsTable(rows) /\ Len(rows) = Len(g.rows)
    <3>1. \A i \in 1..Len(g.rows) : IsRow(rows[i])
      BY <2>1, <2>2, <2>4 DEF IsTable
    <3>. HIDE DEF rows
    <3>. QED BY <3>1, <2>2, <2>4, TableOfRows
  <2>6. \A i \in DOMAIN g.rows : rows[i].state \in Outcomes
    <3>1. ASSUME NEW i \in DOMAIN g.rows, i # k PROVE g.rows[i].state \in Outcomes
      <4>1. g.rows[i].state \in Active \cup Outcomes
        BY <2>1 DEF IsTable, IsRow
      <4>2. g.rows[i].state \notin Active
        BY <1>2, <3>1 DEF RegInv, OneCurrent, Active
      <4>. QED BY <4>1, <4>2
    <3>. QED BY <3>1, <2>2
  <2>7. g.runtime = "READY" \/ g.rows[k].state = "RUNNING"
    BY <1>2 DEF RegInv, OneCurrent, Active
  <2>8. RegInv(h)
    BY <2>2, <2>3, <2>4, <2>5, <2>6 DEF RegInv, Shaped, OneCurrent, Outcomes
  <2>. QED BY <2>2, <2>3, <2>5, <2>6, <2>7, <2>8 DEF h, Active, Outcomes, Steady
<1>. QED BY <1>1, <1>2

\* An execution that is admitted is queued, and the only one that has not ended.
LEMMA BegunSteps ==
  ASSUME NEW g, NEW r \in Requests, RegInv(g), g.session # "none", g.runtime = "READY",
         g.current = 0
  PROVE  LET h == Begun(g, r)
         IN  /\ RegInv(h) /\ Len(h.rows) = Len(g.rows) + 1
             /\ h.rows[Len(g.rows) + 1].state = "QUEUED" /\ h.rows[Len(g.rows) + 1].req = r
             /\ \A i \in DOMAIN g.rows : h.rows[i] = g.rows[i]
<1>. DEFINE h == Begun(g, r)
            reserve == IF ExecutionMax < Remaining THEN ExecutionMax ELSE Remaining
            new == [req |-> r, state |-> "QUEUED", reserved |-> reserve, accounted |-> reserve,
                    written |-> Null, complete |-> FALSE]
<1>1. IsTable(g.rows)
  BY DEF RegInv, Shaped
<1>2. /\ {"session", "runtime", "current", "rows"} \subseteq DOMAIN h
      /\ h.session = g.session /\ h.runtime = "READY"
      /\ h.current = Len(g.rows) + 1 /\ h.rows = Append(g.rows, new)
  BY DEF Begun, RegInv, Shaped
<1>0. IsRow(new) /\ new.state = "QUEUED" /\ new.req = r
  BY DEF IsRow, Active
<1>. HIDE DEF h, new
<1>3. /\ IsTable(h.rows) /\ Len(h.rows) = Len(g.rows) + 1 /\ h.rows[Len(g.rows) + 1] = new
      /\ \A i \in DOMAIN g.rows : h.rows[i] = g.rows[i]
  BY <1>0, <1>1, <1>2, TableGrows
<1>4. DOMAIN h.rows = 1..Len(g.rows) + 1 /\ DOMAIN g.rows = 1..Len(g.rows) /\ Len(g.rows) \in Nat
  BY <1>1, <1>3 DEF IsTable
<1>5. ASSUME NEW i \in DOMAIN g.rows PROVE h.rows[i].state \in Outcomes
  <2>1. g.rows[i].state \in Active \cup Outcomes
    BY <1>1 DEF IsTable, IsRow
  <2>2. g.rows[i].state \notin Active
    BY <1>4 DEF RegInv, OneCurrent, Active
  <2>. QED BY <2>1, <2>2, <1>3
<1>6. OneCurrent(h)
  <2> SUFFICES ASSUME NEW i \in DOMAIN h.rows, h.rows[i].state \in Active
               PROVE  i = Len(g.rows) + 1
    BY <1>0, <1>2, <1>3, <1>4 DEF OneCurrent, Active
  <2>. QED BY <1>4, <1>5 DEF Active, Outcomes
<1>7. RegInv(h)
  BY <1>2, <1>3, <1>6 DEF RegInv, Shaped
<1>. QED BY <1>0, <1>2, <1>3, <1>7 DEF h

\* What a runtime is marked busy with is its current execution.
LEMMA MarkedSteps ==
  ASSUME NEW g, NEW k \in DOMAIN g.rows, RegInv(g), g.rows[k].state = "QUEUED"
  PROVE  LET h == MarkedRunning(g, k)
         IN  /\ RegInv(h) /\ Len(h.rows) = Len(g.rows) /\ h.runtime = "BUSY"
             /\ h.rows[k].state = "RUNNING" /\ h.rows[k].req = g.rows[k].req
             /\ \A i \in DOMAIN g.rows : i # k => h.rows[i] = g.rows[i]
<1>. DEFINE h == MarkedRunning(g, k)
            rows == h.rows
<1>1. IsTable(g.rows) /\ IsRow(g.rows[k])
  BY DEF RegInv, Shaped, IsTable
<1>2. /\ {"session", "runtime", "current", "rows"} \subseteq DOMAIN h
      /\ h.session = g.session /\ h.runtime = "BUSY" /\ h.current = g.current
      /\ DOMAIN rows = DOMAIN g.rows /\ rows = [i \in DOMAIN g.rows |-> rows[i]]
      /\ IsRow(rows[k]) /\ rows[k].state = "RUNNING" /\ rows[k].req = g.rows[k].req
      /\ \A i \in DOMAIN g.rows : i # k => rows[i] = g.rows[i]
  BY <1>1 DEF MarkedRunning, RegInv, Shaped, IsRow, Active
<1>. HIDE DEF h
<1>3. Len(g.rows) \in Nat /\ DOMAIN g.rows = 1..Len(g.rows)
  BY <1>1 DEF IsTable
<1>4. IsTable(rows) /\ Len(rows) = Len(g.rows)
  <2>1. \A i \in 1..Len(g.rows) : IsRow(rows[i])
    BY <1>1, <1>2, <1>3 DEF IsTable
  <2>. HIDE DEF rows
  <2>. QED BY <2>1, <1>2, <1>3, TableOfRows
<1>5. g.current = k
  BY DEF RegInv, OneCurrent
<1>6. OneCurrent(h)
  BY <1>2, <1>5 DEF RegInv, OneCurrent
<1>7. RegInv(h)
  BY <1>2, <1>4, <1>6 DEF RegInv, Shaped
<1>. QED BY <1>2, <1>4, <1>7 DEF h

\* A session that is published has no rows yet.
LEMMA PublishedSteps ==
  ASSUME NEW g, RegInv(g), g.session = "none"
  PROVE  RegInv(Published(g)) /\ Published(g).rows = g.rows
<1>1. DOMAIN g.rows = {}
  BY DEF RegInv, Shaped, IsTable
<1>. QED BY <1>1 DEF Published, RegInv, Shaped, OneCurrent

-----------------------------------------------------------------------------
(* The quota: what the rows account for, and the bytes on disk *)

\* The log of this execution may still have a writer: all that was reserved is accounted.
Writable(row) == row.accounted = row.reserved /\ ~row.complete

\* A row, and the bytes of its log.
RowKept(row, n) ==
  /\ row \in Executions
  /\ n \in 0..row.accounted /\ row.accounted <= row.reserved
  /\ row.written # Null => row.written <= n
  /\ row.complete => row.written = n
  /\ row.state \in Active => row.accounted = row.reserved /\ row.written = Null
  /\ row.state = "QUEUED" => n = 0
  /\ row.state = "LOST" /\ row.written = Null => row.accounted = row.reserved

Registry(n) == [session : {"none", "ACTIVE", "CLOSED"},
                runtime : {"none", "READY", "BUSY", "LOST", "STOPPED"},
                current : 0..n, owned : BOOLEAN, used : 0..SessionMax, rows : Seq(Executions)]

LogsInv(g, bytes) ==
  /\ g \in Registry(Len(g.rows)) /\ g.used = Total(g.rows)
  /\ bytes \in Seq(0..ExecutionMax) /\ Len(bytes) = Len(g.rows)
  /\ \A k \in DOMAIN g.rows : RowKept(g.rows[k], bytes[k])

\* A transaction that keeps the books, and closes no log that may have a writer.
Books(g, h, bytes) ==
  /\ LogsInv(h, bytes) /\ Len(h.rows) = Len(g.rows)
  /\ \A k \in DOMAIN g.rows : Writable(g.rows[k]) => Writable(h.rows[k])

\* The bytes of one row, and those of the others.
ChargedTo(rows, which) ==
  {b \in which \X (1..ExecutionMax) : b[2] <= rows[b[1]].accounted}

\* What is accounted is finite.
LEMMA ChargedFinite ==
  ASSUME NEW rows \in Seq(Executions), NEW which \in SUBSET DOMAIN rows
  PROVE  /\ IsFiniteSet(ChargedTo(rows, which)) /\ Cardinality(ChargedTo(rows, which)) \in Nat
         /\ Charged(rows) = ChargedTo(rows, DOMAIN rows)
<1>1. DOMAIN rows = 1..Len(rows) /\ Len(rows) \in Nat
  BY LenProperties
<1>2. IsFiniteSet(DOMAIN rows) /\ IsFiniteSet(1..ExecutionMax)
  BY <1>1, FS_Interval, LogsAssumption
<1>3. IsFiniteSet(which)
  BY <1>2, FS_Subset
<1>4. IsFiniteSet(which \X (1..ExecutionMax))
  BY <1>2, <1>3, FS_Product
<1>5. IsFiniteSet(ChargedTo(rows, which))
  BY <1>4, FS_Subset DEF ChargedTo
<1>. QED BY <1>5, FS_CardinalityType DEF Charged, ChargedTo

\* A row accounts for as many bytes as it says.
LEMMA ChargedToOne ==
  ASSUME NEW rows \in Seq(Executions), NEW k \in DOMAIN rows
  PROVE  Cardinality(ChargedTo(rows, {k})) = rows[k].accounted
<1>. DEFINE a == rows[k].accounted
<1>1. a \in Nat /\ a <= ExecutionMax
  <2>1. rows[k] \in Executions
    BY LenProperties
  <2>. QED BY <2>1, LogsAssumption DEF Executions
<1>2. ChargedTo(rows, {k}) = {k} \X (1..a)
  BY <1>1, LogsAssumption DEF ChargedTo
<1>. HIDE DEF a
<1>3. IsFiniteSet(1..a) /\ Cardinality(1..a) = a
  BY <1>1, FS_Interval
<1>4. IsFiniteSet({k}) /\ Cardinality({k}) = 1
  BY FS_Singleton
<1>5. Cardinality({k} \X (1..a)) = Cardinality({k}) * Cardinality(1..a)
  BY <1>3, <1>4, FS_Product
<1>6. Cardinality({k} \X (1..a)) = a
  BY <1>1, <1>3, <1>4, <1>5
<1>. QED BY <1>2, <1>6 DEF a

\* The total is what one row accounts for, and what the others do.
LEMMA TotalSplits ==
  ASSUME NEW rows \in Seq(Executions), NEW k \in DOMAIN rows
  PROVE  /\ Total(rows) = Cardinality(ChargedTo(rows, DOMAIN rows \ {k})) + rows[k].accounted
         /\ Cardinality(ChargedTo(rows, DOMAIN rows \ {k})) \in Nat
         /\ rows[k].accounted \in Nat /\ Total(rows) \in Nat
<1>. DEFINE rest == ChargedTo(rows, DOMAIN rows \ {k})
            own  == ChargedTo(rows, {k})
<1>1. IsFiniteSet(rest) /\ IsFiniteSet(own) /\ Cardinality(rest) \in Nat
      /\ Cardinality(own) \in Nat
  BY ChargedFinite
<1>2. Charged(rows) = rest \cup own /\ rest \cap own = {}
  BY DEF Charged, ChargedTo
<1>3. Cardinality(own) = rows[k].accounted
  BY ChargedToOne
<1>. HIDE DEF rest, own
<1>4. Cardinality(rest \cup own) = Cardinality(rest) + Cardinality(own) - Cardinality({})
  BY <1>1, <1>2, FS_Union
<1>5. Cardinality({}) = 0
  BY FS_EmptySet
<1>6. Total(rows) = Cardinality(rest) + rows[k].accounted
  BY <1>1, <1>2, <1>3, <1>4, <1>5 DEF Total
<1>. QED BY <1>1, <1>3, <1>6 DEF rest

\* It depends on nothing but what the rows account for.
LEMMA TotalSame ==
  ASSUME NEW rows, NEW other, DOMAIN other = DOMAIN rows,
         \A k \in DOMAIN rows : other[k].accounted = rows[k].accounted
  PROVE  Total(other) = Total(rows)
<1>1. Charged(other) = Charged(rows)
  BY DEF Charged
<1>. QED BY <1>1 DEF Total

\* If one row changes, it takes up the difference.
LEMMA TotalUpdate ==
  ASSUME NEW rows \in Seq(Executions), NEW other \in Seq(Executions),
         DOMAIN other = DOMAIN rows, NEW k \in DOMAIN rows,
         \A i \in DOMAIN rows : i # k => other[i].accounted = rows[i].accounted
  PROVE  Total(other) = Total(rows) - rows[k].accounted + other[k].accounted
<1>1. ChargedTo(other, DOMAIN other \ {k}) = ChargedTo(rows, DOMAIN rows \ {k})
  BY DEF ChargedTo
<1>. QED BY <1>1, TotalSplits

\* A new row adds what it accounts for, and the first total is nothing.
LEMMA TotalGrows ==
  ASSUME NEW rows \in Seq(Executions), NEW row \in Executions
  PROVE  /\ Total(Append(rows, row)) = Total(rows) + row.accounted
         /\ Total(rows) \in Nat /\ Total(<<>>) = 0
<1>. DEFINE more == Append(rows, row)
            k    == Len(rows) + 1
<1>1. /\ DOMAIN rows = 1..Len(rows) /\ Len(rows) \in Nat /\ more \in Seq(Executions)
      /\ DOMAIN more = 1..k /\ more[k] = row /\ \A i \in 1..Len(rows) : more[i] = rows[i]
  BY AppendProperties, LenProperties
<1>. HIDE DEF more
<1>2. DOMAIN more \ {k} = DOMAIN rows
  BY <1>1
<1>3. ChargedTo(more, DOMAIN more \ {k}) = Charged(rows)
  BY <1>1, <1>2 DEF ChargedTo, Charged
<1>4. Total(more) = Total(rows) + row.accounted
  BY <1>1, <1>3, TotalSplits DEF Total
<1>5. Total(rows) \in Nat
  BY ChargedFinite DEF Total
<1>6. Charged(<<>>) = {}
  BY DEF Charged
<1>. QED BY <1>4, <1>5, <1>6, FS_EmptySet DEF Total, more

\* Rows of the same number.
LEMMA SameNumber ==
  ASSUME NEW rows \in Seq(Executions), NEW other \in [DOMAIN rows -> Executions]
  PROVE  other \in Seq(Executions) /\ Len(other) = Len(rows) /\ DOMAIN other = DOMAIN rows
<1>1. DOMAIN rows = 1..Len(rows) /\ Len(rows) \in Nat
  BY LenProperties
<1>2. other \in Seq(Executions)
  BY <1>1, SeqDef
<1>. QED BY <1>1, <1>2, LenProperties

\* A transaction that changes no quota.
LEMMA BooksStep ==
  ASSUME NEW g, NEW bytes, LogsInv(g, bytes),
         NEW h \in [session : {"none", "ACTIVE", "CLOSED"},
                    runtime : {"none", "READY", "BUSY", "LOST", "STOPPED"},
                    current : 0..Len(g.rows), owned : BOOLEAN, used : {g.used},
                    rows : [DOMAIN g.rows -> Executions]],
         \A k \in DOMAIN g.rows :
           /\ RowKept(h.rows[k], bytes[k]) /\ h.rows[k].accounted = g.rows[k].accounted
           /\ Writable(g.rows[k]) => Writable(h.rows[k])
  PROVE  Books(g, h, bytes)
<1>1. g.rows \in Seq(Executions) /\ g.used \in 0..SessionMax
  BY DEF LogsInv, Registry
<1>2. h.rows \in Seq(Executions) /\ Len(h.rows) = Len(g.rows) /\ DOMAIN h.rows = DOMAIN g.rows
  BY <1>1, SameNumber
<1>3. Total(h.rows) = Total(g.rows)
  BY <1>2, TotalSame
<1>4. h \in Registry(Len(h.rows))
  BY <1>1, <1>2 DEF Registry
<1>. QED BY <1>2, <1>3, <1>4 DEF Books, LogsInv

\* Rows marked as lost in a hurry keep what is reserved for them.
LEMMA LostRowsKept ==
  ASSUME NEW g, NEW bytes, LogsInv(g, bytes), NEW which
  PROVE  /\ LostRows(g, which) \in [DOMAIN g.rows -> Executions]
         /\ \A k \in DOMAIN g.rows :
              /\ RowKept(LostRows(g, which)[k], bytes[k])
              /\ LostRows(g, which)[k].accounted = g.rows[k].accounted
              /\ Writable(g.rows[k]) => Writable(LostRows(g, which)[k])
<1>. DEFINE rows == LostRows(g, which)
<1>1. ASSUME NEW k \in DOMAIN g.rows
      PROVE  /\ rows[k] \in Executions /\ RowKept(rows[k], bytes[k])
             /\ rows[k].accounted = g.rows[k].accounted
             /\ Writable(g.rows[k]) => Writable(rows[k])
  <2>. DEFINE row == g.rows[k]
              lost == [row EXCEPT !.state = "LOST", !.complete = FALSE, !.written = Null]
  <2>1. RowKept(row, bytes[k]) /\ row \in Executions
    BY DEF LogsInv, RowKept
  <2>2. CASE k \in which /\ row.state \in Active
    <3>1. rows[k] = lost
      BY <2>2 DEF LostRows
    <3>2. row.accounted = row.reserved
      BY <2>1, <2>2 DEF RowKept
    <3>. HIDE DEF row
    <3>3. Null \in 0..Null
      BY LogsAssumption DEF Null
    <3>4. lost.reserved = row.reserved /\ lost.accounted = row.accounted /\ lost.state = "LOST"
          /\ lost.complete = FALSE /\ lost.written = Null /\ lost \in Executions
      BY <2>1, <3>3 DEF Executions, Active
    <3>. HIDE DEF lost
    <3>5. RowKept(lost, bytes[k])
      BY <2>1, <3>2, <3>4 DEF RowKept, Active
    <3>. QED BY <3>1, <3>4, <3>5 DEF Writable, row
  <2>3. CASE ~(k \in which /\ row.state \in Active)
    <3>1. rows[k] = row
      BY <2>3 DEF LostRows
    <3>. QED BY <2>1, <3>1
  <2>. QED BY <2>2, <2>3
<1>2. DOMAIN rows = DOMAIN g.rows /\ rows = [k \in DOMAIN g.rows |-> rows[k]]
  BY DEF LostRows
<1>. QED BY <1>1, <1>2

\* mark_runtime_lost, close_workspace_session, reconciliation, forgetting the process ids and
\* publishing a session keep the books.
LEMMA BooksKept ==
  ASSUME NEW g, NEW bytes, LogsInv(g, bytes)
  PROVE  /\ Books(g, RuntimeLost(g), bytes)
         /\ \A terminated \in BOOLEAN : Books(g, Closed(g, terminated), bytes)
         /\ Books(g, Reconciled(g), bytes) /\ Books(g, Disowned(g), bytes)
         /\ Books(g, Published(g), bytes)
<1>1. g \in Registry(Len(g.rows)) /\ Len(g.rows) \in Nat /\ 0 \in 0..Len(g.rows)
  BY DEF LogsInv, Registry
<1>2. \A k \in DOMAIN g.rows : RowKept(g.rows[k], bytes[k])
  BY DEF LogsInv
<1>3. g.rows \in [DOMAIN g.rows -> Executions]
  BY <1>1, LenProperties DEF Registry
<1>4. Books(g, g, bytes)
  BY DEF Books
<1>5. ASSUME NEW which, NEW h \in [session : {"none", "ACTIVE", "CLOSED"},
                                   runtime : {"none", "READY", "BUSY", "LOST", "STOPPED"},
                                   current : 0..Len(g.rows), owned : BOOLEAN, used : {g.used},
                                   rows : {g.rows, LostRows(g, which)}]
      PROVE  Books(g, h, bytes)
  <2>1. h.rows \in [DOMAIN g.rows -> Executions]
    BY <1>3, LostRowsKept
  <2>2. \A k \in DOMAIN g.rows :
          /\ RowKept(h.rows[k], bytes[k]) /\ h.rows[k].accounted = g.rows[k].accounted
          /\ Writable(g.rows[k]) => Writable(h.rows[k])
    BY <1>2, LostRowsKept
  <2>3. h \in [session : {"none", "ACTIVE", "CLOSED"},
               runtime : {"none", "READY", "BUSY", "LOST", "STOPPED"},
               current : 0..Len(g.rows), owned : BOOLEAN, used : {g.used},
               rows : [DOMAIN g.rows -> Executions]]
    BY <2>1
  <2>. QED BY <2>2, <2>3, BooksStep
<1>6. Books(g, RuntimeLost(g), bytes)
  <2>1. CASE g.runtime \in {"LOST", "STOPPED"}
    BY <1>4, <2>1 DEF RuntimeLost
  <2>2. CASE g.runtime \notin {"LOST", "STOPPED"}
    <3>. DEFINE rows == LostRows(g, {g.current})
                h == [g EXCEPT !.rows = rows, !.runtime = "LOST", !.current = 0]
    <3>. HIDE DEF rows
    <3>1. h \in [session : {"none", "ACTIVE", "CLOSED"},
                 runtime : {"none", "READY", "BUSY", "LOST", "STOPPED"},
                 current : 0..Len(g.rows), owned : BOOLEAN, used : {g.used},
                 rows : {g.rows, rows}]
      BY <1>1 DEF Registry
    <3>. HIDE DEF h
    <3>2. Books(g, h, bytes)
      BY <3>1, <1>5 DEF rows
    <3>. QED BY <2>2, <3>2 DEF RuntimeLost, h, rows
  <2>. QED BY <2>1, <2>2
<1>7. ASSUME NEW terminated \in BOOLEAN PROVE Books(g, Closed(g, terminated), bytes)
  <2>1. CASE g.session = "CLOSED"
    BY <1>4, <2>1 DEF Closed
  <2>2. CASE g.session # "CLOSED"
    <3>. DEFINE rows == LostRows(g, {g.current})
                owned == g.owned /\ ~terminated
                h == [g EXCEPT !.rows = rows, !.session = "CLOSED", !.runtime = "STOPPED",
                               !.current = 0, !.owned = owned]
    <3>0. owned \in BOOLEAN
      OBVIOUS
    <3>. HIDE DEF rows, owned
    <3>1. h \in [session : {"none", "ACTIVE", "CLOSED"},
                 runtime : {"none", "READY", "BUSY", "LOST", "STOPPED"},
                 current : 0..Len(g.rows), owned : BOOLEAN, used : {g.used},
                 rows : {g.rows, rows}]
      BY <1>1, <3>0 DEF Registry
    <3>. HIDE DEF h
    <3>2. Books(g, h, bytes)
      BY <3>1, <1>5 DEF rows
    <3>. QED BY <2>2, <3>2 DEF Closed, h, rows, owned
  <2>. QED BY <2>1, <2>2
<1>8. Books(g, Reconciled(g), bytes)
  <2>. DEFINE rows == LostRows(g, DOMAIN g.rows)
              runtime == IF g.runtime \in {"READY", "BUSY"} THEN "LOST" ELSE g.runtime
              current == IF g.runtime \in {"READY", "BUSY"} THEN 0 ELSE g.current
              h == [g EXCEPT !.rows = rows, !.runtime = runtime, !.current = current]
  <2>1. runtime \in {"none", "READY", "BUSY", "LOST", "STOPPED"} /\ current \in 0..Len(g.rows)
    BY <1>1 DEF Registry
  <2>. HIDE DEF rows, runtime, current
  <2>2. h \in [session : {"none", "ACTIVE", "CLOSED"},
               runtime : {"none", "READY", "BUSY", "LOST", "STOPPED"},
               current : 0..Len(g.rows), owned : BOOLEAN, used : {g.used},
               rows : {g.rows, rows}]
    BY <1>1, <2>1 DEF Registry
  <2>. HIDE DEF h
  <2>3. Books(g, h, bytes)
    BY <2>2, <1>5 DEF rows
  <2>4. Reconciled(g) = h
    BY DEF Reconciled, h, rows, runtime, current
  <2>. QED BY <2>3, <2>4
<1>9. Books(g, Disowned(g), bytes)
  <2>. DEFINE h == Disowned(g)
  <2>1. h \in [session : {"none", "ACTIVE", "CLOSED"},
               runtime : {"none", "READY", "BUSY", "LOST", "STOPPED"},
               current : 0..Len(g.rows), owned : BOOLEAN, used : {g.used},
               rows : {g.rows, LostRows(g, {})}]
    BY <1>1 DEF Disowned, Registry
  <2>. HIDE DEF h
  <2>2. Books(g, h, bytes)
    BY <2>1, <1>5
  <2>. QED BY <2>2 DEF h
<1>10. Books(g, Published(g), bytes)
  <2>. DEFINE h == Published(g)
  <2>1. h \in [session : {"none", "ACTIVE", "CLOSED"},
               runtime : {"none", "READY", "BUSY", "LOST", "STOPPED"},
               current : 0..Len(g.rows), owned : BOOLEAN, used : {g.used},
               rows : {g.rows, LostRows(g, {})}]
    BY <1>1 DEF Published, Registry
  <2>. HIDE DEF h
  <2>2. Books(g, h, bytes)
    BY <2>1, <1>5
  <2>. QED BY <2>2 DEF h
<1>. QED BY <1>6, <1>7, <1>8, <1>9, <1>10

\* Sealing accounts for nothing new: what is sealed was never given back.
LEMMA SealedKept ==
  ASSUME NEW g, LogsInv(g, log)
  PROVE  Books(g, Sealed(g), log)
<1>. DEFINE sealed(k) == [g.rows[k] EXCEPT !.written = Found(g, k),
                                          !.accounted = g.rows[k].reserved]
            rows == [k \in DOMAIN g.rows |-> IF k \in Unsealed(g) THEN sealed(k) ELSE g.rows[k]]
            h == Sealed(g)
<1>1. /\ g \in Registry(Len(g.rows)) /\ Len(g.rows) \in Nat
      /\ \A k \in DOMAIN g.rows : RowKept(g.rows[k], log[k]) /\ g.rows[k] \in Executions
      /\ g.rows \in Seq(Executions)
  BY DEF LogsInv, RowKept, Registry
<1>2. ASSUME NEW k \in DOMAIN g.rows
      PROVE  /\ rows[k] \in Executions /\ RowKept(rows[k], log[k])
             /\ rows[k].accounted = g.rows[k].accounted
             /\ Writable(g.rows[k]) => Writable(rows[k])
  <2>1. CASE k \notin Unsealed(g)
    BY <1>1, <2>1
  <2>2. CASE k \in Unsealed(g)
    <3>. DEFINE row == g.rows[k]
    <3>1. /\ row \in Executions /\ row.state = "LOST" /\ row.written = Null
          /\ row.accounted = row.reserved /\ log[k] \in 0..row.reserved
          /\ ~row.complete
      <4>1. row \in Executions /\ row.state = "LOST" /\ row.written = Null
        BY <1>1, <2>2 DEF Unsealed
      <4>2. row.reserved \in Nat /\ row.accounted \in Nat /\ Null \in Nat /\ row.reserved < Null
        BY <4>1, LogsAssumption DEF Executions, Null
      <4>3. RowKept(row, log[k])
        BY <1>1
      <4>. HIDE DEF row
      <4>4. row.accounted = row.reserved /\ log[k] \in 0..row.reserved
        BY <4>1, <4>3 DEF RowKept
      <4>5. row.complete => log[k] = Null
        BY <4>1, <4>3 DEF RowKept
      <4>. QED BY <4>1, <4>2, <4>4, <4>5
    <3>2. Found(g, k) = log[k]
      <4>1. log[k] \in 0..g.rows[k].reserved /\ g.rows[k].reserved \in Nat
        BY <1>1, <3>1, LogsAssumption DEF Executions
      <4>. QED BY <4>1 DEF Found
    <3>3. rows[k] = [row EXCEPT !.written = log[k], !.accounted = row.reserved]
      BY <2>2, <3>2
    <3>4. log[k] \in 0..Null /\ row.reserved \in 0..ExecutionMax
      BY <3>1, LogsAssumption DEF Executions, Null
    <3>. HIDE DEF row, rows
    <3>5. /\ rows[k] \in Executions /\ rows[k].written = log[k]
          /\ rows[k].accounted = row.reserved /\ rows[k].reserved = row.reserved
          /\ rows[k].state = row.state /\ rows[k].complete = row.complete
      BY <3>1, <3>3, <3>4 DEF Executions
    <3>6. RowKept(rows[k], log[k])
      BY <3>1, <3>4, <3>5 DEF RowKept, Active
    <3>. QED BY <3>1, <3>5, <3>6 DEF Writable, row
  <2>. QED BY <2>1, <2>2
<1>3. rows \in [DOMAIN g.rows -> Executions] /\ DOMAIN rows = DOMAIN g.rows
  BY <1>2
<1>. HIDE DEF rows
<1>4. Total(rows) = Total(g.rows)
  BY <1>2, <1>3, TotalSame
<1>5. Total(g.rows) \in Nat /\ g.used = Total(g.rows)
  BY <1>1, ChargedFinite DEF Total, LogsInv
<1>6. h = [g EXCEPT !.rows = rows, !.used = g.used - Total(g.rows) + Total(rows)]
  BY DEF Sealed, rows
<1>7. h = [g EXCEPT !.rows = rows, !.used = g.used]
  <2>1. g.used - Total(g.rows) + Total(rows) = g.used
    BY <1>4, <1>5
  <2>. QED BY <1>6, <2>1
<1>. HIDE DEF h
<1>8. /\ h.rows = rows
      /\ h \in [session : {"none", "ACTIVE", "CLOSED"},
                runtime : {"none", "READY", "BUSY", "LOST", "STOPPED"},
                current : 0..Len(g.rows), owned : BOOLEAN, used : {g.used},
                rows : [DOMAIN g.rows -> Executions]]
  BY <1>1, <1>3, <1>7 DEF Registry
<1>9. Books(g, h, log)
  BY <1>2, <1>8, BooksStep
<1>. QED BY <1>9 DEF h

\* A queued execution is marked as running.
LEMMA MarkedKept ==
  ASSUME NEW g, NEW bytes, LogsInv(g, bytes), NEW k \in DOMAIN g.rows,
         g.rows[k].state = "QUEUED"
  PROVE  Books(g, MarkedRunning(g, k), bytes)
<1>. DEFINE rows == [g.rows EXCEPT ![k] = [g.rows[k] EXCEPT !.state = "RUNNING"]]
            h == MarkedRunning(g, k)
<1>1. /\ g \in Registry(Len(g.rows))
      /\ \A i \in DOMAIN g.rows : RowKept(g.rows[i], bytes[i]) /\ g.rows[i] \in Executions
      /\ g.rows \in Seq(Executions)
  BY DEF LogsInv, RowKept, Registry
<1>2. ASSUME NEW i \in DOMAIN g.rows
      PROVE  /\ rows[i] \in Executions /\ RowKept(rows[i], bytes[i])
             /\ rows[i].accounted = g.rows[i].accounted
             /\ Writable(g.rows[i]) => Writable(rows[i])
  <2>1. CASE i # k
    BY <1>1, <2>1
  <2>2. CASE i = k
    <3>1. rows[k] = [g.rows[k] EXCEPT !.state = "RUNNING"]
      OBVIOUS
    <3>. HIDE DEF rows
    <3>2. /\ rows[k] \in Executions /\ rows[k].written = g.rows[k].written
          /\ rows[k].accounted = g.rows[k].accounted /\ rows[k].reserved = g.rows[k].reserved
          /\ rows[k].state = "RUNNING" /\ rows[k].complete = g.rows[k].complete
      BY <1>1, <3>1 DEF Executions, Active
    <3>3. RowKept(rows[k], bytes[k])
      BY <1>1, <3>2 DEF RowKept, Active
    <3>. QED BY <2>2, <3>2, <3>3 DEF Writable
  <2>. QED BY <2>1, <2>2
<1>3. rows \in [DOMAIN g.rows -> Executions]
  BY <1>2
<1>4. h = [g EXCEPT !.rows = rows, !.runtime = "BUSY"]
  BY <1>1 DEF MarkedRunning, Registry
<1>. HIDE DEF h, rows
<1>5. /\ h.rows = rows
      /\ h \in [session : {"none", "ACTIVE", "CLOSED"},
                runtime : {"none", "READY", "BUSY", "LOST", "STOPPED"},
                current : 0..Len(g.rows), owned : BOOLEAN, used : {g.used},
                rows : [DOMAIN g.rows -> Executions]]
  BY <1>1, <1>3, <1>4 DEF Registry
<1>6. Books(g, h, bytes)
  BY <1>2, <1>5, BooksStep
<1>. QED BY <1>6 DEF h

\* Every byte of a log is found, since no more than the reservation was written.
LEMMA FoundAll ==
  ASSUME NEW g, LogsInv(g, log), NEW k \in DOMAIN g.rows
  PROVE  Found(g, k) = log[k]
<1>1. RowKept(g.rows[k], log[k])
  BY DEF LogsInv
<1>2. log[k] \in 0..g.rows[k].reserved /\ g.rows[k].reserved \in Nat
  BY <1>1, LogsAssumption DEF RowKept, Executions
<1>. QED BY <1>2 DEF Found

SameRows(g, h) == Len(h.rows) = Len(g.rows)

\* An execution that ends gives back what it did not write if it is known what it wrote; with
\* the full reservation accounted, its log may still have a writer.
LEMMA CompletedKept ==
  ASSUME NEW g, NEW bytes, LogsInv(g, bytes), NEW k \in DOMAIN g.rows, NEW state \in Outcomes,
         NEW written, NEW complete, NEW full, complete \in BOOLEAN, full \in BOOLEAN,
         \/ written = bytes[k] /\ full = FALSE
         \/ written \in {bytes[k], Null} /\ full = TRUE /\ complete = FALSE,
         NEW h, h = Completed(g, k, state, written, complete, full)
  PROVE  /\ LogsInv(h, bytes) /\ SameRows(g, h)
         /\ \A i \in DOMAIN g.rows :
              i # k \/ full = TRUE => (Writable(g.rows[i]) => Writable(h.rows[i]))
<1>. DEFINE row == g.rows[k]
<1>1. /\ g \in Registry(Len(g.rows)) /\ g.used = Total(g.rows) /\ g.used \in 0..SessionMax
      /\ \A i \in DOMAIN g.rows : RowKept(g.rows[i], bytes[i]) /\ g.rows[i] \in Executions
      /\ g.rows \in Seq(Executions) /\ 0 \in 0..Len(g.rows)
  BY DEF LogsInv, RowKept, Registry
<1>2. CASE row.state \notin Active
  BY <1>2 DEF Completed, SameRows
<1>3. CASE row.state \in Active
  <2>. DEFINE accounted == IF full \/ written = Null \/ written > row.reserved
                           THEN row.reserved ELSE written
              new == [row EXCEPT !.state = state, !.written = written, !.complete = complete,
                                 !.accounted = accounted]
              rows == [g.rows EXCEPT ![k] = new]
              runtime == IF state = "DONE" THEN "READY" ELSE "LOST"
              used == g.used - row.accounted + accounted
  <2>1. /\ row.reserved \in Nat /\ row.reserved \in 0..ExecutionMax /\ row.reserved < Null
        /\ bytes[k] \in 0..row.reserved /\ row.accounted = row.reserved /\ Null \in Nat
        /\ row \in Executions
    BY SMTT(30), <1>1, <1>3, LogsAssumption DEF RowKept, Executions, Null
  <2>2. /\ accounted \in 0..row.reserved /\ bytes[k] <= accounted
        /\ full \/ written = Null => accounted = row.reserved
    BY <2>1
  <2>3. written \in 0..Null /\ accounted \in 0..ExecutionMax
    <3>1. written \in 0..Null
      BY <2>1
    <3>2. accounted \in 0..ExecutionMax
      <4>. HIDE DEF accounted
      <4>. QED BY <2>1, <2>2, LogsAssumption
    <3>. QED BY <3>1, <3>2
  <2>4. h = [g EXCEPT !.rows = rows, !.used = used, !.runtime = runtime, !.current = 0]
    BY <1>1, <1>3 DEF Completed, Registry
  <2>5. runtime \in {"READY", "LOST"}
    OBVIOUS
  <2>. HIDE DEF accounted, row, runtime
  <2>6. /\ new \in Executions /\ new.written = written /\ new.accounted = accounted
        /\ new.reserved = row.reserved /\ new.state = state /\ new.complete = complete
    BY <2>1, <2>3 DEF Executions, Outcomes
  <2>7. RowKept(new, bytes[k]) /\ (full => Writable(new))
    <3>. HIDE DEF new
    <3>1. bytes[k] \in 0..accounted /\ accounted <= row.reserved
      BY <2>1, <2>2
    <3>2. written # Null => written <= bytes[k]
      BY <2>1
    <3>3. complete => written = bytes[k]
      OBVIOUS
    <3>4. state \notin Active
      BY DEF Active, Outcomes
    <3>. QED BY <2>2, <2>6, <3>1, <3>2, <3>3, <3>4 DEF RowKept, Writable, Active
  <2>. HIDE DEF new
  <2>8. /\ rows \in [DOMAIN g.rows -> Executions] /\ rows[k] = new
        /\ \A i \in DOMAIN g.rows : i # k => rows[i] = g.rows[i]
    BY <1>1, <2>6
  <2>. HIDE DEF rows
  <2>9. rows \in Seq(Executions) /\ Len(rows) = Len(g.rows) /\ DOMAIN rows = DOMAIN g.rows
    BY <1>1, <2>8, SameNumber
  <2>10. used = Total(rows) /\ used \in 0..SessionMax
    <3>1. Total(rows) = Total(g.rows) - g.rows[k].accounted + rows[k].accounted
      BY <1>1, <2>8, <2>9, TotalUpdate
    <3>2. Total(rows) \in Nat
      BY <2>9, ChargedFinite DEF Total
    <3>3. used = Total(rows)
      BY <1>1, <2>6, <2>8, <3>1 DEF row
    <3>4. row.accounted \in Nat /\ accounted <= row.accounted /\ accounted \in Nat
      BY <2>1, <2>2
    <3>5. used <= g.used
      BY <1>1, <3>4
    <3>. HIDE DEF used
    <3>. QED BY <1>1, <3>2, <3>3, <3>5, LogsAssumption
  <2>. HIDE DEF used
  <2>11. h \in Registry(Len(g.rows)) /\ h.rows = rows /\ h.used = used
    BY <1>1, <2>4, <2>5, <2>9, <2>10 DEF Registry
  <2>12. \A i \in DOMAIN rows : RowKept(rows[i], bytes[i])
    BY <1>1, <2>7, <2>8, <2>9
  <2>13. LogsInv(h, bytes)
    BY <2>9, <2>10, <2>11, <2>12 DEF LogsInv
  <2>14. \A i \in DOMAIN g.rows :
          i # k \/ full = TRUE => (Writable(g.rows[i]) => Writable(h.rows[i]))
    BY <2>7, <2>8, <2>11
  <2>. QED BY <2>9, <2>11, <2>13, <2>14 DEF SameRows
<1>. QED BY <1>2, <1>3

\* An execution that is admitted reserves no more than is left of the quota.
LEMMA BegunKept ==
  ASSUME LogsInv(reg, log), NEW r \in Requests, Remaining > 0
  PROVE  LET h == Begun(reg, r)
         IN  /\ LogsInv(h, Append(log, 0)) /\ Len(h.rows) = Len(reg.rows) + 1
             /\ DOMAIN reg.rows = 1..Len(reg.rows)
             /\ \A i \in DOMAIN reg.rows : h.rows[i] = reg.rows[i]
<1>. DEFINE h == Begun(reg, r)
            n == Len(reg.rows)
            reserve == IF ExecutionMax < Remaining THEN ExecutionMax ELSE Remaining
            row == [req |-> r, state |-> "QUEUED", reserved |-> reserve, accounted |-> reserve,
                    written |-> Null, complete |-> FALSE]
            rows == Append(reg.rows, row)
            bytes == Append(log, 0)
<1>1. /\ reg \in Registry(n) /\ reg.used = Total(reg.rows) /\ reg.used \in 0..SessionMax
      /\ \A i \in DOMAIN reg.rows : RowKept(reg.rows[i], log[i])
      /\ reg.rows \in Seq(Executions) /\ n \in Nat /\ DOMAIN reg.rows = 1..n
      /\ log \in Seq(0..ExecutionMax) /\ Len(log) = n
  BY LenProperties DEF LogsInv, Registry
<1>2. reserve \in 1..ExecutionMax /\ reserve <= Remaining /\ Remaining = SessionMax - reg.used
  BY <1>1, LogsAssumption DEF Remaining
<1>. HIDE DEF reserve
<1>3. /\ row \in Executions /\ row.accounted = reserve /\ row.reserved = reserve
      /\ row.written = Null /\ row.complete = FALSE /\ row.state = "QUEUED"
  BY <1>2, LogsAssumption DEF Executions, Active, Null
<1>4. h = [reg EXCEPT !.rows = rows, !.used = reg.used + reserve, !.current = n + 1]
  BY <1>1 DEF Begun, reserve, Registry
<1>. HIDE DEF row, h
<1>5. /\ rows \in Seq(Executions) /\ Len(rows) = n + 1 /\ DOMAIN rows = 1..n + 1
      /\ rows[n + 1] = row /\ \A i \in 1..n : rows[i] = reg.rows[i]
  BY <1>1, <1>3, AppendProperties, LenProperties
<1>6. 0 \in 0..ExecutionMax
  BY LogsAssumption
<1>7. /\ bytes \in Seq(0..ExecutionMax) /\ Len(bytes) = n + 1
      /\ bytes[n + 1] = 0 /\ \A i \in 1..n : bytes[i] = log[i]
  <2>. DEFINE S == 0..ExecutionMax
  <2>. HIDE DEF S
  <2>1. log \in Seq(S) /\ 0 \in S
    BY <1>1, <1>6 DEF S
  <2>2. /\ bytes \in Seq(S) /\ Len(bytes) = Len(log) + 1 /\ bytes[Len(log) + 1] = 0
        /\ \A i \in 1..Len(log) : bytes[i] = log[i]
    BY <2>1, AppendProperties
  <2>. QED BY <1>1, <2>2 DEF S
<1>8. Total(rows) = reg.used + reserve
  BY <1>1, <1>3, TotalGrows
<1>. HIDE DEF rows, bytes
<1>9. RowKept(row, 0)
  BY <1>2, <1>3, LogsAssumption DEF RowKept, Active
<1>10. \A i \in DOMAIN rows : RowKept(rows[i], bytes[i])
  BY <1>1, <1>5, <1>7, <1>9
<1>11. reg.used + reserve \in 0..SessionMax /\ n + 1 \in 0..n + 1
  BY <1>1, <1>2, LogsAssumption
<1>12. h.rows = rows /\ h.used = reg.used + reserve /\ h \in Registry(n + 1)
  BY <1>1, <1>4, <1>5, <1>11 DEF Registry
<1>13. LogsInv(h, bytes)
  BY <1>5, <1>7, <1>8, <1>10, <1>12 DEF LogsInv
<1>. QED BY <1>1, <1>5, <1>12, <1>13 DEF h, bytes

\* The writer adds to a log as long as there is something left of the reservation.
LEMMA WrittenKept ==
  ASSUME LogsInv(reg, log), NEW k \in DOMAIN reg.rows, Writable(reg.rows[k]),
         reg.rows[k].state # "QUEUED", log[k] < reg.rows[k].reserved
  PROVE  LogsInv(reg, [log EXCEPT ![k] = @ + 1])
<1>. DEFINE bytes == [log EXCEPT ![k] = @ + 1]
<1>1. /\ reg.rows[k] \in Executions /\ RowKept(reg.rows[k], log[k])
      /\ log \in Seq(0..ExecutionMax) /\ DOMAIN log = DOMAIN reg.rows
      /\ reg.rows[k].reserved \in 0..ExecutionMax /\ log[k] \in Nat
  <2>1. RowKept(reg.rows[k], log[k]) /\ reg.rows[k] \in Executions
    BY DEF LogsInv, RowKept
  <2>2. log \in Seq(0..ExecutionMax) /\ Len(log) = Len(reg.rows) /\ reg.rows \in Seq(Executions)
    BY DEF LogsInv, Registry
  <2>3. DOMAIN log = DOMAIN reg.rows
    BY <2>2, LenProperties
  <2>. QED BY <2>1, <2>2, <2>3, LogsAssumption DEF Executions, RowKept
<1>2. bytes \in Seq(0..ExecutionMax) /\ Len(bytes) = Len(log)
  <2>1. log[k] + 1 \in 0..ExecutionMax
    BY <1>1, LogsAssumption
  <2>. QED BY <1>1, <2>1, ExceptSeq
<1>3. bytes[k] = log[k] + 1 /\ \A i \in DOMAIN log : i # k => bytes[i] = log[i]
  BY <1>1
<1>. HIDE DEF bytes
<1>4. RowKept(reg.rows[k], bytes[k])
  <2>. DEFINE row == reg.rows[k]
  <2>1. row.accounted = row.reserved /\ ~row.complete /\ row.reserved \in Nat
    BY <1>1 DEF Writable
  <2>2. row.written # Null => row.written <= log[k] /\ row.written \in Nat
    BY <1>1, LogsAssumption DEF RowKept, Executions, Null
  <2>3. bytes[k] \in 0..row.accounted /\ (row.written # Null => row.written <= bytes[k])
    BY <1>1, <1>3, <2>1, <2>2
  <2>. QED BY <1>1, <2>1, <2>3 DEF RowKept
<1>5. \A i \in DOMAIN reg.rows : RowKept(reg.rows[i], bytes[i])
  BY <1>1, <1>3, <1>4 DEF LogsInv
<1>6. LogsInv(reg, bytes)
  BY <1>2, <1>5 DEF LogsInv
<1>. QED BY <1>6 DEF bytes

\* What the invariant says of the registry is the type of its rows, and the quota.
LEMMA LogsImplied ==
  /\ LogsInit => LogsInv(reg, log)
  /\ LogsInv(reg, log) => LogsTypeOK /\ QuotaKept
<1>1. ASSUME LogsInit PROVE LogsInv(reg, log)
  <2>1. /\ reg.rows = <<>> /\ log = <<>> /\ reg.used = 0
        /\ reg = [session |-> "none", runtime |-> "none", current |-> 0, owned |-> FALSE,
                  used |-> 0, rows |-> <<>>]
    BY <1>1 DEF LogsInit
  <2>2. <<>> \in Seq(Executions) /\ <<>> \in Seq(0..ExecutionMax) /\ Len(<<>>) = 0
    OBVIOUS
  <2>3. Charged(<<>>) = {}
    BY DEF Charged
  <2>4. Total(reg.rows) = 0
    BY <2>1, <2>3, FS_EmptySet DEF Total
  <2>5. reg \in Registry(0)
    BY <2>1, <2>2, LogsAssumption DEF Registry
  <2>6. DOMAIN reg.rows = {}
    BY <2>1
  <2>. QED BY <2>1, <2>2, <2>4, <2>5, <2>6 DEF LogsInv
<1>2. ASSUME LogsInv(reg, log) PROVE LogsTypeOK /\ QuotaKept
  <2>1. reg \in Registry(Len(reg.rows)) /\ reg.used = Total(reg.rows)
        /\ log \in Seq(0..ExecutionMax) /\ Len(log) = Len(reg.rows)
        /\ \A k \in DOMAIN reg.rows : RowKept(reg.rows[k], log[k])
    BY <1>2 DEF LogsInv
  <2>2. LogsTypeOK
    BY <2>1 DEF LogsTypeOK, Registry
  <2>3. reg.used <= SessionMax
    BY <2>1, LogsAssumption DEF Registry
  <2>4. ASSUME NEW k \in DOMAIN reg.rows
        PROVE  /\ log[k] <= reg.rows[k].accounted
               /\ reg.rows[k].written # Null => reg.rows[k].written <= log[k]
               /\ reg.rows[k].complete => reg.rows[k].written = log[k]
    <3>1. RowKept(reg.rows[k], log[k])
      BY <2>1
    <3>. QED BY <3>1, LogsAssumption DEF RowKept, Executions
  <2>. QED BY <2>1, <2>2, <2>3, <2>4 DEF QuotaKept
<1>. QED BY <1>1, <1>2

\* Of an execution whose log may still have a writer, and of one whose log was read.
LEMMA CompletedOpen ==
  ASSUME NEW g, NEW bytes, LogsInv(g, bytes), NEW k \in DOMAIN g.rows, NEW state \in Outcomes,
         NEW written \in {bytes[k], Null}, NEW h,
         h = Completed(g, k, state, written, FALSE, TRUE)
  PROVE  Books(g, h, bytes)
<1>1. ASSUME NEW no, no = FALSE, NEW yes, yes = TRUE,
             h = Completed(g, k, state, written, no, yes)
      PROVE  Books(g, h, bytes)
  <2>1. no \in BOOLEAN /\ yes \in BOOLEAN
    BY <1>1
  <2>2. LogsInv(h, bytes)
    BY <1>1, <2>1, CompletedKept, Zenon
  <2>3. SameRows(g, h)
    BY <1>1, <2>1, CompletedKept, Zenon
  <2>4. \A i \in DOMAIN g.rows : Writable(g.rows[i]) => Writable(h.rows[i])
    BY <1>1, <2>1, CompletedKept, Zenon
  <2>. QED BY <2>2, <2>3, <2>4 DEF Books, SameRows
<1>. QED BY <1>1, Zenon

LEMMA CompletedRead ==
  ASSUME NEW g, NEW bytes, LogsInv(g, bytes), NEW k \in DOMAIN g.rows, NEW state \in Outcomes,
         NEW complete \in BOOLEAN, NEW h, h = Completed(g, k, state, bytes[k], complete, FALSE)
  PROVE  LogsInv(h, bytes) /\ SameRows(g, h)
<1>1. ASSUME NEW b, b \in BOOLEAN, NEW no, no = FALSE,
             h = Completed(g, k, state, bytes[k], b, no)
      PROVE  LogsInv(h, bytes) /\ SameRows(g, h)
  <2>1. no \in BOOLEAN
    BY <1>1
  <2>2. LogsInv(h, bytes)
    BY <1>1, <2>1, CompletedKept, Zenon
  <2>3. SameRows(g, h)
    BY <1>1, <2>1, CompletedKept, Zenon
  <2>. QED BY <2>2, <2>3
<1>. QED BY <1>1, Zenon
=============================================================================
