--------------------------- MODULE ExecutionLogs ---------------------------
(***************************************************************************)
(* The executions of one workspace session and the bytes of their logs:    *)
(* registry_execution.py, with what registry_lifecycle.py does to them,    *)
(* and partial_log.py. An operator on a registry is what one SQLite        *)
(* transaction makes of it.                                                *)
(*                                                                         *)
(* InteractiveRegistry has the same rows without request ids and bytes.    *)
(* release_execution_log_quota has no caller and is left out, as are       *)
(* events, times and previews.                                             *)
(***************************************************************************)
EXTENDS Naturals, Sequences, FiniteSets

CONSTANTS
  Requests,      \* request ids; the code and the time-out sent with one do not change
  SessionMax,    \* session_log_max_bytes
  ExecutionMax,  \* execution_log_max_bytes
  PageLimit      \* the limit a reader of the history asks for

ASSUME LogsAssumption ==
  /\ SessionMax \in Nat /\ ExecutionMax \in 1..SessionMax  \* _validate_limits
  /\ PageLimit \in Nat \ {0}

VARIABLES
  reg,  \* the rows of the session, of its runtime and of its executions
  log   \* bytes on disk, by execution

Null == ExecutionMax + 1  \* NULL in a column of bytes

Active == {"QUEUED", "RUNNING"}

Executions == [
  req       : Requests,
  state     : Active \cup {"DONE", "TIMED_OUT", "LOST"},  \* DONE: SUCCEEDED or FAILED
  reserved  : 1..ExecutionMax,       \* CHECK (log_quota_reserved_bytes > 0)
  accounted : 0..ExecutionMax,
  written   : 0..Null,
  complete  : BOOLEAN]               \* full_log_complete = 1

\* The bytes that executions account for, and their number: what the column adds up to.
Charged(rows) == {b \in (DOMAIN rows) \X (1..ExecutionMax) : b[2] <= rows[b[1]].accounted}
Total(rows)   == Cardinality(Charged(rows))

LogsInit ==
  /\ reg = [session |-> "none", runtime |-> "none", current |-> 0, owned |-> FALSE,
            used |-> 0, rows |-> <<>>]
  /\ log = <<>>

-----------------------------------------------------------------------------
Published(g) == [g EXCEPT !.session = "ACTIVE", !.runtime = "READY", !.owned = TRUE]

\* Mutant: a request that left no whole log is carried out again when it is sent again.
NotIncomplete(r) ==
  {k \in DOMAIN reg.rows : reg.rows[k].req = r /\ (reg.rows[k].state = "DONE" => reg.rows[k].complete)}

\* get_execution_by_request: UNIQUE (workspace_session_id, request_id).
Existing(r) == {k \in DOMAIN reg.rows : reg.rows[k].req = r}

Remaining == SessionMax - reg.used

\* Mutant: the quota is not looked at, only cut.
AdmitsBeyond == reg.session = "ACTIVE" /\ reg.runtime = "READY" /\ reg.current = 0

\* begin_execution refuses a closed session, a runtime that is lost, stopped or busy, and
\* a session without quota.
Admits == reg.session = "ACTIVE" /\ reg.runtime = "READY" /\ reg.current = 0 /\ Remaining > 0

Begun(g, r) ==
  LET reserve == IF ExecutionMax < Remaining THEN ExecutionMax ELSE Remaining
      row == [req |-> r, state |-> "QUEUED", reserved |-> reserve, accounted |-> reserve,
              written |-> Null, complete |-> FALSE]
  IN  [g EXCEPT !.rows = Append(@, row), !.used = @ + reserve, !.current = Len(g.rows) + 1]

MayRun(k) == reg.rows[k].state = "QUEUED" /\ reg.current = k /\ reg.runtime = "READY"

MarkedRunning(g, k) == [g EXCEPT !.rows[k].state = "RUNNING", !.runtime = "BUSY"]

\* complete_execution: a terminal row stays. Unless the full reservation is to be
\* accounted, or nothing is known, the quota that was not written is given back.
Completed(g, k, state, written, complete, full) ==
  LET row == g.rows[k]
      accounted == IF full \/ written = Null \/ written > row.reserved
                   THEN row.reserved ELSE written
  IN  IF row.state \notin Active THEN g
      ELSE [g EXCEPT !.rows[k] = [row EXCEPT !.state = state, !.written = written,
                                             !.complete = complete, !.accounted = accounted],
                     !.used = @ - row.accounted + accounted,
                     !.runtime = IF state = "DONE" THEN "READY" ELSE "LOST", !.current = 0]

\* Rows marked as lost in a hurry: their logs stay open until their writer is gone.
LostRows(g, which) ==
  [k \in DOMAIN g.rows |->
    IF k \in which /\ g.rows[k].state \in Active
    THEN [g.rows[k] EXCEPT !.state = "LOST", !.complete = FALSE, !.written = Null]
    ELSE g.rows[k]]

RuntimeLost(g) ==
  IF g.runtime \in {"LOST", "STOPPED"} THEN g
  ELSE [g EXCEPT !.rows = LostRows(g, {g.current}), !.runtime = "LOST", !.current = 0]

Closed(g, terminated) ==
  IF g.session = "CLOSED" THEN g
  ELSE [g EXCEPT !.rows = LostRows(g, {g.current}), !.session = "CLOSED",
                 !.runtime = "STOPPED", !.current = 0, !.owned = @ /\ ~terminated]

Reconciled(g) ==
  [g EXCEPT !.rows = LostRows(g, DOMAIN g.rows),
            !.runtime = IF @ \in {"READY", "BUSY"} THEN "LOST" ELSE @,
            !.current = IF g.runtime \in {"READY", "BUSY"} THEN 0 ELSE @]

Disowned(g) == [g EXCEPT !.owned = FALSE]

-----------------------------------------------------------------------------
\* read_partial_log reads as many bytes as were reserved, and no more.
Found(g, k) == IF log[k] < g.rows[k].reserved THEN log[k] ELSE g.rows[k].reserved

\* list_unsealed_lost_executions. What timed out is never among them.
Unsealed(g) == {k \in DOMAIN g.rows : g.rows[k].state = "LOST" /\ g.rows[k].written = Null}

\* seal_lost_execution_log, for each of them: the whole reservation is accounted, and the
\* quota takes up the difference.
Sealed(g) ==
  LET rows == [k \in DOMAIN g.rows |->
                IF k \in Unsealed(g)
                THEN [g.rows[k] EXCEPT !.written = Found(g, k), !.accounted = g.rows[k].reserved]
                ELSE g.rows[k]]
  IN  [g EXCEPT !.rows = rows, !.used = @ - Total(g.rows) + Total(rows)]

\* list_safe_unsealed_lost_sessions
SafeToSeal(g) == Unsealed(g) # {} /\ g.runtime \in {"LOST", "STOPPED"} /\ ~g.owned

-----------------------------------------------------------------------------
(* history_page: executions by sequence, after that of the cursor *)

\* A page has one record at least, unless there is none: a row is admitted only if it fits
\* into a page by itself. It ends at the limit, or before a row that does not fit any more.
Pages(after) ==
  LET left == Len(reg.rows) - after
      most == IF left < PageLimit THEN left ELSE PageLimit
  IN  {[i \in 1..n |-> after + i] : n \in IF most = 0 THEN {0} ELSE 1..most}

HasMore(after, page) == after + Len(page) < Len(reg.rows)

NextCursor(after, page) == after + Len(page)

-----------------------------------------------------------------------------
LogsTypeOK ==
  /\ reg \in [session : {"none", "ACTIVE", "CLOSED"},
              runtime : {"none", "READY", "BUSY", "LOST", "STOPPED"},
              current : 0..Len(reg.rows), owned : BOOLEAN, used : 0..SessionMax,
              rows : Seq(Executions)]
  /\ log \in Seq(0..ExecutionMax) /\ Len(log) = Len(reg.rows)

\* The session's quota is what its executions account for, and covers every byte on disk,
\* those of a writer that nobody could kill too. What a client is told of a log was
\* written; a log that is called complete is, and nobody adds to it.
QuotaKept ==
  /\ reg.used = Total(reg.rows) /\ reg.used <= SessionMax
  /\ \A k \in DOMAIN reg.rows : LET row == reg.rows[k] IN
       /\ log[k] <= row.accounted
       /\ row.written # Null => row.written <= log[k]
       /\ row.complete => row.written = log[k]
=============================================================================
