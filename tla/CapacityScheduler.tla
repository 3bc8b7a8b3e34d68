------------------------- MODULE CapacityScheduler -------------------------
(***************************************************************************)
(* scheduler.py: permits for the runtimes of one tool. Every operation is  *)
(* one critical section of _cond. The code names leases by random ids; a   *)
(* session never asks for a second lease while its first is held, so that  *)
(* a lease is named by its session here.                                   *)
(***************************************************************************)
EXTENDS Naturals, FiniteSets

CONSTANTS
  SessionIds,       \* session ids
  Capacity   \* the tool's entry of _capacities

ASSUME SchedulerAssumption == Capacity \in Nat \ {0} /\ IsFiniteSet(SessionIds)

VARIABLES
  leases,          \* _leases: state of the lease of a session
  schedulerClosed  \* _closed

schedulerVars == <<leases, schedulerClosed>>

LeaseStates == {"none", "starting", "active", "quarantined"}
Leased(states) == {s \in SessionIds : leases[s] \in states}
Used == Cardinality(Leased(LeaseStates \ {"none"}))

SchedulerInit == leases = [s \in SessionIds |-> "none"] /\ schedulerClosed = FALSE

\* Mutant: one permit more than there is capacity.
AcquireOneMore(s) ==
  /\ ~schedulerClosed
  /\ Used <= Capacity
  /\ leases' = [leases EXCEPT ![s] = "starting"]
  /\ UNCHANGED schedulerClosed

\* acquire, once it need not wait; a waiting call ends with SchedulerClosed or a time-out.
Acquire(s) ==
  /\ ~schedulerClosed
  /\ Used < Capacity
  /\ leases' = [leases EXCEPT ![s] = "starting"]
  /\ UNCHANGED schedulerClosed

\* Mutant: a state that no reader of _leases knows.
MarkReadyAsReady(s) == leases' = [leases EXCEPT ![s] = "ready"] /\ UNCHANGED schedulerClosed

MarkReady(s) == leases' = [leases EXCEPT ![s] = "active"] /\ UNCHANGED schedulerClosed

\* reserve_existing does not look at the capacity.
ReserveExisting(s) ==
  /\ leases' = [leases EXCEPT ![s] = "quarantined"]
  /\ UNCHANGED schedulerClosed

Release(s) == leases' = [leases EXCEPT ![s] = "none"] /\ UNCHANGED schedulerClosed

CloseScheduler == schedulerClosed' = TRUE /\ UNCHANGED leases

\* A daemon that begins or ends has a scheduler of its own.
ResetScheduler == leases' = [s \in SessionIds |-> "none"] /\ schedulerClosed' = FALSE
=============================================================================
