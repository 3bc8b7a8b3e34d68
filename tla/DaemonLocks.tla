---------------------------- MODULE DaemonLocks ----------------------------
(***************************************************************************)
(* Which daemon owns the managed directories: the lock groups of           *)
(* registry_storage.py and daemon_lock.py.                                 *)
(*                                                                         *)
(* A daemon takes an flock on every directory from the top down to its     *)
(* roots: shared on the way, exclusive on a root, so that roots overlap if *)
(* and only if their locks do. Nobody waits: a lock that is taken refuses  *)
(* the daemon, which gives its locks back one by one. The kernel drops the *)
(* locks of a process that dies; workers do not inherit them.              *)
(***************************************************************************)
EXTENDS Naturals

CONSTANTS
  Daemons,  \* daemon processes of one user
  Paths,    \* canonical directories
  Above,    \* the directories on the way from the top to a directory
  Roots,    \* _control_plane_ownership_roots of a daemon
  Order     \* place of a directory in the order by depth, then by name

ASSUME LocksAssumption ==
  /\ Above \in [Paths -> SUBSET Paths] /\ Roots \in [Daemons -> SUBSET Paths]
  /\ Order \in [Paths -> Nat]
  /\ \A p, q \in Paths : Order[p] = Order[q] => p = q
  /\ \A p \in Paths : \A q \in Above[p] : Order[q] < Order[p] /\ Above[q] \subseteq Above[p]

VARIABLES
  phase,  \* of the process: off (not started), locking, refused, owner, closing or gone
  held,   \* directories whose lock it has: _descriptors
  quiet   \* history: no owner has closed and no process has crashed

lockVars == <<phase, held, quiet>>

Needs(d) == Roots[d] \cup UNION {Above[p] : p \in Roots[d]}

LocksInit ==
  /\ phase = [d \in Daemons |-> "off"]
  /\ held = [d \in Daemons |-> {}]
  /\ quiet = TRUE

-----------------------------------------------------------------------------
Enters(d, p) == phase' = [phase EXCEPT ![d] = p]

\* LOCK_EX on a root, LOCK_SH above it: somebody has p, and one of the two wants it alone.
Blocked(d, p) ==
  \E e \in Daemons \ {d} : p \in held[e] /\ (p \in Roots[d] \/ p \in Roots[e])

BeginLocking(d) ==
  /\ phase[d] = "off" /\ Enters(d, "locking")
  /\ UNCHANGED <<held, quiet>>

\* Mutant: the requirements are tried as they come out of a set.
NextInAnyOrder(d) == Needs(d) \ held[d]

\* _requirements is sorted by depth and name.
NextLock(d) ==
  {p \in Needs(d) \ held[d] : \A q \in Needs(d) \ held[d] : Order[p] <= Order[q]}

TakeLock(d) ==
  /\ phase[d] = "locking"
  /\ \E p \in NextLock(d) : ~Blocked(d, p) /\ held' = [held EXCEPT ![d] = @ \cup {p}]
  /\ UNCHANGED <<phase, quiet>>

Refused(d) ==
  /\ phase[d] = "locking"
  /\ \E p \in NextLock(d) : Blocked(d, p)
  /\ Enters(d, "refused")
  /\ UNCHANGED <<held, quiet>>

\* The DaemonFileLockGroup has a lock file in each root, and one beside the registry: whoever
\* gets here has their directories to itself.
Own(d) ==
  /\ phase[d] = "locking" /\ Needs(d) \subseteq held[d]
  /\ Enters(d, "owner")
  /\ UNCHANGED <<held, quiet>>

\* close(): the lock files are released first.
BeginClosing(d) ==
  /\ phase[d] = "owner" /\ Enters(d, "closing")
  /\ quiet' = FALSE /\ UNCHANGED held

\* release(): the lock taken last is given back first.
DropLock(d) ==
  /\ phase[d] \in {"refused", "closing"}
  /\ \E p \in held[d] :
       /\ \A q \in held[d] : Order[q] <= Order[p]
       /\ held' = [held EXCEPT ![d] = @ \ {p}]
  /\ UNCHANGED <<phase, quiet>>

EndProcess(d) ==
  /\ phase[d] \in {"refused", "closing"} /\ held[d] = {}
  /\ Enters(d, "gone")
  /\ UNCHANGED <<held, quiet>>

CrashProcess(d) ==
  /\ phase[d] \notin {"off", "gone"} /\ Enters(d, "gone")
  /\ held' = [held EXCEPT ![d] = {}] /\ quiet' = FALSE

LockStep(d) == BeginLocking(d) \/ TakeLock(d) \/ Refused(d) \/ Own(d) \/ DropLock(d) \/ EndProcess(d)

LocksNext == \E d \in Daemons : LockStep(d) \/ BeginClosing(d) \/ CrashProcess(d)
LocksSpec == LocksInit /\ [][LocksNext]_lockVars

-----------------------------------------------------------------------------
(* Properties *)

LocksTypeOK ==
  /\ phase \in [Daemons -> {"off", "locking", "refused", "owner", "closing", "gone"}]
  /\ held \in [Daemons -> SUBSET Paths]
  /\ quiet \in BOOLEAN

Overlap(p, q) == p = q \/ p \in Above[q] \/ q \in Above[p]

\* Two daemons never own roots of which one is, or is inside, the other, in whatever order
\* they started, failed, closed or died.
RootsExclusive ==
  \A d, e \in Daemons :
    d # e /\ phase[d] = "owner" /\ phase[e] = "owner" =>
      \A p \in Roots[d], q \in Roots[e] : ~Overlap(p, q)

\* Daemons that start at the same time do not refuse each other all: one that was refused
\* was so for another that is still on its way or owns its roots.
NotAllRefused ==
  quiet /\ (\E d \in Daemons : phase[d] \in {"refused", "gone"}) =>
    \E e \in Daemons : phase[e] \in {"locking", "owner"}

\* Of daemons with overlapping roots one at most becomes the owner, and one does.
ElectsOne == RootsExclusive /\ NotAllRefused
=============================================================================
