------------------------ MODULE DaemonLocks_proofs ------------------------
(***************************************************************************)
(* Theorems about DaemonLocks, for every set of daemons, every tree of     *)
(* directories and every choice of roots.                                  *)
(***************************************************************************)
EXTENDS DaemonLocks, TLAPS

\* What a daemon has and another one has too is a root of neither.
Shared ==
  \A d, e \in Daemons : \A p \in held[d] \cap held[e] :
    d # e => p \notin Roots[d] /\ p \notin Roots[e]

\* An owner has every lock it asked for.
Complete == \A d \in Daemons : phase[d] = "owner" => Needs(d) \subseteq held[d]

LocksInv == LocksTypeOK /\ Shared /\ Complete

\* The locks a daemon asks for are its roots and what is above them.
LEMMA NeedsType ==
  ASSUME NEW d \in Daemons
  PROVE  /\ Needs(d) \subseteq Paths
         /\ Roots[d] \subseteq Needs(d)
         /\ \A p \in Roots[d] : Above[p] \subseteq Needs(d)
BY LocksAssumption DEF Needs

\* The next lock is one of them.
LEMMA NextLockType ==
  ASSUME NEW d \in Daemons, NEW p \in NextLock(d) PROVE p \in Needs(d) /\ p \in Paths
BY NeedsType DEF NextLock

\* The phases and the locks have their types, and stay so.
LEMMA LocksTypeStep == LocksTypeOK /\ [LocksNext]_lockVars => LocksTypeOK'
<1> SUFFICES ASSUME LocksTypeOK, [LocksNext]_lockVars PROVE LocksTypeOK'
  OBVIOUS
<1>. USE DEF LocksTypeOK, Enters
<1>1. ASSUME NEW d \in Daemons, BeginLocking(d) PROVE LocksTypeOK'
  BY <1>1 DEF BeginLocking
<1>2. ASSUME NEW d \in Daemons, TakeLock(d) PROVE LocksTypeOK'
  BY <1>2, NextLockType DEF TakeLock
<1>3. ASSUME NEW d \in Daemons, Refused(d) PROVE LocksTypeOK'
  BY <1>3 DEF Refused
<1>4. ASSUME NEW d \in Daemons, Own(d) PROVE LocksTypeOK'
  BY <1>4 DEF Own
<1>5. ASSUME NEW d \in Daemons, DropLock(d) PROVE LocksTypeOK'
  BY <1>5 DEF DropLock
<1>6. ASSUME NEW d \in Daemons, EndProcess(d) PROVE LocksTypeOK'
  BY <1>6 DEF EndProcess
<1>7. ASSUME NEW d \in Daemons, BeginClosing(d) PROVE LocksTypeOK'
  BY <1>7 DEF BeginClosing
<1>8. ASSUME NEW d \in Daemons, CrashProcess(d) PROVE LocksTypeOK'
  BY <1>8 DEF CrashProcess
<1>9. CASE UNCHANGED lockVars
  BY <1>9 DEF lockVars
<1>. QED BY <1>1, <1>2, <1>3, <1>4, <1>5, <1>6, <1>7, <1>8, <1>9 DEF LocksNext, LockStep

\* A lock is taken only where Blocked says that nobody minds; all other steps give locks back.
LEMMA SharedStep == LocksTypeOK /\ Shared /\ [LocksNext]_lockVars => Shared'
<1> SUFFICES ASSUME LocksTypeOK, Shared, [LocksNext]_lockVars PROVE Shared'
  OBVIOUS
<1>1. ASSUME NEW d \in Daemons, TakeLock(d) PROVE Shared'
  <2>1. PICK p \in NextLock(d) : ~Blocked(d, p) /\ held' = [held EXCEPT ![d] = @ \cup {p}]
    BY <1>1 DEF TakeLock
  <2>2. \A e \in Daemons \ {d} : p \in held[e] => p \notin Roots[d] /\ p \notin Roots[e]
    BY <2>1 DEF Blocked
  <2>. QED BY <2>1, <2>2 DEF Shared, LocksTypeOK
<1>2. ASSUME \A d \in Daemons : held'[d] \subseteq held[d] PROVE Shared'
  BY <1>2 DEF Shared
<1>3. ASSUME NEW d \in Daemons,
             \/ BeginLocking(d) \/ Refused(d) \/ Own(d) \/ DropLock(d) \/ EndProcess(d)
             \/ BeginClosing(d) \/ CrashProcess(d)
      PROVE  \A e \in Daemons : held'[e] \subseteq held[e]
  BY <1>3 DEF BeginLocking, Refused, Own, DropLock, EndProcess, BeginClosing, CrashProcess,
              LocksTypeOK
<1>4. CASE UNCHANGED lockVars
  BY <1>4 DEF lockVars, Shared
<1>. QED BY <1>1, <1>2, <1>3, <1>4 DEF LocksNext, LockStep

\* Whoever becomes the owner has all its locks, and an owner that gives one back is none.
LEMMA CompleteStep == LocksTypeOK /\ Complete /\ [LocksNext]_lockVars => Complete'
<1> SUFFICES ASSUME LocksTypeOK, Complete, [LocksNext]_lockVars,
                    NEW e \in Daemons, phase'[e] = "owner"
             PROVE  Needs(e) \subseteq held'[e]
  BY DEF Complete, Needs
<1>. USE DEF LocksTypeOK, Enters
<1>1. ASSUME NEW d \in Daemons, Own(d) PROVE Needs(e) \subseteq held'[e]
  BY <1>1 DEF Own, Complete
<1>2. ASSUME NEW d \in Daemons, TakeLock(d) PROVE Needs(e) \subseteq held'[e]
  BY <1>2 DEF TakeLock, Complete
<1>3. ASSUME NEW d \in Daemons, BeginLocking(d) \/ Refused(d) \/ EndProcess(d) \/ BeginClosing(d)
      PROVE  Needs(e) \subseteq held'[e]
  BY <1>3 DEF BeginLocking, Refused, EndProcess, BeginClosing, Complete
<1>4. ASSUME NEW d \in Daemons, DropLock(d) PROVE Needs(e) \subseteq held'[e]
  BY <1>4 DEF DropLock, Complete
<1>5. ASSUME NEW d \in Daemons, CrashProcess(d) PROVE Needs(e) \subseteq held'[e]
  BY <1>5 DEF CrashProcess, Complete
<1>6. CASE UNCHANGED lockVars
  BY <1>6 DEF lockVars, Complete
<1>. QED BY <1>1, <1>2, <1>3, <1>4, <1>5, <1>6 DEF LocksNext, LockStep

\* The inductive invariant: types, what may be shared, and what an owner has.
THEOREM LocksInvariant == LocksSpec => []LocksInv
<1>1. LocksInit => LocksInv
  BY DEF LocksInit, LocksInv, LocksTypeOK, Shared, Complete
<1>2. LocksInv /\ [LocksNext]_lockVars => LocksInv'
  BY LocksTypeStep, SharedStep, CompleteStep DEF LocksInv
<1>. QED BY <1>1, <1>2, PTL DEF LocksSpec

\* The phases of the daemons and the locks they hold have their types.
THEOREM LocksTypeCorrect == LocksSpec => []LocksTypeOK
<1>1. LocksInv => LocksTypeOK
  BY DEF LocksInv
<1>. QED BY <1>1, LocksInvariant, PTL

\* No two daemons own roots of which one is, or is inside, the other: the inner root's owner
\* has asked for the outer one too.
THEOREM OwnersDisjoint == LocksSpec => []RootsExclusive
<1>1. LocksInv => RootsExclusive
  <2> SUFFICES ASSUME LocksInv, NEW d \in Daemons, NEW e \in Daemons, d # e,
                      phase[d] = "owner", phase[e] = "owner",
                      NEW p \in Roots[d], NEW q \in Roots[e], Overlap(p, q)
               PROVE  FALSE
    BY DEF RootsExclusive
  <2>1. Needs(d) \subseteq held[d] /\ Needs(e) \subseteq held[e]
    BY DEF LocksInv, Complete
  <2>2. p \in held[d] /\ q \in held[e] /\ Above[p] \subseteq held[d] /\ Above[q] \subseteq held[e]
    BY <2>1, NeedsType
  <2>3. p \in held[e] \/ q \in held[d]
    BY <2>2 DEF Overlap
  <2>. QED BY <2>2, <2>3 DEF LocksInv, Shared
<1>. QED BY <1>1, LocksInvariant, PTL

-----------------------------------------------------------------------------
(* Not all are refused. Among those on their way or in possession one leads: *)
(* it has a lock at or beyond all that refused daemons still have, so that   *)
(* no refused daemon can be in its way.                                      *)

Unrefused(d) == phase[d] \in {"locking", "owner"}

\* Locks are taken in order, from those that are needed.
InOrder ==
  \A d \in Daemons :
    /\ held[d] \subseteq Needs(d)
    /\ Unrefused(d) => \A p \in held[d], q \in Needs(d) \ held[d] : Order[p] < Order[q]
    /\ phase[d] \in {"off", "gone"} => held[d] = {}
    /\ quiet => phase[d] # "closing"

Leads(e, t) ==
  /\ Unrefused(e) /\ t \in held[e]
  /\ \A d \in Daemons : phase[d] = "refused" => \A p \in held[d] : Order[p] <= Order[t]

SomeoneLeads ==
  quiet /\ (\E d \in Daemons : phase[d] \in {"refused", "gone"}) =>
    \E e \in Daemons : \E t \in Paths : Leads(e, t)

LEMMA InOrderStep == LocksTypeOK /\ InOrder /\ [LocksNext]_lockVars => InOrder'
<1> SUFFICES ASSUME LocksTypeOK, InOrder, [LocksNext]_lockVars PROVE InOrder'
  OBVIOUS
<1>. USE DEF LocksTypeOK, Enters, Unrefused
<1>0. \A e \in Daemons : Needs(e)' = Needs(e)
  BY DEF Needs
<1>1. ASSUME NEW d \in Daemons, TakeLock(d) PROVE InOrder'
  <2>1. PICK p \in NextLock(d) : held' = [held EXCEPT ![d] = @ \cup {p}]
    BY <1>1 DEF TakeLock
  <2>2. p \in Needs(d) /\ \A q \in Needs(d) \ (held[d] \cup {p}) : Order[p] < Order[q]
    <3>1. p \in Paths /\ \A q \in Needs(d) \ held[d] : q \in Paths /\ Order[p] <= Order[q]
      BY NeedsType DEF NextLock
    <3>2. \A q \in Paths : Order[q] \in Nat /\ (Order[p] = Order[q] => p = q)
      BY <3>1, LocksAssumption
    <3>. QED BY <3>1, <3>2 DEF NextLock
  <2>3. \A q \in held'[d], r \in Needs(d) \ held'[d] : Order[q] < Order[r]
    BY <1>1, <2>1, <2>2 DEF InOrder, TakeLock
  <2>. QED BY <1>0, <1>1, <2>1, <2>2, <2>3 DEF InOrder, TakeLock
<1>2. ASSUME NEW d \in Daemons, BeginLocking(d) PROVE InOrder'
  BY <1>0, <1>2 DEF BeginLocking, InOrder
<1>3. ASSUME NEW d \in Daemons, Refused(d) \/ Own(d) PROVE InOrder'
  BY <1>0, <1>3 DEF Refused, Own, InOrder
<1>4. ASSUME NEW d \in Daemons, DropLock(d) PROVE InOrder'
  BY <1>0, <1>4 DEF DropLock, InOrder
<1>5. ASSUME NEW d \in Daemons, EndProcess(d) PROVE InOrder'
  BY <1>0, <1>5 DEF EndProcess, InOrder
<1>6. ASSUME NEW d \in Daemons, BeginClosing(d) PROVE InOrder'
  BY <1>0, <1>6 DEF BeginClosing, InOrder
<1>7. ASSUME NEW d \in Daemons, CrashProcess(d) PROVE InOrder'
  BY <1>0, <1>7 DEF CrashProcess, InOrder
<1>8. CASE UNCHANGED lockVars
  BY <1>0, <1>8 DEF lockVars, InOrder
<1>. QED BY <1>1, <1>2, <1>3, <1>4, <1>5, <1>6, <1>7, <1>8 DEF LocksNext, LockStep

\* A daemon is refused by a lock p beyond all that it has. If the leader is not beyond p as
\* well, whoever has p is not refused, and leads from now on.
LEMMA RefusalLeavesLeader ==
  ASSUME LocksTypeOK, InOrder, SomeoneLeads, quiet, NEW d \in Daemons, Refused(d)
  PROVE  SomeoneLeads'
<1>. USE DEF LocksTypeOK, Enters, Unrefused
<1>1. PICK p \in NextLock(d) : Blocked(d, p)
  BY DEF Refused
<1>2. p \in Paths /\ \A q \in held[d] : q \in Paths /\ Order[q] < Order[p]
  BY <1>1, NextLockType DEF InOrder, Refused, NextLock
<1>3. PICK g \in Daemons \ {d} : p \in held[g]
  BY <1>1 DEF Blocked
<1>4. Unrefused(g) \/ phase[g] = "refused"
  BY <1>3 DEF InOrder
<1>5. /\ held' = held /\ phase'[d] = "refused"
      /\ \A e \in Daemons \ {d} : phase'[e] = phase[e]
  BY DEF Refused
<1>6. \A q \in Paths : Order[q] \in Nat
  BY LocksAssumption
<1>7. CASE \A e \in Daemons : phase[e] # "refused"
  <2>1. Leads(g, p)'
    BY <1>2, <1>3, <1>4, <1>5, <1>6, <1>7 DEF Leads
  <2>. QED BY <1>2, <2>1 DEF SomeoneLeads
<1>8. CASE \E e \in Daemons : phase[e] = "refused"
  <2>1. PICK e \in Daemons, t \in Paths : Leads(e, t)
    BY <1>8 DEF SomeoneLeads
  <2>2. CASE Order[p] <= Order[t] /\ e # d
    <3>1. Leads(e, t)'
      BY <1>2, <1>5, <1>6, <2>1, <2>2 DEF Leads
    <3>. QED BY <3>1 DEF SomeoneLeads
  <2>3. CASE Order[t] < Order[p]
    <3>1. Unrefused(g)
      BY <1>3, <1>4, <1>6, <1>2, <2>1, <2>3 DEF Leads
    <3>2. Leads(g, p)'
      BY <1>2, <1>3, <1>5, <1>6, <2>1, <2>3, <3>1 DEF Leads
    <3>. QED BY <1>2, <3>2 DEF SomeoneLeads
  <2>4. e = d => Order[t] < Order[p]
    BY <1>2, <2>1 DEF Leads
  <2>. QED BY <1>2, <1>6, <2>2, <2>3, <2>4
<1>. QED BY <1>7, <1>8

LEMMA LeaderStep ==
  LocksTypeOK /\ InOrder /\ SomeoneLeads /\ [LocksNext]_lockVars => SomeoneLeads'
<1> SUFFICES ASSUME LocksTypeOK, InOrder, SomeoneLeads, [LocksNext]_lockVars, quiet'
             PROVE  SomeoneLeads'
  BY DEF SomeoneLeads
<1>. USE DEF LocksTypeOK, Enters, Unrefused
<1>1. ASSUME NEW d \in Daemons, Refused(d) PROVE SomeoneLeads'
  BY <1>1, RefusalLeavesLeader DEF Refused
<1>2. ASSUME NEW d \in Daemons, BeginLocking(d) PROVE SomeoneLeads'
  BY <1>2 DEF BeginLocking, SomeoneLeads, Leads
<1>3. ASSUME NEW d \in Daemons, TakeLock(d) PROVE SomeoneLeads'
  BY <1>3 DEF TakeLock, SomeoneLeads, Leads
<1>4. ASSUME NEW d \in Daemons, Own(d) PROVE SomeoneLeads'
  BY <1>4 DEF Own, SomeoneLeads, Leads
<1>5. ASSUME NEW d \in Daemons, DropLock(d) PROVE SomeoneLeads'
  <2>1. phase[d] = "refused" /\ phase' = phase /\ quiet
    BY <1>5 DEF DropLock, InOrder
  <2>2. /\ \A e \in Daemons : held'[e] \subseteq held[e]
        /\ \A e \in Daemons \ {d} : held'[e] = held[e]
    BY <1>5 DEF DropLock
  <2>. QED BY <2>1, <2>2 DEF SomeoneLeads, Leads
<1>6. ASSUME NEW d \in Daemons, EndProcess(d) PROVE SomeoneLeads'
  <2>1. phase[d] = "refused" /\ held' = held /\ quiet
    BY <1>6 DEF EndProcess, InOrder
  <2>2. /\ phase'[d] = "gone"
        /\ \A e \in Daemons \ {d} : phase'[e] = phase[e]
    BY <1>6 DEF EndProcess
  <2>. QED BY <2>1, <2>2 DEF SomeoneLeads, Leads
<1>7. ASSUME NEW d \in Daemons PROVE ~BeginClosing(d) /\ ~CrashProcess(d)
  BY DEF BeginClosing, CrashProcess
<1>8. CASE UNCHANGED lockVars
  BY <1>8 DEF lockVars, SomeoneLeads, Leads
<1>. QED BY <1>1, <1>2, <1>3, <1>4, <1>5, <1>6, <1>7, <1>8 DEF LocksNext, LockStep

\* Of daemons with overlapping roots one at most becomes the owner, and while all of them
\* start and none ends or crashes, one does.
THEOREM OneElected == LocksSpec => []ElectsOne
<1>1. LocksInit => InOrder /\ SomeoneLeads
  BY DEF LocksInit, InOrder, SomeoneLeads, Unrefused, Needs
<1>2. LocksTypeOK /\ InOrder /\ SomeoneLeads /\ [LocksNext]_lockVars => InOrder' /\ SomeoneLeads'
  BY InOrderStep, LeaderStep
<1>3. SomeoneLeads => NotAllRefused
  BY DEF SomeoneLeads, NotAllRefused, Leads, Unrefused
<1>4. LocksSpec => [](InOrder /\ SomeoneLeads)
  BY <1>1, <1>2, LocksTypeCorrect, PTL DEF LocksSpec
<1>5. RootsExclusive /\ NotAllRefused => ElectsOne
  BY DEF ElectsOne
<1>. QED BY <1>3, <1>4, <1>5, OwnersDisjoint, PTL
=============================================================================
