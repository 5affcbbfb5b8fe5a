-------------------------- MODULE SchedulerProofs --------------------------
(***************************************************************************)
(* Proofs about module Scheduler, for any number of masters and helpers    *)
(* and any limits.                                                         *)
(***************************************************************************)
EXTENDS Scheduler, FiniteSetTheorems, TLAPS

(***************************************************************************)
(* Counting the elements x of a finite set S for which f[x] is in A.       *)
(***************************************************************************)
Sel(S, f, A) == {x \in S : f[x] \in A}

\* A selection from a finite set is finite and its size a natural number,
\* zero exactly when nothing is selected.
LEMMA SelFinite ==
    ASSUME NEW S, IsFiniteSet(S), NEW f, NEW A
    PROVE  /\ IsFiniteSet(Sel(S, f, A))
           /\ Cardinality(Sel(S, f, A)) \in Nat
           /\ Cardinality(Sel(S, f, A)) = 0 <=> Sel(S, f, A) = {}
<1>1. Sel(S, f, A) \subseteq S
  BY DEF Sel
<1>2. IsFiniteSet(Sel(S, f, A))
  BY <1>1, FS_Subset
<1>3. QED
  BY <1>2, FS_CardinalityType, FS_EmptySet

\* What moving one element t does to a selection's size.
LEMMA SelMove ==
    ASSUME NEW S, IsFiniteSet(S), NEW f, NEW g, NEW t \in S, NEW A,
           \A x \in S : x # t => g[x] = f[x]
    PROVE  LET n == Cardinality(Sel(S, f, A))
               k == Cardinality(Sel(S, g, A))
           IN  /\ n \in Nat
               /\ (f[t] \in A <=> g[t] \in A) => k = n
               /\ (f[t] \notin A /\ g[t] \in A) => k = n + 1
               /\ (f[t] \in A /\ g[t] \notin A) => k = n - 1
<1>0. Cardinality(Sel(S, f, A)) \in Nat /\ IsFiniteSet(Sel(S, f, A))
  BY SelFinite
<1>1. CASE (f[t] \in A) <=> (g[t] \in A)
  <2>1. Sel(S, g, A) = Sel(S, f, A)
    BY <1>1 DEF Sel
  <2>2. QED
    BY <1>0, <1>1, <2>1
<1>2. CASE f[t] \notin A /\ g[t] \in A
  <2>1. Sel(S, g, A) = Sel(S, f, A) \cup {t} /\ t \notin Sel(S, f, A)
    BY <1>2 DEF Sel
  <2>2. QED
    BY <1>0, <1>2, <2>1, FS_AddElement
<1>3. CASE f[t] \in A /\ g[t] \notin A
  <2>1. Sel(S, g, A) = Sel(S, f, A) \ {t} /\ t \in Sel(S, f, A)
    BY <1>3 DEF Sel
  <2>2. QED
    BY <1>0, <1>3, <2>1, FS_RemoveElement
<1>4. QED
  BY <1>1, <1>2, <1>3

-----------------------------------------------------------------------------
(***************************************************************************)
(* The accounting as a relation between a placement p of the threads and   *)
(* the seven counters.                                                     *)
(***************************************************************************)
Placing == [Threads -> ThreadStates]

Created == ThreadStates \ {"none"}

Count(p, A) == Cardinality(Sel(Threads, p, A))

HelperCount(p) == Cardinality(Sel(Helpers, p, Created))

Fits(p, a, w, r, i, s, e, h) ==
    /\ p \in Placing
    /\ a = Count(p, ActiveStates)
    /\ w = Count(p, WaitingStates)
    /\ r = Count(p, ReadyStates)
    /\ i = Count(p, IdleStates)
    /\ s = Count(p, {"starting"})
    /\ e = Count(p, {"external"})
    /\ h = HelperCount(p)

\* There are finitely many threads.
LEMMA ThreadsFinite == IsFiniteSet(Threads) /\ IsFiniteSet(Helpers)
BY ThreadsAssumption, FS_Union DEF Threads

\* Counts are natural numbers.
LEMMA CountNat ==
    ASSUME NEW p
    PROVE  /\ \A A : Count(p, A) \in Nat
           /\ HelperCount(p) \in Nat
BY SelFinite, ThreadsFinite DEF Count, HelperCount

\* A count is zero exactly when no thread is in one of the places.
LEMMA CountZero ==
    ASSUME NEW p, NEW A
    PROVE  Count(p, A) = 0 <=> \A t \in Threads : p[t] \notin A
BY SelFinite, ThreadsFinite DEF Count, Sel

\* Accounting is Fits at the current state, and at the next one.
LEMMA AccountingFits ==
    /\ pc \in Placing =>
         (Accounting <=> Fits(pc, active, waiting, ready, idle, starting, external, helpers))
    /\ pc' \in Placing =>
         (Accounting' <=> Fits(pc', active', waiting', ready', idle', starting', external', helpers'))
<1>1. ASSUME pc \in Placing
      PROVE  Accounting <=> Fits(pc, active, waiting, ready, idle, starting, external, helpers)
  <2>1. {h \in Helpers : pc[h] # "none"} = Sel(Helpers, pc, Created)
    BY <1>1 DEF Sel, Created, Placing, Threads
  <2>2. QED
    BY <1>1, <2>1 DEF Accounting, Fits, In, Sel, Count, HelperCount
<1>2. ASSUME pc' \in Placing
      PROVE  Accounting' <=> Fits(pc', active', waiting', ready', idle', starting', external', helpers')
  <2>1. {h \in Helpers : pc'[h] # "none"} = Sel(Helpers, pc', Created)
    BY <1>2 DEF Sel, Created, Placing, Threads
  <2>2. QED
    BY <1>2, <2>1 DEF Accounting, Fits, In, Sel, Count, HelperCount
<1>3. QED
  BY <1>1, <1>2

\* q is p with the thread t moved from x to z: what becomes of the counts.
Shifted(p, q, x, z, A) ==
    Count(q, A) = Count(p, A) - (IF x \in A THEN 1 ELSE 0) + (IF z \in A THEN 1 ELSE 0)

Moved(p, q, t, x, z) ==
    /\ q \in Placing
    /\ Shifted(p, q, x, z, ActiveStates)
    /\ Shifted(p, q, x, z, WaitingStates)
    /\ Shifted(p, q, x, z, ReadyStates)
    /\ Shifted(p, q, x, z, IdleStates)
    /\ Shifted(p, q, x, z, {"starting"})
    /\ Shifted(p, q, x, z, {"external"})
    /\ Shifted(p, q, x, z, {"ready_woken"})
    /\ HelperCount(q) = HelperCount(p)
                           - (IF t \in Helpers /\ x # "none" THEN 1 ELSE 0)
                           + (IF t \in Helpers /\ z # "none" THEN 1 ELSE 0)

\* The class of each place.
LEMMA Classes ==
    ASSUME NEW x \in ThreadStates
    PROVE  /\ x \in ActiveStates  <=> x \in {"active", "pushed", "scanning", "left", "stopping", "joining"}
           /\ x \in WaitingStates <=> x = "waiting" \/ x = "external"
           /\ x \in ReadyStates   <=> x = "ready" \/ x = "ready_woken"
           /\ x \in IdleStates    <=> x = "idle" \/ x = "idle_woken"
BY DEF ActiveStates, WaitingStates, ReadyStates, IdleStates

\* The places a thread can be in.
LEMMA AllStates ==
    \A x : x \in ThreadStates <=>
            x \in {"active", "pushed", "scanning", "left", "stopping", "joining", "waiting",
                  "external", "ready", "ready_woken", "idle", "idle_woken", "starting", "none"}
BY DEF ThreadStates, ActiveStates, WaitingStates, ReadyStates, IdleStates

\* A move of one thread shifts the counts of the classes it leaves and enters.
LEMMA MoveCounts ==
    ASSUME NEW p \in Placing, NEW t \in Threads, NEW z \in ThreadStates, NEW q,
           q = [p EXCEPT ![t] = z]
    PROVE  Moved(p, q, t, p[t], z)
<1>1. q \in Placing
  BY DEF Placing
<1>2. ASSUME NEW A
      PROVE  Shifted(p, q, p[t], z, A)
  <2>1. q[t] = z /\ \A x \in Threads : x # t => q[x] = p[x]
    BY DEF Placing
  <2>2. /\ Cardinality(Sel(Threads, p, A)) \in Nat
        /\ (p[t] \in A <=> q[t] \in A) =>
             Cardinality(Sel(Threads, q, A)) = Cardinality(Sel(Threads, p, A))
        /\ (p[t] \notin A /\ q[t] \in A) =>
             Cardinality(Sel(Threads, q, A)) = Cardinality(Sel(Threads, p, A)) + 1
        /\ (p[t] \in A /\ q[t] \notin A) =>
             Cardinality(Sel(Threads, q, A)) = Cardinality(Sel(Threads, p, A)) - 1
    BY ONLY <2>1, SelMove, ThreadsFinite, t \in Threads
  <2>3. QED
    BY <2>1, <2>2 DEF Count, Shifted
<1>3. HelperCount(q) = HelperCount(p)
                         - (IF t \in Helpers /\ p[t] # "none" THEN 1 ELSE 0)
                         + (IF t \in Helpers /\ z # "none" THEN 1 ELSE 0)
  <2>1. Cardinality(Sel(Helpers, p, Created)) \in Nat
    BY SelFinite, ThreadsFinite
  <2>2. CASE t \in Helpers
    <3>1. (p[t] \in Created <=> p[t] # "none") /\ (z \in Created <=> z # "none")
      BY DEF Created, Placing
    <3>2. q[t] = z /\ \A x \in Helpers : x # t => q[x] = p[x]
      BY DEF Placing, Threads
    <3>3. /\ (p[t] \in Created <=> q[t] \in Created) =>
               Cardinality(Sel(Helpers, q, Created)) = Cardinality(Sel(Helpers, p, Created))
          /\ (p[t] \notin Created /\ q[t] \in Created) =>
               Cardinality(Sel(Helpers, q, Created)) = Cardinality(Sel(Helpers, p, Created)) + 1
          /\ (p[t] \in Created /\ q[t] \notin Created) =>
               Cardinality(Sel(Helpers, q, Created)) = Cardinality(Sel(Helpers, p, Created)) - 1
      BY ONLY <2>2, <3>2, SelMove, ThreadsFinite
    <3>4. QED
      BY <2>1, <2>2, <3>1, <3>2, <3>3 DEF HelperCount
  <2>3. CASE t \notin Helpers
    <3>1. Sel(Helpers, q, Created) = Sel(Helpers, p, Created)
      BY <2>3 DEF Sel, Threads, Placing
    <3>2. QED
      BY <2>1, <2>3, <3>1 DEF HelperCount
  <2>4. QED
    BY <2>2, <2>3
<1>4. QED
  BY <1>1, <1>2, <1>3 DEF Moved

\* Notifying changes no counter.
LEMMA NotifyFits ==
    ASSUME NEW p, NEW a, NEW w, NEW r, NEW i, NEW s, NEW e, NEW h,
           Fits(p, a, w, r, i, s, e, h),
           NotifyReady(p) \/ NotifyIdle(p)
    PROVE  Fits(pc', a, w, r, i, s, e, h)
<1>p. p \in Placing /\ (\A A : Count(p, A) \in Nat) /\ HelperCount(p) \in Nat
  BY CountNat DEF Fits
<1>1. CASE pc' = p
  BY <1>1
<1>2. ASSUME NEW u \in Threads, p[u] = "ready", pc' = [p EXCEPT ![u] = "ready_woken"]
      PROVE  Fits(pc', a, w, r, i, s, e, h)
  <2>1. "ready_woken" \in ThreadStates
    BY DEF ThreadStates, ReadyStates
  <2>2. Moved(p, pc', u, "ready", "ready_woken")
    BY <1>2, <1>p, <2>1, MoveCounts
  <2>3. QED
    BY <1>p, <2>2, Classes, AllStates DEF Moved, Shifted, Fits
<1>3. ASSUME NEW u \in Threads, p[u] = "idle", pc' = [p EXCEPT ![u] = "idle_woken"]
      PROVE  Fits(pc', a, w, r, i, s, e, h)
  <2>1. "idle_woken" \in ThreadStates
    BY DEF ThreadStates, IdleStates
  <2>2. Moved(p, pc', u, "idle", "idle_woken")
    BY <1>3, <1>p, <2>1, MoveCounts
  <2>3. QED
    BY <1>p, <2>2, Classes, AllStates DEF Moved, Shifted, Fits
<1>4. QED
  BY <1>1, <1>2, <1>3 DEF NotifyReady, NotifyIdle, NotifyOne

\* A helper is notified or created: only helpers_ and starting_ may change.
LEMMA ActivateHelperFits ==
    ASSUME NEW p, NEW a, NEW w, NEW r, NEW e,
           Fits(p, a, w, r, idle, starting, e, helpers),
           ActivateHelper(p)
    PROVE  Fits(pc', a, w, r, idle, starting', e, helpers')
<1>p. p \in Placing /\ (\A A : Count(p, A) \in Nat) /\ HelperCount(p) \in Nat
  BY CountNat DEF Fits
<1>1. CASE NotifyIdle(p) /\ UNCHANGED <<helpers, starting>>
  BY <1>1, NotifyFits
<1>2. ASSUME NEW h \in Helpers, p[h] = "none", pc' = [p EXCEPT ![h] = "starting"],
             helpers' = helpers + 1, starting' = starting + 1
      PROVE  Fits(pc', a, w, r, idle, starting', e, helpers')
  <2>1. "starting" \in ThreadStates /\ h \in Threads
    BY DEF ThreadStates, Threads
  <2>2. Moved(p, pc', h, "none", "starting")
    BY <1>2, <1>p, <2>1, MoveCounts
  <2>3. QED
    BY <1>2, <1>p, <2>2, Classes, AllStates DEF Moved, Shifted, Fits
<1>3. QED
  BY <1>1, <1>2 DEF ActivateHelper

-----------------------------------------------------------------------------
(***************************************************************************)
(* Every action keeps the counters right.                                  *)
(***************************************************************************)
CountersFit == Fits(pc, active, waiting, ready, idle, starting, external, helpers)

\* Under the invariant the counters fit the placement.
LEMMA IndInvFits ==
    IndInv => /\ CountersFit
              /\ pc \in Placing /\ (\A A : Count(pc, A) \in Nat) /\ HelperCount(pc) \in Nat
BY AccountingFits, CountNat DEF IndInv, TypeOK, Placing, CountersFit

\* The steps in which one thread moves and nobody is notified.
LEMMA SimpleMovesFit ==
    ASSUME IndInv, NEW t \in Threads,
           \/ Push(t) \/ PushSnatched(t) \/ SpuriousWakeup(t)
           \/ Activate(t) \/ ReadyWake(t) \/ HelperPop(t) \/ HelperTaskDone(t)
           \/ Leave(t) \/ ShutdownBegin(t) \/ ShutdownJoin(t) \/ ShutdownEnd(t)
    PROVE  CountersFit'
<1> USE DEF CountersFit
<1>p. /\ CountersFit /\ pc \in Placing /\ (\A A : Count(pc, A) \in Nat)
      /\ HelperCount(pc) \in Nat
  BY IndInvFits
<1>m. ASSUME NEW z \in ThreadStates, pc' = [pc EXCEPT ![t] = z]
      PROVE  Moved(pc, pc', t, pc[t], z)
  BY <1>m, <1>p, MoveCounts
<1>1. CASE Push(t)
  <2>1. Moved(pc, pc', t, "active", "pushed")
    BY <1>1, <1>m, AllStates DEF Push
  <2>2. QED
    BY <1>1, <1>p, <2>1, Classes, AllStates DEF Push, Moved, Shifted, Fits
<1>2. CASE PushSnatched(t)
  <2>1. Moved(pc, pc', t, "pushed", "active")
    BY <1>2, <1>m, AllStates DEF PushSnatched
  <2>2. QED
    BY <1>2, <1>p, <2>1, Classes, AllStates DEF PushSnatched, Moved, Shifted, Fits
<1>3. CASE SpuriousWakeup(t)
  <2>1. \/ Moved(pc, pc', t, "ready", "ready_woken")
        \/ Moved(pc, pc', t, "idle", "idle_woken")
    BY <1>3, <1>m, AllStates DEF SpuriousWakeup
  <2>2. QED
    BY <1>3, <1>p, <2>1, Classes, AllStates DEF SpuriousWakeup, Moved, Shifted, Fits
<1>4. CASE Activate(t)
  <2>0. pc[t] = "waiting" \/ pc[t] = "external"
    BY <1>4 DEF Activate, ExternalLeft, WaitingStates
  <2>1. CASE MayBecomeActive
    <3>1. \/ pc[t] = "waiting" /\ Moved(pc, pc', t, "waiting", "active")
          \/ pc[t] = "external" /\ Moved(pc, pc', t, "external", "active")
      BY <1>4, <1>m, <2>0, <2>1, AllStates DEF Activate
    <3>2. QED
      BY <1>4, <1>p, <2>1, <3>1, Classes, AllStates DEF Activate, ExternalLeft, Moved, Shifted, Fits
  <2>2. CASE ~MayBecomeActive
    <3>1. \/ pc[t] = "waiting" /\ Moved(pc, pc', t, "waiting", "ready")
          \/ pc[t] = "external" /\ Moved(pc, pc', t, "external", "ready")
      BY <1>4, <1>m, <2>0, <2>2, AllStates DEF Activate
    <3>2. QED
      BY <1>4, <1>p, <2>2, <3>1, Classes, AllStates DEF Activate, ExternalLeft, Moved, Shifted, Fits
  <2>3. QED
    BY <2>1, <2>2
<1>5. CASE ReadyWake(t)
  <2>1. \/ Moved(pc, pc', t, "ready_woken", "active") /\ MayBecomeActive
        \/ Moved(pc, pc', t, "ready_woken", "ready") /\ ~MayBecomeActive
    BY <1>5, <1>m, AllStates DEF ReadyWake
  <2>2. QED
    BY <1>5, <1>p, <2>1, Classes, AllStates DEF ReadyWake, Moved, Shifted, Fits
<1>6. CASE HelperPop(t)
  <2>1. Moved(pc, pc', t, "scanning", "active")
    BY <1>6, <1>m, AllStates DEF HelperPop
  <2>2. QED
    BY <1>6, <1>p, <2>1, Classes, AllStates DEF HelperPop, Moved, Shifted, Fits
<1>7. CASE HelperTaskDone(t)
  <2>1. Moved(pc, pc', t, "active", "scanning")
    BY <1>7, <1>m, AllStates DEF HelperTaskDone
  <2>2. QED
    BY <1>7, <1>p, <2>1, Classes, AllStates DEF HelperTaskDone, Moved, Shifted, Fits
<1>8. CASE Leave(t)
  <2>1. Moved(pc, pc', t, "active", "left")
    BY <1>8, <1>m, AllStates DEF Leave
  <2>2. QED
    BY <1>8, <1>p, <2>1, Classes, AllStates DEF Leave, Moved, Shifted, Fits
<1>9. CASE ShutdownBegin(t)
  <2>1. Moved(pc, pc', t, "active", "stopping")
    BY <1>9, <1>m, AllStates DEF ShutdownBegin
  <2>2. QED
    BY <1>9, <1>p, <2>1, Classes, AllStates DEF ShutdownBegin, Moved, Shifted, Fits
<1>10. CASE ShutdownJoin(t)
  <2>1. Moved(pc, pc', t, "stopping", "joining")
    BY <1>10, <1>m, AllStates DEF ShutdownJoin
  <2>2. QED
    BY <1>10, <1>p, <2>1, Classes, AllStates DEF ShutdownJoin, Moved, Shifted, Fits
<1>11. CASE ShutdownEnd(t)
  <2>1. Moved(pc, pc', t, "joining", "left")
    BY <1>11, <1>m, AllStates DEF ShutdownEnd
  <2>2. QED
    BY <1>11, <1>p, <2>1, Classes, AllStates DEF ShutdownEnd, Moved, Shifted, Fits
<1>12. QED
  BY <1>1, <1>2, <1>3, <1>4, <1>5, <1>6, <1>7, <1>8, <1>9, <1>10, <1>11

\* The steps that may notify somebody or create a helper.
LEMMA NotifyingMovesFit ==
    ASSUME IndInv, NEW t \in Threads,
           \/ PushWake(t)
           \/ \E ext \in BOOLEAN : Deactivate(t, ext)
           \/ t \in Helpers /\ (HelperStart(t) \/ HelperWake(t) \/ HelperScanned(t))
    PROVE  CountersFit'
<1> USE DEF CountersFit
<1>p. /\ CountersFit /\ pc \in Placing /\ (\A A : Count(pc, A) \in Nat)
      /\ HelperCount(pc) \in Nat
  BY IndInvFits
<1>m. ASSUME NEW z \in ThreadStates
      PROVE  Moved(pc, [pc EXCEPT ![t] = z], t, pc[t], z)
  BY <1>m, <1>p, MoveCounts
<1>1. CASE PushWake(t)
  <2> DEFINE p == [pc EXCEPT ![t] = "active"]
  <2>1. pc[t] = "pushed" /\ Moved(pc, p, t, "pushed", "active")
    BY <1>1, <1>m, AllStates DEF PushWake
  <2>2. Fits(p, active, waiting, ready, idle, starting, external, helpers)
    <3> HIDE DEF p
    <3> QED
      BY <1>p, <2>1, Classes, AllStates DEF Moved, Shifted, Fits
  <2>3. CASE ActivateHelper(p)
    BY <1>1, <2>2, <2>3, ActivateHelperFits DEF PushWake
  <2>4. CASE pc' = p /\ UNCHANGED <<helpers, starting>>
    BY <1>1, <2>2, <2>4 DEF PushWake
  <2>5. QED
    BY <1>1, <2>3, <2>4 DEF PushWake
<1>2. ASSUME NEW ext \in BOOLEAN, Deactivate(t, ext)
      PROVE  CountersFit'
  <2> DEFINE z == IF ext THEN "external" ELSE "waiting"
             p == [pc EXCEPT ![t] = z]
  <2>1. pc[t] = "active" /\ Moved(pc, p, t, "active", z)
    BY <1>2, <1>m, AllStates DEF Deactivate
  <2>2. Fits(p, active', waiting', ready, idle, starting, external', helpers)
    <3>1. /\ active' = active - 1 /\ waiting' = waiting + 1
          /\ external' = IF ext THEN external + 1 ELSE external
      BY <1>2 DEF Deactivate
    <3> HIDE DEF p
    <3> QED
      BY <1>p, <2>1, <3>1, Classes, AllStates DEF Moved, Shifted, Fits
  <2>3. ready' = ready /\ idle' = idle
    BY <1>2 DEF Deactivate
  <2>4. CASE NotifyReady(p) /\ UNCHANGED <<helpers, starting>>
    BY <2>2, <2>3, <2>4, NotifyFits
  <2>5. CASE ActivateHelper(p)
    BY <2>2, <2>3, <2>5, ActivateHelperFits
  <2>6. CASE pc' = p /\ UNCHANGED <<helpers, starting>>
    BY <2>2, <2>3, <2>6
  <2>7. QED
    BY <1>2, <2>4, <2>5, <2>6 DEF Deactivate
<1>3. ASSUME t \in Helpers, HelperStart(t) \/ HelperWake(t) \/ HelperScanned(t)
      PROVE  CountersFit'
  <2> DEFINE p == [pc EXCEPT ![t] = "idle"]
  <2>0. /\ waiting' = waiting /\ ready' = ready /\ external' = external
    BY <1>3 DEF HelperStart, HelperWake, HelperScanned
  <2>t. active \in Nat /\ max_active \in Nat
    BY DEF IndInv, TypeOK
  <2>1. Moved(pc, p, t, pc[t], "idle")
    BY <1>m, AllStates
  <2>2. ASSUME Fits(p, active', waiting, ready, idle', starting', external, helpers'),
               NotifyReady(p) \/ pc' = p
        PROVE  CountersFit'
    BY <2>0, <2>2, NotifyFits
  <2>3. ASSUME \/ pc[t] = "starting" /\ starting' = starting - 1 /\ idle' = idle + 1
               \/ pc[t] = "idle_woken" /\ starting' = starting /\ idle' = (idle - 1) + 1,
               active' = active, helpers' = helpers
        PROVE  Fits(p, active', waiting, ready, idle', starting', external, helpers')
    <3> HIDE DEF p
    <3> QED
      BY <1>p, <2>1, <2>3, Classes, AllStates, CountNat DEF Moved, Shifted, Fits
  <2>4. CASE HelperScanned(t)
    <3>1. /\ pc[t] = "scanning" /\ active' = active - 1 /\ idle' = idle + 1
          /\ starting' = starting /\ helpers' = helpers
          /\ (NotifyReady(p) \/ pc' = p)
      BY <2>4 DEF HelperScanned, HelperDone
    <3>2. Fits(p, active', waiting, ready, idle', starting', external, helpers')
      <4> HIDE DEF p
      <4> QED
        BY <1>p, <2>1, <3>1, Classes, AllStates DEF Moved, Shifted, Fits
    <3>3. QED
      BY <2>2, <3>1, <3>2
  <2>5. ASSUME NEW i, HelperPass(t, i),
               \/ pc[t] = "starting" /\ starting' = starting - 1 /\ i = idle
               \/ pc[t] = "idle_woken" /\ starting' = starting /\ i = idle - 1
        PROVE  CountersFit'
    <3>1. CASE shutdown
      <4>1. /\ helpers' = helpers - 1 /\ idle' = i /\ active' = active
            /\ Moved(pc, pc', t, pc[t], "none")
        BY <2>5, <3>1, <1>m, AllStates DEF HelperPass
      <4>2. QED
        BY <1>3, <1>p, <2>0, <2>5, <4>1, Classes, AllStates DEF Moved, Shifted, Fits
    <3>2. CASE ~shutdown /\ active < max_active /\ queued # 0
      <4>1. /\ active' = active + 1 /\ idle' = i /\ helpers' = helpers
            /\ Moved(pc, pc', t, pc[t], "scanning")
        BY <2>5, <3>2, <1>m, <2>t, AllStates DEF HelperPass
      <4>2. QED
        BY <1>3, <1>p, <2>0, <2>5, <4>1, Classes, AllStates DEF Moved, Shifted, Fits
    <3>3. CASE ~shutdown /\ ~(active < max_active /\ queued # 0)
      <4>1. /\ idle' = i + 1 /\ active' = active /\ helpers' = helpers
            /\ (NotifyReady(p) \/ pc' = p)
        BY <2>5, <3>3 DEF HelperPass, HelperDone
      <4>2. QED
        BY <2>2, <2>3, <2>5, <4>1
    <3>4. QED
      BY <3>1, <3>2, <3>3
  <2>6. QED
    BY <1>3, <2>4, <2>5 DEF HelperStart, HelperWake
<1>4. QED
  BY <1>1, <1>2, <1>3

\* startup() counts the masters; everybody else is gone by then.
LEMMA StartupFits ==
    ASSUME IndInv, Startup
    PROVE  CountersFit'
<1>p. /\ CountersFit /\ pc \in Placing
  BY IndInvFits
<1>1. \A t \in Threads : pc[t] \in {"none", "left"}
  BY DEF Startup, IndInv, Placement, Threads
<1>2. \A t \in Threads : pc[t] \notin WaitingStates /\ pc[t] \notin ReadyStates
                          /\ pc[t] \notin IdleStates
                          /\ pc[t] # "starting" /\ pc[t] # "external"
  BY <1>1 DEF WaitingStates, ReadyStates, IdleStates
<1>3. waiting = 0 /\ ready = 0 /\ idle = 0 /\ starting = 0 /\ external = 0
  BY <1>p, <1>2, CountZero DEF CountersFit, Fits
<1>4. \A h \in Helpers : pc[h] = "none"
  BY DEF Startup, IndInv, Placement
<1>5. helpers = 0
  <2>1. Sel(Helpers, pc, Created) = {}
    BY <1>4 DEF Sel, Created
  <2>2. QED
    BY <1>p, <2>1, FS_EmptySet DEF CountersFit, Fits, HelperCount
<1>6. pc' = [t \in Threads |-> IF t \in Masters THEN "active" ELSE "none"]
  BY DEF Startup
<1>7. pc' \in Placing
  BY <1>6, AllStates DEF Placing
<1>8. \A t \in Threads : pc'[t] \notin WaitingStates /\ pc'[t] \notin ReadyStates
                          /\ pc'[t] \notin IdleStates
                          /\ pc'[t] \notin {"starting"} /\ pc'[t] \notin {"external"}
  BY <1>6 DEF WaitingStates, ReadyStates, IdleStates
<1>9. /\ Count(pc', WaitingStates) = 0 /\ Count(pc', ReadyStates) = 0
      /\ Count(pc', IdleStates) = 0 /\ Count(pc', {"starting"}) = 0
      /\ Count(pc', {"external"}) = 0
  BY <1>8, CountZero
<1>10. HelperCount(pc') = 0
  <2>1. Sel(Helpers, pc', Created) = {}
    BY <1>6, ThreadsAssumption DEF Sel, Created, Threads
  <2>2. QED
    BY <2>1, FS_EmptySet DEF HelperCount
<1>11. Count(pc', ActiveStates) = init_active
  <2>1. Sel(Threads, pc', ActiveStates) = Masters
    BY <1>6 DEF Sel, Threads, ActiveStates
  <2>2. QED
    BY <2>1 DEF Count, init_active
<1>12. QED
  BY <1>3, <1>5, <1>7, <1>9, <1>10, <1>11 DEF Startup, CountersFit, Fits

\* Waking everybody up changes no counter.
LEMMA ShutdownNotifyFits ==
    ASSUME IndInv, NEW t \in Threads, ShutdownNotify(t)
    PROVE  CountersFit'
<1>p. /\ CountersFit /\ pc \in Placing
  BY IndInvFits
<1>1. pc' = [u \in Threads |-> Woken(pc[u])]
  BY DEF ShutdownNotify
<1>2. \A u \in Threads :
          \/ pc[u] = "idle" /\ pc'[u] = "idle_woken"
          \/ pc[u] = "ready" /\ pc'[u] = "ready_woken"
          \/ pc'[u] = pc[u]
  BY <1>1 DEF Woken
<1>3. pc' \in Placing
  <2>1. \A u \in Threads : pc'[u] \in ThreadStates
    BY <1>2, <1>p, AllStates DEF Placing
  <2>2. pc' = [u \in Threads |-> pc'[u]]
    BY <1>1
  <2>3. QED
    BY <2>1, <2>2 DEF Placing
<1>4. /\ Sel(Threads, pc', ActiveStates)  = Sel(Threads, pc, ActiveStates)
      /\ Sel(Threads, pc', WaitingStates) = Sel(Threads, pc, WaitingStates)
      /\ Sel(Threads, pc', ReadyStates)   = Sel(Threads, pc, ReadyStates)
      /\ Sel(Threads, pc', IdleStates)    = Sel(Threads, pc, IdleStates)
      /\ Sel(Threads, pc', {"starting"})  = Sel(Threads, pc, {"starting"})
      /\ Sel(Threads, pc', {"external"})  = Sel(Threads, pc, {"external"})
  BY <1>2 DEF Sel, ActiveStates, WaitingStates, ReadyStates, IdleStates
<1>5. Sel(Helpers, pc', Created) = Sel(Helpers, pc, Created)
  BY <1>2, AllStates DEF Sel, Created, Threads
<1>6. QED
  BY <1>p, <1>3, <1>4, <1>5 DEF ShutdownNotify, CountersFit, Fits, Count, HelperCount

\* The steps that move no thread.
LEMMA OtherStepsFit ==
    ASSUME IndInv,
           \/ \E t \in Threads : WorkOwn(t) \/ \E n : Tune(t, n)
           \/ Monitor \/ SpuriousMonitorWakeup \/ UNCHANGED vars
    PROVE  CountersFit'
<1>1. CountersFit
  BY IndInvFits
<1>2. UNCHANGED <<pc, active, waiting, ready, idle, starting, external, helpers>>
  BY DEF WorkOwn, Tune, Monitor, MonitorStart, MonitorWake, MonitorSpin, MonitorSpun,
         SpuriousMonitorWakeup, vars
<1>3. QED
  BY <1>1, <1>2 DEF CountersFit

\* Every step keeps the counters exact.
LEMMA NextFits == IndInv /\ [Next]_vars => CountersFit'
<1> SUFFICES ASSUME IndInv, [Next]_vars PROVE CountersFit'
  OBVIOUS
<1>1. ASSUME NEW t \in Threads, ThreadStep(t) PROVE CountersFit'
  BY <1>1, SimpleMovesFit, NotifyingMovesFit, OtherStepsFit DEF ThreadStep
<1>2. ASSUME NEW h \in Helpers, HelperStep(h) PROVE CountersFit'
  BY <1>2, SimpleMovesFit, NotifyingMovesFit DEF HelperStep, Threads
<1>3. ASSUME NEW t \in Masters, ShutdownStep(t) PROVE CountersFit'
  BY <1>3, SimpleMovesFit, ShutdownNotifyFits DEF ShutdownStep, Threads
<1>4. QED
  BY <1>1, <1>2, <1>3, StartupFits, OtherStepsFit DEF Next, Terminated

-----------------------------------------------------------------------------
(***************************************************************************)
(* The inductive invariant.                                                *)
(***************************************************************************)
LEMMA MastersCount == init_active \in Nat /\ init_active >= 1
<1>1. init_active \in Nat /\ init_active # 0
  BY ThreadsAssumption, FS_CardinalityType, FS_EmptySet DEF init_active
<1>2. QED
  BY <1>1

\* The counters stay natural numbers because they count threads.
LEMMA TypeStep == IndInv /\ [Next]_vars => TypeOK'
<1> SUFFICES ASSUME IndInv, [Next]_vars PROVE TypeOK'
  OBVIOUS
<1>1. CountersFit'
  BY NextFits
<1>2. /\ helpers' \in Nat /\ active' \in Nat /\ idle' \in Nat /\ waiting' \in Nat
      /\ ready' \in Nat /\ starting' \in Nat /\ external' \in Nat
      /\ pc' \in [Threads -> ThreadStates]
  BY <1>1, CountNat DEF CountersFit, Fits, Placing
<1>3. /\ shutdown' \in BOOLEAN /\ max_active' \in Nat /\ queued' \in Nat
      /\ progressed' \in BOOLEAN /\ mon' \in MonitorStates
  <2> USE DEF IndInv, TypeOK, MonitorStates
  <2>1. CASE Startup
    BY <2>1, LimitsAssumption DEF Startup
  <2>2. ASSUME NEW t \in Threads, ThreadStep(t)
        PROVE  /\ shutdown' \in BOOLEAN /\ max_active' \in Nat /\ queued' \in Nat
               /\ progressed' \in BOOLEAN /\ mon' \in MonitorStates
    <3>1. CASE Push(t) \/ PushSnatched(t) \/ PushWake(t) \/ WorkOwn(t)
      BY <3>1 DEF Push, PushSnatched, PushWake, WorkOwn
    <3>2. CASE \E ext \in BOOLEAN : Deactivate(t, ext)
      BY <3>2 DEF Deactivate, NotifyMonitor
    <3>3. CASE Activate(t) \/ ReadyWake(t) \/ SpuriousWakeup(t) \/ Leave(t)
      BY <3>3 DEF Activate, ExternalLeft, ReadyWake, SpuriousWakeup, Leave
    <3>4. CASE \E n \in init_active .. MaxActive : Tune(t, n)
      BY <3>4, MastersCount, LimitsAssumption DEF Tune
    <3>5. QED
      BY <2>2, <3>1, <3>2, <3>3, <3>4 DEF ThreadStep
  <2>3. ASSUME NEW h \in Helpers, HelperStep(h)
        PROVE  /\ shutdown' \in BOOLEAN /\ max_active' \in Nat /\ queued' \in Nat
               /\ progressed' \in BOOLEAN /\ mon' \in MonitorStates
    BY <2>3 DEF HelperStep, HelperStart, HelperWake, HelperPop, HelperTaskDone,
                HelperScanned, HelperPass, HelperDone, NotifyMonitor
  <2>4. ASSUME NEW t \in Masters, ShutdownStep(t)
        PROVE  /\ shutdown' \in BOOLEAN /\ max_active' \in Nat /\ queued' \in Nat
               /\ progressed' \in BOOLEAN /\ mon' \in MonitorStates
    BY <2>4 DEF ShutdownStep, ShutdownBegin, ShutdownNotify, ShutdownJoin, ShutdownEnd,
                NotifyMonitor
  <2>5. CASE Monitor \/ SpuriousMonitorWakeup
    BY <2>5 DEF Monitor, MonitorStart, MonitorWake, MonitorSpin, MonitorSpun, MonitorLoop,
                SpuriousMonitorWakeup
  <2>6. CASE UNCHANGED vars
    BY <2>6 DEF vars
  <2>7. QED
    BY <2>1, <2>2, <2>3, <2>4, <2>5, <2>6 DEF Next, Terminated
<1>4. QED
  BY <1>2, <1>3 DEF TypeOK

\* Masters stay in the places of masters and helpers in those of helpers.
LEMMA PlacementStep == IndInv /\ [Next]_vars => Placement'
<1> SUFFICES ASSUME IndInv, [Next]_vars PROVE Placement'
  OBVIOUS
<1> USE DEF Placement, MasterStates, HelperStates, WaitingStates, ReadyStates, IdleStates
<1>p. Placement /\ pc \in [Threads -> ThreadStates]
  BY DEF IndInv, TypeOK
<1>1. CASE Startup
  BY <1>1, LimitsAssumption, MastersCount, ThreadsAssumption DEF Startup, Threads, init_active
<1>2. ASSUME NEW t \in Threads, ThreadStep(t)
      PROVE  Placement'
  <2>1. CASE Push(t) \/ PushSnatched(t)
    BY <1>p, <2>1 DEF Push, PushSnatched, Threads
  <2>2. CASE PushWake(t)
    BY <1>p, <2>2, ThreadsAssumption
       DEF PushWake, ActivateHelper, HelperAvailable, NotifyIdle, NotifyOne, Threads
  <2>3. ASSUME NEW ext \in BOOLEAN, Deactivate(t, ext)
        PROVE  Placement'
    BY <1>p, <2>3, ThreadsAssumption
       DEF Deactivate, ActivateHelper, HelperAvailable, NotifyIdle, NotifyReady, NotifyOne,
           Threads
  <2>4. CASE Activate(t) \/ ReadyWake(t) \/ SpuriousWakeup(t)
    BY <1>p, <2>4 DEF Activate, ExternalLeft, ReadyWake, SpuriousWakeup, Threads
  <2>5. CASE Leave(t) \/ WorkOwn(t)
    BY <1>p, <2>5, ThreadsAssumption DEF Leave, WorkOwn, Threads
  <2>6. CASE \E n \in init_active .. MaxActive : Tune(t, n)
    BY <1>p, <2>6 DEF Tune
  <2>7. QED
    BY <1>2, <2>1, <2>2, <2>3, <2>4, <2>5, <2>6 DEF ThreadStep
<1>3. ASSUME NEW h \in Helpers, HelperStep(h)
      PROVE  Placement'
  <2>1. CASE HelperStart(h) \/ HelperWake(h)
    BY <1>p, <2>1, ThreadsAssumption
       DEF HelperStart, HelperWake, HelperPass, HelperDone, NotifyReady, NotifyOne, Threads
  <2>2. CASE HelperScanned(h)
    BY <1>p, <2>2, ThreadsAssumption
       DEF HelperScanned, HelperDone, NotifyReady, NotifyOne, Threads
  <2>3. CASE HelperPop(h) \/ HelperTaskDone(h)
    BY <1>p, <2>3, ThreadsAssumption DEF HelperPop, HelperTaskDone, Threads
  <2>4. QED
    BY <1>3, <2>1, <2>2, <2>3 DEF HelperStep
<1>4. ASSUME NEW t \in Masters, ShutdownStep(t)
      PROVE  Placement'
  <2>1. CASE ShutdownBegin(t)
    BY <1>p, <2>1, ThreadsAssumption DEF ShutdownBegin, Threads
  <2>2. CASE ShutdownNotify(t)
    BY <1>p, <2>2, ThreadsAssumption DEF ShutdownNotify, Woken, Threads
  <2>3. CASE ShutdownJoin(t)
    <3>1. \A h \in Helpers : pc[h] = "none"
      <4>1. Cardinality(Sel(Helpers, pc, Created)) = 0
        BY <2>3, IndInvFits DEF ShutdownJoin, CountersFit, Fits, HelperCount
      <4>2. Sel(Helpers, pc, Created) = {}
        BY <4>1, SelFinite, ThreadsFinite
      <4>3. QED
        BY <1>p, <4>2 DEF Sel, Created, Threads
    <3>2. QED
      BY <1>p, <2>3, <3>1, ThreadsAssumption DEF ShutdownJoin, Threads
  <2>4. CASE ShutdownEnd(t)
    BY <1>p, <2>4, ThreadsAssumption DEF ShutdownEnd, Threads
  <2>5. QED
    BY <1>4, <2>1, <2>2, <2>3, <2>4 DEF ShutdownStep
<1>5. CASE Monitor \/ SpuriousMonitorWakeup \/ UNCHANGED vars
  BY <1>p, <1>5 DEF Monitor, MonitorStart, MonitorWake, MonitorSpin, MonitorSpun,
                    SpuriousMonitorWakeup, vars
<1>6. QED
  BY <1>1, <1>2, <1>3, <1>4, <1>5 DEF Next, Terminated

\* The invariant holds initially.
LEMMA InitInv == Init => IndInv
<1> SUFFICES ASSUME Init PROVE IndInv
  OBVIOUS
<1>1. TypeOK
  BY AllStates DEF Init, TypeOK, MonitorStates
<1>2. Placement
  BY DEF Init, Placement, MasterStates, HelperStates, Threads
<1>3. Accounting
  <2>1. /\ In(ActiveStates) = {} /\ In(WaitingStates) = {} /\ In(ReadyStates) = {}
        /\ In(IdleStates) = {} /\ In({"starting"}) = {} /\ In({"external"}) = {}
    BY DEF Init, In, ActiveStates, WaitingStates, ReadyStates, IdleStates
  <2>2. {h \in Helpers : pc[h] # "none"} = {}
    BY DEF Init, Threads
  <2>3. QED
    BY <2>1, <2>2, FS_EmptySet DEF Init, Accounting
<1>4. QED
  BY <1>1, <1>2, <1>3 DEF IndInv

\* Every step keeps the invariant.
LEMMA IndInvStep == IndInv /\ [Next]_vars => IndInv'
<1> SUFFICES ASSUME IndInv, [Next]_vars PROVE IndInv'
  OBVIOUS
<1>1. CountersFit' /\ TypeOK' /\ Placement'
  BY NextFits, TypeStep, PlacementStep
<1>2. Accounting'
  BY <1>1, AccountingFits DEF CountersFit, Fits
<1>3. QED
  BY <1>1, <1>2 DEF IndInv

\* The counters, the places and the limits are right in every reachable
\* state, whatever the number of threads.
THEOREM Invariance == Spec => []IndInv
BY InitInv, IndInvStep, PTL DEF Spec

\* Every variable keeps its type; no counter is ever decremented below zero.
THEOREM TypeCorrect == Spec => []TypeOK
<1>1. IndInv => TypeOK
  BY DEF IndInv
<1>2. QED
  BY <1>1, Invariance, PTL

\* The counters of scheduler.hxx account for every thread: for any number of
\* masters and helpers each equals the number of threads in that state.
THEOREM AccountingCorrect == Spec => []Accounting
<1>1. IndInv => Accounting
  BY DEF IndInv
<1>2. QED
  BY <1>1, Invariance, PTL

-----------------------------------------------------------------------------
(***************************************************************************)
(* The limit on active threads.                                            *)
(***************************************************************************)
LEMMA ActiveBoundStep == IndInv /\ ActiveBound /\ [Next]_vars => ActiveBound'
<1> SUFFICES ASSUME IndInv, ActiveBound, [Next]_vars PROVE ActiveBound'
  OBVIOUS
<1> USE DEF ActiveBound
<1>p. active \in Nat /\ max_active \in Nat /\ shutdown \in BOOLEAN
  BY DEF IndInv, TypeOK
<1>1. CASE Startup
  BY <1>1, LimitsAssumption DEF Startup, init_active
<1>2. ASSUME NEW t \in Threads, ThreadStep(t)
      PROVE  ActiveBound'
  <2>1. CASE Push(t) \/ PushSnatched(t) \/ PushWake(t) \/ WorkOwn(t) \/ SpuriousWakeup(t)
             \/ Leave(t)
    BY <1>p, <2>1 DEF Push, PushSnatched, PushWake, WorkOwn, SpuriousWakeup, Leave
  <2>2. CASE \E ext \in BOOLEAN : Deactivate(t, ext)
    BY <1>p, <2>2 DEF Deactivate
  <2>3. CASE Activate(t) \/ ReadyWake(t)
    BY <1>p, <2>3 DEF Activate, ExternalLeft, ReadyWake, MayBecomeActive
  <2>4. CASE \E n \in init_active .. MaxActive : Tune(t, n)
    BY <1>p, <2>4, MastersCount, LimitsAssumption DEF Tune
  <2>5. QED
    BY <1>2, <2>1, <2>2, <2>3, <2>4 DEF ThreadStep
<1>3. ASSUME NEW h \in Helpers, HelperStep(h)
      PROVE  ActiveBound'
  BY <1>p, <1>3 DEF HelperStep, HelperStart, HelperWake, HelperPass, HelperPop, HelperTaskDone,
                    HelperScanned
<1>4. ASSUME NEW t \in Masters, ShutdownStep(t)
      PROVE  ActiveBound'
  BY <1>p, <1>4 DEF ShutdownStep, ShutdownBegin, ShutdownNotify, ShutdownJoin, ShutdownEnd
<1>5. CASE Monitor \/ SpuriousMonitorWakeup \/ UNCHANGED vars
  BY <1>5 DEF Monitor, MonitorStart, MonitorWake, MonitorSpin, MonitorSpun,
              SpuriousMonitorWakeup, vars
<1>6. QED
  BY <1>1, <1>2, <1>3, <1>4, <1>5 DEF Next, Terminated

\* active <= max_active for any number of threads and any sequence of
\* suspensions, wake-ups and tunings, until shutdown() begins.
THEOREM ActiveBoundCorrect == Spec => []ActiveBound
<1>1. Init => ActiveBound
  BY DEF Init, ActiveBound
<1>2. QED
  BY <1>1, ActiveBoundStep, Invariance, PTL DEF Spec

-----------------------------------------------------------------------------
(***************************************************************************)
(* Notifications are not lost.                                             *)
(***************************************************************************)

\* Somebody is counted as ready (idle): a notification finds a sleeper, or
\* another one has been released before.
LEMMA ReadyPends ==
    ASSUME IndInv, ready # 0, NEW t \in Threads, NEW z, pc[t] \notin ReadyStates,
           NotifyReady([pc EXCEPT ![t] = z])
    PROVE  \E u \in Threads : pc'[u] = "ready_woken"
<1>1. CountersFit /\ pc \in Placing
  BY IndInvFits
<1>2. PICK u \in Threads : pc[u] \in ReadyStates
  BY <1>1, CountZero DEF CountersFit, Fits
<1>3. u # t /\ (pc[u] = "ready" \/ pc[u] = "ready_woken")
  BY <1>2 DEF ReadyStates
<1>4. QED
  BY <1>1, <1>3 DEF NotifyReady, NotifyOne, Placing

\* The notification of an idle helper leaves one on its way to work.
LEMMA IdlePends ==
    ASSUME IndInv, idle # 0, NEW t \in Threads, NEW z, pc[t] \notin IdleStates,
           NotifyIdle([pc EXCEPT ![t] = z])
    PROVE  \E u \in Threads : pc'[u] = "idle_woken"
<1>1. CountersFit /\ pc \in Placing
  BY IndInvFits
<1>2. PICK u \in Threads : pc[u] \in IdleStates
  BY <1>1, CountZero DEF CountersFit, Fits
<1>3. u # t /\ (pc[u] = "idle" \/ pc[u] = "idle_woken")
  BY <1>2 DEF IdleStates
<1>4. QED
  BY <1>1, <1>3 DEF NotifyIdle, NotifyOne, Placing

\* activate_helper() leaves a helper on its way to work.
LEMMA HelperPends ==
    ASSUME IndInv, NEW t \in Threads, NEW z, pc[t] \notin IdleStates, pc[t] # "none",
           ActivateHelper([pc EXCEPT ![t] = z])
    PROVE  \E u \in Threads : pc'[u] \in {"starting", "idle_woken"}
<1>1. CASE idle # 0 /\ NotifyIdle([pc EXCEPT ![t] = z])
  BY <1>1, IdlePends
<1>2. ASSUME NEW h \in Helpers, pc' = [[pc EXCEPT ![t] = z] EXCEPT ![h] = "starting"]
      PROVE  \E u \in Threads : pc'[u] \in {"starting", "idle_woken"}
  <2>1. pc'[h] = "starting" /\ h \in Threads
    BY <1>2 DEF IndInv, TypeOK, Threads
  <2>2. QED
    BY <2>1
<1>3. QED
  BY <1>1, <1>2 DEF ActivateHelper

\* A thread in an active place means that active_ is not zero.
LEMMA SomebodyActive ==
    /\ IndInv => \A t \in Threads : pc[t] \in ActiveStates => active # 0
    /\ IndInv' => \A t \in Threads : pc'[t] \in ActiveStates => active' # 0
<1>1. IndInv => \A t \in Threads : pc[t] \in ActiveStates => active # 0
  BY IndInvFits, CountZero DEF CountersFit, Fits
<1>2. IndInv' => active' = Count(pc', ActiveStates)
  BY DEF IndInv, Accounting, In, Count, Sel
<1>3. QED
  BY <1>1, <1>2, CountZero

\* Somebody is on the way to take mutex_, in the next state.
Coming == \E u \in Threads : pc[u] \in {"starting", "idle_woken", "ready_woken"}

\* Somebody is coming exactly when a wakeup or a start is pending.
LEMMA ComingPending == (Coming <=> Pending # {}) /\ (Coming' <=> Pending' # {})
BY DEF Coming, Pending, In

\* No step strands queued work.
LEMMA NoStrandedWorkStep ==
    IndInv /\ IndInv' /\ NoStrandedWork /\ [Next]_vars => NoStrandedWork'
<1> SUFFICES ASSUME IndInv, IndInv', NoStrandedWork, [Next]_vars,
                    ~shutdown', queued' # 0, active' = 0
             PROVE  Coming'
  BY ComingPending DEF NoStrandedWork
<1>p. /\ active \in Nat /\ max_active \in Nat /\ pc \in [Threads -> ThreadStates]
      /\ (~shutdown => max_active >= 1)
  BY MastersCount, LimitsAssumption DEF IndInv, TypeOK, Placement
<1>a. ASSUME NEW t \in Threads, pc'[t] \in ActiveStates
      PROVE  FALSE
  BY <1>a, SomebodyActive
<1>h. active = 0 /\ ~shutdown /\ queued # 0 => Coming
  BY ComingPending DEF NoStrandedWork
<1>1. CASE Startup
  BY <1>1 DEF Startup
<1>2. ASSUME NEW t \in Threads, ThreadStep(t)
      PROVE  Coming'
  <2>1. CASE Push(t) \/ PushSnatched(t) \/ Leave(t)
    <3>1. pc'[t] \in ActiveStates
      BY <1>p, <2>1 DEF Push, PushSnatched, Leave, ActiveStates
    <3>2. QED
      BY <1>a, <3>1
  <2>2. CASE PushWake(t) \/ WorkOwn(t)
    <3>1. active = 0 /\ pc[t] \in ActiveStates
      BY <2>2 DEF PushWake, WorkOwn, ActiveStates
    <3>2. QED
      BY <3>1, SomebodyActive
  <2>3. ASSUME NEW ext \in BOOLEAN, Deactivate(t, ext)
        PROVE  Coming'
    <3> DEFINE z == IF ext THEN "external" ELSE "waiting"
    <3>0. /\ pc[t] = "active" /\ pc[t] \notin ReadyStates /\ pc[t] \notin IdleStates
          /\ active - 1 = 0 /\ ~shutdown /\ queued # 0
      BY <2>3 DEF Deactivate, ReadyStates, IdleStates
    <3>1. CASE ready # 0 /\ NotifyReady([pc EXCEPT ![t] = z])
      BY <3>0, <3>1, ReadyPends DEF Coming
    <3>2. CASE ActivateHelper([pc EXCEPT ![t] = z])
      BY <3>0, <3>2, HelperPends DEF Coming
    <3>3. HelperAvailable(active - 1)
      BY <3>0 DEF HelperAvailable
    <3>4. QED
      BY <2>3, <3>0, <3>1, <3>2, <3>3 DEF Deactivate
  <2>4. CASE Activate(t) \/ ReadyWake(t)
    <3>1. CASE MayBecomeActive
      <4>1. pc'[t] \in ActiveStates
        BY <1>p, <2>4, <3>1 DEF Activate, ExternalLeft, ReadyWake, ActiveStates
      <4>2. QED
        BY <1>a, <4>1
    <3>2. CASE ~MayBecomeActive
      BY <1>p, <2>4, <3>2 DEF Activate, ExternalLeft, ReadyWake, MayBecomeActive
    <3>3. QED
      BY <3>1, <3>2
  <2>5. CASE SpuriousWakeup(t)
    BY <1>p, <2>5 DEF SpuriousWakeup, Coming
  <2>6. CASE \E n \in init_active .. MaxActive : Tune(t, n)
    BY <2>6 DEF Tune
  <2>7. QED
    BY <1>2, <2>1, <2>2, <2>3, <2>4, <2>5, <2>6 DEF ThreadStep
<1>3. ASSUME NEW h \in Helpers, HelperStep(h)
      PROVE  Coming'
  <2>0. h \in Threads
    BY DEF Threads
  <2>1. CASE HelperStart(h) \/ HelperWake(h)
    <3>1. queued # 0 /\ ~shutdown
      BY <2>1 DEF HelperStart, HelperWake
    <3>2. CASE active < max_active
      <4>1. pc'[h] \in ActiveStates
        BY <1>p, <2>0, <2>1, <3>1, <3>2 DEF HelperStart, HelperWake, HelperPass, ActiveStates
      <4>2. QED
        BY <1>a, <2>0, <4>1
    <3>3. CASE ~(active < max_active)
      <4>1. active' = active
        BY <1>p, <2>1, <3>1, <3>3 DEF HelperStart, HelperWake, HelperPass
      <4>2. QED
        BY <1>p, <3>1, <3>3, <4>1
    <3>4. QED
      BY <3>2, <3>3
  <2>2. CASE HelperScanned(h)
    BY <2>2 DEF HelperScanned
  <2>3. CASE HelperPop(h) \/ HelperTaskDone(h)
    <3>1. pc'[h] \in ActiveStates
      BY <1>p, <2>0, <2>3 DEF HelperPop, HelperTaskDone, ActiveStates
    <3>2. QED
      BY <1>a, <2>0, <3>1
  <2>4. QED
    BY <1>3, <2>1, <2>2, <2>3 DEF HelperStep
<1>4. ASSUME NEW t \in Masters, ShutdownStep(t)
      PROVE  Coming'
  <2>0. t \in Threads
    BY DEF Threads
  <2>1. CASE ShutdownBegin(t)
    BY <2>1 DEF ShutdownBegin
  <2>2. CASE ShutdownNotify(t) \/ ShutdownJoin(t) \/ ShutdownEnd(t)
    <3>1. active = 0 /\ pc[t] \in ActiveStates
      BY <2>2 DEF ShutdownNotify, ShutdownJoin, ShutdownEnd, ActiveStates
    <3>2. QED
      BY <2>0, <3>1, SomebodyActive
  <2>3. QED
    BY <1>4, <2>1, <2>2 DEF ShutdownStep
<1>5. CASE Monitor \/ SpuriousMonitorWakeup \/ UNCHANGED vars
  <2>1. UNCHANGED <<pc, active, shutdown, queued>>
    BY <1>5 DEF Monitor, MonitorStart, MonitorWake, MonitorSpin, MonitorSpun,
                SpuriousMonitorWakeup, vars
  <2>2. QED
    BY <1>h, <2>1 DEF Coming
<1>6. QED
  BY <1>1, <1>2, <1>3, <1>4, <1>5 DEF Next, Terminated

\* Tasks in the queues always have a thread that runs or is about to, also at
\* the max_threads limit and however the suspensions interleave.
THEOREM NoStrandedWorkCorrect == Spec => []NoStrandedWork
<1>1. Init => NoStrandedWork
  BY DEF Init, NoStrandedWork
<1>2. QED
  BY <1>1, NoStrandedWorkStep, Invariance, PTL DEF Spec

-----------------------------------------------------------------------------
(***************************************************************************)
(* The deadlock monitor, once it has reached its first wait.               *)
(***************************************************************************)
MonitorUp == LateMonitor \/ mon # "start"

\* The monitor thread does not go back to its start.
LEMMA MonitorUpStep == MonitorUp /\ [Next]_vars => MonitorUp'
BY DEF MonitorUp, Next, vars, Terminated, Startup, ThreadStep, HelperStep, ShutdownStep, Monitor,
       SpuriousMonitorWakeup, Push, PushSnatched, PushWake, WorkOwn, Deactivate, Activate,
       ReadyWake, SpuriousWakeup, Tune, Leave, HelperStart, HelperWake, HelperPass, HelperDone,
       HelperPop, HelperTaskDone, HelperScanned, ShutdownBegin, ShutdownNotify, ShutdownJoin,
       ShutdownEnd, NotifyMonitor, MonitorStart, MonitorWake, MonitorSpin, MonitorSpun, MonitorLoop

\* No step leaves everybody waiting without a notification of the monitor.
LEMMA MonitorStep ==
    ~LateMonitor /\ IndInv /\ IndInv' /\ MonitorUp /\ MonitorNotMissed /\ [Next]_vars
      => MonitorNotMissed'
<1> SUFFICES ASSUME ~LateMonitor, IndInv, IndInv', MonitorUp, MonitorNotMissed, [Next]_vars,
                    mon' = "waiting", ~shutdown', active' = 0, external' = 0
             PROVE  Coming'
  BY ComingPending DEF MonitorNotMissed
<1>p. /\ active \in Nat /\ max_active \in Nat /\ pc \in [Threads -> ThreadStates]
      /\ (~shutdown => max_active >= 1)
  BY MastersCount, LimitsAssumption DEF IndInv, TypeOK, Placement
<1>a. ASSUME NEW t \in Threads, pc'[t] \in ActiveStates
      PROVE  FALSE
  BY <1>a, SomebodyActive
<1>b. ASSUME NEW t \in Threads, pc[t] \in ActiveStates, active = 0
      PROVE  FALSE
  BY <1>b, SomebodyActive
<1>h. mon = "waiting" /\ active = 0 /\ external = 0 /\ ~shutdown => Coming
  BY ComingPending DEF MonitorNotMissed
<1>1. CASE Startup
  BY <1>1, MastersCount DEF Startup
<1>2. ASSUME NEW t \in Threads, ThreadStep(t)
      PROVE  Coming'
  <2>1. CASE Push(t) \/ PushSnatched(t) \/ PushWake(t) \/ WorkOwn(t) \/ Leave(t)
    <3>1. active = 0 /\ pc[t] \in ActiveStates
      BY <2>1 DEF Push, PushSnatched, Leave, PushWake, WorkOwn, ActiveStates
    <3>2. QED
      BY <1>b, <3>1
  <2>3. ASSUME NEW ext \in BOOLEAN, Deactivate(t, ext)
        PROVE  Coming'
    <3> DEFINE z == IF ext THEN "external" ELSE "waiting"
    <3>0. /\ pc[t] = "active" /\ pc[t] \notin ReadyStates /\ pc[t] \notin IdleStates
      BY <2>3 DEF Deactivate, ReadyStates, IdleStates
    <3>1. CASE ready # 0 /\ NotifyReady([pc EXCEPT ![t] = z])
      BY <3>0, <3>1, ReadyPends DEF Coming
    <3>2. CASE ActivateHelper([pc EXCEPT ![t] = z])
      BY <3>0, <3>2, HelperPends DEF Coming
    <3>3. CASE NotifyMonitor
      BY <3>3 DEF NotifyMonitor
    <3>4. QED
      BY <2>3, <3>1, <3>2, <3>3 DEF Deactivate
  <2>4. CASE Activate(t) \/ ReadyWake(t)
    <3>1. CASE MayBecomeActive
      <4>1. pc'[t] \in ActiveStates
        BY <1>p, <2>4, <3>1 DEF Activate, ExternalLeft, ReadyWake, ActiveStates
      <4>2. QED
        BY <1>a, <4>1
    <3>2. CASE ~MayBecomeActive
      BY <1>p, <2>4, <3>2 DEF Activate, ExternalLeft, ReadyWake, MayBecomeActive
    <3>3. QED
      BY <3>1, <3>2
  <2>5. CASE SpuriousWakeup(t)
    BY <1>p, <2>5 DEF SpuriousWakeup, Coming
  <2>6. CASE \E n \in init_active .. MaxActive : Tune(t, n)
    <3>1. active = 0 /\ pc[t] \in ActiveStates
      BY <2>6 DEF Tune, ActiveStates
    <3>2. QED
      BY <1>b, <3>1
  <2>7. QED
    BY <1>2, <2>1, <2>3, <2>4, <2>5, <2>6 DEF ThreadStep
<1>3. ASSUME NEW h \in Helpers, HelperStep(h)
      PROVE  Coming'
  <2>0. h \in Threads
    BY DEF Threads
  <2>d. ASSUME pc[h] \notin ReadyStates, HelperDone(0, [pc EXCEPT ![h] = "idle"]), external = 0
        PROVE  Coming'
    <3>1. CASE ready # 0 /\ NotifyReady([pc EXCEPT ![h] = "idle"])
      BY <2>0, <2>d, <3>1, ReadyPends DEF Coming
    <3>2. CASE NotifyMonitor
      BY <3>2 DEF NotifyMonitor
    <3>3. QED
      BY <2>d, <3>1, <3>2 DEF HelperDone
  <2>1. CASE HelperStart(h) \/ HelperWake(h)
    <3>1. ~shutdown /\ external = 0
      BY <2>1 DEF HelperStart, HelperWake
    <3>2. CASE active < max_active /\ queued # 0
      <4>1. pc'[h] \in ActiveStates
        BY <1>p, <2>0, <2>1, <3>1, <3>2 DEF HelperStart, HelperWake, HelperPass, ActiveStates
      <4>2. QED
        BY <1>a, <2>0, <4>1
    <3>3. CASE active < max_active /\ queued = 0
      <4>1. pc[h] \notin ReadyStates /\ active' = active
            /\ HelperDone(active, [pc EXCEPT ![h] = "idle"])
        BY <1>p, <2>1, <3>1, <3>3 DEF HelperStart, HelperWake, HelperPass, ReadyStates
      <4>2. QED
        BY <2>d, <3>1, <4>1
    <3>4. CASE ~(active < max_active)
      <4>1. active' = active
        BY <1>p, <2>1, <3>1, <3>4 DEF HelperStart, HelperWake, HelperPass
      <4>2. QED
        BY <1>p, <3>1, <3>4, <4>1
    <3>5. QED
      BY <3>2, <3>3, <3>4
  <2>2. CASE HelperScanned(h)
    <3>1. /\ pc[h] \notin ReadyStates /\ active' = active - 1 /\ external = 0
          /\ HelperDone(active - 1, [pc EXCEPT ![h] = "idle"])
      BY <2>2 DEF HelperScanned, ReadyStates
    <3>2. QED
      BY <2>d, <3>1
  <2>3. CASE HelperPop(h) \/ HelperTaskDone(h)
    <3>1. pc'[h] \in ActiveStates
      BY <1>p, <2>0, <2>3 DEF HelperPop, HelperTaskDone, ActiveStates
    <3>2. QED
      BY <1>a, <2>0, <3>1
  <2>4. QED
    BY <1>3, <2>1, <2>2, <2>3 DEF HelperStep
<1>4. ASSUME NEW t \in Masters, ShutdownStep(t)
      PROVE  Coming'
  <2>0. t \in Threads
    BY DEF Threads
  <2>1. active = 0 /\ pc[t] \in ActiveStates
    BY <1>4 DEF ShutdownStep, ShutdownBegin, ShutdownNotify, ShutdownJoin, ShutdownEnd, ActiveStates
  <2>2. QED
    BY <1>b, <2>0, <2>1
<1>5. CASE Monitor
  <2>1. UNCHANGED <<pc, active, shutdown, external>>
    BY <1>5 DEF Monitor, MonitorStart, MonitorWake, MonitorSpin, MonitorSpun
  <2>2. QED
    BY <1>5, <2>1 DEF Monitor, MonitorStart, MonitorWake, MonitorSpin, MonitorSpun, MonitorLoop,
                      MonitorUp, DeadlockSuspected
<1>6. CASE SpuriousMonitorWakeup
  BY <1>6 DEF SpuriousMonitorWakeup
<1>7. CASE UNCHANGED vars
  BY <1>7, <1>h DEF vars, Coming
<1>8. QED
  BY <1>1, <1>2, <1>3, <1>4, <1>5, <1>6, <1>7 DEF Next, Terminated

\* If the monitor has reached its first wait before the work begins, it never
\* sleeps through a state in which nobody is active and nobody is about to be:
\* neither deactivate() nor helper() forgets to notify it.
THEOREM MonitorNotMissedCorrect == ASSUME ~LateMonitor PROVE Spec => []MonitorNotMissed
<1>1. Init => MonitorUp /\ MonitorNotMissed
  BY DEF Init, MonitorUp, MonitorNotMissed
<1>2. QED
  BY <1>1, MonitorUpStep, MonitorStep, Invariance, PTL DEF Spec

-----------------------------------------------------------------------------
(***************************************************************************)
(* Free slots and the ready queue.                                         *)
(***************************************************************************)
Sleeper(p) == \E u \in Threads : p[u] = "ready"

Served(p, a, m) == Sleeper(p) => m <= a + Count(p, {"ready_woken"})

\* ReadyNotStranded in terms of the placement, now and after a step.
LEMMA ServedNow ==
    /\ ReadyNotStranded <=> Served(pc, active, max_active)
    /\ ReadyNotStranded' <=> Served(pc', active', max_active')
BY DEF ReadyNotStranded, Served, Sleeper, Count, Sel, In

\* notify_one() makes up for one slot that has become free.
LEMMA NotifyServes ==
    ASSUME NEW p \in Placing, NEW a \in Nat, NEW m \in Nat, NotifyReady(p),
           Sleeper(p) => m <= a + 1 + Count(p, {"ready_woken"})
    PROVE  Served(pc', a, m)
<1>1. CASE (\A t \in Threads : p[t] # "ready") /\ pc' = p
  BY <1>1 DEF Served, Sleeper
<1>2. ASSUME NEW u \in Threads, p[u] = "ready", pc' = [p EXCEPT ![u] = "ready_woken"]
      PROVE  Served(pc', a, m)
  <2>1. Moved(p, pc', u, "ready", "ready_woken")
    BY <1>2, MoveCounts, AllStates
  <2>2. Count(p, {"ready_woken"}) \in Nat
    BY CountNat
  <2>3. Count(pc', {"ready_woken"}) = Count(p, {"ready_woken"}) + 1
    BY <2>1, <2>2 DEF Moved, Shifted
  <2>4. Sleeper(p)
    BY <1>2 DEF Sleeper
  <2>5. QED
    BY <2>2, <2>3, <2>4 DEF Served
<1>3. QED
  BY <1>1, <1>2 DEF NotifyReady, NotifyOne

\* So does any step that touches no ready thread and frees no slot.
LEMMA MoveServes ==
    ASSUME NEW p \in Placing, NEW t \in Threads, NEW z \in ThreadStates, NEW q,
           q = [p EXCEPT ![t] = z], z \notin ReadyStates, p[t] \notin ReadyStates
    PROVE  /\ q \in Placing
           /\ Sleeper(q) <=> Sleeper(p)
           /\ Count(q, {"ready_woken"}) = Count(p, {"ready_woken"})
           /\ Count(p, {"ready_woken"}) \in Nat
<1>1. Moved(p, q, t, p[t], z)
  BY MoveCounts
<1>2. Count(p, {"ready_woken"}) \in Nat
  BY CountNat
<1>3. Count(q, {"ready_woken"}) = Count(p, {"ready_woken"})
  BY <1>1, <1>2 DEF Moved, Shifted, ReadyStates
<1>4. Sleeper(q) <=> Sleeper(p)
  BY DEF Sleeper, ReadyStates, Placing
<1>5. QED
  BY <1>1, <1>2, <1>3, <1>4 DEF Moved

\* Nobody is counted as ready: nobody sleeps on ready_condv_.
LEMMA NoneReady == IndInv /\ ready = 0 => ~Sleeper(pc)
BY IndInvFits, CountZero DEF CountersFit, Fits, Sleeper, ReadyStates

\* Notifying or creating a helper touches no ready thread.
LEMMA ActivateHelperServes ==
    ASSUME NEW p \in Placing, NEW a \in Nat, NEW m \in Nat, ActivateHelper(p), Served(p, a, m)
    PROVE  Served(pc', a, m)
<1>1. CASE pc' = p
  BY <1>1
<1>2. ASSUME NEW u \in Threads, p[u] = "idle", pc' = [p EXCEPT ![u] = "idle_woken"]
      PROVE  Served(pc', a, m)
  <2>1. p[u] \notin ReadyStates /\ "idle_woken" \notin ReadyStates /\ "idle_woken" \in ThreadStates
    BY <1>2, AllStates DEF ReadyStates
  <2>2. QED
    BY <1>2, <2>1, MoveServes DEF Served
<1>3. ASSUME NEW u \in Helpers, p[u] = "none", pc' = [p EXCEPT ![u] = "starting"]
      PROVE  Served(pc', a, m)
  <2>1. /\ p[u] \notin ReadyStates /\ "starting" \notin ReadyStates /\ "starting" \in ThreadStates
        /\ u \in Threads
    BY <1>3, AllStates DEF ReadyStates, Threads
  <2>2. QED
    BY <1>3, <2>1, MoveServes DEF Served
<1>4. QED
  BY <1>1, <1>2, <1>3 DEF ActivateHelper, NotifyIdle, NotifyOne

\* No step strands a ready thread.
LEMMA ReadyNotStrandedStep ==
    IndInv /\ IndInv' /\ ReadyNotStranded /\ [Next]_vars => ReadyNotStranded'
<1> SUFFICES ASSUME IndInv, IndInv', Served(pc, active, max_active), [Next]_vars
             PROVE  Served(pc', active', max_active')
  BY ServedNow
<1>p. /\ active \in Nat /\ max_active \in Nat /\ pc \in Placing
      /\ active' \in Nat /\ max_active' \in Nat
      /\ Count(pc, {"ready_woken"}) \in Nat
  BY CountNat DEF IndInv, TypeOK, Placing
<1>m. ASSUME NEW t \in Threads, NEW z \in ThreadStates, pc' = [pc EXCEPT ![t] = z],
             z \notin ReadyStates, pc[t] \notin ReadyStates,
             active' >= active, max_active' = max_active
      PROVE  Served(pc', active', max_active')
  <2>1. /\ Sleeper(pc') <=> Sleeper(pc)
        /\ Count(pc', {"ready_woken"}) = Count(pc, {"ready_woken"})
    BY <1>m, <1>p, MoveServes
  <2>2. QED
    BY <1>m, <1>p, <2>1 DEF Served
<1>u. ASSUME UNCHANGED <<pc, active, max_active>>
      PROVE  Served(pc', active', max_active')
  BY <1>u
<1>1. CASE Startup
  BY <1>1 DEF Startup, Served, Sleeper
<1>2. ASSUME NEW t \in Threads, ThreadStep(t)
      PROVE  Served(pc', active', max_active')
  <2>1. CASE Push(t) \/ PushSnatched(t) \/ Leave(t)
    BY <1>m, <1>p, <2>1, AllStates DEF Push, PushSnatched, Leave, ReadyStates
  <2>2. CASE PushWake(t)
    <3> DEFINE p == [pc EXCEPT ![t] = "active"]
    <3>1. pc[t] \notin ReadyStates /\ "active" \notin ReadyStates /\ "active" \in ThreadStates
      BY <2>2, AllStates DEF PushWake, ReadyStates
    <3>2. p \in Placing /\ Served(p, active, max_active)
      BY <1>p, <3>1, MoveServes DEF Served
    <3>3. QED
      BY <1>p, <2>2, <3>2, ActivateHelperServes DEF PushWake
  <2>3. ASSUME NEW ext \in BOOLEAN, Deactivate(t, ext)
        PROVE  Served(pc', active', max_active')
    <3> DEFINE z == IF ext THEN "external" ELSE "waiting"
               p == [pc EXCEPT ![t] = z]
    <3>1. /\ pc[t] \notin ReadyStates /\ z \notin ReadyStates /\ z \in ThreadStates
          /\ active' = active - 1 /\ max_active' = max_active
      BY <2>3, AllStates DEF Deactivate, ReadyStates
    <3>2. /\ p \in Placing /\ (Sleeper(p) <=> Sleeper(pc))
          /\ Count(p, {"ready_woken"}) = Count(pc, {"ready_woken"})
      BY <1>p, <3>1, MoveServes
    <3>3. CASE NotifyReady(p)
      <4>1. Sleeper(p) => max_active <= active' + 1 + Count(p, {"ready_woken"})
        BY <1>p, <3>1, <3>2 DEF Served
      <4>2. QED
        BY <1>p, <3>1, <3>2, <3>3, <4>1, NotifyServes
    <3>4. CASE ready = 0
      <4>1. Served(p, active', max_active')
        BY <3>2, <3>4, NoneReady DEF Served
      <4>2. QED
        BY <1>p, <2>3, <3>2, <3>4, <4>1, ActivateHelperServes DEF Deactivate
    <3>5. QED
      BY <2>3, <3>3, <3>4 DEF Deactivate
  <2>4. CASE Activate(t)
    <3>1. CASE MayBecomeActive
      BY <1>m, <1>p, <2>4, <3>1, AllStates DEF Activate, ExternalLeft, ReadyStates, WaitingStates
    <3>2. CASE ~MayBecomeActive
      <4>1. max_active <= active /\ active' = active /\ max_active' = max_active
        BY <1>p, <2>4, <3>2 DEF Activate, ExternalLeft, MayBecomeActive
      <4>2. Count(pc', {"ready_woken"}) \in Nat
        BY CountNat
      <4>3. QED
        BY <1>p, <4>1, <4>2 DEF Served
    <3>3. QED
      BY <3>1, <3>2
  <2>5. CASE ReadyWake(t)
    <3>1. Count(pc', {"ready_woken"}) \in Nat
      BY CountNat
    <3>2. CASE MayBecomeActive
      <4>0. /\ pc[t] = "ready_woken" /\ pc' = [pc EXCEPT ![t] = "active"]
            /\ active' = active + 1 /\ max_active' = max_active
            /\ "active" \in ThreadStates
        BY <2>5, <3>2, AllStates DEF ReadyWake
      <4>s. Sleeper(pc') <=> Sleeper(pc)
        BY <1>p, <4>0 DEF Sleeper, Placing
      <4>1. Moved(pc, pc', t, "ready_woken", "active")
        BY <1>p, <4>0, MoveCounts
      <4>2. Count(pc', {"ready_woken"}) = Count(pc, {"ready_woken"}) - 1
        BY <1>p, <4>1 DEF Moved, Shifted
      <4>3. QED
        BY <1>p, <3>1, <4>0, <4>s, <4>2 DEF Served
    <3>3. CASE ~MayBecomeActive
      <4>1. max_active <= active /\ active' = active /\ max_active' = max_active
        BY <1>p, <2>5, <3>3 DEF ReadyWake, MayBecomeActive
      <4>2. QED
        BY <1>p, <3>1, <4>1 DEF Served
    <3>4. QED
      BY <3>2, <3>3
  <2>6. CASE SpuriousWakeup(t)
    <3>1. CASE pc[t] = "idle" /\ pc' = [pc EXCEPT ![t] = "idle_woken"]
      <4>1. /\ pc[t] \notin ReadyStates /\ "idle_woken" \notin ReadyStates
            /\ "idle_woken" \in ThreadStates
        BY <3>1, AllStates DEF ReadyStates
      <4>2. active' >= active /\ max_active' = max_active
        BY <1>p, <2>6 DEF SpuriousWakeup
      <4>3. QED
        BY <1>m, <3>1, <4>1, <4>2
    <3>2. CASE pc[t] = "ready" /\ pc' = [pc EXCEPT ![t] = "ready_woken"]
      <4>0. /\ Sleeper(pc) /\ active' = active /\ max_active' = max_active
            /\ "ready_woken" \in ThreadStates
        BY <2>6, <3>2, AllStates DEF SpuriousWakeup, Sleeper
      <4>1. Moved(pc, pc', t, "ready", "ready_woken")
        BY <1>p, <3>2, <4>0, MoveCounts
      <4>2. Count(pc', {"ready_woken"}) = Count(pc, {"ready_woken"}) + 1
        BY <1>p, <4>1 DEF Moved, Shifted
      <4>3. QED
        BY <1>p, <4>0, <4>2 DEF Served
    <3>3. QED
      BY <2>6, <3>1, <3>2 DEF SpuriousWakeup
  <2>7. CASE \E n \in init_active .. MaxActive : Tune(t, n)
    BY <2>7, NoneReady DEF Tune, Served
  <2>8. CASE WorkOwn(t)
    BY <1>u, <2>8 DEF WorkOwn
  <2>9. QED
    BY <1>2, <2>1, <2>2, <2>3, <2>4, <2>5, <2>6, <2>7, <2>8 DEF ThreadStep
<1>3. ASSUME NEW h \in Helpers, HelperStep(h)
      PROVE  Served(pc', active', max_active')
  <2>0. h \in Threads /\ max_active' = max_active
    BY <1>3 DEF Threads, HelperStep, HelperStart, HelperWake, HelperPop, HelperTaskDone,
                HelperScanned
  <2>d. ASSUME pc[h] \notin ReadyStates, HelperDone(active', [pc EXCEPT ![h] = "idle"]),
               active' = active \/ active' = active - 1
        PROVE  Served(pc', active', max_active')
    <3> DEFINE p == [pc EXCEPT ![h] = "idle"]
    <3>1. "idle" \notin ReadyStates /\ "idle" \in ThreadStates
      BY AllStates DEF ReadyStates
    <3>2. /\ p \in Placing /\ (Sleeper(p) <=> Sleeper(pc))
          /\ Count(p, {"ready_woken"}) = Count(pc, {"ready_woken"})
      BY <1>p, <2>0, <2>d, <3>1, MoveServes
    <3>3. CASE NotifyReady(p)
      <4>1. Sleeper(p) => max_active <= active' + 1 + Count(p, {"ready_woken"})
        BY <1>p, <2>d, <3>2 DEF Served
      <4>2. QED
        BY <1>p, <2>0, <3>2, <3>3, <4>1, NotifyServes
    <3>4. CASE ready = 0 /\ pc' = p
      BY <3>2, <3>4, NoneReady DEF Served
    <3>5. QED
      BY <2>d, <3>3, <3>4 DEF HelperDone
  <2>1. ASSUME NEW i, HelperPass(h, i), pc[h] \notin ReadyStates
        PROVE  Served(pc', active', max_active')
    <3>1. CASE shutdown \/ (active < max_active /\ queued # 0) \/ active >= max_active
      <4>1. PICK z \in {"none", "scanning", "idle"} :
                /\ pc' = [pc EXCEPT ![h] = z]
                /\ active' = active \/ active' = active + 1
        BY <1>p, <2>1, <3>1 DEF HelperPass
      <4>2. z \in ThreadStates /\ z \notin ReadyStates /\ active' >= active
        BY <1>p, <4>1, AllStates DEF ReadyStates
      <4>3. QED
        BY <1>m, <2>0, <2>1, <4>1, <4>2
    <3>2. CASE ~shutdown /\ active < max_active /\ queued = 0
      <4>1. active' = active /\ HelperDone(active', [pc EXCEPT ![h] = "idle"])
        BY <1>p, <2>1, <3>2 DEF HelperPass
      <4>2. QED
        BY <2>1, <2>d, <4>1
    <3>3. QED
      BY <1>p, <3>1, <3>2
  <2>2. CASE HelperStart(h) \/ HelperWake(h)
    BY <2>1, <2>2 DEF HelperStart, HelperWake, ReadyStates
  <2>3. CASE HelperScanned(h)
    BY <2>3, <2>d DEF HelperScanned, ReadyStates
  <2>4. CASE HelperPop(h) \/ HelperTaskDone(h)
    BY <1>m, <1>p, <2>0, <2>4, AllStates DEF HelperPop, HelperTaskDone, ReadyStates
  <2>5. QED
    BY <1>3, <2>2, <2>3, <2>4 DEF HelperStep
<1>4. ASSUME NEW t \in Masters, ShutdownStep(t)
      PROVE  Served(pc', active', max_active')
  <2>0. t \in Threads
    BY DEF Threads
  <2>1. CASE ShutdownBegin(t) \/ ShutdownJoin(t) \/ ShutdownEnd(t)
    BY <1>m, <1>p, <2>0, <2>1, AllStates DEF ShutdownBegin, ShutdownJoin, ShutdownEnd, ReadyStates
  <2>2. CASE ShutdownNotify(t)
    BY <1>p, <2>2 DEF ShutdownNotify, Woken, Served, Sleeper
  <2>3. QED
    BY <1>4, <2>1, <2>2 DEF ShutdownStep
<1>5. CASE Monitor \/ SpuriousMonitorWakeup \/ UNCHANGED vars
  BY <1>u, <1>5 DEF Monitor, MonitorStart, MonitorWake, MonitorSpin, MonitorSpun,
                    SpuriousMonitorWakeup, vars
<1>6. QED
  BY <1>1, <1>2, <1>3, <1>4, <1>5 DEF Next, Terminated

\* A ready master is never left asleep next to a free slot: no interleaving
\* of suspensions, helpers and wake-ups loses the notification it needs.
THEOREM ReadyNotStrandedCorrect == Spec => []ReadyNotStranded
<1>1. Init => ReadyNotStranded
  BY DEF Init, ReadyNotStranded, In
<1>2. QED
  BY <1>1, ReadyNotStrandedStep, Invariance, PTL DEF Spec
=============================================================================
