-------------------------- MODULE PhaseMutexProofs --------------------------
(***************************************************************************)
(* Proofs about module PhaseMutex, for any number of threads, of slots and *)
(* of nested guards.                                                       *)
(***************************************************************************)
EXTENDS PhaseMutex, FiniteSetTheorems, TLAPS

Acquiring == {"lock", "reacquire"}
Releasing == {"release", "abort", "unlock"}
Switching == {"switch", "undo", "restore"}

\* A thread at one of these places has been through the part under m_.
Past_m == {"blocked", "notified", "activating", "lm_wait", "got"}

(***************************************************************************)
(* The inductive invariant.                                                *)
(***************************************************************************)

\* Where a thread is says which phase it is counted in and which one it wants.
Shape(t) ==
    /\ pc[t] \in {"out", "in", "suspended"} => op[t] = "none" /\ goal[t] = NoPhase
    /\ pc[t] = "out" => claim[t] = NoPhase
    /\ pc[t] = "in" => claim[t] \in Phases
    /\ pc[t] \in {"drop", "mutex"} =>
          \/ op[t] \in Acquiring /\ pc[t] = "mutex" /\ claim[t] = NoPhase /\ goal[t] \in Phases
          \/ op[t] \in Releasing /\ claim[t] \in Phases /\ goal[t] = NoPhase
          \/ op[t] \in Switching /\ claim[t] \in Phases /\ goal[t] \in Phases
    /\ pc[t] \in Past_m =>
          op[t] \in Acquiring \cup Switching /\ claim[t] = goal[t] /\ goal[t] \in Phases
    /\ pc[t] \in {"drop", "lm_wait"} => claim[t] = "load"
    /\ op[t] # "none" => guards[t] # <<>>

ShapeInv == \A t \in Threads : Shape(t)

\* A mutex that anybody has locked is in a phase that somebody is counted in.
Occupied ==
    (\E t \in Threads : claim[t] # NoPhase) => \E t \in Threads : claim[t] = phase

\* lm_ is held by the thread that is in the load phase, from the moment when it
\* has got it until it gives it up.
HasLoad(t) == claim[t] = "load" /\ pc[t] \in {"in", "suspended", "got", "drop"}
LoadInv == \A t \in Threads : HasLoad(t) <=> lm = t

\* A notification is due before the thread does anything else.
OwedInv == \A t \in Threads : owed[t] # NoPhase => pc[t] \in {"out", "lm_wait", "got"}

\* A positive result is not stale: nobody can fail a load meanwhile.
OkInv ==
    \A t \in Threads :
        /\ pc[t] = "got" \/ (pc[t] = "activating" /\ claim[t] # "load")
        /\ ok[t]
        => ~fail

CountInv == Counted /\ InPhase /\ Occupied
IndInv == TypeOK /\ ShapeInv /\ CountInv /\ LoadInv /\ OwedInv /\ NotStranded /\ OkInv

-----------------------------------------------------------------------------
(***************************************************************************)
(* The steps.                                                              *)
(***************************************************************************)

\* The steps that change neither the phase nor who is counted where.
Quiet(t) ==
    \/ LoadUnlock(t) \/ NotifyAll(t) \/ WaitCheck(t) \/ GuardFails(t) \/ GuardConstructed(t)
    \/ GuardDestroyed(t) \/ Activate(t) \/ LoadLock(t) \/ Resume(t)
    \/ PhaseLockEnd(t) \/ PhaseUnlockEnd(t) \/ PhaseSwitchEnd(t)
    \/ (\E p \in LockPhases : PhaseLock(t, p)) \/ (\E p \in Phases : PhaseSwitch(t, p))
    \/ PhaseUnlock(t) \/ Suspend(t) \/ Throw(t) \/ Catch(t) \/ SpuriousWakeup(t)

LEMMA NextSteps ==
    ASSUME [Next]_vars
    PROVE  (\E t \in Threads : Lock(t) \/ Unlock(t) \/ Relock(t) \/ Quiet(t)) \/ UNCHANGED vars
BY DEF Next, Proceed, Acquire, End, Choose, Done, Quiet

LEMMA PhaseFacts ==
    /\ IsFiniteSet(Threads) /\ NoPhase \notin Phases /\ NoPhase \notin Threads
    /\ Phases = {"load", "match", "execute"}
BY PhaseAssumption DEF Phases

LEMMA QuietCounts ==
    ASSUME NEW t \in Threads, Quiet(t)
    PROVE  UNCHANGED <<phase, count, claim>>
BY DEF Quiet, LoadUnlock, NotifyAll, WaitCheck, GuardFails, GuardConstructed, GuardDestroyed, Entered,
       Activate, LoadLock, Resume, PhaseLockEnd, PhaseUnlockEnd, PhaseSwitchEnd, PhaseLock, PhaseSwitch,
       PhaseUnlock, Suspend, Throw, Catch, SpuriousWakeup, mutexVars

-----------------------------------------------------------------------------
(***************************************************************************)
(* Counting.                                                               *)
(***************************************************************************)
In(p) == {t \in Threads : claim[t] = p}

\* A counter is zero if and only if nobody is counted, and one if and only if
\* it is just the one.
LEMMA CountFacts ==
    ASSUME Counted
    PROVE  /\ \A p \in Phases : count[p] \in Nat /\ (count[p] = 0 <=> \A u \in Threads : claim[u] # p)
           /\ \A t \in Threads : claim[t] \in Phases =>
                /\ count[claim[t]] - 1 \in Nat
                /\ count[claim[t]] - 1 = 0 <=> \A u \in Threads \ {t} : claim[u] # claim[t]
<1>1. ASSUME NEW p \in Phases
      PROVE  /\ count[p] = Cardinality(In(p)) /\ IsFiniteSet(In(p)) /\ count[p] \in Nat
             /\ count[p] = 0 <=> In(p) = {}
  <2>1. count[p] = Cardinality(In(p)) /\ In(p) \in SUBSET Threads
    BY DEF Counted, In
  <2>2. IsFiniteSet(In(p))
    BY <2>1, PhaseFacts, FS_Subset
  <2> QED
    BY <2>1, <2>2, FS_CardinalityType, FS_EmptySet
<1>2. ASSUME NEW t \in Threads, claim[t] \in Phases
      PROVE  /\ count[claim[t]] - 1 \in Nat
             /\ count[claim[t]] - 1 = 0 <=> In(claim[t]) \ {t} = {}
  <2> DEFINE S == In(claim[t])
  <2>1. t \in S
    BY <1>2 DEF In
  <2>2. IsFiniteSet(S) /\ count[claim[t]] = Cardinality(S)
    BY <1>1, <1>2
  <2> HIDE DEF S
  <2>3. IsFiniteSet(S \ {t}) /\ Cardinality(S \ {t}) = Cardinality(S) - 1
    BY <2>1, <2>2, FS_RemoveElement
  <2>4. Cardinality(S \ {t}) \in Nat /\ (Cardinality(S \ {t}) = 0 <=> S \ {t} = {})
    BY <2>3, FS_CardinalityType, FS_EmptySet
  <2> QED
    BY <2>2, <2>3, <2>4 DEF S
<1>3. ASSUME NEW p \in Phases PROVE In(p) = {} <=> \A u \in Threads : claim[u] # p
  BY DEF In
<1>4. ASSUME NEW t \in Threads
      PROVE  In(claim[t]) \ {t} = {} <=> \A u \in Threads \ {t} : claim[u] # claim[t]
  BY DEF In
<1> HIDE DEF In
<1>5. \A p \in Phases : count[p] \in Nat /\ (count[p] = 0 <=> \A u \in Threads : claim[u] # p)
  BY <1>1, <1>3
<1>6. ASSUME NEW t \in Threads, claim[t] \in Phases
      PROVE  /\ count[claim[t]] - 1 \in Nat
             /\ count[claim[t]] - 1 = 0 <=> \A u \in Threads \ {t} : claim[u] # claim[t]
  BY <1>2, <1>4, <1>6
<1> QED
  BY <1>5, <1>6

\* A thread that is counted elsewhere changes the counters by one each.
LEMMA CountMove ==
    ASSUME Counted, claim \in [Threads -> Phases \cup {NoPhase}], count \in [Phases -> Nat],
           NEW t \in Threads, NEW n \in Phases \cup {NoPhase}, claim' = [claim EXCEPT ![t] = n],
           count' \in [Phases -> Nat],
           \A p \in Phases :
               count'[p] = (IF claim[t] = p THEN count[p] - 1 ELSE count[p]) + (IF n = p THEN 1 ELSE 0)
    PROVE  Counted'
<1> SUFFICES ASSUME NEW p \in Phases PROVE count'[p] = Cardinality(In(p)')
  BY DEF Counted, In
<1> DEFINE S == In(p)
<1>1. count[p] = Cardinality(S) /\ S \in SUBSET Threads
  BY DEF Counted, In
<1>2. IsFiniteSet(S) /\ Cardinality(S) \in Nat
  BY <1>1, PhaseFacts, FS_Subset, FS_CardinalityType
<1>3. In(p)' = IF n = p THEN (S \ {t}) \cup {t} ELSE S \ {t}
  BY DEF In
<1>4. t \in S <=> claim[t] = p
  BY DEF In
<1> HIDE DEF S
<1>5. /\ IsFiniteSet(S \ {t})
      /\ Cardinality(S \ {t}) = IF claim[t] = p THEN Cardinality(S) - 1 ELSE Cardinality(S)
  BY <1>2, <1>4, FS_RemoveElement
<1>6. Cardinality((S \ {t}) \cup {t}) = Cardinality(S \ {t}) + 1
  BY <1>5, FS_AddElement
<1> QED
  BY <1>1, <1>2, <1>3, <1>5, <1>6

-----------------------------------------------------------------------------
(***************************************************************************)
(* lock(), unlock() and relock() one by one: what they do to the counters, *)
(* the phase and the others.                                               *)
(***************************************************************************)
LEMMA LockFacts ==
    ASSUME IndInv, NEW t \in Threads, Lock(t)
    PROVE  /\ claim[t] = NoPhase /\ goal[t] \in Phases /\ claim' = [claim EXCEPT ![t] = goal[t]]
           /\ count' = [count EXCEPT ![goal[t]] = @ + 1] /\ count' \in [Phases -> Nat]
           /\ \/ phase' = goal[t] /\ \A u \in Threads : claim[u] = NoPhase
              \/ phase' = phase /\ \E u \in Threads : claim[u] # NoPhase
<1>1. claim[t] = NoPhase /\ goal[t] \in Phases
  BY DEF IndInv, ShapeInv, Shape, Lock, Acquiring, Releasing, Switching
<1>2. count \in [Phases -> Nat] /\ claim \in [Threads -> Phases \cup {NoPhase}]
  BY DEF IndInv, TypeOK
<1>3. phase' = LockPhase(goal[t]) /\ count' = [count EXCEPT ![goal[t]] = @ + 1]
      /\ claim' = [claim EXCEPT ![t] = goal[t]]
  BY DEF Lock, CountLock
<1>4. (\A p \in Phases : count[p] = 0) <=> \A u \in Threads : claim[u] = NoPhase
  BY <1>2, CountFacts, PhaseFacts DEF IndInv, CountInv
<1> QED
  BY <1>1, <1>2, <1>3, <1>4 DEF LockPhase

LEMMA UnlockFacts ==
    ASSUME IndInv, NEW t \in Threads, Unlock(t)
    PROVE  /\ claim[t] = phase /\ claim[t] \in Phases /\ claim' = [claim EXCEPT ![t] = NoPhase]
           /\ count' = [count EXCEPT ![claim[t]] = @ - 1] /\ count' \in [Phases -> Nat]
           /\ owed[t] = NoPhase
           /\ \/ /\ phase' = phase /\ (\E u \in Threads \ {t} : claim[u] = phase)
                 /\ owed' = [owed EXCEPT ![t] = NoPhase]
              \/ /\ phase' \in Phases /\ (\A u \in Threads \ {t} : claim[u] # phase)
                 /\ (\A u \in Threads \ {t} : claim[u] = NoPhase)
                 /\ owed' = [owed EXCEPT ![t] = NoPhase]
              \/ /\ phase' \in Phases /\ (\A u \in Threads \ {t} : claim[u] # phase)
                 /\ (\E u \in Threads \ {t} : claim[u] = phase')
                 /\ owed' = [owed EXCEPT ![t] = phase']
<1> DEFINE o == claim[t]
           c == [count EXCEPT ![o] = @ - 1]
<1>1. claim[t] \in Phases /\ pc[t] = "mutex" /\ owed[t] = NoPhase
  BY DEF IndInv, ShapeInv, Shape, OwedInv, Unlock, Acquiring, Releasing, Switching
<1>2. count \in [Phases -> Nat] /\ claim \in [Threads -> Phases \cup {NoPhase}] /\ phase \in Phases
  BY DEF IndInv, TypeOK
<1>3. claim[t] = phase
  BY <1>1, PhaseFacts DEF IndInv, CountInv, InPhase, Inside, Waiting
<1>4. /\ count[o] - 1 \in Nat /\ (count[o] - 1 = 0 <=> \A u \in Threads \ {t} : claim[u] # o)
      /\ \A p \in Phases : count[p] = 0 <=> \A u \in Threads : claim[u] # p
  BY <1>1, CountFacts DEF IndInv, CountInv
<1>5. /\ count' = c /\ phase' = (IF c[o] = 0 THEN NextPhase(c) ELSE phase)
      /\ owed' = [owed EXCEPT ![t] =
                     IF c[o] = 0 /\ (\E p \in Phases : c[p] # 0) THEN NextPhase(c) ELSE NoPhase]
      /\ claim' = [claim EXCEPT ![t] = NoPhase]
  BY DEF Unlock
<1>6. c \in [Phases -> Nat] /\ c[o] = count[o] - 1 /\ \A p \in Phases \ {o} : c[p] = count[p]
  BY <1>1, <1>2, <1>4
<1>7. \A p \in Phases : c[p] = 0 <=> \A u \in Threads \ {t} : claim[u] # p
  BY <1>1, <1>4, <1>6
<1>8. /\ NextPhase(c) \in Phases
      /\ (\E p \in Phases : c[p] # 0) => c[NextPhase(c)] # 0
  BY PhaseFacts DEF NextPhase
<1> HIDE DEF c
<1>12. /\ claim[t] = phase /\ claim[t] \in Phases /\ claim' = [claim EXCEPT ![t] = NoPhase]
       /\ count' = [count EXCEPT ![claim[t]] = @ - 1] /\ count' \in [Phases -> Nat]
       /\ owed[t] = NoPhase
  BY <1>1, <1>3, <1>5, <1>6 DEF c
<1> DEFINE D == c[o] = 0 /\ \E p \in Phases : c[p] # 0
<1>13. owed' = [owed EXCEPT ![t] = IF D THEN NextPhase(c) ELSE NoPhase]
  BY <1>5
<1>14. phase' = IF c[o] = 0 THEN NextPhase(c) ELSE phase
  BY <1>5
<1>15. c[o] = 0 <=> \A u \in Threads \ {t} : claim[u] # phase
  BY <1>1, <1>3, <1>7
<1>9. CASE c[o] # 0
  <2>1. ~D
    BY <1>9
  <2> HIDE DEF D
  <2> QED
    BY <1>9, <1>12, <1>13, <1>14, <1>15, <2>1
<1>10. CASE c[o] = 0 /\ \A p \in Phases : c[p] = 0
  <2>1. \A u \in Threads \ {t} : claim[u] = NoPhase
    BY <1>2, <1>7, <1>10
  <2>2. ~D
    BY <1>10
  <2> HIDE DEF D
  <2> QED
    BY <1>8, <1>10, <1>12, <1>13, <1>14, <1>15, <2>1, <2>2
<1>11. CASE c[o] = 0 /\ \E p \in Phases : c[p] # 0
  <2>1. \E u \in Threads \ {t} : claim[u] = NextPhase(c)
    BY <1>7, <1>8, <1>11
  <2>2. D
    BY <1>11
  <2> HIDE DEF D
  <2> QED
    BY <1>8, <1>11, <1>12, <1>13, <1>14, <1>15, <2>1, <2>2
<1> QED
  BY <1>9, <1>10, <1>11 DEF c

LEMMA RelockFacts ==
    ASSUME IndInv, NEW t \in Threads, Relock(t)
    PROVE  /\ claim[t] = phase /\ claim[t] \in Phases /\ goal[t] \in Phases
           /\ claim' = [claim EXCEPT ![t] = goal[t]] /\ count' \in [Phases -> Nat]
           /\ \A p \in Phases :
                count'[p] = (IF claim[t] = p THEN count[p] - 1 ELSE count[p]) + (IF goal[t] = p THEN 1 ELSE 0)
           /\ owed[t] = NoPhase
           /\ \/ phase' = goal[t] /\ (\A u \in Threads \ {t} : claim[u] # phase)
              \/ phase' = phase /\ (\E u \in Threads \ {t} : claim[u] = phase)
           /\ owed' = [owed EXCEPT ![t] =
                         IF phase' = goal[t] /\ (\E u \in Threads \ {t} : claim[u] = goal[t])
                           THEN goal[t] ELSE NoPhase]
<1> DEFINE o == claim[t]
           n == goal[t]
           c == [count EXCEPT ![o] = @ - 1]
<1>1. claim[t] \in Phases /\ goal[t] \in Phases /\ pc[t] = "mutex" /\ owed[t] = NoPhase
  BY DEF IndInv, ShapeInv, Shape, OwedInv, Relock, Acquiring, Releasing, Switching
<1>2. count \in [Phases -> Nat] /\ claim \in [Threads -> Phases \cup {NoPhase}] /\ phase \in Phases
  BY DEF IndInv, TypeOK
<1>3. claim[t] = phase
  BY <1>1, PhaseFacts DEF IndInv, CountInv, InPhase, Inside, Waiting
<1>4. /\ count[o] - 1 \in Nat /\ (count[o] - 1 = 0 <=> \A u \in Threads \ {t} : claim[u] # o)
      /\ \A p \in Phases : count[p] = 0 <=> \A u \in Threads : claim[u] # p
  BY <1>1, CountFacts DEF IndInv, CountInv
<1>5. /\ count' = [c EXCEPT ![n] = @ + 1] /\ phase' = (IF c[o] = 0 THEN n ELSE phase)
      /\ owed' = [owed EXCEPT ![t] = IF phase' = n THEN (IF c[n] # 0 THEN n ELSE NoPhase) ELSE NoPhase]
      /\ claim' = [claim EXCEPT ![t] = n]
  BY DEF Relock, RelockPhase, RelockNotify
<1>6. c \in [Phases -> Nat] /\ c[o] = count[o] - 1 /\ \A p \in Phases \ {o} : c[p] = count[p]
  BY <1>1, <1>2, <1>4
<1>7. \A p \in Phases : c[p] = 0 <=> \A u \in Threads \ {t} : claim[u] # p
  BY <1>1, <1>4, <1>6
<1> HIDE DEF c
<1>8. /\ count' \in [Phases -> Nat]
      /\ \A p \in Phases :
           count'[p] = (IF o = p THEN count[p] - 1 ELSE count[p]) + (IF n = p THEN 1 ELSE 0)
  BY <1>1, <1>2, <1>5, <1>6
<1>9. \/ phase' = n /\ (\A u \in Threads \ {t} : claim[u] # phase)
      \/ phase' = phase /\ (\E u \in Threads \ {t} : claim[u] = phase)
  BY <1>1, <1>3, <1>5, <1>7
<1>10. owed' = [owed EXCEPT ![t] =
                   IF phase' = n /\ (\E u \in Threads \ {t} : claim[u] = n) THEN n ELSE NoPhase]
  BY <1>1, <1>5, <1>7
<1> QED
  BY <1>1, <1>3, <1>5, <1>8, <1>9, <1>10
-----------------------------------------------------------------------------
(***************************************************************************)
(* CountInv: the counters are right, whoever is past its wait is in the    *)
(* current phase, and the current phase has somebody in it.                *)
(***************************************************************************)
LEMMA LockCount ==
    ASSUME IndInv, NEW t \in Threads, Lock(t)
    PROVE  CountInv'
<1>1. Counted /\ InPhase /\ Occupied
  BY DEF IndInv, CountInv
<1>2. /\ count \in [Phases -> Nat] /\ claim \in [Threads -> Phases \cup {NoPhase}]
      /\ pc \in [Threads -> Places] /\ NoPhase \notin Phases
  BY PhaseFacts DEF IndInv, TypeOK
<1>3. pc[t] = "mutex" /\ \A u \in Threads \ {t} : pc'[u] = pc[u]
  BY <1>2 DEF Lock, Enter, Block
<1>4. phase' # goal[t] => pc'[t] = "blocked"
  BY <1>2 DEF Lock, Enter, Block
<1>5. Counted'
  BY <1>1, <1>2, LockFacts, CountMove
<1>6. InPhase'
  <2> SUFFICES ASSUME NEW u \in Threads, Inside(u)' PROVE claim'[u] = phase'
    BY DEF InPhase
  <2>1. CASE u = t
    BY <1>2, <1>4, <2>1, LockFacts DEF Inside, Waiting
  <2>2. CASE u # t
    <3>1. Inside(u) /\ claim[u] = phase /\ claim'[u] = claim[u]
      BY <1>1, <1>2, <1>3, <2>2, LockFacts DEF InPhase, Inside, Waiting
    <3> QED
      BY <2>2, <3>1, LockFacts DEF Inside
  <2> QED
    BY <2>1, <2>2
<1>7. Occupied'
  <2>1. CASE phase' = goal[t]
    BY <1>2, <2>1, LockFacts DEF Occupied
  <2>2. CASE phase' = phase /\ \E u \in Threads : claim[u] # NoPhase
    <3>1. PICK u \in Threads : claim[u] = phase
      BY <1>1, <2>2 DEF Occupied
    <3>2. phase \in Phases
      BY DEF IndInv, TypeOK
    <3>3. u # t /\ claim'[u] = claim[u]
      BY <1>2, <3>1, <3>2, LockFacts
    <3> QED
      BY <2>2, <3>1, <3>3 DEF Occupied
  <2> QED
    BY <2>1, <2>2, LockFacts
<1> QED
  BY <1>5, <1>6, <1>7 DEF CountInv

LEMMA UnlockCount ==
    ASSUME IndInv, NEW t \in Threads, Unlock(t)
    PROVE  CountInv'
<1>1. Counted /\ InPhase /\ Occupied
  BY DEF IndInv, CountInv
<1>2. /\ count \in [Phases -> Nat] /\ claim \in [Threads -> Phases \cup {NoPhase}]
      /\ pc \in [Threads -> Places] /\ NoPhase \notin Phases
  BY PhaseFacts DEF IndInv, TypeOK
<1>3. \A u \in Threads \ {t} : pc'[u] = pc[u]
  BY <1>2 DEF Unlock
<1>4. \A u \in Threads : claim'[u] = IF u = t THEN NoPhase ELSE claim[u]
  BY <1>2, UnlockFacts
<1>5. Counted'
  BY <1>1, <1>2, UnlockFacts, CountMove
<1>6. InPhase'
  <2> SUFFICES ASSUME NEW u \in Threads, Inside(u)' PROVE claim'[u] = phase'
    BY DEF InPhase
  <2>1. u # t /\ Inside(u) /\ claim[u] = phase /\ claim'[u] = claim[u]
    BY <1>1, <1>3, <1>4 DEF InPhase, Inside, Waiting
  <2> QED
    BY <2>1, UnlockFacts
<1>7. Occupied'
  <2> SUFFICES ASSUME NEW u \in Threads, claim'[u] # NoPhase PROVE \E v \in Threads : claim'[v] = phase'
    BY DEF Occupied
  <2>1. u # t /\ claim[u] # NoPhase
    BY <1>4
  <2> QED
    BY <1>4, <2>1, UnlockFacts
<1> QED
  BY <1>5, <1>6, <1>7 DEF CountInv

LEMMA RelockCount ==
    ASSUME IndInv, NEW t \in Threads, Relock(t)
    PROVE  CountInv'
<1>1. Counted /\ InPhase /\ Occupied
  BY DEF IndInv, CountInv
<1>2. /\ count \in [Phases -> Nat] /\ claim \in [Threads -> Phases \cup {NoPhase}]
      /\ pc \in [Threads -> Places] /\ NoPhase \notin Phases
  BY PhaseFacts DEF IndInv, TypeOK
<1>3. (\A u \in Threads \ {t} : pc'[u] = pc[u]) /\ (phase' # goal[t] => pc'[t] = "blocked")
  BY <1>2 DEF Relock, Enter, Block
<1>4. \A u \in Threads : claim'[u] = IF u = t THEN goal[t] ELSE claim[u]
  BY <1>2, RelockFacts
<1>5. Counted'
  BY <1>1, <1>2, RelockFacts, CountMove
<1>6. InPhase'
  <2> SUFFICES ASSUME NEW u \in Threads, Inside(u)' PROVE claim'[u] = phase'
    BY DEF InPhase
  <2>1. CASE u = t
    BY <1>3, <1>4, <2>1 DEF Inside, Waiting
  <2>2. CASE u # t
    <3>1. Inside(u) /\ claim[u] = phase /\ claim'[u] = claim[u]
      BY <1>1, <1>3, <1>4, <2>2 DEF InPhase, Inside, Waiting
    <3> QED
      BY <2>2, <3>1, RelockFacts
  <2> QED
    BY <2>1, <2>2
<1>7. Occupied'
  BY <1>4, RelockFacts DEF Occupied
<1> QED
  BY <1>5, <1>6, <1>7 DEF CountInv

\* Whoever stops waiting has seen the phase that it waited for.
LEMMA QuietArrivals ==
    ASSUME TypeOK, ShapeInv, NEW t \in Threads, Quiet(t), NEW u \in Threads, Waiting(u)
    PROVE  Waiting(u)' \/ claim[u] = phase
<1>1. pc \in [Threads -> Places] /\ pc[u] \in {"blocked", "notified"} /\ claim[u] = goal[u]
  BY DEF TypeOK, ShapeInv, Shape, Past_m, Waiting
<1>2. CASE WaitCheck(t)
  BY <1>1, <1>2 DEF WaitCheck, Waiting
<1>3. CASE NotifyAll(t)
  BY <1>1, <1>3 DEF NotifyAll, Waiting
<1>4. CASE SpuriousWakeup(t)
  BY <1>1, <1>4 DEF SpuriousWakeup, Waiting
<1>5. CASE Throw(t) \/ Catch(t)
  BY <1>1, <1>5 DEF Throw, Catch, Waiting
<1>6. CASE Quiet(t) /\ ~(WaitCheck(t) \/ NotifyAll(t) \/ SpuriousWakeup(t) \/ Throw(t) \/ Catch(t))
  <2>1. pc[t] \notin {"blocked", "notified"} /\ \A v \in Threads \ {t} : pc'[v] = pc[v]
    BY <1>1, <1>6 DEF Quiet, LoadUnlock, GuardFails, GuardConstructed, GuardDestroyed, Entered, Begin,
       Activate, LoadLock, Resume, PhaseLockEnd, PhaseUnlockEnd, PhaseSwitchEnd, PhaseLock, PhaseSwitch,
       PhaseUnlock, Suspend
  <2> QED
    BY <1>1, <2>1 DEF Waiting
<1> QED
  BY <1>2, <1>3, <1>4, <1>5, <1>6

LEMMA QuietCount ==
    ASSUME IndInv, NEW t \in Threads, Quiet(t)
    PROVE  CountInv'
<1>1. TypeOK /\ ShapeInv /\ Counted /\ InPhase /\ Occupied
  BY DEF IndInv, CountInv
<1>2. UNCHANGED <<phase, count, claim>>
  BY QuietCounts
<1>3. Counted' /\ Occupied'
  BY <1>1, <1>2 DEF Counted, Occupied
<1>4. InPhase'
  <2> SUFFICES ASSUME NEW u \in Threads, Inside(u)' PROVE claim'[u] = phase'
    BY DEF InPhase
  <2> QED
    BY <1>1, <1>2, QuietArrivals DEF InPhase, Inside
<1> QED
  BY <1>3, <1>4 DEF CountInv
-----------------------------------------------------------------------------
(***************************************************************************)
(* Types.                                                                  *)
(***************************************************************************)
Step(t) == Lock(t) \/ Unlock(t) \/ Relock(t) \/ Quiet(t)

BoolFn(f) == f \in [Threads -> BOOLEAN]

LEMMA BoolUpdate ==
    ASSUME NEW f, BoolFn(f), NEW t \in Threads, NEW b, b \in BOOLEAN
    PROVE  BoolFn([f EXCEPT ![t] = b])
BY Zenon DEF BoolFn

\* A step of t changes the result of t only.
LEMMA ResultUpdate ==
    ASSUME NEW t \in Threads, Step(t)
    PROVE  ok' = ok \/ \E b \in BOOLEAN : ok' = [ok EXCEPT ![t] = b]
BY Zenon DEF Step, Quiet, Lock, Unlock, Relock, LoadUnlock, NotifyAll, WaitCheck, GuardFails,
     GuardConstructed, GuardDestroyed, Entered, Activate, LoadLock, Resume, PhaseLockEnd, PhaseUnlockEnd,
     PhaseSwitchEnd, PhaseLock, PhaseSwitch, PhaseUnlock, Suspend, Throw, Catch, SpuriousWakeup, mutexVars,
     Requery, Enter, Block

LEMMA BoolTypes ==
    ASSUME TypeOK, NEW t \in Threads, Step(t)
    PROVE  fail' \in BOOLEAN /\ BoolFn(ok') /\ BoolFn(bad') /\ BoolFn(slot')
<1>1. fail \in BOOLEAN /\ BoolFn(ok) /\ BoolFn(bad) /\ BoolFn(slot)
  BY Zenon DEF TypeOK, BoolFn
<1>2. fail' = fail \/ \E b \in BOOLEAN : fail' = b
  BY Zenon DEF Step, Quiet, Lock, Unlock, Relock, LoadUnlock, NotifyAll, WaitCheck, GuardFails,
     GuardConstructed, GuardDestroyed, Entered, Activate, LoadLock, Resume, PhaseLockEnd, PhaseUnlockEnd,
     PhaseSwitchEnd, PhaseLock, PhaseSwitch, PhaseUnlock, Suspend, Throw, Catch, SpuriousWakeup, mutexVars
<1>3. ok' = ok \/ \E b \in BOOLEAN : ok' = [ok EXCEPT ![t] = b]
  BY ResultUpdate
<1>4. bad' = bad \/ \E b \in BOOLEAN : bad' = [bad EXCEPT ![t] = b]
  BY Zenon DEF Step, Quiet, Lock, Unlock, Relock, LoadUnlock, NotifyAll, WaitCheck, GuardFails,
     GuardConstructed, GuardDestroyed, Entered, Activate, LoadLock, Resume, PhaseLockEnd, PhaseUnlockEnd,
     PhaseSwitchEnd, PhaseLock, PhaseSwitch, PhaseUnlock, Suspend, Throw, Catch, SpuriousWakeup, mutexVars
<1>5. slot' = slot \/ \E b \in BOOLEAN : slot' = [slot EXCEPT ![t] = b]
  BY Zenon DEF Step, Quiet, Lock, Unlock, Relock, LoadUnlock, NotifyAll, WaitCheck, GuardFails,
     GuardConstructed, GuardDestroyed, Entered, Activate, LoadLock, Resume, PhaseLockEnd, PhaseUnlockEnd,
     PhaseSwitchEnd, PhaseLock, PhaseSwitch, PhaseUnlock, Suspend, Throw, Catch, SpuriousWakeup, mutexVars,
     Enter, Block
<1>6. fail' \in BOOLEAN
  BY <1>1, <1>2, Zenon
<1>7. BoolFn(ok')
  BY <1>1, <1>3, BoolUpdate
<1>8. BoolFn(bad')
  BY <1>1, <1>4, BoolUpdate
<1>9. BoolFn(slot')
  BY <1>1, <1>5, BoolUpdate
<1> QED
  BY <1>6, <1>7, <1>8, <1>9

\* The places, the operations and the phases.
LEMMA PlaceTypes ==
    ASSUME TypeOK, NEW t \in Threads, Step(t)
    PROVE  pc' \in [Threads -> Places]
<1>1. pc \in [Threads -> Places]
  BY DEF TypeOK
<1>2. CASE NotifyAll(t)
  BY <1>1, <1>2 DEF NotifyAll, Places
<1>3. CASE \E o, n : Begin(t, o, n)
  BY <1>1, <1>3 DEF Begin, Places
<1>4. CASE Lock(t) \/ Relock(t)
  BY <1>1, <1>4 DEF Lock, Relock, Enter, Block, Past, Places
<1>5. CASE Unlock(t) \/ LoadUnlock(t) \/ LoadLock(t) \/ Suspend(t) \/ SpuriousWakeup(t)
           \/ GuardConstructed(t) \/ GuardDestroyed(t)
  BY <1>1, <1>5 DEF Unlock, LoadUnlock, LoadLock, Suspend, SpuriousWakeup, GuardConstructed,
     GuardDestroyed, Entered, Places
<1>6. CASE Activate(t) \/ Resume(t) \/ WaitCheck(t) \/ Throw(t) \/ Catch(t)
  BY <1>1, <1>6 DEF Activate, Past, Resume, WaitCheck, Throw, Catch, Places
<1> QED
  BY <1>2, <1>3, <1>4, <1>5, <1>6 DEF Step, Quiet, GuardFails, PhaseLockEnd, PhaseUnlockEnd,
     PhaseSwitchEnd, PhaseLock, PhaseSwitch, PhaseUnlock

LEMMA OperationTypes ==
    ASSUME TypeOK, NEW t \in Threads, Step(t)
    PROVE  op' \in [Threads -> Operations]
<1>1. op \in [Threads -> Operations]
  BY DEF TypeOK
<1>2. CASE op' = op \/ \E o \in Operations : op' = [op EXCEPT ![t] = o]
  BY <1>1, <1>2
<1>3. Lock(t) \/ Relock(t) \/ LoadUnlock(t) \/ NotifyAll(t) \/ WaitCheck(t) \/ Activate(t) \/ LoadLock(t)
      \/ Resume(t) \/ Suspend(t) \/ Throw(t) \/ Catch(t) \/ SpuriousWakeup(t)
      => op' = op
  BY DEF Lock, Relock, LoadUnlock, NotifyAll, WaitCheck, Activate, LoadLock, Resume, Suspend, Throw,
     Catch, SpuriousWakeup
<1>4. Unlock(t) \/ GuardConstructed(t) \/ GuardDestroyed(t)
      => \E o \in Operations : op' = [op EXCEPT ![t] = o]
  BY DEF Unlock, GuardConstructed, GuardDestroyed, Entered, Operations
<1>5. (\E o \in Operations : \E n : Begin(t, o, n)) => \E o \in Operations : op' = [op EXCEPT ![t] = o]
  BY DEF Begin
<1>6. (\E p \in LockPhases : PhaseLock(t, p)) \/ (\E p \in Phases : PhaseSwitch(t, p)) \/ PhaseUnlock(t)
      \/ GuardFails(t) \/ PhaseLockEnd(t) \/ PhaseUnlockEnd(t) \/ PhaseSwitchEnd(t)
      => \E o \in Operations : \E n : Begin(t, o, n)
  BY DEF PhaseLock, PhaseSwitch, PhaseUnlock, GuardFails, PhaseLockEnd, PhaseUnlockEnd, PhaseSwitchEnd,
     Operations
<1> QED
  BY <1>2, <1>3, <1>4, <1>5, <1>6 DEF Step, Quiet

LEMMA GuardTypes ==
    ASSUME TypeOK, NEW t \in Threads
    PROVE  /\ guards[t] # <<>> => Old(t) \in Phases
           /\ Popped(t) \in Seq(Guards)
           /\ Len(guards[t]) \in Nat /\ (guards[t] # <<>> => Len(guards[t]) > 0)
<1>1. guards[t] \in Seq(Guards) /\ Len(guards[t]) \in Nat
  BY DEF TypeOK
<1> DEFINE n == Len(guards[t])
<1>2. guards[t] # <<>> => n > 0
  BY <1>1
<1>3. n > 0 => guards[t][n] \in Guards
  BY <1>1
<1>4. \A g \in Guards : g.old \in Phases
  BY DEF Guards
<1>5. Popped(t) \in Seq(Guards)
  BY <1>1 DEF Popped
<1> QED
  BY <1>1, <1>2, <1>3, <1>4, <1>5 DEF Old

\* The acquired phases.
LEMMA GoalTypes ==
    ASSUME TypeOK, ShapeInv, NEW t \in Threads, Step(t)
    PROVE  goal' \in [Threads -> Phases \cup {NoPhase}]
<1>1. goal \in [Threads -> Phases \cup {NoPhase}] /\ phase \in Phases
  BY DEF TypeOK
<1>2. op[t] # "none" => guards[t] # <<>>
  BY DEF ShapeInv, Shape
<1>3. CASE \E o, n : n \in Phases \cup {NoPhase} /\ Begin(t, o, n)
  BY <1>1, <1>3 DEF Begin
<1>4. CASE UNCHANGED goal \/ Entered(t)
  BY <1>1, <1>4 DEF Entered
<1>5. Lock(t) \/ Unlock(t) \/ Relock(t) \/ LoadUnlock(t) \/ NotifyAll(t) \/ WaitCheck(t) \/ Activate(t)
      \/ LoadLock(t) \/ Resume(t) \/ Suspend(t) \/ Throw(t) \/ Catch(t) \/ SpuriousWakeup(t)
      => UNCHANGED goal
  BY DEF Lock, Unlock, Relock, LoadUnlock, NotifyAll, WaitCheck, Activate, LoadLock, Resume, Suspend,
     Throw, Catch, SpuriousWakeup
<1>6. GuardConstructed(t) \/ GuardDestroyed(t) => Entered(t)
  BY DEF GuardConstructed, GuardDestroyed
<1>7. GuardFails(t) \/ PhaseLockEnd(t) \/ PhaseUnlockEnd(t) \/ PhaseSwitchEnd(t) \/ PhaseUnlock(t)
      => \E o, n : n \in Phases \cup {NoPhase} /\ Begin(t, o, n)
  BY <1>2, GuardTypes DEF GuardFails, PhaseLockEnd, PhaseUnlockEnd, PhaseSwitchEnd, PhaseUnlock, Innermost
<1>8. (\E p \in LockPhases : PhaseLock(t, p)) \/ (\E p \in Phases : PhaseSwitch(t, p))
      => \E o, n : n \in Phases \cup {NoPhase} /\ Begin(t, o, n)
  BY DEF PhaseLock, PhaseSwitch, LockPhases, Phases
<1> QED
  BY <1>3, <1>4, <1>5, <1>6, <1>7, <1>8 DEF Step, Quiet

Budgets == Seq(SUBSET (Phases \cup {NoPhase}))

\* A guard is pushed, at the expense of the budget.
LEMMA Constructed ==
    ASSUME TypeOK, NEW t \in Threads, NEW k \in {"lock", "unlock", "switch"}, NEW p \in Phases,
           NEW n, Construct(t, k, p, n)
    PROVE  /\ guards' \in [Threads -> Seq(Guards)] /\ guards'[t] # <<>>
           /\ ops' \in [Threads -> Budgets]
<1>1. guards \in [Threads -> Seq(Guards)] /\ ops \in [Threads -> Budgets] /\ bad[t] \in BOOLEAN
  BY DEF TypeOK, Budgets
<1> DEFINE g == [kind |-> k, old |-> p, bad |-> bad[t]]
<1>2. g \in Guards
  BY <1>1, Zenon DEF Guards
<1>3. guards' = [guards EXCEPT ![t] = Append(guards[t], g)]
  BY DEF Construct
<1> HIDE DEF g
<1>4. Append(guards[t], g) \in Seq(Guards) /\ Append(guards[t], g) # <<>>
  BY <1>1, <1>2
<1>5. guards' \in [Threads -> Seq(Guards)] /\ guards'[t] # <<>>
  BY <1>1, <1>3, <1>4
<1>6. ops[t] # <<>> /\ ops' = [ops EXCEPT ![t] = Tail(ops[t])]
  BY DEF Construct
<1>7. Tail(ops[t]) \in Budgets
  BY <1>1, <1>6 DEF Budgets
<1> QED
  BY <1>1, <1>5, <1>6, <1>7

\* The stacks of guards and the budgets.
LEMMA StackTypes ==
    ASSUME TypeOK, ShapeInv, NEW t \in Threads, Step(t)
    PROVE  guards' \in [Threads -> Seq(Guards)] /\ ops' \in [Threads -> Budgets]
<1>1. /\ guards \in [Threads -> Seq(Guards)] /\ ops \in [Threads -> Budgets] /\ phase \in Phases
      /\ Popped(t) \in Seq(Guards)
  BY GuardTypes DEF TypeOK, Budgets
<1>2. CASE \E k \in {"lock", "unlock", "switch"}, p \in Phases : \E n : Construct(t, k, p, n)
  BY <1>2, Constructed
<1>3. CASE UNCHANGED ops /\ (UNCHANGED guards \/ guards' = [guards EXCEPT ![t] = Popped(t)])
  BY <1>1, <1>3
<1>4. Lock(t) \/ Relock(t) \/ LoadUnlock(t) \/ NotifyAll(t) \/ WaitCheck(t) \/ Activate(t)
      \/ LoadLock(t) \/ Resume(t) \/ Suspend(t) \/ Throw(t) \/ Catch(t) \/ SpuriousWakeup(t)
      \/ GuardFails(t) \/ GuardConstructed(t) \/ PhaseLockEnd(t) \/ PhaseUnlockEnd(t) \/ PhaseSwitchEnd(t)
      => UNCHANGED <<guards, ops>>
  BY DEF Lock, Relock, LoadUnlock, NotifyAll, WaitCheck, Activate, LoadLock, Resume, Suspend, Entered,
     Throw, Catch, SpuriousWakeup, GuardFails, GuardConstructed, PhaseLockEnd, PhaseUnlockEnd, PhaseSwitchEnd
<1>5. CASE Unlock(t) \/ GuardDestroyed(t)
  <2>1. UNCHANGED ops /\ \/ guards' = [guards EXCEPT ![t] = Popped(t)]
                         \/ guards' = [guards EXCEPT ![t] = guards[t]]
    BY <1>5 DEF Unlock, GuardDestroyed, Entered
  <2> QED
    BY <1>1, <2>1
<1>6. PhaseUnlock(t) => claim[t] \in Phases /\ Construct(t, "unlock", claim[t], NoPhase)
  BY DEF PhaseUnlock, ShapeInv, Shape
<1>7. (\E p \in LockPhases : PhaseLock(t, p)) => \E p \in Phases : Construct(t, "lock", p, p)
  BY DEF PhaseLock, LockPhases, Phases
<1>8. (\E p \in Phases : PhaseSwitch(t, p)) => \E n : Construct(t, "switch", phase, n)
  BY DEF PhaseSwitch
<1> QED
  BY <1>1, <1>2, <1>3, <1>4, <1>5, <1>6, <1>7, <1>8 DEF Step, Quiet

\* The mutex itself, and what the threads are counted in and owe.
LEMMA MutexTypes ==
    ASSUME IndInv, NEW t \in Threads, Step(t)
    PROVE  /\ phase' \in Phases /\ generation' \in Nat /\ count' \in [Phases -> Nat]
           /\ lm' \in Threads \cup {NoPhase} /\ max_active' \in Nat \ {0}
           /\ claim' \in [Threads -> Phases \cup {NoPhase}]
           /\ owed' \in [Threads -> Phases \cup {NoPhase}]
<1>1. /\ phase \in Phases /\ generation \in Nat /\ count \in [Phases -> Nat]
      /\ lm \in Threads \cup {NoPhase} /\ max_active \in Nat \ {0}
      /\ claim \in [Threads -> Phases \cup {NoPhase}]
      /\ owed \in [Threads -> Phases \cup {NoPhase}]
  BY DEF IndInv, TypeOK
<1>2. CASE Lock(t)
  <2>1. UNCHANGED <<generation, lm, owed, max_active>>
    BY <1>2 DEF Lock
  <2> QED
    BY <1>1, <1>2, <2>1, LockFacts
<1>3. CASE Unlock(t)
  <2>1. UNCHANGED <<generation, lm, max_active>>
    BY <1>3 DEF Unlock
  <2>2. owed' \in [Threads -> Phases \cup {NoPhase}]
    BY <1>1, <1>3, UnlockFacts
  <2>3. phase' \in Phases
    BY <1>1, <1>3, UnlockFacts
  <2> QED
    BY <1>1, <1>3, <2>1, <2>2, <2>3, UnlockFacts
<1>4. CASE Relock(t)
  <2>1. UNCHANGED <<generation, lm, max_active>>
    BY <1>4 DEF Relock
  <2>2. owed' \in [Threads -> Phases \cup {NoPhase}]
    BY <1>1, <1>4, RelockFacts
  <2>3. phase' \in Phases
    BY <1>1, <1>4, RelockFacts
  <2> QED
    BY <1>1, <1>4, <2>1, <2>2, <2>3, RelockFacts
<1>5. CASE Quiet(t)
  <2>1. UNCHANGED <<phase, count, claim>>
    BY <1>5, QuietCounts
  <2>2. /\ generation' = generation \/ generation' = generation + 1
        /\ lm' \in {lm, NoPhase, t} /\ max_active' = max_active
        /\ owed' = owed \/ owed' = [owed EXCEPT ![t] = NoPhase]
    BY <1>5 DEF Quiet, LoadUnlock, NotifyAll, WaitCheck, GuardFails, GuardConstructed, GuardDestroyed,
       Entered, Activate, LoadLock, Resume, PhaseLockEnd, PhaseUnlockEnd, PhaseSwitchEnd, PhaseLock,
       PhaseSwitch, PhaseUnlock, Suspend, Throw, Catch, SpuriousWakeup, mutexVars
  <2> QED
    BY <1>1, <2>1, <2>2
<1> QED
  BY <1>2, <1>3, <1>4, <1>5 DEF Step

LEMMA TypeStep ==
    ASSUME IndInv, NEW t \in Threads, Step(t)
    PROVE  TypeOK'
<1>1. TypeOK /\ ShapeInv
  BY DEF IndInv
<1>2. fail' \in BOOLEAN /\ ok' \in [Threads -> BOOLEAN] /\ bad' \in [Threads -> BOOLEAN]
      /\ slot' \in [Threads -> BOOLEAN]
  BY <1>1, BoolTypes DEF BoolFn
<1>3. pc' \in [Threads -> Places] /\ op' \in [Threads -> Operations]
      /\ goal' \in [Threads -> Phases \cup {NoPhase}]
      /\ guards' \in [Threads -> Seq(Guards)] /\ ops' \in [Threads -> Budgets]
  BY <1>1, PlaceTypes, OperationTypes, GoalTypes, StackTypes
<1> QED
  BY <1>2, <1>3, MutexTypes DEF TypeOK, Budgets
-----------------------------------------------------------------------------
(***************************************************************************)
(* A step of t leaves the other threads alone, except that it may wake     *)
(* those that wait for the phase that it notifies.                         *)
(***************************************************************************)
Alone(u) == UNCHANGED <<op[u], claim[u], goal[u], owed[u], guards[u]>>

LEMMA Frame ==
    ASSUME TypeOK, NEW t \in Threads, Step(t), NEW u \in Threads, u # t
    PROVE  /\ Alone(u)
           /\ pc'[u] = pc[u] \/ (pc[u] = "blocked" /\ pc'[u] = "notified" /\ NotifyAll(t))
<1>1. /\ pc \in [Threads -> Places] /\ op \in [Threads -> Operations]
      /\ claim \in [Threads -> Phases \cup {NoPhase}]
      /\ goal \in [Threads -> Phases \cup {NoPhase}]
      /\ owed \in [Threads -> Phases \cup {NoPhase}]
      /\ guards \in [Threads -> Seq(Guards)]
  BY DEF TypeOK
<1>2. CASE Lock(t) \/ Unlock(t) \/ Relock(t)
  BY <1>1, <1>2 DEF Alone, Lock, Unlock, Relock, Enter, Block
<1>3. CASE LoadUnlock(t) \/ LoadLock(t) \/ WaitCheck(t) \/ Activate(t) \/ Resume(t) \/ Suspend(t)
           \/ SpuriousWakeup(t) \/ Throw(t) \/ Catch(t)
  BY <1>1, <1>3 DEF Alone, LoadUnlock, LoadLock, WaitCheck, Activate, Resume, Suspend, SpuriousWakeup,
     Throw, Catch
<1>4. CASE GuardFails(t) \/ GuardConstructed(t) \/ GuardDestroyed(t)
  BY <1>1, <1>4 DEF Alone, GuardFails, GuardConstructed, GuardDestroyed, Entered, Begin
<1>5. CASE PhaseLockEnd(t) \/ PhaseUnlockEnd(t) \/ PhaseSwitchEnd(t) \/ PhaseUnlock(t)
           \/ (\E p \in LockPhases : PhaseLock(t, p)) \/ (\E p \in Phases : PhaseSwitch(t, p))
  BY <1>1, <1>5 DEF Alone, PhaseLockEnd, PhaseUnlockEnd, PhaseSwitchEnd, PhaseUnlock, PhaseLock,
     PhaseSwitch, Begin, Construct
<1>6. CASE NotifyAll(t)
  BY <1>1, <1>6 DEF Alone, NotifyAll
<1> QED
  BY <1>2, <1>3, <1>4, <1>5, <1>6 DEF Step, Quiet

-----------------------------------------------------------------------------
(***************************************************************************)
(* ShapeInv.                                                               *)
(***************************************************************************)

\* An operation begins with a claim and a goal that fit it.
LEMMA BeginShape ==
    ASSUME TypeOK, NEW t \in Threads, NEW o \in Operations, NEW n \in Phases \cup {NoPhase},
           Begin(t, o, n), UNCHANGED claim, guards'[t] # <<>>,
           \/ o \in Acquiring /\ claim[t] = NoPhase /\ n \in Phases
           \/ o \in Releasing /\ claim[t] \in Phases /\ n = NoPhase
           \/ o \in Switching /\ claim[t] \in Phases /\ n \in Phases
    PROVE  Shape(t)'
<1>1. /\ pc'[t] = (IF claim[t] = "load" THEN "drop" ELSE "mutex") /\ op'[t] = o /\ goal'[t] = n
      /\ claim'[t] = claim[t]
  BY DEF Begin, TypeOK
<1>2. claim[t] = NoPhase => pc'[t] = "mutex"
  BY <1>1, PhaseFacts
<1> QED
  BY <1>1, <1>2 DEF Shape, Acquiring, Releasing, Switching, Past_m

LEMMA ShapeOwn ==
    ASSUME IndInv, NEW t \in Threads, Step(t)
    PROVE  Shape(t)'
<1>1. /\ pc \in [Threads -> Places] /\ op \in [Threads -> Operations]
      /\ claim \in [Threads -> Phases \cup {NoPhase}]
      /\ goal \in [Threads -> Phases \cup {NoPhase}]
      /\ guards \in [Threads -> Seq(Guards)] /\ TypeOK /\ phase \in Phases
      /\ NoPhase \notin Phases
  BY PhaseFacts DEF IndInv, TypeOK
<1>2. Shape(t)
  BY DEF IndInv, ShapeInv
<1>3. CASE LoadUnlock(t)
  BY <1>1, <1>2, <1>3 DEF LoadUnlock, Shape, Acquiring, Releasing, Switching, Past_m
<1>4. CASE Lock(t)
  <2>1. /\ claim'[t] = goal[t] /\ goal[t] \in Phases /\ op[t] \in Acquiring
        /\ op'[t] = op[t] /\ goal'[t] = goal[t] /\ guards'[t] = guards[t]
        /\ pc'[t] = "blocked" \/ pc'[t] = Past(goal[t])
    BY <1>1, <1>4, LockFacts DEF Lock, Enter, Block, Acquiring
  <2> QED
    BY <1>2, <2>1 DEF Shape, Past, Past_m, Acquiring
<1>5. CASE Unlock(t)
  BY <1>1, <1>2, <1>5 DEF Unlock, Shape, Acquiring, Releasing, Switching, Past_m
<1>6. CASE Relock(t)
  <2>1. /\ op[t] \in Switching
        /\ pc'[t] = "blocked" \/ pc'[t] = Past(goal[t])
        /\ op'[t] = op[t] /\ goal'[t] = goal[t] /\ guards'[t] = guards[t]
    BY <1>1, <1>6 DEF Relock, Enter, Block, Switching
  <2>2. claim'[t] = goal[t] /\ goal[t] \in Phases
    BY <1>1, <1>6, RelockFacts
  <2> QED
    BY <1>2, <2>1, <2>2 DEF Shape, Past, Past_m, Switching
<1>7. CASE NotifyAll(t)
  <2>1. pc'[t] = pc[t] \/ (pc[t] = "blocked" /\ pc'[t] = "notified")
    BY <1>1, <1>7 DEF NotifyAll
  <2>2. UNCHANGED <<op, claim, goal, guards>>
    BY <1>7 DEF NotifyAll
  <2> QED
    BY <1>2, <2>1, <2>2 DEF Shape, Past_m
<1>8. CASE WaitCheck(t) \/ SpuriousWakeup(t)
  BY <1>1, <1>2, <1>8 DEF WaitCheck, SpuriousWakeup, Shape, Past_m
<1>9. CASE Activate(t) \/ LoadLock(t)
  BY <1>1, <1>2, <1>9 DEF Activate, LoadLock, Past, Shape, Past_m
<1>10. CASE GuardConstructed(t) \/ GuardDestroyed(t)
  <2>1. /\ pc[t] = "got" /\ pc'[t] = "in" /\ op'[t] = "none" /\ goal'[t] = NoPhase /\ claim' = claim
    BY <1>1, <1>10 DEF GuardConstructed, GuardDestroyed, Entered
  <2> QED
    BY <1>2, <2>1 DEF Shape, Past_m
<1>11. CASE Suspend(t) \/ Resume(t)
  BY <1>1, <1>2, <1>11 DEF Suspend, Resume, Shape, Past_m
<1>12. CASE Throw(t) \/ Catch(t)
  BY <1>2, <1>12 DEF Throw, Catch, Shape
<1>13. CASE GuardFails(t)
  <2>1. claim[t] \in Phases /\ guards[t] # <<>> /\ guards' = guards /\ claim' = claim
    BY <1>1, <1>2, <1>13 DEF GuardFails, Shape, Past_m
  <2>2. CASE op[t] = "lock" /\ Begin(t, "abort", NoPhase)
    BY <1>1, <2>1, <2>2, BeginShape DEF Releasing, Operations
  <2>3. CASE op[t] = "switch" /\ Begin(t, "undo", Old(t))
    BY <1>1, <2>1, <2>3, GuardTypes, BeginShape DEF Switching, Operations
  <2> QED
    BY <1>13, <2>2, <2>3 DEF GuardFails
<1>14. CASE PhaseLockEnd(t)
  <2>1. claim[t] \in Phases /\ guards'[t] # <<>> /\ claim' = claim /\ Begin(t, "release", NoPhase)
    BY <1>2, <1>14 DEF PhaseLockEnd, Shape, Innermost
  <2> QED
    BY <1>1, <2>1, BeginShape DEF Releasing, Operations
<1>15. CASE PhaseUnlockEnd(t)
  <2>1. /\ claim[t] = NoPhase /\ guards[t] # <<>> /\ guards'[t] # <<>> /\ claim' = claim
        /\ Begin(t, "reacquire", Old(t))
    BY <1>2, <1>15 DEF PhaseUnlockEnd, Shape, Innermost
  <2> QED
    BY <1>1, <2>1, GuardTypes, BeginShape DEF Acquiring, Operations
<1>16. CASE PhaseSwitchEnd(t)
  <2>1. /\ claim[t] \in Phases /\ guards[t] # <<>> /\ guards'[t] # <<>> /\ claim' = claim
        /\ Begin(t, "restore", Old(t))
    BY <1>2, <1>16 DEF PhaseSwitchEnd, Shape, Innermost
  <2> QED
    BY <1>1, <2>1, GuardTypes, BeginShape DEF Switching, Operations
<1>17. CASE \E p \in LockPhases : PhaseLock(t, p)
  <2>1. PICK p \in LockPhases : PhaseLock(t, p)
    BY <1>17
  <2>2. claim[t] = NoPhase /\ p \in Phases /\ claim' = claim /\ Begin(t, "lock", p) /\ guards'[t] # <<>>
    BY <1>1, <1>2, <2>1, Constructed DEF PhaseLock, Shape, LockPhases, Phases
  <2> QED
    BY <1>1, <2>2, BeginShape DEF Acquiring, Operations
<1>18. CASE \E p \in Phases : PhaseSwitch(t, p)
  <2>1. PICK p \in Phases : PhaseSwitch(t, p)
    BY <1>18
  <2>2. claim[t] \in Phases /\ claim' = claim /\ Begin(t, "switch", p) /\ guards'[t] # <<>>
    BY <1>1, <1>2, <2>1, Constructed DEF PhaseSwitch, Shape
  <2> QED
    BY <1>1, <2>2, BeginShape DEF Switching, Operations
<1>19. CASE PhaseUnlock(t)
  <2>1. claim[t] \in Phases /\ claim' = claim /\ Begin(t, "unlock", NoPhase) /\ guards'[t] # <<>>
    BY <1>1, <1>2, <1>19, Constructed DEF PhaseUnlock, Shape
  <2> QED
    BY <1>1, <2>1, BeginShape DEF Releasing, Operations
<1> QED
  BY <1>3, <1>4, <1>5, <1>6, <1>7, <1>8, <1>9, <1>10, <1>11, <1>12, <1>13, <1>14, <1>15, <1>16, <1>17,
     <1>18, <1>19 DEF Step, Quiet

LEMMA ShapeStep ==
    ASSUME IndInv, NEW t \in Threads, Step(t)
    PROVE  ShapeInv'
<1> SUFFICES ASSUME NEW u \in Threads, u # t PROVE Shape(u)'
  BY ShapeOwn DEF ShapeInv
<1>1. Shape(u) /\ TypeOK
  BY DEF IndInv, ShapeInv
<1> QED
  BY <1>1, Frame DEF Shape, Alone, Past_m
-----------------------------------------------------------------------------
(***************************************************************************)
(* LoadInv and OwedInv.                                                    *)
(***************************************************************************)

\* The thread of a step keeps, gets or gives up lm_ as it enters and leaves the
\* load phase; nobody else's hold on it changes.
LEMMA LoadStep ==
    ASSUME IndInv, NEW t \in Threads, Step(t)
    PROVE  LoadInv'
<1>1. /\ pc \in [Threads -> Places] /\ claim \in [Threads -> Phases \cup {NoPhase}]
      /\ lm \in Threads \cup {NoPhase} /\ TypeOK /\ NoPhase \notin Phases /\ NoPhase \notin Threads
      /\ Phases = {"load", "match", "execute"}
  BY PhaseFacts DEF IndInv, TypeOK
<1>2. Shape(t) /\ \A u \in Threads : HasLoad(u) <=> lm = u
  BY DEF IndInv, ShapeInv, LoadInv
<1>3. ASSUME NEW u \in Threads, u # t PROVE HasLoad(u)' <=> HasLoad(u)
  BY <1>1, <1>3, Frame DEF HasLoad, Alone
<1>4. SUFFICES (HasLoad(t)' <=> lm' = t) /\ \A u \in Threads \ {t} : lm' = u <=> lm = u
  BY <1>2, <1>3 DEF LoadInv
<1>5. CASE LoadUnlock(t)
  BY <1>1, <1>2, <1>5 DEF LoadUnlock, HasLoad, Shape
<1>6. CASE LoadLock(t)
  BY <1>1, <1>2, <1>6 DEF LoadLock, HasLoad, Shape
<1>7. SUFFICES ASSUME ~LoadUnlock(t), ~LoadLock(t) PROVE lm' = lm /\ (HasLoad(t)' <=> HasLoad(t))
  BY <1>2, <1>5, <1>6
<1>8. lm' = lm
  BY <1>7 DEF Step, Lock, Unlock, Relock, Quiet, NotifyAll, WaitCheck, GuardFails, GuardConstructed,
     GuardDestroyed, Entered, Activate, Resume, PhaseLockEnd, PhaseUnlockEnd, PhaseSwitchEnd, PhaseLock,
     PhaseSwitch, PhaseUnlock, Suspend, Throw, Catch, SpuriousWakeup, mutexVars
<1>9. CASE Lock(t) \/ Unlock(t) \/ Relock(t)
  <2>1. ~HasLoad(t)
    BY <1>9 DEF Lock, Unlock, Relock, HasLoad
  <2>2. CASE Unlock(t)
    BY <1>1, <1>8, <2>1, <2>2 DEF Unlock, HasLoad
  <2>3. CASE Lock(t) \/ Relock(t)
    <3>1. claim'[t] = goal[t] /\ (pc'[t] = "blocked" \/ pc'[t] = Past(goal[t]))
      BY <1>1, <2>3 DEF Lock, Relock, Enter, Block
    <3> QED
      BY <1>8, <2>1, <3>1 DEF HasLoad, Past
  <2> QED
    BY <1>9, <2>2, <2>3
<1>10. CASE Quiet(t)
  <2>1. claim' = claim
    BY <1>10, QuietCounts
  <2>2. CASE NotifyAll(t) \/ WaitCheck(t) \/ SpuriousWakeup(t) \/ Throw(t) \/ Catch(t)
    BY <1>1, <1>8, <2>1, <2>2 DEF NotifyAll, WaitCheck, SpuriousWakeup, Throw, Catch, HasLoad
  <2>3. CASE GuardConstructed(t) \/ GuardDestroyed(t)
    BY <1>1, <1>8, <2>1, <2>3 DEF GuardConstructed, GuardDestroyed, Entered, HasLoad
  <2>4. CASE Activate(t)
    BY <1>1, <1>2, <1>8, <2>1, <2>4 DEF Activate, Past, HasLoad, Shape, Past_m
  <2>5. CASE Suspend(t) \/ Resume(t)
    BY <1>1, <1>2, <1>8, <2>1, <2>5 DEF Suspend, Resume, HasLoad, Shape
  <2>6. CASE pc[t] \in {"in", "out", "got"} /\ \E o, n : Begin(t, o, n)
    BY <1>1, <1>2, <1>8, <2>1, <2>6 DEF Begin, HasLoad, Shape
  <2>7. (\E p \in LockPhases : PhaseLock(t, p)) \/ (\E p \in Phases : PhaseSwitch(t, p)) \/ PhaseUnlock(t)
        \/ GuardFails(t) \/ PhaseLockEnd(t) \/ PhaseUnlockEnd(t) \/ PhaseSwitchEnd(t)
        => pc[t] \in {"in", "out", "got"} /\ \E o, n : Begin(t, o, n)
    BY DEF PhaseLock, PhaseSwitch, PhaseUnlock, GuardFails, PhaseLockEnd, PhaseUnlockEnd, PhaseSwitchEnd
  <2> QED
    BY <1>7, <1>10, <2>2, <2>3, <2>4, <2>5, <2>6, <2>7 DEF Quiet
<1> QED
  BY <1>9, <1>10 DEF Step

LEMMA OwedStep ==
    ASSUME IndInv, NEW t \in Threads, Step(t)
    PROVE  OwedInv'
<1>1. /\ pc \in [Threads -> Places] /\ owed \in [Threads -> Phases \cup {NoPhase}] /\ TypeOK
      /\ claim \in [Threads -> Phases \cup {NoPhase}] /\ Phases = {"load", "match", "execute"}
  BY PhaseFacts DEF IndInv, TypeOK
<1>2. \A u \in Threads : owed[u] # NoPhase => pc[u] \in {"out", "lm_wait", "got"}
  BY DEF IndInv, OwedInv
<1>3. ASSUME NEW u \in Threads, u # t, owed'[u] # NoPhase PROVE pc'[u] \in {"out", "lm_wait", "got"}
  BY <1>1, <1>2, <1>3, Frame DEF Alone
<1>4. SUFFICES ASSUME owed'[t] # NoPhase PROVE pc'[t] \in {"out", "lm_wait", "got"}
  BY <1>3 DEF OwedInv
<1>5. CASE Lock(t) \/ Unlock(t)
  <2>1. owed[t] = NoPhase
    BY <1>2, <1>5 DEF Lock, Unlock
  <2> QED
    BY <1>1, <1>4, <1>5, <2>1 DEF Lock, Unlock
<1>6. CASE Relock(t)
  <2>1. phase' = goal[t]
    BY <1>1, <1>4, <1>6, RelockFacts
  <2> QED
    BY <1>1, <1>6, <2>1 DEF Relock, Enter, Past
<1>7. CASE Quiet(t)
  <2>1. ~NotifyAll(t)
    BY <1>1, <1>4 DEF NotifyAll
  <2>2. owed' = owed
    BY <1>7, <2>1 DEF Quiet, LoadUnlock, WaitCheck, GuardFails, GuardConstructed, GuardDestroyed,
       Entered, Activate, LoadLock, Resume, PhaseLockEnd, PhaseUnlockEnd, PhaseSwitchEnd, PhaseLock,
       PhaseSwitch, PhaseUnlock, Suspend, Throw, Catch, SpuriousWakeup
  <2>3. owed[t] # NoPhase /\ pc[t] \in {"out", "lm_wait", "got"}
    BY <1>2, <1>4, <2>2
  <2>4. UNCHANGED pc
    BY <1>7, <2>1, <2>3 DEF Quiet, LoadUnlock, WaitCheck, GuardFails, GuardConstructed, GuardDestroyed,
       Entered, Activate, LoadLock, Resume, PhaseLockEnd, PhaseUnlockEnd, PhaseSwitchEnd, PhaseLock,
       PhaseSwitch, PhaseUnlock, Suspend, Throw, Catch, SpuriousWakeup
  <2> QED
    BY <2>3, <2>4
<1> QED
  BY <1>5, <1>6, <1>7 DEF Step
-----------------------------------------------------------------------------
(***************************************************************************)
(* NotStranded.                                                            *)
(***************************************************************************)

\* Whoever sleeps after the step has slept before it or fell asleep in it,
\* having seen another phase.
LEMMA Sleepers ==
    ASSUME IndInv, NEW t \in Threads, Step(t), NEW u \in Threads, pc'[u] = "blocked"
    PROVE  /\ goal'[u] = goal[u] /\ claim'[u] = goal[u] /\ goal[u] \in Phases
           /\ pc[u] = "blocked" \/ (u = t /\ phase' # goal[u])
           /\ pc[u] = "blocked" => ~(NotifyAll(t) /\ owed[t] = goal[u])
<1>1. /\ pc \in [Threads -> Places] /\ TypeOK
  BY DEF IndInv, TypeOK
<1>2. Shape(u)'
  BY ShapeStep DEF ShapeInv
<1>3. claim'[u] = goal'[u] /\ goal'[u] \in Phases
  BY <1>2 DEF Shape, Past_m
<1>4. CASE u # t
  <2>1. goal'[u] = goal[u] /\ pc[u] = "blocked"
    BY <1>1, <1>4, Frame DEF Alone
  <2> QED
    BY <1>1, <1>3, <2>1 DEF NotifyAll
<1>5. CASE u = t
  <2>1. CASE Lock(t)
    BY <1>1, <1>3, <1>5, <2>1 DEF Lock, Enter, Past
  <2>2. CASE Relock(t)
    BY <1>1, <1>3, <1>5, <2>2 DEF Relock, Enter, Past
  <2>3. CASE WaitCheck(t)
    <3>1. phase # goal[u] /\ phase' = phase /\ goal' = goal /\ pc[t] = "notified"
      BY <1>1, <1>5, <2>3 DEF WaitCheck, mutexVars
    <3> QED
      BY <1>3, <1>5, <3>1
  <2>4. CASE NotifyAll(t)
    BY <1>1, <1>3, <1>5, <2>4 DEF NotifyAll
  <2>5. CASE Throw(t) \/ Catch(t)
    BY <1>3, <1>5, <2>5 DEF Throw, Catch, NotifyAll
  <2>6. CASE Unlock(t) \/ LoadUnlock(t) \/ LoadLock(t) \/ Suspend(t) \/ SpuriousWakeup(t)
    BY <1>1, <1>5, <2>6 DEF Unlock, LoadUnlock, LoadLock, Suspend, SpuriousWakeup
  <2>7. CASE GuardConstructed(t) \/ GuardDestroyed(t)
    BY <1>1, <1>5, <2>7 DEF GuardConstructed, GuardDestroyed, Entered
  <2>8. CASE Activate(t) \/ Resume(t)
    BY <1>1, <1>5, <2>8 DEF Activate, Resume, Past
  <2>9. CASE \E o, n : Begin(t, o, n)
    BY <1>1, <1>5, <2>9 DEF Begin
  <2>10. (\E p \in LockPhases : PhaseLock(t, p)) \/ (\E p \in Phases : PhaseSwitch(t, p)) \/ PhaseUnlock(t)
         \/ GuardFails(t) \/ PhaseLockEnd(t) \/ PhaseUnlockEnd(t) \/ PhaseSwitchEnd(t)
         => \E o, n : Begin(t, o, n)
    BY DEF PhaseLock, PhaseSwitch, PhaseUnlock, GuardFails, PhaseLockEnd, PhaseUnlockEnd, PhaseSwitchEnd
  <2> QED
    BY <2>1, <2>2, <2>3, <2>4, <2>5, <2>6, <2>7, <2>8, <2>9, <2>10 DEF Step, Quiet
<1> QED
  BY <1>4, <1>5

LEMMA StrandedStep ==
    ASSUME IndInv, NEW t \in Threads, Step(t)
    PROVE  NotStranded'
<1> SUFFICES ASSUME NEW u \in Threads, pc'[u] = "blocked"
             PROVE  \/ phase' # goal[u] /\ \E v \in Threads : claim'[v] = phase'
                    \/ phase' = goal[u] /\ \E v \in Threads : owed'[v] = phase'
  BY Sleepers DEF NotStranded
<1>1. /\ owed \in [Threads -> Phases \cup {NoPhase}] /\ phase \in Phases /\ NoPhase \notin Phases
      /\ claim \in [Threads -> Phases \cup {NoPhase}]
  BY PhaseFacts DEF IndInv, TypeOK
<1>2. CountInv'
  BY LockCount, UnlockCount, RelockCount, QuietCount DEF Step
\* Somebody is counted, so the current phase has somebody in it.
<1>3. phase' # goal[u] => \E v \in Threads : claim'[v] = phase'
  BY <1>1, <1>2, Sleepers DEF CountInv, Occupied
<1>4. SUFFICES ASSUME phase' = goal[u] PROVE \E v \in Threads : owed'[v] = phase'
  BY <1>3
<1>5. pc[u] = "blocked" /\ goal[u] \in Phases /\ claim'[u] = goal[u]
  BY <1>4, Sleepers
<1>6. \/ phase # goal[u] /\ \E v \in Threads : claim[v] = phase
      \/ phase = goal[u] /\ \E v \in Threads : owed[v] = phase
  BY <1>5 DEF IndInv, NotStranded
<1>7. claim[u] = goal[u]
  BY <1>5 DEF IndInv, ShapeInv, Shape, Past_m
<1>8. CASE Lock(t)
  <2>1. phase' = phase /\ owed' = owed
    BY <1>1, <1>5, <1>7, <1>8, LockFacts DEF Lock
  <2> QED
    BY <1>4, <1>6, <2>1
<1>9. CASE Unlock(t)
  <2>1. u # t
    BY <1>5, <1>9 DEF Unlock
  <2>2. CASE phase' = phase /\ (\E v \in Threads \ {t} : claim[v] = phase)
             /\ owed' = [owed EXCEPT ![t] = NoPhase]
    BY <1>1, <1>4, <1>6, <1>9, <2>2, UnlockFacts
  <2>3. CASE owed' = [owed EXCEPT ![t] = phase']
    BY <1>1, <2>3
  <2> QED
    BY <1>1, <1>5, <1>7, <1>9, <2>1, <2>2, <2>3, UnlockFacts
<1>10. CASE Relock(t)
  <2>1. u # t
    BY <1>5, <1>10 DEF Relock
  <2>2. CASE phase' = goal[t]
    BY <1>1, <1>4, <1>7, <1>10, <2>1, <2>2, RelockFacts
  <2>3. CASE phase' # goal[t]
    BY <1>1, <1>4, <1>6, <1>10, <2>3, RelockFacts
  <2> QED
    BY <2>2, <2>3
<1>11. CASE Quiet(t)
  <2>1. phase' = phase /\ \E v \in Threads : owed[v] = phase
    BY <1>4, <1>6, <1>11, QuietCounts
  <2>2. CASE NotifyAll(t)
    <3>1. owed[t] # goal[u] /\ owed' = [owed EXCEPT ![t] = NoPhase]
      BY <1>5, <2>2, Sleepers DEF NotifyAll
    <3> QED
      BY <1>1, <1>4, <2>1, <3>1
  <2>3. CASE ~NotifyAll(t)
    <3>1. owed' = owed
      BY <1>11, <2>3 DEF Quiet, LoadUnlock, WaitCheck, GuardFails, GuardConstructed, GuardDestroyed,
         Entered, Activate, LoadLock, Resume, PhaseLockEnd, PhaseUnlockEnd, PhaseSwitchEnd, PhaseLock,
         PhaseSwitch, PhaseUnlock, Suspend, Throw, Catch, SpuriousWakeup
    <3> QED
      BY <2>1, <3>1
  <2> QED
    BY <2>2, <2>3
<1> QED
  BY <1>8, <1>9, <1>10, <1>11 DEF Step
-----------------------------------------------------------------------------
(***************************************************************************)
(* OkInv.                                                                  *)
(***************************************************************************)
LEMMA OthersResult ==
    ASSUME TypeOK, NEW t \in Threads, Step(t), NEW u \in Threads, u # t
    PROVE  ok'[u] = ok[u]
<1>1. CASE ok' = ok
  BY <1>1
<1>2. CASE \E b \in BOOLEAN : ok' = [ok EXCEPT ![t] = b]
  <2>1. PICK b \in BOOLEAN : ok' = [ok EXCEPT ![t] = b]
    BY <1>2
  <2>2. ok \in [Threads -> BOOLEAN]
    BY DEF TypeOK
  <2> QED
    BY <2>1, <2>2, Zenon
<1> QED
  BY <1>1, <1>2, ResultUpdate

\* Only a load that ends fails the mutex, and then nobody else is past its wait
\* in a phase that it could enter.
LEMMA LoadFails ==
    ASSUME IndInv, NEW t \in Threads, PhaseSwitchEnd(t), claim[t] = "load", NEW u \in Threads,
           pc[u] = "got" \/ (pc[u] = "activating" /\ claim[u] # "load")
    PROVE  FALSE
<1>1. NoPhase \notin Phases /\ "load" \in Phases
  BY PhaseFacts
<1>2. pc[t] = "in" /\ Shape(u)
  BY DEF PhaseSwitchEnd, IndInv, ShapeInv
<1>3. claim[t] = phase /\ HasLoad(t) /\ lm = t
  BY <1>1, <1>2 DEF IndInv, CountInv, InPhase, Inside, Waiting, HasLoad, LoadInv
<1>4. claim[u] \in Phases
  BY <1>2 DEF Shape, Past_m
<1>5. claim[u] = phase
  BY <1>1, <1>4 DEF IndInv, CountInv, InPhase, Inside, Waiting
<1>6. pc[u] = "got" /\ HasLoad(u)
  BY <1>3, <1>5 DEF HasLoad
<1>7. lm = u
  BY <1>6 DEF IndInv, LoadInv
<1> QED
  BY <1>2, <1>3, <1>6, <1>7

LEMMA OkStep ==
    ASSUME IndInv, NEW t \in Threads, Step(t)
    PROVE  OkInv'
<1> SUFFICES ASSUME NEW u \in Threads,
                    pc'[u] = "got" \/ (pc'[u] = "activating" /\ claim'[u] # "load"), ok'[u]
             PROVE  ~fail'
  BY DEF OkInv
<1>1. TypeOK /\ pc \in [Threads -> Places] /\ Shape(t) /\ Shape(u)
  BY DEF IndInv, TypeOK, ShapeInv
<1>2. (pc[u] = "got" \/ (pc[u] = "activating" /\ claim[u] # "load")) /\ ok[u] => ~fail
  BY DEF IndInv, OkInv
<1>3. CASE PhaseSwitchEnd(t)
  <2>1. u # t
    BY <1>1, <1>3 DEF PhaseSwitchEnd, Begin
  <2>2. (pc[u] = "got" \/ (pc[u] = "activating" /\ claim[u] # "load")) /\ ok[u]
    BY <1>1, <2>1, Frame, OthersResult DEF Alone
  <2>3. claim[t] # "load"
    BY <1>3, <2>2, LoadFails
  <2>4. fail' <=> fail
    BY <1>3, <2>3, Zenon DEF PhaseSwitchEnd
  <2> QED
    BY <1>2, <2>2, <2>4, Zenon
<1>4. CASE ~PhaseSwitchEnd(t)
  <2>1. fail' = fail
    BY <1>4 DEF Step, Quiet, Lock, Unlock, Relock, LoadUnlock, NotifyAll, WaitCheck, GuardFails,
       GuardConstructed, GuardDestroyed, Entered, Activate, LoadLock, Resume, PhaseLockEnd, PhaseUnlockEnd,
       PhaseLock, PhaseSwitch, PhaseUnlock, Suspend, Throw, Catch, SpuriousWakeup, mutexVars
  <2>2. CASE u # t
    <3>1. (pc[u] = "got" \/ (pc[u] = "activating" /\ claim[u] # "load")) /\ ok[u]
      BY <1>1, <2>2, Frame, OthersResult DEF Alone
    <3> QED
      BY <1>2, <2>1, <3>1
  <2>3. CASE u = t /\ ok' = [ok EXCEPT ![t] = ~fail]
    <3>1. ok \in [Threads -> BOOLEAN]
      BY <1>1 DEF TypeOK
    <3>2. ok'[t] = ~fail
      BY <2>3, <3>1, Zenon
    <3>3. ~fail
      BY <2>3, <3>2
    <3> QED
      BY <2>1, <3>3
  <2>4. CASE u = t /\ ok' = ok /\ (pc'[t] = pc[t] \/ Activate(t))
    <3>1. (pc[u] = "got" \/ (pc[u] = "activating" /\ claim[u] # "load")) /\ ok[u]
      <4>1. CASE Activate(t)
        BY <1>1, <2>4, <4>1 DEF Activate, Past, Shape, Past_m
      <4>2. CASE pc'[t] = pc[t] /\ ~Activate(t)
        <5>1. pc[t] \in {"got", "activating"}
          BY <2>4, <4>2
        <5>2. claim' = claim
          BY <5>1, QuietCounts DEF Step, Lock, Unlock, Relock
        <5> QED
          BY <2>4, <4>2, <5>2
      <4> QED
        BY <2>4, <4>1, <4>2
    <3> QED
      BY <1>2, <2>1, <3>1
  <2>5. CASE u = t /\ pc'[t] \notin {"got", "activating"}
    BY <2>5
  <2>6. CASE Lock(t) \/ Relock(t)
    <3>1. ok' = [ok EXCEPT ![t] = ~fail] \/ pc'[t] = "blocked"
      BY <1>1, <2>6 DEF Lock, Relock, Enter, Block
    <3> QED
      BY <2>2, <2>3, <2>5, <3>1
  <2>7. CASE LoadLock(t)
    <3>1. ok' = [ok EXCEPT ![t] = ~fail]
      BY <2>7 DEF LoadLock, Requery
    <3> QED
      BY <2>2, <2>3, <3>1
  <2>8. CASE WaitCheck(t)
    <3>1. ok' = [ok EXCEPT ![t] = ~fail] \/ pc'[t] = "blocked"
      BY <1>1, <2>8 DEF WaitCheck
    <3> QED
      BY <2>2, <2>3, <2>5, <3>1
  <2>9. CASE NotifyAll(t) \/ Throw(t) \/ Catch(t) \/ Activate(t)
    <3>1. ok' = ok /\ (pc'[t] = pc[t] \/ pc'[t] = "notified" \/ Activate(t))
      BY <1>1, <2>9 DEF NotifyAll, Throw, Catch, Activate
    <3> QED
      BY <2>2, <2>4, <2>5, <3>1
  <2>10. CASE Unlock(t) \/ LoadUnlock(t) \/ Suspend(t) \/ Resume(t) \/ SpuriousWakeup(t)
    <3>1. pc'[t] \notin {"got", "activating"}
      BY <1>1, <2>10 DEF Unlock, LoadUnlock, Suspend, Resume, SpuriousWakeup
    <3> QED
      BY <2>2, <2>5, <3>1
  <2>11. CASE GuardConstructed(t) \/ GuardDestroyed(t)
    <3>1. pc'[t] \notin {"got", "activating"}
      BY <1>1, <2>11 DEF GuardConstructed, GuardDestroyed, Entered
    <3> QED
      BY <2>2, <2>5, <3>1
  <2>12. CASE \E o, n : Begin(t, o, n)
    <3>1. pc'[t] \notin {"got", "activating"}
      BY <1>1, <2>12 DEF Begin
    <3> QED
      BY <2>2, <2>5, <3>1
  <2>13. (\E p \in LockPhases : PhaseLock(t, p)) \/ (\E p \in Phases : PhaseSwitch(t, p)) \/ PhaseUnlock(t)
         \/ GuardFails(t) \/ PhaseLockEnd(t) \/ PhaseUnlockEnd(t)
         => \E o, n : Begin(t, o, n)
    BY DEF PhaseLock, PhaseSwitch, PhaseUnlock, GuardFails, PhaseLockEnd, PhaseUnlockEnd
  <2> QED
    BY <1>4, <2>6, <2>7, <2>8, <2>9, <2>10, <2>11, <2>12, <2>13 DEF Step, Quiet
<1> QED
  BY <1>3, <1>4
-----------------------------------------------------------------------------
(***************************************************************************)
(* The theorems.                                                           *)
(***************************************************************************)
LEMMA IndInit ==
    ASSUME Init
    PROVE  IndInv
<1>1. NoPhase \notin Phases /\ NoPhase \notin Threads /\ "load" \in Phases
  BY PhaseFacts
<1>2. /\ \A t \in Threads : /\ pc[t] = "out" /\ op[t] = "none" /\ claim[t] = NoPhase
                            /\ goal[t] = NoPhase /\ owed[t] = NoPhase
      /\ phase = "load" /\ lm = NoPhase /\ count = [p \in Phases |-> 0]
  BY DEF Init
<1>3. TypeOK
  <2>1. fail \in BOOLEAN /\ ok \in [Threads -> BOOLEAN] /\ bad \in [Threads -> BOOLEAN]
        /\ slot \in [Threads -> BOOLEAN]
    BY Zenon DEF Init
  <2>2. <<>> \in Seq(Guards)
    OBVIOUS
  <2>5. PICK b \in Builds : ops = b.ops /\ max_active = b.max_active
    BY DEF Init
  <2>6. b \in [max_active : Nat \ {0}, ops : [Threads -> Budgets]]
    BY PhaseAssumption DEF Budgets
  <2>3. /\ guards \in [Threads -> Seq(Guards)] /\ ops \in [Threads -> Budgets]
        /\ max_active \in Nat \ {0}
    BY <2>2, <2>5, <2>6 DEF Init
  <2>4. /\ phase \in Phases /\ generation \in Nat /\ count \in [Phases -> Nat]
        /\ lm \in Threads \cup {NoPhase}
        /\ pc \in [Threads -> Places] /\ op \in [Threads -> Operations]
        /\ claim \in [Threads -> Phases \cup {NoPhase}]
        /\ goal \in [Threads -> Phases \cup {NoPhase}]
        /\ owed \in [Threads -> Phases \cup {NoPhase}]
    BY <1>1 DEF Init, Places, Operations
  <2> QED
    BY <2>1, <2>3, <2>4 DEF TypeOK, Budgets
<1>4. ShapeInv /\ LoadInv /\ OwedInv /\ NotStranded /\ OkInv
  BY <1>1, <1>2 DEF ShapeInv, Shape, LoadInv, HasLoad, OwedInv, NotStranded, OkInv, Past_m
<1>5. InPhase /\ Occupied
  BY <1>2 DEF InPhase, Inside, Occupied
<1>6. Counted
  <2> SUFFICES ASSUME NEW p \in Phases PROVE count[p] = Cardinality(In(p))
    BY DEF Counted, In
  <2>1. In(p) = {} /\ count[p] = 0
    BY <1>1, <1>2 DEF In
  <2> QED
    BY <2>1, FS_EmptySet
<1> QED
  BY <1>3, <1>4, <1>5, <1>6 DEF IndInv, CountInv

LEMMA IndNext ==
    ASSUME IndInv, [Next]_vars
    PROVE  IndInv'
<1>1. CASE UNCHANGED vars
  BY <1>1 DEF vars, mutexVars, IndInv, TypeOK, ShapeInv, Shape, CountInv, Counted, InPhase, Inside, Waiting,
     Occupied, LoadInv, HasLoad, OwedInv, NotStranded, OkInv
<1>2. ASSUME NEW t \in Threads, Step(t) PROVE IndInv'
  <2>1. CountInv'
    BY <1>2, LockCount, UnlockCount, RelockCount, QuietCount DEF Step
  <2> QED
    BY <1>2, <2>1, TypeStep, ShapeStep, LoadStep, OwedStep, StrandedStep, OkStep DEF IndInv
<1> QED
  BY <1>1, <1>2, NextSteps DEF Step

LEMMA Inductive == Spec => []IndInv
<1>1. Init => IndInv
  BY IndInit
<1>2. IndInv /\ [Next]_vars => IndInv'
  BY IndNext
<1> QED
  BY <1>1, <1>2, PTL DEF Spec

\* The counters of run_phase_mutex never go below zero, a thread is always at one
\* of the places of an operation, and its guards are a stack.
THEOREM TypeCorrect == Spec => []TypeOK
<1>1. IndInv => TypeOK
  BY DEF IndInv
<1> QED
  BY <1>1, Inductive, PTL

\* lc_, mc_ and ec_ are the numbers of threads that are in, or wait for, each
\* phase, along every nesting of guards, failure and retreat.
THEOREM CountersExact == Spec => []Counted
<1>1. IndInv => Counted
  BY DEF IndInv, CountInv
<1> QED
  BY <1>1, Inductive, PTL

\* The tri-mutex keeps all the threads that are past their wait in one phase:
\* lock(), relock() and unlock() switch it only under nobody.
THEOREM OnePhase == Spec => []InPhase
<1>1. IndInv => InPhase
  BY DEF IndInv, CountInv
<1> QED
  BY <1>1, Inductive, PTL

\* A thread that runs in the load phase is the only one that runs, thanks to lm_
\* and whether or not it waits for tasks meanwhile.
THEOREM LoadExclusive == Spec => []ExclusiveLoad
<1>1. IndInv => ExclusiveLoad
  <2> SUFFICES ASSUME IndInv, NEW t \in Threads, NEW u \in Threads, t # u, Running(t), Running(u),
                      claim[t] = "load"
               PROVE  FALSE
    BY DEF ExclusiveLoad
  <2>1. HasLoad(t) /\ lm = t
    BY DEF Running, HasLoad, IndInv, LoadInv
  <2>2. claim[t] = phase /\ claim[u] = phase
    BY DEF Running, IndInv, CountInv, InPhase, Inside, Waiting
  <2>3. HasLoad(u) /\ lm = u
    BY <2>2 DEF Running, HasLoad, IndInv, LoadInv
  <2> QED
    BY <2>1, <2>3
<1> QED
  BY <1>1, Inductive, PTL

\* No wakeup is lost although notify_all() comes after m_ has been released: a
\* thread that sleeps for the current phase has a notification on its way, and
\* otherwise there is somebody in the current phase who will change it.
THEOREM NobodyStranded == Spec => []NotStranded
<1>1. IndInv => NotStranded
  BY DEF IndInv
<1> QED
  BY <1>1, Inductive, PTL

\* Nobody enters a phase of a mutex that a load has failed, except with an
\* exception in flight: the results of lock() and relock() are not stale.
THEOREM FailureSeen == Spec => FailSeen
<1>1. ASSUME IndInv, [Next]_vars, fail, NEW t \in Threads, pc[t] = "got", pc'[t] = "in"
      PROVE  Uncaught(t)'
  <2>1. pc \in [Threads -> Places] /\ bad \in [Threads -> BOOLEAN] /\ TypeOK
    BY <1>1 DEF IndInv, TypeOK
  <2>2. ~ok[t]
    BY <1>1 DEF IndInv, OkInv
  <2>3. PICK u \in Threads : Step(u)
    BY <1>1, NextSteps DEF Step, vars
  <2>4. u = t
    BY <1>1, <2>1, <2>3, Frame
  <2>6. GuardConstructed(t) \/ GuardDestroyed(t)
    <3>1. ~(Lock(t) \/ Unlock(t) \/ Relock(t) \/ LoadUnlock(t) \/ WaitCheck(t) \/ Activate(t)
            \/ LoadLock(t) \/ Resume(t) \/ SpuriousWakeup(t) \/ PhaseLockEnd(t) \/ PhaseUnlockEnd(t)
            \/ PhaseSwitchEnd(t) \/ (\E p \in LockPhases : PhaseLock(t, p))
            \/ (\E p \in Phases : PhaseSwitch(t, p)) \/ PhaseUnlock(t) \/ Suspend(t) \/ Throw(t)
            \/ Catch(t))
      BY <1>1 DEF Lock, Unlock, Relock, LoadUnlock, WaitCheck, Activate, LoadLock, Resume, SpuriousWakeup,
         PhaseLockEnd, PhaseUnlockEnd, PhaseSwitchEnd, PhaseLock, PhaseSwitch, PhaseUnlock, Suspend,
         Throw, Catch
    <3>2. ~NotifyAll(t)
      BY <1>1, <2>1 DEF NotifyAll
    <3>3. ~GuardFails(t)
      BY <1>1, <2>1 DEF GuardFails, Begin
    <3> QED
      BY <2>3, <2>4, <3>1, <3>2, <3>3 DEF Step, Quiet
  <2>7. GuardDestroyed(t)
    BY <2>2, <2>6 DEF GuardConstructed
  <2> DEFINE G == guards[t]
             n == Len(G)
             B == bad[t] \/ G[n].bad \/ MustThrow(t)
  <2>8. G \in Seq(Guards) /\ n \in Nat /\ n > 0 /\ guards'[t] = SubSeq(G, 1, n - 1)
    <3>1. G # <<>>
      BY <1>1, <2>7 DEF GuardDestroyed, IndInv, ShapeInv, Shape
    <3>2. guards \in [Threads -> Seq(Guards)] /\ guards' = [guards EXCEPT ![t] = Popped(t)]
      BY <2>1, <2>7 DEF TypeOK, GuardDestroyed
    <3> QED
      BY <2>1, <3>1, <3>2, GuardTypes DEF Popped
  <2>9. bad' = [bad EXCEPT ![t] = B]
    BY <2>7 DEF GuardDestroyed
  <2>10. bad'[t] <=> B
    BY <2>1, <2>9, Zenon
  <2>11. SUFFICES ASSUME ~B PROVE \E i \in DOMAIN guards'[t] : guards'[t][i].bad
    BY <2>10, Zenon DEF Uncaught
  <2>12. Uncaught(t)
    BY <2>2, <2>11, Zenon DEF MustThrow
  <2>13. PICK i \in DOMAIN G : G[i].bad
    BY <2>11, <2>12, Zenon DEF Uncaught
  <2>14. i # n
    BY <2>11, <2>13, Zenon
  <2> HIDE DEF B, G
  <2>15. i \in 1..n - 1 /\ DOMAIN guards'[t] = 1..n - 1 /\ guards'[t][i] = G[i]
    BY <2>8, <2>13, <2>14
  <2> QED
    BY <2>13, <2>15, Zenon
<1>2. IndInv /\ [Next]_vars =>
         [fail => \A t \in Threads : pc[t] = "got" /\ pc'[t] = "in" => Uncaught(t)']_vars
  BY <1>1
<1> QED
  BY <1>2, Inductive, PTL DEF Spec, FailSeen
=============================================================================
