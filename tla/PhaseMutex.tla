---------------------------- MODULE PhaseMutex -----------------------------
(***************************************************************************)
(* The phase tri-mutex of libbuild2/context.{hxx,cxx}: run_phase_mutex and *)
(* the guards phase_lock, phase_unlock and phase_switch that the threads   *)
(* use it through.                                                         *)
(*                                                                         *)
(* The sections that the code performs under m_, the acquisition and the   *)
(* release of the load mutex lm_, and the notify_all() calls, which come   *)
(* after m_ has been released, are separate steps.  The scheduler appears  *)
(* as what deactivate() and activate() promise: at most max_active threads *)
(* hold a slot at a time (see module Scheduler).                           *)
(*                                                                         *)
(* An exception in flight does not keep a thread from working: ~wait_guard *)
(* waits for the tasks started so far, and works those that are still in   *)
(* the queue of the thread, with guards of their own.                      *)
(***************************************************************************)
EXTENDS Naturals, Sequences, FiniteSets

CONSTANTS
    Threads,       \* threads that execute tasks of one context
    Builds,        \* max_active of the scheduler and, for each thread, bounds on
                   \* the guards it constructs: how many, and for which phases
    LoadSuspends,  \* may a thread wait for tasks while in the load phase?
    NoPhase        \* no phase; also nobody

Phases == {"load", "match", "execute"}

ASSUME PhaseAssumption ==
    /\ IsFiniteSet(Threads)
    /\ Builds \subseteq [max_active : Nat \ {0},
                        ops : [Threads -> Seq(SUBSET (Phases \cup {NoPhase}))]]
    /\ LoadSuspends \in BOOLEAN
    /\ NoPhase \notin Phases /\ NoPhase \notin Threads

VARIABLES
    phase,       \* context::phase
    generation,  \* context::load_generation
    fail,        \* run_phase_mutex::fail_
    count,       \* lc_, mc_, ec_: the threads in or waiting for each phase
    lm,          \* the owner of lm_, or NoPhase
    pc,          \* where each thread is
    op,          \* the guard operation it is performing
    claim,       \* phase_lock::phase: the phase it is counted in, if any
    goal,        \* the phase that the operation acquires, if any
    ok,          \* what lock() or relock() is going to return (else TRUE)
    owed,        \* the phase whose condition variable it has yet to notify
    guards,      \* its guards, outermost first
    bad,         \* an exception is in flight, in the task it is working
    slot,        \* is it active with the scheduler?
    ops,         \* the phases that the guards it may still construct ask for
    max_active   \* scheduler::max_active_, which stays as it is

mutexVars == <<phase, generation, fail, count, lm, max_active>>

vars == <<mutexVars, pc, op, claim, goal, ok, owed, guards, bad, slot, ops>>

\* "out" is without a phase (in no task or within a phase_unlock), "in" is in
\* phase claim; the others are the steps of an operation in progress.
Places == {"out", "in", "drop", "mutex", "blocked", "notified", "activating",
           "lm_wait", "got", "suspended"}

Operations == {"none", "lock", "abort", "release", "unlock", "reacquire",
               "switch", "undo", "restore"}

\* The phase that the destructor goes back to, and whether the guard was
\* constructed with an exception in flight.
Guards == [kind : {"lock", "unlock", "switch"}, old : Phases, bad : BOOLEAN]

Init ==
    /\ phase = "load"
    /\ generation = 0
    /\ fail = FALSE
    /\ count = [p \in Phases |-> 0]
    /\ lm = NoPhase
    /\ pc = [t \in Threads |-> "out"]
    /\ op = [t \in Threads |-> "none"]
    /\ claim = [t \in Threads |-> NoPhase]
    /\ goal = [t \in Threads |-> NoPhase]
    /\ ok = [t \in Threads |-> TRUE]
    /\ owed = [t \in Threads |-> NoPhase]
    /\ guards = [t \in Threads |-> <<>>]
    /\ bad = [t \in Threads |-> FALSE]
    /\ slot = [t \in Threads |-> FALSE]
    /\ \E b \in Builds : ops = b.ops /\ max_active = b.max_active

Active == {t \in Threads : slot[t]}

SlotFree == Cardinality(Active) < max_active

\* The innermost guard of t is of kind k.
Innermost(t, k) == guards[t] # <<>> /\ guards[t][Len(guards[t])].kind = k

\* The phase that its destructor goes back to.
Old(t) == guards[t][Len(guards[t])].old

Popped(t) == SubSeq(guards[t], 1, Len(guards[t]) - 1)

\* uncaught_exception(): an exception is in flight in the task that t works,
\* or in one that it has left for this task while it was failing.
Uncaught(t) == bad[t] \/ \E i \in DOMAIN guards[t] : guards[t][i].bad

-----------------------------------------------------------------------------
(***************************************************************************)
(* The guards.  Begin starts operation o of thread t, which is to acquire  *)
(* phase n (if any).  Leaving the load phase gives up lm_ before m_ is     *)
(* taken.                                                                  *)
(***************************************************************************)
Begin(t, o, n) ==
    /\ op' = [op EXCEPT ![t] = o]
    /\ goal' = [goal EXCEPT ![t] = n]
    /\ pc' = [pc EXCEPT ![t] = IF claim[t] = "load" THEN "drop" ELSE "mutex"]

\* The phases that tasks and operations lock; load is only ever switched to.
LockPhases == {"match", "execute"}

\* A guard of kind k is being constructed, to acquire phase n (if any).
Construct(t, k, old, n) ==
    /\ ops[t] # <<>> /\ n \in Head(ops[t])
    /\ ops' = [ops EXCEPT ![t] = Tail(@)]
    /\ guards' = [guards EXCEPT ![t] = Append(@, [kind |-> k, old |-> old, bad |-> bad[t]])]

\* A task begins with a phase_lock: in a thread that gets a slot for it, or
\* in one that works its queue while it waits within a phase_unlock.
PhaseLock(t, p) ==
    /\ pc[t] = "out" /\ owed[t] = NoPhase
    /\ slot[t] \/ SlotFree
    /\ slot' = [slot EXCEPT ![t] = TRUE]
    /\ Construct(t, "lock", p, p)
    /\ Begin(t, "lock", p)
    /\ UNCHANGED <<mutexVars, claim, ok, owed, bad>>

\* ~phase_lock.
PhaseLockEnd(t) ==
    /\ pc[t] = "in" /\ Innermost(t, "lock")
    /\ Begin(t, "release", NoPhase)
    /\ UNCHANGED <<mutexVars, claim, ok, owed, guards, bad, slot, ops>>

\* In a wait, be it in ~wait_guard while an exception unwinds the task: those
\* that t works meanwhile do not see it, uncaught_exception() does.
PhaseUnlock(t) ==
    /\ pc[t] = "in"
    /\ Construct(t, "unlock", claim[t], NoPhase)
    /\ bad' = [bad EXCEPT ![t] = FALSE]
    /\ Begin(t, "unlock", NoPhase)
    /\ UNCHANGED <<mutexVars, claim, ok, owed, slot>>

\* ~phase_unlock.
PhaseUnlockEnd(t) ==
    /\ pc[t] = "out" /\ owed[t] = NoPhase /\ Innermost(t, "unlock")
    /\ Begin(t, "reacquire", Old(t))
    /\ UNCHANGED <<mutexVars, claim, ok, owed, guards, bad, slot, ops>>

PhaseSwitch(t, n) ==
    /\ pc[t] = "in" /\ n # phase /\ ~bad[t]
    /\ Construct(t, "switch", phase, n)
    /\ Begin(t, "switch", n)
    /\ UNCHANGED <<mutexVars, claim, ok, owed, bad, slot>>

\* ~phase_switch: a failed load marks the mutex first.
PhaseSwitchEnd(t) ==
    /\ pc[t] = "in" /\ Innermost(t, "switch")
    /\ fail' = (fail \/ (claim[t] = "load" /\ Uncaught(t)))
    /\ Begin(t, "restore", Old(t))
    /\ UNCHANGED <<phase, generation, count, lm, max_active, claim, ok, owed, guards, bad,
                   slot, ops>>

\* The code in the phase throws failed, or catches it.
Throw(t) ==
    /\ pc[t] = "in" /\ ~bad[t]
    /\ bad' = [bad EXCEPT ![t] = TRUE]
    /\ UNCHANGED <<mutexVars, pc, op, claim, goal, ok, owed, guards, slot, ops>>

Catch(t) ==
    /\ pc[t] = "in" /\ bad[t]
    /\ bad' = [bad EXCEPT ![t] = FALSE]
    /\ UNCHANGED <<mutexVars, pc, op, claim, goal, ok, owed, guards, slot, ops>>

-----------------------------------------------------------------------------
(***************************************************************************)
(* lock(), unlock() and relock().                                          *)
(***************************************************************************)

\* lm_.unlock ().
LoadUnlock(t) ==
    /\ pc[t] = "drop"
    /\ lm' = NoPhase
    /\ pc' = [pc EXCEPT ![t] = "mutex"]
    /\ UNCHANGED <<phase, generation, fail, count, max_active, op, claim, goal, ok, owed,
                   guards, bad, slot, ops>>

\* Mutant: a load does not get the exclusive access mutex.
PastShared(p) == "got"

\* Where a thread goes that is in phase p: a load has to get lm_ as well.
Past(p) == IF p = "load" THEN "lm_wait" ELSE "got"

\* deactivate() and the wait, which begins with m_ held.
Block(t) ==
    /\ slot' = [slot EXCEPT ![t] = FALSE]
    /\ pc' = [pc EXCEPT ![t] = "blocked"]
    /\ UNCHANGED ok

\* The thread is in phase p without waiting; r = !fail_.
Enter(t, p) ==
    /\ ok' = [ok EXCEPT ![t] = ~fail]
    /\ pc' = [pc EXCEPT ![t] = Past(p)]
    /\ UNCHANGED slot

\* The counters after lock (n).
CountLock(n) == [count EXCEPT ![n] = @ + 1]

\* The phase after lock (n): an unlocked mutex switches directly.
LockPhase(n) == IF \A p \in Phases : count[p] = 0 THEN n ELSE phase

\* lock (n), the part under m_.
Lock(t) ==
    /\ pc[t] = "mutex" /\ op[t] \in {"lock", "reacquire"}
    /\ LET n == goal[t] IN
         /\ count' = CountLock(n)
         /\ claim' = [claim EXCEPT ![t] = n]
         /\ phase' = LockPhase(n)
         /\ IF phase' = n THEN Enter(t, n) ELSE Block(t)
    /\ UNCHANGED <<generation, fail, lm, max_active, op, goal, owed, guards, bad, ops>>

\* The phase that unlock() picks when nobody is left in the current one.
NextPhase(c) ==
    IF c["load"] # 0 THEN "load"
    ELSE IF c["match"] # 0 THEN "match"
    ELSE IF c["execute"] # 0 THEN "execute"
    ELSE "load"

\* unlock (o), the part under m_: phase_unlock, ~phase_lock and a phase_lock
\* that failed, which throws.  The task is over then, having caught whatever it
\* has thrown; so is the thread's work unless it has been waiting for tasks.
Unlock(t) ==
    /\ pc[t] = "mutex" /\ op[t] \in {"release", "abort", "unlock"}
    /\ LET o == claim[t]
           c == [count EXCEPT ![o] = @ - 1]
           u == c[o] = 0
           ended == op[t] # "unlock"
       IN  /\ count' = c
           /\ phase' = IF u THEN NextPhase(c) ELSE phase
           /\ owed' = [owed EXCEPT ![t] =
                         IF u /\ (\E p \in Phases : c[p] # 0) THEN NextPhase(c) ELSE NoPhase]
           /\ guards' = [guards EXCEPT ![t] = IF ended THEN Popped(t) ELSE @]
           /\ slot' = [slot EXCEPT ![t] = ~ended \/ Len(guards[t]) > 1]
           /\ bad' = [bad EXCEPT ![t] = FALSE]
    /\ claim' = [claim EXCEPT ![t] = NoPhase]
    /\ pc' = [pc EXCEPT ![t] = "out"]
    /\ op' = [op EXCEPT ![t] = "none"]
    /\ ok' = [ok EXCEPT ![t] = TRUE]
    /\ UNCHANGED <<generation, fail, lm, max_active, goal, ops>>

\* Mutant: relock() counts on the others having been notified.
RelockNotifyNobody(c, n) == NoPhase

\* Whom relock() notifies once the phase is n; c is without the caller.
RelockNotify(c, n) == IF c[n] # 0 THEN n ELSE NoPhase

\* Mutant: relock() switches the phase under the threads that are in it.
RelockPhaseForced(c, o, n) == n

\* The phase after relock (o, n): "we always switch into the new phase" if
\* nobody is left in the old one.
RelockPhase(c, o, n) == IF c[o] = 0 THEN n ELSE phase

\* relock (o, n), the part under m_.
Relock(t) ==
    /\ pc[t] = "mutex" /\ op[t] \in {"switch", "undo", "restore"}
    /\ LET o == claim[t]
           n == goal[t]
           c == [count EXCEPT ![o] = @ - 1]
       IN  /\ count' = [c EXCEPT ![n] = @ + 1]
           /\ claim' = [claim EXCEPT ![t] = n]
           /\ phase' = RelockPhase(c, o, n)
           /\ owed' = [owed EXCEPT ![t] =
                         IF phase' = n THEN RelockNotify(c, n) ELSE NoPhase]
           /\ IF phase' = n THEN Enter(t, n) ELSE Block(t)
    /\ UNCHANGED <<generation, fail, lm, max_active, op, goal, guards, bad, ops>>

\* v->notify_all (), after m_ has been released.
NotifyAll(t) ==
    /\ owed[t] # NoPhase
    /\ pc' = [u \in Threads |->
                IF pc[u] = "blocked" /\ goal[u] = owed[t] THEN "notified" ELSE pc[u]]
    /\ owed' = [owed EXCEPT ![t] = NoPhase]
    /\ UNCHANGED <<mutexVars, op, claim, goal, ok, guards, bad, slot, ops>>

\* A wait returns without a notification.
SpuriousWakeup(t) ==
    /\ pc[t] = "blocked"
    /\ pc' = [pc EXCEPT ![t] = "notified"]
    /\ UNCHANGED <<mutexVars, op, claim, goal, ok, owed, guards, bad, slot, ops>>

\* With m_ again: the phase is checked, then the result is decided.
WaitCheck(t) ==
    /\ pc[t] = "notified"
    /\ \/ /\ phase = goal[t]
          /\ ok' = [ok EXCEPT ![t] = ~fail]
          /\ pc' = [pc EXCEPT ![t] = "activating"]
       \/ /\ phase # goal[t]
          /\ pc' = [pc EXCEPT ![t] = "blocked"]
          /\ UNCHANGED ok
    /\ UNCHANGED <<mutexVars, op, claim, goal, owed, guards, bad, slot, ops>>

\* activate () returns once there is a slot.
Activate(t) ==
    /\ pc[t] = "activating" /\ SlotFree
    /\ slot' = [slot EXCEPT ![t] = TRUE]
    /\ pc' = [pc EXCEPT ![t] = Past(goal[t])]
    /\ UNCHANGED <<mutexVars, op, claim, goal, ok, owed, guards, bad, ops>>

\* Mutant: the result from before the wait for lm_ is returned.
RequeryNot(t) == ok[t]

\* r = !fail_; // Re-query.
Requery(t) == ~fail

\* lm_.lock ().
LoadLock(t) ==
    /\ pc[t] = "lm_wait" /\ owed[t] = NoPhase
    /\ lm = NoPhase
    /\ lm' = t
    /\ ok' = [ok EXCEPT ![t] = Requery(t)]
    /\ pc' = [pc EXCEPT ![t] = "got"]
    /\ UNCHANGED <<phase, generation, fail, count, max_active, op, claim, goal, owed, guards,
                   bad, slot, ops>>

-----------------------------------------------------------------------------
(***************************************************************************)
(* What the guards do with the result of lock() and relock().              *)
(***************************************************************************)

\* The constructor fails: phase_lock releases, phase_switch switches back.
GuardFails(t) ==
    /\ pc[t] = "got" /\ owed[t] = NoPhase /\ ~ok[t]
    /\ \/ op[t] = "lock"   /\ Begin(t, "abort", NoPhase)
       \/ op[t] = "switch" /\ Begin(t, "undo", Old(t))
    /\ UNCHANGED <<mutexVars, claim, ok, owed, guards, bad, slot, ops>>

\* The thread is in the phase.
Entered(t) ==
    /\ pc[t] = "got" /\ owed[t] = NoPhase
    /\ pc' = [pc EXCEPT ![t] = "in"]
    /\ op' = [op EXCEPT ![t] = "none"]
    /\ goal' = [goal EXCEPT ![t] = NoPhase]
    /\ ok' = [ok EXCEPT ![t] = TRUE]
    /\ UNCHANGED <<phase, fail, count, lm, max_active, claim, owed, slot, ops>>

\* The constructor is done; a load is a new "island" of the build state.
GuardConstructed(t) ==
    /\ op[t] \in {"lock", "switch"} /\ ok[t]
    /\ generation' = IF op[t] = "switch" /\ goal[t] = "load" THEN generation + 1
                                                             ELSE generation
    /\ Entered(t)
    /\ UNCHANGED <<guards, bad>>

\* Back in the phase of the guard, which is gone: fail unless already
\* failing; a constructor that has switched back always throws.
MustThrow(t) == op[t] = "undo" \/ (~ok[t] /\ ~Uncaught(t))

\* The exception that was in flight when the guard was constructed still is.
GuardDestroyed(t) ==
    /\ op[t] \in {"reacquire", "undo", "restore"}
    /\ guards' = [guards EXCEPT ![t] = Popped(t)]
    /\ bad' = [bad EXCEPT ![t] = @ \/ guards[t][Len(guards[t])].bad \/ MustThrow(t)]
    /\ Entered(t)
    /\ UNCHANGED generation

-----------------------------------------------------------------------------
(***************************************************************************)
(* A thread waits for its tasks (scheduler::wait()): within a phase_unlock *)
(* or keeping the execute phase, also in ~wait_guard with an exception in  *)
(* flight.  The ad hoc C++ recipe also waits from the load phase, when it  *)
(* updates its module in another context.                                  *)
(***************************************************************************)
Suspend(t) ==
    /\ owed[t] = NoPhase
    /\ \/ pc[t] = "out" /\ Innermost(t, "unlock")
       \/ pc[t] = "in" /\ claim[t] = "execute"
       \/ pc[t] = "in" /\ claim[t] = "load" /\ LoadSuspends
    /\ slot' = [slot EXCEPT ![t] = FALSE]
    /\ pc' = [pc EXCEPT ![t] = "suspended"]
    /\ UNCHANGED <<mutexVars, op, claim, goal, ok, owed, guards, bad, ops>>

\* Its tasks are done; the thread is ready and needs a slot.
Resume(t) ==
    /\ pc[t] = "suspended" /\ SlotFree
    /\ slot' = [slot EXCEPT ![t] = TRUE]
    /\ pc' = [pc EXCEPT ![t] = IF claim[t] = NoPhase THEN "out" ELSE "in"]
    /\ UNCHANGED <<mutexVars, op, claim, goal, ok, owed, guards, bad, ops>>

-----------------------------------------------------------------------------
\* Steps that a thread takes without anybody's permission.
Proceed(t) ==
    \/ LoadUnlock(t) \/ Lock(t) \/ Unlock(t) \/ Relock(t) \/ NotifyAll(t)
    \/ WaitCheck(t) \/ GuardFails(t) \/ GuardConstructed(t) \/ GuardDestroyed(t)

\* Steps that have to wait for a slot or for lm_.
Acquire(t) == Activate(t) \/ LoadLock(t) \/ Resume(t)

\* The destructors.
End(t) == PhaseLockEnd(t) \/ PhaseUnlockEnd(t) \/ PhaseSwitchEnd(t)

\* What the tasks decide to do.
Choose(t) ==
    \/ \E p \in LockPhases : PhaseLock(t, p)
    \/ \E p \in Phases : PhaseSwitch(t, p)
    \/ PhaseUnlock(t) \/ Suspend(t) \/ Throw(t) \/ Catch(t)

\* A thread waits for its tasks in the load phase, and all the slots are taken
\* by threads that wait, as active ones, for it to leave that phase.
LoadStarved ==
    /\ ~SlotFree
    /\ \E t \in Threads : pc[t] = "suspended" /\ claim[t] = "load"
    /\ \A u \in Active : pc[u] = "lm_wait"

\* All the tasks are done, or never will be.
Done ==
    /\ \/ \A t \in Threads : pc[t] = "out" /\ guards[t] = <<>>
       \/ LoadStarved
    /\ UNCHANGED vars

Next ==
    \/ \E t \in Threads :
         Proceed(t) \/ Acquire(t) \/ End(t) \/ Choose(t) \/ SpuriousWakeup(t)
    \/ Done

Spec == Init /\ [][Next]_vars

(***************************************************************************)
(* Fairness.  Threads that can run do run; a free slot or a free lm_ goes  *)
(* to a thread that keeps asking for it; a task is finite, so its guards   *)
(* are destroyed in the end even if exceptions come and go.                *)
(***************************************************************************)
Fairness == \A t \in Threads :
    /\ WF_vars(Proceed(t))
    /\ SF_vars(Acquire(t))
    /\ SF_vars(End(t))

FairSpec == Spec /\ Fairness

-----------------------------------------------------------------------------
(***************************************************************************)
(* Properties.                                                             *)
(***************************************************************************)

\* The counters are natural numbers and every thread is in a known place.
TypeOK ==
    /\ phase \in Phases /\ generation \in Nat /\ fail \in BOOLEAN
    /\ count \in [Phases -> Nat]
    /\ lm \in Threads \cup {NoPhase}
    /\ pc \in [Threads -> Places] /\ op \in [Threads -> Operations]
    /\ claim \in [Threads -> Phases \cup {NoPhase}]
    /\ goal \in [Threads -> Phases \cup {NoPhase}]
    /\ owed \in [Threads -> Phases \cup {NoPhase}]
    /\ ok \in [Threads -> BOOLEAN] /\ bad \in [Threads -> BOOLEAN]
    /\ slot \in [Threads -> BOOLEAN]
    /\ guards \in [Threads -> Seq(Guards)]
    /\ ops \in [Threads -> Seq(SUBSET (Phases \cup {NoPhase}))] /\ max_active \in Nat \ {0}

\* lc_, mc_ and ec_ are the numbers of threads that are in, or wait for, the
\* phase: along failures, nested guards and switches no thread is counted
\* twice or forgotten.
Counted == \A p \in Phases : count[p] = Cardinality({t \in Threads : claim[t] = p})

\* The threads that rely on the state of the phase they asked for.
Waiting(t) == pc[t] \in {"blocked", "notified"}
Inside(t) == claim[t] # NoPhase /\ ~Waiting(t)

\* "A tri-mutex that keeps all the threads in one of the three phases"
\* (context.hxx): every thread past its wait is in the current phase, also
\* while it waits for a slot or for its tasks.
InPhase == \A t \in Threads : Inside(t) => claim[t] = phase

\* "The load phase is exclusive": no other thread runs in any phase while
\* one is in the load phase, whether it waits for tasks or not.
Running(t) == claim[t] # NoPhase /\ pc[t] \in {"in", "suspended", "got", "drop"}
ExclusiveLoad ==
    \A t, u \in Threads :
        t # u /\ Running(t) /\ Running(u) => claim[t] # "load" /\ claim[u] # "load"

\* A thread that sleeps until the phase changes is never forgotten: either
\* the current phase is another one and somebody is in it, or about to be,
\* who will change it, or the notification is still to come.
NotStranded ==
    \A t \in Threads : pc[t] = "blocked" =>
        \/ phase # goal[t] /\ \E u \in Threads : claim[u] = phase
        \/ phase = goal[t] /\ \E u \in Threads : owed[u] = phase

\* After a failed load "all currently blocked and future lock()/relock() calls
\* return false" (context.hxx): nobody enters a phase of a failed mutex
\* except with an exception in flight, in the task or in one that the thread
\* has left for it.
FailSeen ==
    [][fail => \A t \in Threads : pc[t] = "got" /\ pc'[t] = "in" => Uncaught(t)']_vars

\* A thread that asks for a phase gets it (or the error) although there are
\* fewer slots than threads: nobody waits for a phase, for lm_ or for a slot
\* for ever, but if a wait in the load phase starves.  (lm_.lock() blocks an
\* active thread, which scheduler.hxx warns of.)
Arrives == \A t \in Threads : goal[t] # NoPhase ~> goal[t] = NoPhase \/ LoadStarved
=============================================================================
