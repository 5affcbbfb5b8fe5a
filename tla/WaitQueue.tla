----------------------------- MODULE WaitQueue -----------------------------
(***************************************************************************)
(* The wait queue of the scheduler (libbuild2/scheduler.{hxx,txx,cxx}):    *)
(* suspend() puts a thread to sleep until a task count has dropped to the  *)
(* start count that it waits for, and resume() wakes up all the threads    *)
(* that sleep in the slot of a count.  Slots are picked by hashing, so     *)
(* that different counts share them, and several threads wait for          *)
(* different values of the same one: the owner of a locked target for the  *)
(* end of its tasks and the others for the end of the lock.                *)
(*                                                                         *)
(* Slots of active threads are the subject of module Scheduler: here every *)
(* thread that can run does.  A thread holds the mutex of a slot in the    *)
(* steps "check", before it looks at the count, and "wait", after that.    *)
(***************************************************************************)
EXTENDS Naturals, FiniteSets

CONSTANTS
    Masters,        \* the threads that lock, start tasks and wait
    Helpers,        \* the threads that perform the tasks
    Counts,         \* the task counts, in the order in which they are nested
    Base,           \* their start counts: 1 for a lock, 0 for a batch of tasks
    Slots,          \* the slots of the queue
    SlotOf,         \* the hash function
    Nothing,        \* not a thread and not a count
    MayShutdown,    \* is the scheduler shut down at some point?
    MaxCount,       \* bound on a task count
    MaxStarts       \* bound on the locks taken and tasks started

Threads == Masters \cup Helpers

ASSUME WaitQueueAssumption ==
    /\ IsFiniteSet(Masters) /\ IsFiniteSet(Helpers) /\ Masters \cap Helpers = {}
    /\ Counts \subseteq Nat /\ Base \in [Counts -> {0, 1}]
    /\ SlotOf \in [Counts -> Slots]
    /\ Nothing \notin Threads \cup Counts
    /\ MayShutdown \in BOOLEAN /\ MaxCount \in Nat \ {0} /\ MaxStarts \in Nat

VARIABLES
    task_count,     \* the value of every count
    owner,          \* the thread that has locked it or is about to start its tasks
    over,           \* has the owner seen the end of its tasks?
    step,           \* where each thread is
    on,             \* the count it waits for or is about to call resume() for
    start_count,    \* the value it waits for
    collision,      \* the local variable of suspend()
    waiters,        \* wait_slot::waiters
    slot_count,     \* wait_slot::task_count
    shutdown,       \* wait_slot::shutdown
    starts          \* the number of locks and tasks so far

vars == <<task_count, owner, over, step, on, start_count, collision, waiters, slot_count,
          shutdown, starts>>

Init ==
    /\ task_count = [c \in Counts |-> 0]
    /\ owner = [c \in Counts |-> Nothing]
    /\ over = [c \in Counts |-> FALSE]
    /\ step = [u \in Threads |-> "run"]
    /\ on = [u \in Threads |-> Nothing]
    /\ start_count = [u \in Threads |-> 0]
    /\ collision = [u \in Threads |-> FALSE]
    /\ waiters = [s \in Slots |-> 0]
    /\ slot_count = [s \in Slots |-> Nothing]
    /\ shutdown = [s \in Slots |-> FALSE]
    /\ starts = 0

\* The thread's slot, and the steps between suspend()'s lock and unlock.
SlotOn(u) == SlotOf[on[u]]
InSlot(u, s) == step[u] \in {"check", "wait", "sleep", "woken"} /\ SlotOn(u) = s

\* Nobody holds the mutex of slot s.
Unlocked(s) == \A v \in Threads : step[v] \in {"check", "wait"} => SlotOn(v) # s

-----------------------------------------------------------------------------
(***************************************************************************)
(* The callers: target locks and batches of tasks.                         *)
(***************************************************************************)
slotVars == <<collision, waiters, slot_count, shutdown>>

Owned(u) == {c \in Counts : owner[c] = u}

\* Locks nest in the order of the counts, as dependencies without cycles do.
Above(u, c) == \A d \in Owned(u) : d < c

Lock(u, c) ==
    /\ step[u] = "run" /\ owner[c] = Nothing /\ Above(u, c) /\ starts < MaxStarts
    /\ owner' = [owner EXCEPT ![c] = u]
    /\ over' = [over EXCEPT ![c] = FALSE]
    /\ task_count' = [task_count EXCEPT ![c] = Base[c]]
    /\ starts' = starts + 1
    /\ UNCHANGED <<step, on, start_count, slotVars>>

\* async(): the count is incremented when the task is queued.
Async(u, c) ==
    /\ step[u] = "run" /\ owner[c] = u /\ ~over[c]
    /\ task_count[c] < MaxCount /\ starts < MaxStarts
    /\ task_count' = [task_count EXCEPT ![c] = @ + 1]
    /\ starts' = starts + 1
    /\ UNCHANGED <<owner, over, step, on, start_count, slotVars>>

\* wait(): there is nothing to do if the count is there already.
Wait(u, c, start) ==
    IF task_count[c] <= start
      THEN UNCHANGED <<step, on, start_count>>
      ELSE /\ step' = [step EXCEPT ![u] = "suspend"]
           /\ on' = [on EXCEPT ![u] = c]
           /\ start_count' = [start_count EXCEPT ![u] = start]

\* The owner waits for its tasks (wait_guard).
WaitTasks(u, c) ==
    /\ step[u] = "run" /\ owner[c] = u /\ ~over[c]
    /\ Wait(u, c, Base[c])
    /\ over' = [over EXCEPT ![c] = task_count[c] <= Base[c]]
    /\ UNCHANGED <<task_count, owner, starts, slotVars>>

\* Another thread waits for the end of the lock (lock_impl).
WaitLock(u, c) ==
    /\ step[u] = "run" /\ owner[c] \notin {u, Nothing} /\ Base[c] = 1 /\ Above(u, c)
    /\ Wait(u, c, 0)
    /\ UNCHANGED <<task_count, owner, over, starts, slotVars>>

\* The lock is released, whatever the count is, and those who wait resumed;
\* nobody waits for the end of a batch but its owner.
Unlock(u, c) ==
    /\ step[u] = "run" /\ owner[c] = u /\ over[c]
    /\ owner' = [owner EXCEPT ![c] = Nothing]
    /\ over' = [over EXCEPT ![c] = FALSE]
    /\ task_count' = [task_count EXCEPT ![c] = 0]
    /\ IF Base[c] = 1
         THEN step' = [step EXCEPT ![u] = "resume"] /\ on' = [on EXCEPT ![u] = c]
         ELSE UNCHANGED <<step, on>>
    /\ UNCHANGED <<start_count, starts, slotVars>>

\* Mutant: off by one.
ResumesLate(c) == task_count'[c] < Base[c]

\* Does the end of a task of c reach the start count of the task?
Resumes(c) == task_count'[c] <= Base[c]

\* task_thunk(): the task is over.
TaskDone(u, c) ==
    /\ step[u] = "run" /\ task_count[c] > Base[c]
    /\ task_count' = [task_count EXCEPT ![c] = @ - 1]
    /\ IF Resumes(c)
         THEN step' = [step EXCEPT ![u] = "resume"] /\ on' = [on EXCEPT ![u] = c]
         ELSE UNCHANGED <<step, on>>
    /\ UNCHANGED <<owner, over, start_count, starts, slotVars>>

-----------------------------------------------------------------------------
(***************************************************************************)
(* suspend() and resume().                                                 *)
(***************************************************************************)

\* The thread joins the slot.
Suspend(u) ==
    /\ step[u] = "suspend" /\ Unlocked(SlotOn(u))
    /\ LET s == SlotOn(u)
       IN  /\ collision' = [collision EXCEPT
                              ![u] = waiters[s] # 0 /\ slot_count[s] # on[u]]
           /\ waiters' = [waiters EXCEPT ![s] = @ + 1]
           /\ slot_count' = [slot_count EXCEPT ![s] = on[u]]
    /\ step' = [step EXCEPT ![u] = "check"]
    /\ UNCHANGED <<task_count, owner, over, on, start_count, shutdown, starts>>

\* The count is where thread u waits for it to be.
Reached(u) == task_count[on[u]] <= start_count[u]

\* It is not: the thread will wait on the condition variable.
Check(u) ==
    /\ step[u] = "check" /\ ~shutdown[SlotOn(u)] /\ ~Reached(u)
    /\ step' = [step EXCEPT ![u] = "wait"]
    /\ UNCHANGED <<task_count, owner, over, on, start_count, starts, slotVars>>

\* The wait releases the mutex.
Sleep(u) ==
    /\ step[u] = "wait"
    /\ step' = [step EXCEPT ![u] = "sleep"]
    /\ UNCHANGED <<task_count, owner, over, on, start_count, starts, slotVars>>

\* The waiters without thread u.
Left(u) == [waiters EXCEPT ![SlotOn(u)] = @ - 1]

\* suspend() and wait() of u return.
Returns(u) ==
    /\ waiters' = Left(u)
    /\ step' = [step EXCEPT ![u] = "run"]
    /\ on' = [on EXCEPT ![u] = Nothing]
    /\ over' = [c \in Counts |-> over[c] \/ (c = on[u] /\ owner[c] = u)]
    /\ UNCHANGED <<task_count, owner, start_count, collision, slot_count, shutdown,
                   starts>>

\* The loop ends, because the count is reached or because of the shutdown.
Leave(u) ==
    /\ step[u] = "check" /\ (shutdown[SlotOn(u)] \/ Reached(u))
    /\ Returns(u)

\* Mutant: a thread that has been woken up does not look at the count again.
WakeLeave(u) ==
    /\ step[u] = "woken" /\ Unlocked(SlotOn(u))
    /\ Returns(u)

\* A notified thread gets the mutex back.
Wake(u) ==
    /\ step[u] = "woken" /\ Unlocked(SlotOn(u))
    /\ step' = [step EXCEPT ![u] = "check"]
    /\ UNCHANGED <<task_count, owner, over, on, start_count, starts, slotVars>>

\* The steps of all threads after notify_all() on the condition variable of s.
NotifyAll(s) == [u \in Threads |-> IF InSlot(u, s) /\ step[u] = "sleep" THEN "woken" ELSE step[u]]

SpuriousWakeup(u) ==
    /\ step[u] = "sleep"
    /\ step' = [step EXCEPT ![u] = "woken"]
    /\ UNCHANGED <<task_count, owner, over, on, start_count, starts, slotVars>>

\* Mutant: the waiters are notified without the mutex.
ResumeUnlocked(u) == step[u] = "resume"

\* resume() has the mutex of the slot.
ResumeLocked(u) == step[u] = "resume" /\ Unlocked(SlotOn(u))

Resume(u) ==
    /\ ResumeLocked(u)
    /\ LET s == SlotOn(u)
           after == IF waiters[s] # 0 THEN NotifyAll(s) ELSE step
       IN  step' = [after EXCEPT ![u] = "run"]
    /\ on' = [on EXCEPT ![u] = Nothing]
    /\ UNCHANGED <<task_count, owner, over, start_count, starts, slotVars>>

-----------------------------------------------------------------------------
\* shutdown() marks the slots one by one.
ShutdownSlot(s) ==
    /\ MayShutdown /\ ~shutdown[s] /\ Unlocked(s)
    /\ shutdown' = [shutdown EXCEPT ![s] = TRUE]
    /\ UNCHANGED <<task_count, owner, over, step, on, start_count, collision, waiters,
                   slot_count, starts>>

\* It then notifies all of them, without their mutexes but again and again.
ShutdownNotify(s) ==
    /\ \A r \in Slots : shutdown[r]
    /\ \E u \in Threads : InSlot(u, s) /\ step[u] = "sleep"
    /\ step' = NotifyAll(s)
    /\ UNCHANGED <<task_count, owner, over, on, start_count, starts, slotVars>>

ShutdownBegun == \E s \in Slots : shutdown[s]

\* What a thread does when it has come to doing it.
Progress(u) ==
    \/ Check(u) \/ Sleep(u) \/ Leave(u)
    \/ \E c \in Counts : u \in Masters /\ (WaitTasks(u, c) \/ Unlock(u, c))
    \/ \E c \in Counts : u \in Helpers /\ TaskDone(u, c)

\* What needs the mutex of a slot.
TakesMutex(u) == Suspend(u) \/ Wake(u) \/ Resume(u)

\* All the work is done.
Done ==
    /\ starts = MaxStarts
    /\ \A c \in Counts : owner[c] = Nothing
    /\ \A u \in Threads : step[u] = "run"
    /\ UNCHANGED vars

Next ==
    \/ Done
    \/ \E u \in Threads : Progress(u) \/ TakesMutex(u) \/ SpuriousWakeup(u)
    \/ \E u \in Masters, c \in Counts : Lock(u, c) \/ Async(u, c) \/ WaitLock(u, c)
    \/ \E s \in Slots : ShutdownSlot(s) \/ ShutdownNotify(s)

Spec == Init /\ [][Next]_vars

\* Threads run, mutexes are not withheld from anybody for ever, and shutdown()
\* goes on once it has begun.
FairSpec ==
    /\ Spec
    /\ \A u \in Threads : WF_vars(Progress(u)) /\ SF_vars(TakesMutex(u))
    /\ \A s \in Slots : SF_vars(ShutdownBegun /\ ShutdownSlot(s)) /\ WF_vars(ShutdownNotify(s))

-----------------------------------------------------------------------------
(***************************************************************************)
(* Properties.                                                             *)
(***************************************************************************)
TypeOK ==
    /\ task_count \in [Counts -> 0 .. MaxCount]
    /\ owner \in [Counts -> Masters \cup {Nothing}] /\ over \in [Counts -> BOOLEAN]
    /\ step \in [Threads -> {"run", "suspend", "check", "wait", "sleep", "woken", "resume"}]
    /\ on \in [Threads -> Counts \cup {Nothing}]
    /\ start_count \in [Threads -> {0, 1}] /\ collision \in [Threads -> BOOLEAN]
    /\ waiters \in [Slots -> 0 .. Cardinality(Threads)]
    /\ slot_count \in [Slots -> Counts \cup {Nothing}] /\ shutdown \in [Slots -> BOOLEAN]
    /\ starts \in 0 .. MaxStarts

\* "The aim here is not to end up with a notification that happens between the
\* check and the wait" (scheduler.cxx): if a thread is in a slot, not notified,
\* although its count has been reached, then it is about to look at it, or
\* somebody is about to call resume() for this count.
NoLostWakeup ==
    \A u \in Threads : step[u] = "sleep" /\ Reached(u) =>
        \E v \in Threads : step[v] = "resume" /\ on[v] = on[u]

\* waiters is the number of threads that resume() would have to notify, so that
\* nobody is forgotten by its "if (s.waiters != 0)".
WaitersExact == \A s \in Slots : waiters[s] = Cardinality({u \in Threads : InSlot(u, s)})

\* A wait returns no earlier than its count is reached, unless the scheduler is
\* shut down: whatever has woken the thread up, there are no tasks left that
\* might still use the state of the owner.
NoEarlyReturn ==
    \A c \in Counts : over[c] => task_count[c] = Base[c] \/ ShutdownBegun

\* Every wait for a count returns.
WaitReturns == \A u \in Threads : step[u] = "suspend" ~> step[u] = "run"
=============================================================================
