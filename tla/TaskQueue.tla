----------------------------- MODULE TaskQueue -----------------------------
(***************************************************************************)
(* One task queue of the scheduler (libbuild2/scheduler.{hxx,txx}): the    *)
(* circular buffer with its head, tail, size and mark.  Its owner pushes   *)
(* tasks in async() and takes them from the back in wait(), possibly from  *)
(* inside another task; helpers take them from the front at any time.      *)
(*                                                                         *)
(* Every step between taking and releasing the mutex of the queue is one   *)
(* action.  A task is the nesting level of the owner that has queued it    *)
(* and a number that tells it from its neighbours.  The names of the       *)
(* specification are such that it can be extended along with WaitQueue.    *)
(***************************************************************************)
EXTENDS Naturals, Sequences

CONSTANTS
    Depth,     \* task_queue_depth_
    MaxLevel,  \* bound on the tasks that the owner executes inside each other
    Ids        \* numbers of tasks

ASSUME QueueAssumption ==
    Depth \in Nat \ {0} /\ MaxLevel \in Nat

VARIABLES
    head, mark, tail, size, data,  \* those of task_queue; data has 0 .. Depth - 1
    stack  \* the tasks that the owner is executing, outermost first: how each
           \* was started and what is to be restored after it

queueVars == <<head, mark, tail, size, data, stack>>

Indexes == 0 .. Depth - 1

\* task_queue_depth_ as the value of mark.
Disabled == Depth

Tasks == [level : 0 .. MaxLevel, id : Ids]

\* The level of the async()/wait() calls that the owner is at.
Level == Len(stack)

\* om and a are locals of pop_back() and async(), which the task runs inside.
Frames == [kind : {"pop", "full"}, om : 0 .. Depth, a : BOOLEAN]

QueueInit ==
    /\ head = 0 /\ mark = 0 /\ tail = 0 /\ size = 0
    /\ data \in {[i \in Indexes |-> task] : task \in Tasks}
    /\ stack = <<>>

\* The index after i, and the one before it.
Succ(i) == IF i # Depth - 1 THEN i + 1 ELSE 0
Pred(i) == IF i # 0 THEN i - 1 ELSE Depth - 1

-----------------------------------------------------------------------------
\* Mutant: an empty queue is not special.
TailAfterPushAlways == Succ(tail)

\* tail after a push.
TailAfterPush == IF size # 0 THEN Succ(tail) ELSE tail

\* Mutant: the mark is put at the first task of the queue.
MarkAfterPushFirst == IF mark = Disabled THEN head ELSE mark

\* mark after a push: enabled if it is the first one of the level.
MarkAfterPush == IF mark = Disabled THEN TailAfterPush ELSE mark

\* push(), as async() calls it.
Push(id) ==
    /\ size # Depth
    /\ tail' = TailAfterPush
    /\ size' = size + 1
    /\ mark' = MarkAfterPush
    /\ data' = [data EXCEPT ![tail'] = [level |-> Level, id |-> id]]
    /\ UNCHANGED <<head, stack>>

\* async() with a full queue: the task is executed synchronously.
PushFull ==
    /\ size = Depth /\ Level < MaxLevel
    /\ stack' = Append(stack, [kind |-> "full", om |-> mark, a |-> FALSE])
    /\ mark' = Disabled
    /\ UNCHANGED <<head, tail, size, data>>

\* head after a pop.
HeadAfterPop == IF size # 1 THEN Succ(head) ELSE head

\* mark after a pop: reset, or adjusted if its task is the one taken.
MarkAfterPop == IF size = 1 \/ head = mark THEN HeadAfterPop ELSE mark

\* A helper executes the first task.
PopFront ==
    /\ size # 0
    /\ head' = HeadAfterPop
    /\ size' = size - 1
    /\ mark' = MarkAfterPop
    /\ UNCHANGED <<tail, data, stack>>

empty_back == size = 0 \/ mark = Disabled

\* pop_back() in wait(), up to the execution of the task.
PopBack ==
    /\ ~empty_back /\ Level < MaxLevel
    /\ stack' = Append(stack, [kind |-> "pop", om |-> mark, a |-> (tail = mark)])
    /\ mark' = Disabled
    /\ tail' = IF size # 1 THEN Pred(tail) ELSE tail
    /\ size' = size - 1
    /\ UNCHANGED <<head, data>>

\* The mark after the execution of the task with frame f.
Restored(f) ==
    IF f.kind = "full" /\ f.om = Disabled THEN mark
    ELSE IF size = 0 THEN tail
    ELSE IF f.a THEN Disabled
    ELSE f.om

-----------------------------------------------------------------------------
(***************************************************************************)
(* The tasks from head to tail.                                            *)
(***************************************************************************)
Index(i) == IF head + i <= Depth THEN head + i - 1 ELSE head + i - 1 - Depth

Contents == [i \in 1 .. size |-> data[Index(i)]]

\* Tasks of level k are queued.
Queued(k) == \E i \in 1 .. size : Contents[i].level = k

\* The rest of pop_back() or async(), after the task.  A task waits for the
\* tasks that it has queued, so none of them is left.
Return ==
    /\ stack # <<>> /\ ~Queued(Level)
    /\ mark' = Restored(stack[Level])
    /\ stack' = SubSeq(stack, 1, Level - 1)
    /\ UNCHANGED <<head, tail, size, data>>

QueueNext == PushFull \/ PopFront \/ PopBack \/ Return \/ \E id \in Ids : Push(id)

QueueSpec == QueueInit /\ [][QueueNext]_queueVars

-----------------------------------------------------------------------------
(***************************************************************************)
(* Properties.                                                             *)
(***************************************************************************)

\* The indexes are indexes of the buffer, except for a disabled mark.
QueueTypeOK ==
    /\ head \in Indexes /\ tail \in Indexes /\ mark \in 0 .. Depth
    /\ size \in 0 .. Depth
    /\ data \in [Indexes -> Tasks]
    /\ stack \in Seq(Frames) /\ Level <= MaxLevel

\* "head being the index of the first element and tail -- of the last": the
\* three numbers agree, whichever way the buffer has wrapped around, and an
\* empty queue begins where the next push puts its task.
RingOK == tail = IF size = 0 THEN head ELSE Index(size)

\* "The master thread can only work through tasks that it has queued at this
\* level of the async()/wait() calls" (scheduler.hxx): if the mark lets the
\* owner take a task from the back, then it is one of its level, even after
\* helpers have gone past the mark and the buffer has wrapped around.
LevelDiscipline == ~empty_back => data[tail].level = Level

\* All the tasks are of level k or later, except for those with one of level
\* k at index m behind them.
Beyond(k, m) ==
    \A i \in 1 .. size :
        \/ data[Index(i)].level >= k
        \/ \E j \in i + 1 .. size : Index(j) = m /\ data[Index(j)].level = k

\* What makes LevelDiscipline hold step after step: nothing deeper than the
\* current level is queued, and the mark, as well as the old mark that any of
\* the interrupted waits goes back to, has only tasks of its level behind it.
MarkInv ==
    /\ \A i \in 1 .. size : data[Index(i)].level <= Level
    /\ mark # Disabled => Beyond(Level, mark)
    /\ \A k \in 1 .. Level :
         stack[k].om # Disabled /\ ~stack[k].a => Beyond(k - 1, stack[k].om)

\* What every step of the queue preserves.
IndInv == QueueTypeOK /\ RingOK /\ MarkInv

\* The circular buffer implements the double-ended queue.
D == INSTANCE Deque WITH items <- Contents, Capacity <- Depth
DequeSpec == D!Spec
=============================================================================
