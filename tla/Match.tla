------------------------------- MODULE Match -------------------------------
(***************************************************************************)
(* The match phase of an operation (libbuild2/algorithm.{cxx,ixx} and      *)
(* operation.cxx): threads lock targets by changing their task counts to   *)
(* busy, match and apply rules, and on the way match the prerequisites,    *)
(* first asynchronously and then, to be sure, synchronously.               *)
(*                                                                         *)
(* A thread is the stack of the match_impl() calls it is in; the driver's  *)
(* match() is the frame of the pseudo target Root at the bottom of Main.   *)
(* The scheduler appears as what it promises (modules Scheduler, TaskQueue *)
(* and WaitQueue): a waiter goes on some time after its count has dropped, *)
(* any thread without a task takes any queued one, and the owner of a      *)
(* queue takes the tasks of its level.  A buildfile is loaded in one step, *)
(* with all the other threads out of the match phase (module PhaseMutex).  *)
(* Groups and try_match are left out.                                      *)
(***************************************************************************)
EXTENDS Naturals, Sequences, FiniteSets

CONSTANTS
    Main,           \* the thread that runs the operations
    Helpers,        \* the helper threads of the scheduler, 1 .. n
    Targets,        \* the targets
    Root,           \* stands for the operation, whose prerequisites are its targets
    Graphs,         \* the prerequisites of each, in order
    MayFail,        \* targets whose rule may fail
    Loads,          \* targets that are matched by loading their buildfile
    LoadMayFail,    \* may that fail?
    Direct,         \* targets whose rule matches prerequisites without starting them
    Execution,      \* what async() may do with a task: "queued", "sync"
    KeepGoings,     \* the values of context::keep_going
    MaxOperations   \* bound on the operations of a build

Nodes == Targets \cup {Root}
Threads == {Main} \cup Helpers

ASSUME MatchAssumption ==
    /\ IsFiniteSet(Helpers) /\ Helpers \subseteq Nat /\ Main \in Nat \ Helpers
    /\ IsFiniteSet(Targets) /\ Root \notin Targets
    /\ Graphs \subseteq [Nodes -> Seq(Targets)]
    /\ MayFail \subseteq Targets /\ Loads \subseteq Targets /\ Direct \subseteq Targets
    /\ LoadMayFail \in BOOLEAN /\ KeepGoings \subseteq BOOLEAN
    /\ Execution \subseteq {"queued", "sync"} /\ Execution # {}
    /\ MaxOperations \in Nat \ {0}

VARIABLES
    prerequisites,  \* the loaded dependency graph
    keep_going,     \* context::keep_going
    current_on,     \* the number of the operation
    task_count,     \* of every target; that of Root is the local of match()
    state,          \* opstate::state
    dependents,     \* opstate::dependents
    stack,          \* the calls that each thread is in, outermost first
    queued,         \* the tasks in the queues
    fail,           \* has a load failed (run_phase_mutex::fail_)?
    result          \* the outcome of the operation's match()

\* What stays as it is.
build == <<prerequisites, keep_going>>

vars == <<build, current_on, task_count, state, dependents, stack, queued,
          fail, result>>

\* The band of counts of the current operation.
count_base == 5 * (current_on - 1)
count_applied == count_base + 4
count_executed == count_base + 5
count_busy == count_base + 6

\* The count that means no tasks: the start_count of the tasks of node n.
StartCount(n) == IF n = Root THEN 0 ELSE count_busy

(***************************************************************************)
(* A call: the target, where it is, the index of the next prerequisite and *)
(* of the last one to look at, whether it has failed, the targets locked   *)
(* in this dependency chain (the stack of target_lock) and the node whose  *)
(* count is to be decremented at the end of a task (or the target itself   *)
(* if it was not started as one).                                          *)
(***************************************************************************)
Steps == {"load", "start", "wait", "finish", "lock", "end", "done"}

Frames == [target : Nodes, step : Steps, next : Nat, last : Nat, bad : BOOLEAN,
           chain : SUBSET Targets, parent : Nodes]

Tasks == [target : Targets, parent : Nodes, chain : SUBSET Targets, owner : Threads]

\* Where the rule of n begins to match its prerequisites: with the loop of
\* match_prerequisite_range(), or right away with match(), as inject_fsdir().
FirstStep(n) == IF n \in Direct THEN "finish" ELSE "start"

Call(n, chain, parent) ==
    [target |-> n, step |-> IF n \in Loads THEN "load" ELSE FirstStep(n),
     next |-> 1, last |-> Len(prerequisites[n]), bad |-> FALSE, chain |-> chain, parent |-> parent]

Init ==
    /\ prerequisites \in Graphs /\ keep_going \in KeepGoings
    /\ current_on = 1
    /\ task_count = [n \in Nodes |-> 0]
    /\ state = [t \in Targets |-> "unknown"]
    /\ dependents = [t \in Targets |-> 0]
    /\ stack = [u \in Threads |-> IF u = Main THEN <<Call(Root, {}, Root)>> ELSE <<>>]
    /\ queued = {}
    /\ fail = FALSE
    /\ result = "running"

\* The innermost call of thread u.
Busy(u) == stack[u] # <<>>
Top(u) == stack[u][Len(stack[u])]
At(u, step) == Busy(u) /\ Top(u).step = step

\* The stack of u with its innermost call replaced by f, or gone.
Moved(u, f) == [stack EXCEPT ![u][Len(stack[u])] = f]
Returned(u) == [stack EXCEPT ![u] = SubSeq(@, 1, Len(@) - 1)]
Called(u, f) == [stack EXCEPT ![u] = Append(@, f)]

\* The call with one more prerequisite done, or at another step.
Advance(f) == [f EXCEPT !.next = @ + 1]
GoTo(f, step) == [f EXCEPT !.step = step]

More(f) == f.next <= f.last
Prerequisite(f) == prerequisites[f.target][f.next]

\* The call fails for good: match_impl() catches the exception.
Failed(f) == [f EXCEPT !.step = "end", !.bad = TRUE]

\* The tasks are done: the prerequisites started so far are looked at again.
Waited(f) ==
    IF f.bad THEN Failed(f)
             ELSE [f EXCEPT !.step = "finish", !.next = 1, !.last = f.next - 1]

\* Mutant: there is no wait.
AwaitNot(f) == Waited(f)

\* wait_guard::wait(): the phase is released only if there are tasks.
Await(f) ==
    IF task_count[f.target] > StartCount(f.target) THEN GoTo(f, "wait") ELSE Waited(f)

\* An exception within the loop that starts tasks: ~wait_guard waits for them.
Thrown(f) == Await([f EXCEPT !.bad = TRUE])

-----------------------------------------------------------------------------
(***************************************************************************)
(* lock_impl(), without the wait.                                          *)
(***************************************************************************)

\* dependency_cycle().
DependencyCycle(f, t) == t \in f.chain

\* Mutant: off by one.
TryBeyond(f, t) ==
    IF task_count[t] > count_busy
      THEN IF DependencyCycle(f, t) THEN "cycle" ELSE "busy"
    ELSE IF task_count[t] >= count_applied THEN "applied"
    ELSE "locked"

\* What an attempt of call f to lock target t comes to.
Try(f, t) ==
    IF task_count[t] >= count_busy
      THEN IF DependencyCycle(f, t) THEN "cycle" ELSE "busy"
    ELSE IF task_count[t] >= count_applied THEN "applied"
    ELSE "locked"

\* Mutant: the state of the previous operation is not reset.
ResetNot(t) == dependents

\* dependents once t has been locked: the first lock of the operation resets it.
Reset(t) == IF task_count[t] <= count_base THEN [dependents EXCEPT ![t] = 0] ELSE dependents

-----------------------------------------------------------------------------
(***************************************************************************)
(* match_prerequisite_range() and the driver's match(): the loop that      *)
(* starts the prerequisites.                                               *)
(***************************************************************************)
Starting(u, outcome) ==
    /\ At(u, "start") /\ More(Top(u)) /\ Try(Top(u), Prerequisite(Top(u))) = outcome

\* Target t is locked, and async() counts one more task of node n.
TaskAdded(t, n) == [task_count EXCEPT ![t] = count_busy, ![n] = @ + 1]

\* The target is locked and its task queued.
AsyncQueued(u) ==
    /\ Starting(u, "locked") /\ "queued" \in Execution
    /\ LET f == Top(u)
           t == Prerequisite(f)
       IN  /\ dependents' = Reset(t)
           /\ task_count' = TaskAdded(t, f.target)
           /\ queued' = queued \cup
                {[target |-> t, parent |-> f.target, chain |-> f.chain, owner |-> u]}
           /\ stack' = Moved(u, Advance(f))
    /\ UNCHANGED <<build, current_on, state, fail, result>>

\* The queue is full or execution serial.  The call comes back to the same
\* prerequisite to look at its state.
AsyncSync(u) ==
    /\ Starting(u, "locked") /\ "sync" \in Execution
    /\ LET t == Prerequisite(Top(u))
       IN  /\ dependents' = Reset(t)
           /\ task_count' = [task_count EXCEPT ![t] = count_busy]
           /\ stack' = Called(u, Call(t, Top(u).chain \cup {t}, t))
    /\ UNCHANGED <<build, current_on, state, queued, fail, result>>

AsyncBusy(u) ==
    /\ Starting(u, "busy")
    /\ stack' = Moved(u, Advance(Top(u)))
    /\ UNCHANGED <<build, current_on, task_count, state, dependents, queued,
                   fail, result>>

AsyncCycle(u) ==
    /\ Starting(u, "cycle")
    /\ stack' = Moved(u, Thrown(Top(u)))
    /\ UNCHANGED <<build, current_on, task_count, state, dependents, queued,
                   fail, result>>

\* The target is applied.  A failed one is the end unless we keep going: the
\* driver leaves the loop, the others throw.
AsyncApplied(u) ==
    /\ Starting(u, "applied")
    /\ LET f == Top(u)
           failed == state[Prerequisite(f)] = "failed" /\ ~keep_going
       IN  stack' = Moved(u, IF ~failed THEN Advance(f)
                             ELSE IF f.target = Root THEN Await(Advance(f))
                             ELSE Thrown(f))
    /\ UNCHANGED <<build, current_on, task_count, state, dependents, queued,
                   fail, result>>

\* All of them have been started.
AsyncAll(u) ==
    /\ At(u, "start") /\ ~More(Top(u))
    /\ stack' = Moved(u, Await(Top(u)))
    /\ UNCHANGED <<build, current_on, task_count, state, dependents, queued,
                   fail, result>>

\* Is an exception in flight in thread u below its innermost call?  Then this
\* call belongs to a task that u has taken in ~wait_guard.
Unwinding(u) ==
    \E i \in 1 .. Len(stack[u]) - 1 : stack[u][i].step = "wait" /\ stack[u][i].bad

\* Mutant: the failure of phase_unlock is ignored.
RelockFailsNever(u) == FALSE

\* Does ~phase_unlock throw when the phase is reacquired after a wait?  Not if
\* the thread is "already failing", with this call or with one below it.
RelockFails(u) == fail /\ ~Unwinding(u)

\* The tasks are done and the phase is reacquired, which fails after a
\* failed load.
WaitDone(u) ==
    /\ At(u, "wait")
    /\ task_count[Top(u).target] <= StartCount(Top(u).target)
    /\ stack' = Moved(u, Waited([Top(u) EXCEPT !.bad = @ \/ RelockFails(u)]))
    /\ UNCHANGED <<build, current_on, task_count, state, dependents, queued,
                   fail, result>>

-----------------------------------------------------------------------------
(***************************************************************************)
(* The second loop: match() of each prerequisite, which is final.          *)
(***************************************************************************)
Finishing(u, outcome) ==
    /\ At(u, "finish") /\ More(Top(u)) /\ Try(Top(u), Prerequisite(Top(u))) = outcome

\* Nobody has locked it meanwhile: match_impl() is called.
MatchLocked(u) ==
    /\ Finishing(u, "locked")
    /\ LET t == Prerequisite(Top(u))
       IN  /\ dependents' = Reset(t)
           /\ task_count' = [task_count EXCEPT ![t] = count_busy]
           /\ stack' = Called(u, Call(t, Top(u).chain \cup {t}, t))
    /\ UNCHANGED <<build, current_on, state, queued, fail, result>>

\* match_inc_dependens(), or failure; the driver looks at all of them.
MatchApplied(u) ==
    /\ Finishing(u, "applied")
    /\ LET f == Top(u)
           t == Prerequisite(f)
           failed == state[t] = "failed"
       IN  /\ dependents' = [dependents EXCEPT ![t] = IF failed THEN @ ELSE @ + 1]
           /\ stack' = Moved(u, IF failed /\ f.target # Root THEN Failed(f)
                                ELSE [Advance(f) EXCEPT !.bad = @ \/ failed])
    /\ UNCHANGED <<build, current_on, task_count, state, queued, fail, result>>

MatchCycle(u) ==
    /\ Finishing(u, "cycle")
    /\ stack' = Moved(u, Failed(Top(u)))
    /\ UNCHANGED <<build, current_on, task_count, state, dependents, queued,
                   fail, result>>

\* Mutant: the thread spins within the phase.
LockWaitSpin(f) == f

\* The phase is released for the wait.
LockWait(f) == GoTo(f, "lock")

\* The thread waits for the count to drop.
MatchBusy(u) ==
    /\ Finishing(u, "busy")
    /\ stack' = Moved(u, LockWait(Top(u)))
    /\ UNCHANGED <<build, current_on, task_count, state, dependents, queued,
                   fail, result>>

\* It has dropped and the phase is reacquired, or this fails.
LockWaited(u) ==
    /\ At(u, "lock") /\ task_count[Prerequisite(Top(u))] < count_busy
    /\ stack' = Moved(u, IF RelockFails(u) THEN Failed(Top(u)) ELSE GoTo(Top(u), "finish"))
    /\ UNCHANGED <<build, current_on, task_count, state, dependents, queued,
                   fail, result>>

MatchAll(u) ==
    /\ At(u, "finish") /\ ~More(Top(u))
    /\ stack' = Moved(u, GoTo(Top(u), "end"))
    /\ UNCHANGED <<build, current_on, task_count, state, dependents, queued,
                   fail, result>>

-----------------------------------------------------------------------------
(***************************************************************************)
(* match_impl().                                                           *)
(***************************************************************************)

\* The rule fails before or after it has matched the prerequisites.
RuleFails(u) ==
    /\ Busy(u) /\ Top(u).target \in MayFail /\ ~Top(u).bad
    /\ \/ Top(u).step = "end"
       \/ Top(u).step = FirstStep(Top(u).target) /\ Top(u).next = 1
    /\ stack' = Moved(u, Failed(Top(u)))
    /\ UNCHANGED <<build, current_on, task_count, state, dependents, queued,
                   fail, result>>

\* In the match phase: not waiting, and not past the phase_lock of a task.
InMatch(u) == Busy(u) /\ Top(u).step \notin {"wait", "lock", "done"}

\* The rule switches the phase to load and back.  ~phase_switch takes any
\* exception in flight for a failure of the load, but then does not throw.
Load(u) ==
    /\ At(u, "load")
    /\ \A v \in Threads \ {u} : ~InMatch(v)
    /\ \/ /\ ~fail
          /\ fail' = Unwinding(u)
          /\ stack' = Moved(u, GoTo(Top(u), FirstStep(Top(u).target)))
       \/ /\ fail \/ LoadMayFail
          /\ fail' = TRUE
          /\ stack' = Moved(u, Failed(Top(u)))
    /\ UNCHANGED <<build, current_on, task_count, state, dependents, queued,
                   result>>

\* The task count that ~target_lock stores.
EndCount(f) == count_applied

\* The recipe is set, or the failure caught; the target is unlocked and those
\* who wait for it are resumed.
End(u) ==
    /\ At(u, "end") /\ Top(u).target # Root
    /\ LET f == Top(u)
           t == f.target
       IN  /\ task_count' = [task_count EXCEPT ![t] = EndCount(f)]
           /\ \E s \in IF f.bad THEN {"failed"} ELSE {"unknown", "unchanged"} :
                 state' = [state EXCEPT ![t] = s]
           /\ stack' = IF f.parent = t THEN Returned(u) ELSE Moved(u, GoTo(f, "done"))
    /\ UNCHANGED <<build, current_on, dependents, queued, fail, result>>

-----------------------------------------------------------------------------
(***************************************************************************)
(* The tasks.                                                              *)
(***************************************************************************)

\* The first helper without a task; it does not matter which one takes a task.
FirstIdle(u) == u \in Helpers /\ ~Busy(u) /\ \A v \in Helpers : v < u => Busy(v)

\* A helper, or the owner of the queue in its wait, takes the task.
MayTake(u, task) ==
    \/ FirstIdle(u)
    \/ At(u, "wait") /\ task.owner = u /\ task.parent = Top(u).target

\* Its phase_lock succeeds.
TaskStart(u, task) ==
    /\ MayTake(u, task) /\ ~fail
    /\ queued' = queued \ {task}
    /\ stack' = Called(u, Call(task.target, task.chain \cup {task.target}, task.parent))
    /\ UNCHANGED <<build, current_on, task_count, state, dependents, fail,
                   result>>

\* "Phase lock failure": the exception is ignored and the task is over.
TaskFails(u, task) ==
    /\ MayTake(u, task) /\ fail
    /\ queued' = queued \ {task}
    /\ task_count' = [task_count EXCEPT ![task.parent] = @ - 1]
    /\ UNCHANGED <<build, current_on, state, dependents, stack, fail, result>>

\* task_thunk() decrements the count of the parent.
TaskDone(u) ==
    /\ At(u, "done")
    /\ task_count' = [task_count EXCEPT ![Top(u).parent] = @ - 1]
    /\ stack' = Returned(u)
    /\ UNCHANGED <<build, current_on, state, dependents, queued, fail, result>>

-----------------------------------------------------------------------------
\* match() of the operation returns or throws.
OperationMatched(u) ==
    /\ At(u, "end") /\ Top(u).target = Root
    /\ result' = IF Top(u).bad THEN "failed" ELSE "matched"
    /\ stack' = Returned(u)
    /\ UNCHANGED <<build, current_on, task_count, state, dependents, queued,
                   fail>>

\* Some of the targets are executed (all of them if the operation has an
\* execute phase at all), and the next operation begins.
NextOperation ==
    /\ result = "matched" /\ current_on < MaxOperations
    /\ \E executed \in {{}, Targets} :
         /\ task_count' = [n \in Nodes |-> IF n \in executed /\ task_count[n] = count_applied
                                             THEN count_executed ELSE task_count[n]]
         /\ dependents' = [t \in Targets |-> IF t \in executed THEN 0 ELSE dependents[t]]
    /\ current_on' = current_on + 1
    /\ stack' = Called(Main, Call(Root, {}, Root))
    /\ result' = "running"
    /\ UNCHANGED <<build, state, queued, fail>>

\* A failed operation ends the build.
BuildDone ==
    /\ result = "failed" \/ (result = "matched" /\ current_on = MaxOperations)
    /\ UNCHANGED vars

Step(u) ==
    \/ AsyncQueued(u) \/ AsyncSync(u) \/ AsyncBusy(u) \/ AsyncCycle(u)
    \/ AsyncApplied(u) \/ AsyncAll(u) \/ WaitDone(u)
    \/ MatchLocked(u) \/ MatchApplied(u) \/ MatchCycle(u) \/ MatchBusy(u)
    \/ LockWaited(u) \/ MatchAll(u) \/ RuleFails(u) \/ Load(u) \/ End(u)
    \/ TaskDone(u) \/ OperationMatched(u)
    \/ \E task \in queued : TaskStart(u, task) \/ TaskFails(u, task)

Next == (\E u \in Threads : Step(u)) \/ NextOperation \/ BuildDone

Spec == Init /\ [][Next]_vars

\* Threads that can run do run.
FairSpec == Spec /\ \A u \in Threads : WF_vars(Step(u))

-----------------------------------------------------------------------------
(***************************************************************************)
(* Properties.                                                             *)
(***************************************************************************)

\* Counts are natural numbers and calls and tasks are what they should be.
TypeOK ==
    /\ prerequisites \in Graphs /\ keep_going \in KeepGoings
    /\ current_on \in 1 .. MaxOperations
    /\ task_count \in [Nodes -> Nat] /\ dependents \in [Targets -> Nat]
    /\ state \in [Targets -> {"unknown", "unchanged", "failed"}]
    /\ stack \in [Threads -> Seq(Frames)] /\ queued \subseteq Tasks
    /\ fail \in BOOLEAN /\ result \in {"running", "matched", "failed"}

Calls == UNION {{u} \X DOMAIN stack[u] : u \in Threads}

\* The count of a locked target, and of the operation, is exactly the number
\* of its unfinished tasks on top of the start count: no wait_guard returns
\* early and none waits for a task that is over.
TasksCounted ==
    \A n \in Nodes : n = Root \/ task_count[n] >= count_busy =>
        task_count[n] = StartCount(n)
            + Cardinality({task \in queued : task.parent = n})
            + Cardinality({c \in Calls : LET f == stack[c[1]][c[2]]
                                          IN  f.parent = n /\ f.target # n})

\* t has been matched in this operation without failure.
Matched(t) == task_count[t] = count_applied /\ state[t] # "failed"

PrerequisitesOf(n) == {prerequisites[n][i] : i \in DOMAIN prerequisites[n]}

\* A target is applied only on top of prerequisites that are: whoever is
\* executed will find all of them with a recipe.  (A prerequisite that fails
\* makes its dependents fail.)
PrerequisitesFirst ==
    \A t \in Targets : Matched(t) => \A p \in PrerequisitesOf(t) : Matched(p)

\* The dependencies: prerequisite i of node n.
Edges == UNION {{n} \X DOMAIN prerequisites[n] : n \in Nodes}

\* The dependents of every target have been counted exactly, one that lists it
\* twice twice, which execute() relies on ("make sure they are not skew"),
\* although several threads match it and the counts of the previous operation
\* are still there.
DependentsExact ==
    result = "matched" =>
        \A t \in Targets : Matched(t) =>
            dependents[t] = Cardinality({e \in Edges : /\ prerequisites[e[1]][e[2]] = t
                                                       /\ e[1] = Root \/ Matched(e[1])})

\* There is a dependency cycle among the targets in V: some of them each have
\* another one, or themselves, as a prerequisite.
CyclicIn(V) == \E S \in SUBSET V : S # {} /\ \A t \in S : PrerequisitesOf(t) \cap S # {}

\* No dependency cycle is ever matched successfully, however its members are
\* spread over the threads.
NoCycleMatched == ~CyclicIn({t \in Targets : Matched(t)})

\* A target is matched at most once in an operation: once applied (or failed)
\* its count, state and recipe are final until the next one begins.
AppliedFinal ==
    [][\A t \in Targets :
          task_count[t] = count_applied /\ current_on' = current_on
            => task_count'[t] = task_count[t] /\ state'[t] = state[t]]_vars

\* "Mark the phase_mutex as failed to terminate all other threads since the
\* build state may no longer be valid" (context.cxx): once a load has failed
\* the operation does not pass for matched and no target is matched any more,
\* except by a thread that already fails for another reason and, before it
\* goes on failing, finishes the tasks that it has queued.  (If it keeps
\* going, the thread whose load has failed goes on with other targets.)
NothingAfterFailure ==
    [][fail /\ ~keep_going =>
          /\ result' # "matched"
          /\ \A t \in Targets : Matched(t)' /\ ~Matched(t) =>
                \E u \in Threads : Unwinding(u) /\ At(u, "end") /\ Top(u).target = t]_vars

\* The match of an operation returns: if there is no dependency cycle and no
\* load fails, then no set of threads ends up waiting for each other's targets.
MatchReturns == result = "running" ~> result # "running" \/ fail \/ CyclicIn(Targets)

\* "Terminate all other threads" (context.cxx): it also does if a load fails.
MatchReturnsAnyway == result = "running" ~> result # "running"
=============================================================================
