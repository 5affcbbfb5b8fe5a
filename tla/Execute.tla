------------------------------ MODULE Execute ------------------------------
(***************************************************************************)
(* The execute phase of an operation (libbuild2/algorithm.{cxx,ixx} and    *)
(* operation.cxx): the recipes of the matched targets are executed, each   *)
(* once, prerequisites before dependents if the mode is first (update) and *)
(* after all of the dependents if it is last (clean).                      *)
(*                                                                         *)
(* As in Match, a thread is the stack of the execute_impl() calls it is    *)
(* in, the driver's execute() is the frame of the pseudo target Root, and  *)
(* the scheduler appears as what it promises.  execute() is two steps: it  *)
(* drops the count of dependents, and then races for the task count.  All  *)
(* the targets have been matched; some may be executed before the phase    *)
(* begins, with execute_direct().  The work of a recipe is a single step   *)
(* that may fail.  Outer operations, backlinks and directory callbacks are *)
(* left out.                                                               *)
(***************************************************************************)
EXTENDS Naturals, Sequences, SequencesExt, FiniteSets

CONSTANTS
    Helpers,        \* the helper threads, 1 .. n: as many as are ever needed
    Main,           \* the thread that runs the operation
    Targets,        \* the matched targets
    Root,           \* stands for the operation, whose prerequisites are its targets
    Graphs,         \* the prerequisites of each, in order and without repetition
    Noop,           \* targets with the noop recipe
    Members,        \* targets whose recipe is group_action; the prerequisite is the group
    MayFail,        \* targets whose work may fail
    Early,          \* targets that a rule updates during match
    Depths,         \* values of the queue depth; with 0 execution is serial
    Modes,          \* values of context::current_mode: "first", "last"
    KeepGoings      \* values of context::keep_going

Nodes == Targets \cup {Root}

Threads == {Main} \cup Helpers

ASSUME ExecuteAssumption ==
    /\ IsFiniteSet(Helpers) /\ Helpers \subseteq Nat /\ Main \in Nat \ Helpers
    /\ IsFiniteSet(Targets) /\ Root \notin Targets
    /\ Graphs \subseteq [Nodes -> Seq(Targets)]
    /\ \A g \in Graphs : /\ \A t \in Noop : g[t] = <<>>
                         /\ \A t \in Members : Len(g[t]) = 1 /\ g[t][1] \notin Members
                         /\ \A t \in Targets : \E n \in Nodes : t \in Range(g[n])
                         /\ \A n \in Nodes : \A i, j \in DOMAIN g[n] : g[n][i] = g[n][j] => i = j
                         /\ \A S \in (SUBSET Targets) \ {{}} :   \* no cycles
                                \E t \in S : \A n \in S : t \notin Range(g[n])
    /\ Noop \subseteq Targets /\ Members \subseteq Targets /\ Noop \cap Members = {}
    /\ MayFail \subseteq Targets /\ Early \subseteq Targets
    /\ Depths \subseteq Nat
    /\ Modes \subseteq {"first", "last"} /\ KeepGoings \subseteq BOOLEAN

VARIABLES
    prerequisites,      \* the dependency graph
    current_mode,       \* context::current_mode
    keep_going,         \* context::keep_going
    depth,              \* the depth of the task queues
    task_count,         \* of every target; that of Root is the local of execute()
    state,              \* opstate::state
    dependents,         \* opstate::dependents
    dependency_count,   \* context::dependency_count
    target_count,       \* context::target_count
    stack,              \* the calls that each thread is in, outermost first
    queued,             \* the tasks in the queues
    worked,             \* targets whose own work is done: the effect on the file system
    result              \* the outcome of the operation

fixed == <<prerequisites, current_mode, keep_going, depth>>
counts == <<task_count, dependents, dependency_count, target_count>>
vars == <<fixed, counts, state, stack, queued, worked, result>>

count_applied == 4
count_executed == 5
count_busy == 6

StartCount(n) == IF n = Root THEN 0 ELSE count_busy

PrerequisitesOf(n) == {prerequisites[n][i] : i \in DOMAIN prerequisites[n]}
DependentsOf(t) == {n \in Nodes : t \in PrerequisitesOf(n)}

Steps == {"match", "start", "try", "result", "wait", "finish", "work", "end", "done"}

(***************************************************************************)
(* A call: the target, where it is, the index of the next prerequisite,    *)
(* those that were postponed (and blanked out), whether it has failed or   *)
(* changed anything, and the node whose count is to be decremented at the  *)
(* end of a task (or the target itself if it was not started as one).      *)
(***************************************************************************)
FirstStep(t) == IF current_mode = "last" /\ t \notin Members THEN "work" ELSE "start"

Call(t, parent) ==
    [target |-> t, step |-> FirstStep(t), next |-> 1, postponed |-> {}, bad |-> FALSE,
     changed |-> FALSE, parent |-> parent]

RootCall == [target |-> Root, step |-> "match", next |-> 1, postponed |-> {}, bad |-> FALSE,
             changed |-> FALSE, parent |-> Root]

Init ==
    /\ prerequisites \in Graphs
    /\ current_mode \in Modes
    /\ keep_going \in KeepGoings
    /\ depth \in Depths
    /\ task_count = [n \in Nodes |-> IF n = Root THEN 0 ELSE count_applied]
    /\ state = [t \in Targets |-> IF t \in Noop THEN "unchanged" ELSE "unknown"]
    /\ dependents = [t \in Targets |-> Cardinality(DependentsOf(t))]
    /\ dependency_count = Cardinality({e \in Nodes \X Targets : e[2] \in PrerequisitesOf(e[1])})
    /\ target_count = Cardinality(Targets \ (Noop \cup Members))
    /\ stack = [u \in Threads |-> IF u = Main THEN <<RootCall>> ELSE <<>>]
    /\ queued = {}
    /\ worked = {}
    /\ result = "running"

Busy(u) == stack[u] # <<>>
Top(u) == stack[u][Len(stack[u])]
At(u, step) == Busy(u) /\ Top(u).step = step

Moved(u, f) == [stack EXCEPT ![u][Len(stack[u])] = f]
Returned(u) == [stack EXCEPT ![u] = Front(@)]
\* The innermost call goes on as f once the call g has returned.
Called(u, f, g) == [stack EXCEPT ![u] = Append(Front(@), f) \o <<g>>]

GoTo(f, step) == [f EXCEPT !.step = step]
NextOne(f) == [f EXCEPT !.step = "start", !.next = @ + 1]
Failed(f) == [f EXCEPT !.step = "end", !.bad = TRUE]

\* The prerequisites in the order of the mode (straight_ or reverse_execute_members()).
InOrder(n) == IF current_mode = "first" THEN prerequisites[n] ELSE Reverse(prerequisites[n])

More(f) == f.next <= Len(prerequisites[f.target])
Prerequisite(f) == InOrder(f.target)[f.next]

\* Mutant: the state of the group is not looked at.
ExecutedStateOwn(t) == state[t]

\* target::executed_state_impl(): the state of a member may be that of its group.
ExecutedState(t) ==
    IF t \in Members /\ state[t] \in {"group", "unknown"} THEN state[prerequisites[t][1]]
                                                          ELSE state[t]

\* The call after its tasks: the driver is done, the others wait for the
\* prerequisites one by one, from the first.
Waited(f) ==
    IF f.bad \/ f.target = Root THEN GoTo(f, "end")
                                ELSE [f EXCEPT !.step = "finish", !.next = 1]

\* wait_guard::wait().
Await(f) ==
    IF task_count[f.target] > StartCount(f.target) THEN GoTo(f, "wait") ELSE Waited(f)

\* An exception within the loop that starts tasks: ~wait_guard waits for them.
Thrown(f) == Await([f EXCEPT !.bad = TRUE])

\* execute_async() with the state of a target that is executed: a failed one
\* is the end unless we keep going.  The driver leaves the loop, the recipes
\* throw; group_action() only asks for the state.
Looked(f) ==
    IF ExecutedState(Prerequisite(f)) = "failed" /\ ~keep_going /\ f.target \notin Members
      THEN IF f.target = Root THEN Await(f) ELSE Thrown(f)
      ELSE NextOne(f)

-----------------------------------------------------------------------------
(***************************************************************************)
(* execute() of the next prerequisite.                                     *)
(***************************************************************************)

\* Mutant: whoever comes first executes the target.
PostponesNever(t) == FALSE

\* Is the target left to another of its dependents ("last" mode)?
Postpones(t) == current_mode = "last" /\ dependents[t] # 1

\* The counts are decremented, and in the last mode only the last dependent
\* goes on to execute the target.
ExecuteDecrement(u) ==
    /\ At(u, "start") /\ More(Top(u))
    /\ LET f == Top(u)
           t == Prerequisite(f)
       IN  /\ dependents' = [dependents EXCEPT ![t] = @ - 1]
           /\ dependency_count' = dependency_count - 1
           /\ stack' = Moved(u, IF Postpones(t)
                                  THEN [NextOne(f) EXCEPT !.postponed = @ \cup {f.next}]
                                  ELSE GoTo(f, "try"))
    /\ UNCHANGED <<fixed, task_count, target_count, state, queued, worked, result>>

\* The compare and exchange of applied for busy will succeed.
MayExecute(t) == task_count[t] = count_applied

Trying(u) == At(u, "try") /\ MayExecute(Prerequisite(Top(u)))

\* The noop recipe is not called.
ExecuteNoop(u) ==
    /\ Trying(u) /\ state[Prerequisite(Top(u))] = "unchanged"
    /\ task_count' = [task_count EXCEPT ![Prerequisite(Top(u))] = count_executed]
    /\ stack' = Moved(u, NextOne(Top(u)))
    /\ UNCHANGED <<fixed, dependents, dependency_count, target_count, state, queued, worked,
                   result>>

\* Does async() queue the task?  A group is executed by the thread of its
\* member.
MayQueue(u) ==
    /\ Top(u).target \notin Members
    /\ Cardinality({task \in queued : task.owner = u}) < depth

ExecuteQueued(u) ==
    /\ Trying(u) /\ state[Prerequisite(Top(u))] # "unchanged" /\ MayQueue(u)
    /\ LET f == Top(u)
           t == Prerequisite(f)
       IN  /\ task_count' = [task_count EXCEPT ![t] = count_busy, ![f.target] = @ + 1]
           /\ queued' = queued \cup {[target |-> t, parent |-> f.target, owner |-> u]}
           /\ stack' = Moved(u, NextOne(f))
    /\ UNCHANGED <<fixed, dependents, dependency_count, target_count, state, worked, result>>

\* The target is executed within the call.
ExecuteSync(u) ==
    /\ Trying(u) /\ state[Prerequisite(Top(u))] # "unchanged" /\ ~MayQueue(u)
    /\ LET t == Prerequisite(Top(u))
       IN  /\ task_count' = [task_count EXCEPT ![t] = count_busy]
           /\ stack' = Called(u, GoTo(Top(u), "result"), Call(t, t))
    /\ UNCHANGED <<fixed, dependents, dependency_count, target_count, state, queued, worked,
                   result>>

ExecuteBusy(u) ==
    /\ At(u, "try") /\ ~MayExecute(Prerequisite(Top(u)))
    /\ task_count[Prerequisite(Top(u))] >= count_busy
    /\ stack' = Moved(u, NextOne(Top(u)))
    /\ UNCHANGED <<fixed, counts, state, queued, worked, result>>

\* The target is executed, by somebody or just now.
ExecuteExecuted(u) ==
    /\ \/ At(u, "result")
       \/ At(u, "try") /\ task_count[Prerequisite(Top(u))] = count_executed
    /\ stack' = Moved(u, Looked(Top(u)))
    /\ UNCHANGED <<fixed, counts, state, queued, worked, result>>

-----------------------------------------------------------------------------
(***************************************************************************)
(* straight_execute_members(), reverse_execute_members(), group_action()   *)
(* and the loop of the driver's execute(), after the prerequisites have    *)
(* been started.                                                           *)
(***************************************************************************)
ExecuteAll(u) ==
    /\ At(u, "start") /\ ~More(Top(u))
    /\ stack' = Moved(u, Await(Top(u)))
    /\ UNCHANGED <<fixed, counts, state, queued, worked, result>>

WaitDone(u) ==
    /\ At(u, "wait") /\ task_count[Top(u).target] <= StartCount(Top(u).target)
    /\ stack' = Moved(u, Waited(Top(u)))
    /\ UNCHANGED <<fixed, counts, state, queued, worked, result>>

\* Mutant: the state of a prerequisite is used while it is being executed.
SettledAnyway(t) == TRUE

\* Somebody else's prerequisite is waited for until this holds.
Settled(t) == task_count[t] <= count_executed

\* A prerequisite is over; a failure ends the recipe even if we keep going.
FinishOne(u) ==
    /\ At(u, "finish") /\ More(Top(u)) /\ Top(u).next \notin Top(u).postponed
    /\ Settled(Prerequisite(Top(u)))
    /\ LET f == Top(u)
           s == ExecutedState(Prerequisite(f))
       IN  stack' = Moved(u, IF s = "failed" /\ f.target \notin Members THEN Failed(f)
                             ELSE [f EXCEPT !.next = @ + 1, !.changed = @ \/ s = "changed"])
    /\ UNCHANGED <<fixed, counts, state, queued, worked, result>>

FinishPostponed(u) ==
    /\ At(u, "finish") /\ More(Top(u)) /\ Top(u).next \in Top(u).postponed
    /\ stack' = Moved(u, [Top(u) EXCEPT !.next = @ + 1])
    /\ UNCHANGED <<fixed, counts, state, queued, worked, result>>

\* All the prerequisites are over: now or before that it is the target's turn.
FinishAll(u) ==
    /\ At(u, "finish") /\ ~More(Top(u))
    /\ stack' = Moved(u, GoTo(Top(u), IF FirstStep(Top(u).target) = "start"
                                           /\ Top(u).target \notin Members
                                        THEN "work" ELSE "end"))
    /\ UNCHANGED <<fixed, counts, state, queued, worked, result>>

-----------------------------------------------------------------------------
(***************************************************************************)
(* execute_impl().                                                         *)
(***************************************************************************)

\* Mutant: a target is up to date whatever its prerequisites.
UpToDateAnyway(f) == TRUE

\* May the target need no work?  It does if a prerequisite has changed
\* (execute_prerequisites() with the timestamp of the target).
UpToDate(f) == ~f.changed

\* The step after the work of the recipe.
AfterWork == IF current_mode = "first" THEN "end" ELSE "start"

\* The target's own work is done or is found to be unnecessary, or it fails.
Work(u) ==
    /\ At(u, "work")
    /\ LET f == Top(u)
       IN  \/ /\ stack' = Moved(u, [f EXCEPT !.step = AfterWork, !.changed = TRUE])
              /\ worked' = worked \cup {f.target}
           \/ /\ UpToDate(f)
              /\ stack' = Moved(u, [f EXCEPT !.step = AfterWork, !.changed = FALSE])
              /\ worked' = worked \cup {f.target}
           \/ /\ f.target \in MayFail
              /\ stack' = Moved(u, Failed(f))
              /\ UNCHANGED worked
    /\ UNCHANGED <<fixed, counts, state, queued, result>>

\* The state of a target when its recipe returns or throws.
EndState(f) ==
    IF f.bad THEN "failed"
    ELSE IF f.target \in Members THEN IF f.postponed = {} THEN "group" ELSE "unchanged"
    ELSE IF f.changed THEN "changed" ELSE "unchanged"

\* Mutant: a failed target stays busy.
EndCountBusy(f) == IF f.bad THEN count_busy ELSE count_executed

\* The task count that execute_impl() leaves.
EndCount(f) == count_executed

\* The state is set and the target is executed; those who wait are resumed.
End(u) ==
    /\ At(u, "end") /\ Top(u).target # Root
    /\ LET f == Top(u)
           t == f.target
       IN  /\ state' = [state EXCEPT ![t] = EndState(f)]
           /\ target_count' = IF t \in Members THEN target_count ELSE target_count - 1
           /\ task_count' = [task_count EXCEPT ![t] = EndCount(f)]
           /\ stack' = IF f.parent = t THEN Returned(u) ELSE Moved(u, GoTo(f, "done"))
    /\ UNCHANGED <<fixed, dependents, dependency_count, queued, worked, result>>

-----------------------------------------------------------------------------
(***************************************************************************)
(* The tasks.                                                              *)
(***************************************************************************)

\* Idle helpers are all alike: the first one is the one that gets a task.
FirstIdle(u) == ~Busy(u) /\ \A v \in Helpers : v < u => Busy(v)

\* A helper, or the owner of the queue in its wait, takes the task.
MayTake(u, task) ==
    \/ u \in Helpers /\ FirstIdle(u)
    \/ At(u, "wait") /\ task.owner = u /\ task.parent = Top(u).target

TaskStart(u, task) ==
    /\ MayTake(u, task)
    /\ queued' = queued \ {task}
    /\ stack' = [stack EXCEPT ![u] = Append(@, Call(task.target, task.parent))]
    /\ UNCHANGED <<fixed, counts, state, worked, result>>

\* task_thunk() decrements the count of the parent.
TaskDone(u) ==
    /\ At(u, "done")
    /\ task_count' = [task_count EXCEPT ![Top(u).parent] = @ - 1]
    /\ stack' = Returned(u)
    /\ UNCHANGED <<fixed, dependents, dependency_count, target_count, state, queued, worked,
                   result>>

-----------------------------------------------------------------------------
(***************************************************************************)
(* The operation.                                                          *)
(***************************************************************************)
Matching == Len(stack[Main]) > 0 /\ stack[Main][1].step = "match"

\* execute_direct(): a rule updates a prerequisite while it is matched.  It
\* is not one of the dependents that were counted.  (If the target is busy
\* or executed, then the caller only waits for it.)
ExecuteDirect(u, t) ==
    /\ Matching /\ current_mode = "first"
    /\ At(u, "match") \/ (u \in Helpers /\ FirstIdle(u))
    /\ task_count[t] = count_applied
    /\ IF state[t] = "unchanged"
         THEN task_count' = [task_count EXCEPT ![t] = count_executed] /\ UNCHANGED stack
         ELSE /\ task_count' = [task_count EXCEPT ![t] = count_busy]
              /\ stack' = [stack EXCEPT ![u] = Append(@, Call(t, t))]
    /\ UNCHANGED <<fixed, dependents, dependency_count, target_count, state, queued, worked,
                   result>>

\* All is matched and the threads are idle: execute() begins, unless a direct
\* execution has failed and the match with it.
ExecuteBegin ==
    /\ At(Main, "match") /\ \A u \in Threads \ {Main} : ~Busy(u)
    /\ IF \E t \in Early : state[t] = "failed"
         THEN stack' = Returned(Main) /\ result' = "failed"
         ELSE stack' = Moved(Main, GoTo(RootCall, "start")) /\ UNCHANGED result
    /\ UNCHANGED <<fixed, counts, state, queued, worked>>

\* The states of the operation's targets are looked at again.
OperationExecuted ==
    /\ At(Main, "end") /\ Top(Main).target = Root
    /\ result' = IF \E t \in PrerequisitesOf(Root) : ExecutedState(t) = "failed"
                   THEN "failed" ELSE "executed"
    /\ stack' = Returned(Main)
    /\ UNCHANGED <<fixed, counts, state, queued, worked>>

Step(u) ==
    \/ ExecuteDecrement(u) \/ ExecuteNoop(u) \/ ExecuteQueued(u) \/ ExecuteSync(u)
    \/ ExecuteBusy(u) \/ ExecuteExecuted(u) \/ ExecuteAll(u) \/ WaitDone(u)
    \/ FinishOne(u) \/ FinishPostponed(u) \/ FinishAll(u) \/ Work(u) \/ End(u)
    \/ TaskDone(u) \/ \E task \in queued : TaskStart(u, task)

Driver == ExecuteBegin \/ OperationExecuted

Next ==
    \/ \E u \in Threads : Step(u) \/ \E t \in Early : ExecuteDirect(u, t)
    \/ Driver

Spec == Init /\ [][Next]_vars

\* Threads that can run do run.
FairSpec == Spec /\ WF_vars(Driver) /\ \A u \in Threads : WF_vars(Step(u))

-----------------------------------------------------------------------------
(***************************************************************************)
(* Properties.                                                             *)
(***************************************************************************)
Frames == [target : Nodes, step : Steps, next : Nat, postponed : SUBSET Nat,
           bad : BOOLEAN, changed : BOOLEAN, parent : Nodes]

Tasks == [target : Targets, parent : Nodes, owner : Threads]

\* The variables are of the types of the code's; counts do not wrap below zero.
TypeOK ==
    /\ prerequisites \in Graphs /\ current_mode \in Modes /\ keep_going \in KeepGoings
    /\ depth \in Depths /\ task_count \in [Nodes -> Nat] /\ dependents \in [Targets -> Nat]
    /\ dependency_count \in Nat /\ target_count \in Nat
    /\ state \in [Targets -> {"unknown", "unchanged", "changed", "failed", "group"}]
    /\ stack \in [Threads -> Seq(Frames)] /\ queued \subseteq Tasks
    /\ worked \subseteq Targets /\ result \in {"running", "executed", "failed"}

Executed(t) == task_count[t] = count_executed

\* In the first mode no target is updated before all of its prerequisites
\* have been, successfully.
UpdatedInOrder ==
    current_mode = "first" =>
        \A t \in worked : \A p \in PrerequisitesOf(t) : Executed(p) /\ ExecutedState(p) # "failed"

\* In the last mode no target is cleaned before all of its dependents have
\* been: one that could not be cleaned keeps what it was made from, whichever
\* thread comes last and with or without keep_going.
CleanedInOrder ==
    current_mode = "last" =>
        \A t \in worked : \A d \in DependentsOf(t) \ {Root} :
            d \in worked \/ (d \in Members /\ DependentsOf(d) \ {Root} \subseteq worked)

\* A target is executed at most once: then its count and state are final.
ExecutedFinal ==
    [][\A t \in Targets : Executed(t) => Executed(t)' /\ state'[t] = state[t]]_vars

\* "We should have executed every target that we matched, provided we haven't
\* failed" (operation.cxx): both counts are back to zero, and no failure of a
\* target, however deep in the graph, has been lost on the way up.
AllExecuted ==
    result = "executed" =>
        /\ target_count = 0 /\ dependency_count = 0
        /\ \A t \in Targets : Executed(t) /\ state[t] # "failed" /\ dependents[t] = 0
        /\ worked = Targets \ (Noop \cup Members)

\* A target is updated if any of its prerequisites has been changed by anybody.
ChangePropagates ==
    current_mode = "first" =>
        \A t \in Targets : Executed(t) /\ ExecutedState(t) = "unchanged" =>
            \A p \in PrerequisitesOf(t) : ExecutedState(p) # "changed"

\* The operation returns: no set of threads waits for each other's targets.
ExecuteReturns == result = "running" ~> result # "running"
=============================================================================
