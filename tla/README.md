# TLA+ specifications of the build2 toolchain

This directory holds a verification project for the build2 toolchain
distribution: the build system (`build2/`), the package manager (`bpkg/`), the
project manager (`bdep/`) and the libraries they share (`libbutl/`,
`libbpkg/`). It contains TLA+ modules translated from the source, TLC
configurations that check them on small instances, and TLAPS proofs that
establish the central properties for every value of the constants.
`PROJECT.json` is the machine-readable index: components, runs, mutants, the map
from definitions to source lines, hazards, findings and theorems.

## 1. Inventory

### The parts of the system

| part | where | state it keeps | operations |
|---|---|---|---|
| scheduler | `libbuild2/scheduler.{hxx,txx,cxx}` | counters of active, idle, waiting, ready, starting and external threads, `max_active_`, `shutdown_`, three condition variables | `startup`, `async`, `wait`, `suspend`/`resume`, `deactivate`/`activate`, `tune`, `shutdown`, the helper and monitor threads |
| task queues | the same | per-thread circular buffer: head, mark, tail, size | `push`, `pop_front`, `pop_back` |
| wait queue | the same | shards of condition variables hashed by task count | `suspend`, `resume` |
| phase mutex | `libbuild2/context.{hxx,ixx,cxx}` | phase, three counters, `fail_`, `lm_` | `lock`, `unlock`, `relock` through `phase_lock`, `phase_unlock`, `phase_switch`, `wait_guard` |
| target match and execute | `libbuild2/algorithm.{cxx,ixx}`, `operation.cxx`, `target.{hxx,ixx}` | per-target `task_count`, rule, recipe, state, `dependents`; `dependency_count`, `target_count` | `lock_impl`, `unlock_impl`, `match`, `match_async`, `execute`, `execute_direct`, the recipes that execute prerequisites |
| auxiliary dependency databases | `libbuild2/depdb.{hxx,ixx,cxx}` | the `.d` file: mode, position, touch | `read`, `expect`, `write`, `skip`, `close`, `check_mtime` |
| variables, scopes, parser, functions, scripts | the rest of `libbuild2` | values and caches, scope map, tokens | lookup, overrides, parsing, script execution |
| build system modules | `libbuild2/{cc,bin,config,dist,install,test,...}` | module state, module import maps | match/apply/perform of their rules |
| bpkg | `bpkg/bpkg` | the SQLite database (`selected_package` and the repositories), the archives and directories of the configuration | `pkg-fetch`, `pkg-unpack`, `pkg-checkout`, `pkg-configure`, `pkg-disfigure`, `pkg-purge`, `pkg-build`, `rep-fetch` and so on |
| bdep | `bdep/bdep` | the project database and configurations | `init`, `sync`, `deinit`, `publish`, `ci` |
| libbutl, libbpkg | those directories | none to speak of, except builtins and process handles | versions, manifests, diff, pagers |
| libodb, libodb-sqlite, libsqlite3, libpkgconf | those directories | vendored | not part of the program's own logic |

### How they interact

A driver thread calls `startup()` and runs the operations one after another.
`match()` and `execute()` hand tasks to the scheduler with `async()`, where they
wait in the task queue of the thread that has made them until the same thread
works its queue in `wait()` or a helper steals them from the front. A thread
that has to wait for a task count (a batch of tasks or the lock of a target)
calls `suspend()`, which gives its slot to somebody else, and whoever changes
the count calls `resume()`. Every task holds the phase mutex in the phase
of its operation; a thread that waits releases the phase first, so that
somebody else may switch to load. The phase mutex gives slots up and takes them
back through the scheduler too. When all is matched the driver executes the
targets with the counts of dependents that the match has left; the recipes
consult the auxiliary dependency database of their target, which is all that
survives from one build to the next besides the files themselves.

`bpkg` is a sequential program around a database and the file system. Every
command on a package changes files first and commits the new state last;
`pkg-build` computes a plan, simulates it on the database within a transaction
that it rolls back, refines it until the simulation gives no reason to change
anything, and executes it as one such command after another.

### What is hard

* Two levels of blocking: a thread needs a slot of the scheduler, a phase
  and, in the load phase, `lm_`. Each is given up and taken back separately.
* Notifications are sent after mutexes have been released, condition variables
  wake up spuriously, and some waits have no predicate.
* The scheduler limits active threads strictly but the total only softly: it
  has to exceed the limit when everybody waits.
* Tasks run inside the waits of other tasks, so what an owner may take from
  its own queue depends on its nesting level.
* An exception in one task meets guards in other threads.
* A build or a `bpkg` command can fail or be killed after any change of the file
  system, and the next one has to tell a finished step from an unfinished one by
  timestamps, an end marker or a record in the database.
* A plan of `pkg-build` is computed from a database that an earlier plan, aborted
  half-way, may have left in any state.

### What makes each part correct

* Scheduler: counters equal what they count; `active <= max_active`; a free
  slot goes to a ready master or to queued work; a deadlock is noticed; shutdown
  returns.
* Task queue: it is a double-ended queue; the owner does not take tasks of an
  outer level.
* Phase mutex: all threads in one phase; an exclusive load; no forgotten
  waiter; no thread carries on after a failed load.
* Target lock: one thread at a time works on a target; every waiter is woken; a
  target is matched and executed once per operation.
* Execution: a target is executed once, in the order of the mode, and not
  forgotten although each dependent may leave it to another; a change propagates to
  the dependents; execution ends.
* depdb: an interrupted update is never taken for a complete one, and a complete
  one is not repeated.
* Packages: a record says what is on the file system, nothing is on the file
  system without a record, a configured package stands on configured ones.
* pkg-build: a plan that is offered to the user can be carried out; it does what
  was asked and leaves alone what is held; planning ends.

## 2. Modules

| module | models | role |
|---|---|---|
| `Scheduler` | thread accounting of `scheduler.cxx` | component |
| `Deque` | what a task queue promises | abstract specification |
| `TaskQueue` | `task_queue`, `push`, `pop_front`, `pop_back` | component, refines `Deque` |
| `WaitQueue` | `suspend`, `resume`, `wait_slot` | component |
| `PhaseMutex` | `run_phase_mutex` and its guards | component |
| `Match` | the match phase of `algorithm.cxx` and `operation.cxx` | composition: targets, tasks, loads |
| `Execute` | the execute phase of the same, in both modes | composition: targets, tasks, direct executions |
| `Depdb` | `depdb.cxx` and the rules that use it | component with its users, over several builds |
| `Package` | `pkg-fetch`, `pkg-unpack`, `pkg-checkout`, `pkg-configure`, `pkg-disfigure`, `pkg-purge` | component: the database and the file system |
| `PkgBuild` | `pkg-build.cxx` | planning and its execution, over several requests |
| `MC...` with `.cfg` | | instances for TLC; `MCMatch` has two configurations, `MCPkgBuild` three |
| `SchedulerProofs`, `QueueProofs`, `PhaseMutexProofs`, `MatchProofs`, `ExecuteProofs`, `DepdbProofs`, `PackageProofs`, `PkgBuildProofs` | | proofs; `QueueProofs` is about `TaskQueue` and `WaitQueue` |

`Match` and `Execute` do not instantiate the modules of the scheduler. They use
what those promise: that a waiter goes on after its count has dropped
(`WaitQueue!NoLostWakeup`), that somebody takes a queued task whatever the limits
(`Scheduler!NoStrandedWork`), that the owner of a queue takes the tasks of its
level (`TaskQueue!LevelDiscipline`) and that a load has the build state to itself
(`PhaseMutex!ExclusiveLoad`). `Execute` starts from what `Match` establishes:
every target is applied and `dependents` is the number of its dependents
(`Match!DependentsExact`, `PrerequisitesFirst`). The transactions that `PkgBuild`
executes are refused under the conditions under which `Package` does not let a
command begin; the commands are single steps there.

### How state and actions correspond to the code

**Scheduler.** The counters have the names of the members without the trailing
underscore. `pc` says where a thread is: counted in one of the counters,
between two sections of the code, or asleep on a condition variable (a state
such as `"ready"`; `"ready_woken"` once notified). Every section that the code
performs under `mutex_` is one action, so that the steps of different threads
interleave exactly where the code releases the mutex. `Push`, `PushSnatched` and
`PushWake` are the parts of `async()`; `Deactivate`, `Activate` and `ReadyWake`
those of the functions of that name, with the waits inside them; `HelperStart`, `HelperWake`,
`HelperPop`, `HelperTaskDone` and `HelperScanned` those of `helper()`; the
`Shutdown...` actions those of `shutdown()`, and the `Monitor...` ones those of
`deadlock_monitor()`. `notify_one()` is the choice of one sleeping thread
(`NotifyOne`), and spurious wake-ups are actions. The queues are the number
`queued` (`queued_task_count_`).

**TaskQueue.** One queue, index by index. `Push` and `PushFull` are the two
outcomes of `push()` in `async()`, `PopFront` is the helper's side and `PopBack`
the owner's. `stack` holds the tasks that the owner is executing, each with the
old mark to restore, and `Return` is the end of the innermost. A task carries
the nesting level it was pushed at, which the code does not store: it is what
`LevelDiscipline` is about.

**WaitQueue.** `Suspend`, `Check`, `Sleep`, `Wake`, `Leave` are `suspend()`, cut
where the thread takes or releases the mutex of the slot and between its look at
the count and its wait; `Resume` is `resume()`. `Lock`, `Async`,
`WaitTasks`, `WaitLock`, `Unlock` and `TaskDone` are the users of task counts in
`scheduler.txx` and `algorithm.cxx`; they change an atomic and are not under any
mutex.

**PhaseMutex.** `Lock`, `Unlock` and `Relock` are the sections under `m_`;
`NotifyAll` is the notification that comes after; `WaitCheck` is the wake-up;
`Activate` takes the scheduler's slot back; `LoadLock` and `LoadUnlock` are
those of `lm_`, and `Requery` is the second look at `fail_` after it. The
constructors and destructors of the guards begin these operations (`PhaseLock`,
`PhaseUnlock`, `PhaseSwitch` and their `...End`) and finish them
(`GuardConstructed`, `GuardDestroyed`, `GuardFails`). `Throw` and `Catch` are the
exceptions of the tasks. A thread that unwinds waits in `~wait_guard` for the tasks
that it has started and works those still in its queue, so that guards are constructed
and destroyed with an exception in flight: `bad` is about the innermost task, a guard
remembers whether one was in flight when it was constructed, and `Uncaught` is what
`uncaught_exception()` returns. A thread that waits in the execute phase keeps it
(`operation.cxx:273`: "Never switched"), so that its wait (`Suspend`) needs no guard.

**Match.** A thread is the stack of the `match_impl()` calls it is in. A frame
says which target is matched, what it is at (starting prerequisites, waiting for
its tasks, finishing prerequisites, waiting for a lock, ending), which
prerequisite is next, and the targets locked below it (the `target_lock` stack
that cycles are looked for in). The outcomes of `match_async()` (through
`start_match`) and of `match()` are actions of their own: `AsyncQueued`,
`AsyncSync`, `AsyncBusy`, `AsyncCycle`, `AsyncApplied` and `MatchLocked`,
`MatchApplied`, `MatchCycle`, `MatchBusy`. `End` is the end of a call with
`unlock_impl()`, `Load` the switch of phase with the loading of a buildfile,
`TaskStart`, `TaskFails` and `TaskDone` the match task, and `NextOperation` the
driver's next operation, with the targets executed or not in between. A call that fails
with tasks started waits for them like any other (`Thrown`), and the thread may take
those of its own queue on top of it: it is `Unwinding`, in which case reacquiring the
phase does not throw (`RelockFails`) and the end of a load marks the mutex (`Load`). Idle
helpers are interchangeable; a task is taken by the first of them, which keeps
the state space small without a symmetry set (symmetry would not be sound for
the liveness properties).

**Execute.** As in `Match` a thread is a stack of calls, here of `execute_impl()`.
`execute()` is two steps, because that is what it is under concurrency:
`ExecuteDecrement` drops `dependents` and leaves the target to somebody else in
the `last` mode, and then the thread races for the task count (`ExecuteNoop`,
`ExecuteQueued`, `ExecuteSync`, `ExecuteBusy`, `ExecuteExecuted`). `ExecuteAll`,
`WaitDone`, `FinishOne`, `FinishPostponed` and `FinishAll` are
`straight_execute_members()`, `reverse_execute_members()` and
`execute_prerequisites()`; `Work` is the target's own work, before or after that;
`End` is the end of `execute_impl()` with `resume()`. A member of a group has
`group_action` as its recipe. `ExecuteDirect` is the update of a target during
match, `ExecuteBegin` and `OperationExecuted` are the driver's `execute()`.
`worked` is the effect on the file system, which the code does not record.

**Depdb.** The database file is a sequence of texts, newlines and the end marker.
`Open`, `Expect`, `Accept`, `Change` and `Close` are the functions of `depdb`; what
has been written sits in the buffer `pending` until the file is closed, and
`Interrupt` writes any part of it. The three ways to use it are those of the
buildscript recipe (and of the link rule), of the `in` rule, which compares the
variables while it substitutes and closes the database before the output, and of
the compile rule, which extracts headers and looks at the checksum of the
translation unit to ignore changes that do not matter. Edits of options, values
and sources, and the removal of files, happen between the builds.

**Package.** `selected` is the database, `fs` the paths that exist and
`configured` the output directories that the build system has configured. A
command begins (`Fetch`, `FetchExisting`, `Unpack`, `UnpackExisting`, `Checkout`,
`Configure`, `ConfigureSystem`, `Disfigure`, `Purge`, `PurgeBroken`) under the
checks of its function and goes through its steps; a step has a failing twin
(`CreateFails`, `CheckoutFails`, `PurgeSrcFails`, `PurgeArchiveFails`,
`RunConfigureFails`, `RunDisfigureFails`) with what the code does then: clean up,
disfigure, or commit the package as broken. `Commit` is the end of the
transaction and `Kill` may come before any step.

**PkgBuild.** `Collect`, `CollectPrerequisites` and `CollectDependency` are
`collect_build()` and `collect_build_prerequisites()` on the map of
`build_packages`; `OrderIn` is `order()`; `OrderDependents` and
`OrderAllDependents` are the two functions `collect_order_dependents()`; `Simulated`
is `execute_plan()` in its simulation; `Evaluate` is `evaluate_dependency()`. A
function that calls itself is a level that is given what the next level does
(`CollectLevel`, `OrderLevel`, `OrderDependentsLevel`), and a function on `0 .. n`
that puts levels on top of each other: as many as a chain of packages without
repetition can have for the ordering, which looks for cycles, and `MaxDepth` for the
collection, which does not. Below the last level the status of the plan is
`"endless"`. A loop over a list of packages is a `Fold`. `Refine` is one iteration of the refinement
loop. The `Execute...` actions are the transactions of the real execution, each of
which may be the last (`Abort`), and the next request starts from there. A
constraint is the set of versions that satisfy it.

## 3. Runs

| run | instance | what it shows |
|---|---|---|
| `scheduler` | 1 master, 3 helpers, limits of 2, 2 tasks, fair | `Accounting`, `ActiveBound`, `ReadyNotStranded`, `NoStrandedWork`, `MonitorNotMissed`, `ShutdownReturns`, `DeadlockNoticed`, through spurious wake-ups, `tune()`, shutdown and restart |
| `phase_mutex` | 2 slots; 3 threads with 2, 1 and 1 guards or that all load, 2 threads that nest guards, 2 of which one works a task while it unwinds; loads that wait, fair | `InPhase`, `ExclusiveLoad`, `NotStranded`, `FailSeen`, `Arrives` |
| `task_queue` | depth 3, 3 levels, 2 task names | `LevelDiscipline`; the ring implements `Deque` (`DequeSpec`) |
| `wait_queue` | 2 masters, 1 helper, a lock and a batch in one slot, fair | `NoLostWakeup`, `NoEarlyReturn`, `WaitReturns` |
| `match` | 3 threads, up to 4 targets, 6 acyclic graphs and 5 with cycles, 2 operations, failing rules and loads, with and without `--keep-going`, fair | `TasksCounted`, `PrerequisitesFirst`, `DependentsExact`, `NoCycleMatched`, `NothingAfterFailure`, `MatchReturns` |
| `match_load_fails` | the diamond, loads that fail, fair | a counterexample to `MatchReturnsAnyway` |
| `execute` | 4 threads, 5 targets with a group, a noop recipe and an early update, both modes, serial and parallel, fair | `UpdatedInOrder`, `CleanedInOrder`, `AllExecuted`, `ChangePropagates`, `ExecuteReturns` |
| `depdb` | 3 rules, 4 builds, 2 edits | `UpToDate`, `DatabaseHonest`, `NothingToDo` |
| `package` | 2 packages, 2 versions | `RecordBacked`, `NoLitter`, `PrerequisitesConfigured` |
| `pkg_build` | 4 packages, 2 versions, 3 of 10 requests in any order, fair | `PlanSound`, `RequestHonoured`, `PackagesStand`, `HeldVersionKept`, `ExecutionNotRefused`, `RefinementEnds`, from whatever the request before has left |
| `pkg_build_cycle` | 3 packages with a cycle, 1 request | a counterexample to `CollectEnds` |
| `pkg_build_drop` | the packages of `pkg_build`, 2 requests | a counterexample to `PlanNotRefused` |

Every property is stated with a comment in its module; `PROJECT.json` has for
each of them a mutation of a mapped definition that breaks it. Each module
also has a `TypeOK` (`QueueTypeOK` in `TaskQueue`); it holds on these instances and is not part of the runs. Neither
are `Match!AppliedFinal` and `Execute!ExecutedFinal` (a target is matched, and executed,
once per operation), which are theorems and whose violations the counts of dependents
(`DependentsExact`, `AllExecuted`) would show.

### Bounds, and why they are enough

* `Scheduler`: with one master and `MaxThreads = 2` the second and third helpers can be
  created only by exceeding the limit, which is the case
  `NoStrandedWork` is about. Two tasks are needed so that a helper leaves one
  behind. The safety properties are proved for all values.
* `TaskQueue`: three cells and three levels let the ring wrap past a mark that
  two interrupted waits have saved. The properties are proved for all depths.
* `WaitQueue`: two counts in one slot collide; three threads are a waiter for
  the tasks, a waiter for the lock and somebody who performs the tasks. A
  task count up to 3 and four starts leave room for a lock with two tasks and
  for taking it again. The safety properties are proved for all values.
* `PhaseMutex`: there are always fewer slots than threads that want one, where there
  are three: one of them nests any guard within another one while the others lock two
  different phases (`Contended`), or all three switch to load, so that threads wait
  for a slot with the phase already theirs, on `lm_` with a slot, and for tasks without
  one. Two threads that nest any guards (`Nested`) meet on `lm_`, and one sees the other
  fail. In `Unwinding` a thread waits with or without an exception in flight and works a
  task meanwhile, which waits or loads in its turn, while another thread loads: a relock
  that fails does not throw there, and a load that succeeds marks the mutex. The
  sequences in `Builds` bound the guards of each thread and say which phases they may
  ask for. The safety properties are proved for any number of threads, slots and guards.
* `Match`: with three targets the diamond has a target with two dependents and
  a chain of two, and a load that fails can have nothing to do with the targets
  that others wait for. The fourth target is for two graphs (`Loop`, `Late`) in which
  a rule depends on its own target and so fails with a task in its queue: the thread
  takes that task while it unwinds, and there waits for another thread while a load
  fails, or is itself a load. Three threads are as many as there can be targets matched at
  once. The second operation starts from the counts and states that the first has left.
  One target lists a prerequisite twice, which the code counts twice. All safety
  properties are proved for every finite graph.
* `Execute`: a chain that ends in a group with a member that is asked for twice,
  and a diamond whose one side goes through the member; so a target can be left to another
  dependent, be found busy, and be executed early by a rule. Four threads are as
  many as these graphs have branches waiting at once; with fewer the model,
  which has no scheduler to add threads, can stop. All safety properties are proved for
  any number of threads and every finite acyclic graph without repeated prerequisites.
* `Depdb`: four builds with two edits: one to settle, an edit, one or two that
  are interrupted, one that must notice. Sources with one and two variables
  make the `in` rule's database shrink and grow. The properties are proved for any
  number of builds, edits, options and variables.
* `Package`: an application and the library that it needs in one of two versions;
  one version comes from an archive, the other from version control, and the
  user has an archive and a directory of one. The properties are proved for any
  packages, versions and dependencies.
* `PkgBuild`: two applications over a library over a base package with versions
  that exclude each other in part. Three requests: one to build, one that may be
  aborted anywhere, and one that meets what is left. `MaxDepth = 8` is twice the number
  of packages: on this instance no collection gets there (`PlanSound` and
  `RefinementEnds` are checked with every outcome, and `CollectEnds` fails only with a
  cycle). All safety properties but `PlanSound` are proved for every repository, every
  set of requests and every depth.

`CHECK_DEADLOCK FALSE` is used where the system may really stop: in `Match`, where
threads wait for each other around a cycle or for a target lost with a failed load
(the scheduler's monitor, which is not part of that module, reports it), in
`Execute` when the operation is over, and in `PkgBuild` when there are no more
requests. That the first two do not stop earlier is what `MatchReturns` and
`ExecuteReturns` say.

### Fairness

* Threads that can run do run (weak fairness on what a thread does by itself):
  the operating system schedules them.
* A mutex or slot is not withheld from one thread for ever (strong fairness on
  taking it). The code relies on the implementation of `std::mutex`
  and `notify_one()` for that.
* Tasks are finite: the guards that a task has constructed are destroyed in the
  end, and a helper's task ends even if it is suspended over and over. Rules and
  compilers end, or the build does not.
* Nothing is assumed about callers: nobody has to start another task, and a wait
  for an external event need not end, except during a shutdown, which joins the
  threads.
* In `Match` and `Execute` every thread takes its steps with weak fairness, and
  there are as many helpers as are ever needed: `activate_helper()` creates one
  beyond the limit rather than leave a task while all others wait
  (`scheduler.cxx:549, 555`), which is `Scheduler!NoStrandedWork`.
* In `PhaseMutex` the fairness of taking a slot is no help if the slots are never given
  up: `Arrives` excepts `LoadStarved` (section 5).
* `pkg-build` goes on while it can (weak fairness on its steps); nobody has to
  make a request.

## 4. Proofs

What is proved holds for every value of the constants that meets the named
assumptions of the modules: finite disjoint sets of threads, limits as asserted
in `startup()` (`LimitsAssumption`), a queue of at least one cell
(`QueueAssumption`), start counts of 0 or 1 and any hash function
(`WaitQueueAssumption`), finitely many threads with any slots and guards
(`PhaseAssumption`), finitely many threads and targets with any graphs, cyclic ones
too (`MatchAssumption`), finitely many targets with acyclic graphs without repetition in
which every target has a dependent and a member of a group is asked for its group only
(`ExecuteAssumption`: what `Match` leaves, where a prerequisite is counted once), texts that are not mistaken for the newline or the end
marker (`DepdbAssumption`), any packages, versions and dependencies between them
(`PackageAssumption`), and any finite set of versions, any available packages, also
with cycles and with dependencies that cannot be satisfied, and any requests that name
no package twice (`PkgBuildAssumption`). TLC evaluates each of them on the instance of
its run. Where two
components share a module of proofs (`QueueProofs`), it extends both, which is why the names
of the specification of `TaskQueue` begin with `Queue`.

**SchedulerProofs.** `IndInv` is `TypeOK`, `Accounting` and `Placement`. Counters
are natural numbers that the code decrements without a test, so that typing
needs `Accounting` (a thread that is counted is there to be subtracted), and
`Accounting` needs `Placement`, which says who can be where (a shutdown past its
wait has no helpers left to be counted). The cardinalities are handled once, in
`MoveCounts`: a thread that moves from one state to another changes the size of
a class by one or not at all. `NotifyFits` and `ActivateHelperFits` carry that
through notifications. On top of `IndInv` come `ActiveBoundCorrect`,
`ReadyNotStrandedCorrect` (a sleeping ready thread means that the slots are
taken or promised: `Served`), `NoStrandedWorkCorrect` and
`MonitorNotMissedCorrect`. The last one assumes `~LateMonitor`: the monitor
thread has reached its wait before the first suspension.

**QueueProofs**, on the task queue. `RingOK` ties head, tail and size together. `LevelDiscipline`
is not inductive: the mark that is restored later, when the buffer has moved
under it, matters as much as the one in force. `MarkInv` says of every saved mark
that whatever is below its level has a task of its level, at the mark, behind
it. `DequeRefined` shows that every step of the ring is one of `Deque` or leaves
the contents alone.

**QueueProofs**, on the wait queue. `NoLostWakeup` speaks of sleeping threads. `WakeInv` extends
it to the step between the look at the count and the wait, where the
mutex keeps `resume()` away; `WaitShape` and `CountInv` say who may wait for
what, so that the value that ends a wait is always the one at which somebody
calls `resume()`; `WaitersExact` makes the test `waiters != 0` in `resume()`
harmless.

**PhaseMutexProofs.** The counters of `run_phase_mutex` are decremented without a
test, so that `TypeOK` needs `CountInv`: each counter is the number of threads that
have claimed its phase (`Counted`), threads that run are in the phase that the
mutex has (`InPhase`), and if any phase is claimed then the current one is
(`Occupied`, without which a change of phase could leave the waiters to nobody).
`ShapeInv` says what a thread can be at in which operation, `LoadInv` that `lm_`
belongs to the thread in the load phase from the moment it has got it until it gives
it up, which gives `ExclusiveLoad`. `NotStranded` is inductive only with `OwedInv`:
the notification comes after the mutex has been released, and the thread that owes
it does nothing else before. `OkInv` says that a success which `lock()` or `relock()`
is about to return is not stale, because nobody can fail a load meanwhile; `FailSeen`
follows: a thread that goes on with a negative result has an exception in flight, in its
task or in one that it has left for it, and that one is still there once the guard is
gone (the last step of `FailureSeen`).

**MatchProofs.** `FramesInv` says of each call what has been established for the
prerequisites that it is past, and when it can have tasks (`Sound`); `PlacesInv` how
the calls hang together: who has made a call, and that somebody is going to wait for
each task. `LocksInv` says that a target is held by one call or queued task at most,
and that its count says so; `CountsInv` what the count is made of, which is
`TasksCounted` and without which a decrement could lose the lock. `PrerequisitesFirst` is
inductive over these. `NoCycleMatched` follows from it: a step adds at most one
matched target, all of whose prerequisites are matched, so that it closes no cycle.
`AppliedFinal` comes from the same invariants. `RootedInv` says that
everything is matched for the operation in the end (no set of targets is matched for
nothing but each other), from which `NothingLeft` follows: `match()` returns only when
there is no call and no task left. After a failed load `DoomInv` names a set of
nodes, with the operation among them, each of which has failed or is going to fail
because of another, and `StopInv` says that no innermost call can succeed any more
unless we keep going or the thread is unwinding; what such a thread still matches is its
own queued task, and the call below is going to fail in any case, which is why
`NothingAfterFailure` says nothing more is matched but by threads that already fail, and
that the operation never passes for matched.

`DependentsExact` needs the history of the counts and is inductive as `CountedInv`, over
the first invariant. `EdgesInv` says that there is a finite set `D` of dependencies that
have been counted: every count of a target that has been locked in this operation is the
number of those in `D` that are on it, all of them have a matched prerequisite and a
dependent that may have counted it (`MayCount`), and none is missing that must be there
(`MustCount`). Between the two are the dependents that have failed in the middle of their
prerequisites, so that in the end nothing may have failed. This is what `AnswerInv` is
for: of any targets that are being matched or have failed, one is going to be looked at
by a node that is none of them, or that node has failed. With no calls left it leaves
nobody to answer, hence no failure, if the operation passes for matched. `RootInv` says
that the driver, who may leave its loop early, then comes to the failed target that made
it do so. What a step does to the calls (`Onward`, `Level`) and to the counts
(`Effects`) is said once for all actions; only `MatchApplied` adds to `D`.

**ExecuteProofs.** `StructInv` is to `Execute` what the first invariants are to `Match`:
`PlacesInv` says who has made a call and that somebody is going to wait for each task,
`LocksInv` that a target is executed by one call or queued task and that its count says
so, `CountsInv` what the count of a target being executed is made of. `FramesInv` is
what makes an update wait for its prerequisites: as far as a call has tried them they are
busy or executed (`Tried`), and as far as it has waited for them they are executed,
without failure, and a change of theirs has been noticed (`Seen`). A count that is
executed is never changed again (`Kept`, which is `ExecutedFinal`), so that what a call
has seen stays true while other threads go on. `UpdatedInOrder` is `Seen` at the moment
of the work. `ChangePropagates` outlives the call that has seen the change and needs
`PrerequisitesDone`, which says of a target that is executed what `Seen` said of its call.
The lemmas on `StructInv` are about the ways in which a step changes the stacks (a call
moves on, queues a task, makes a call, starts a task, ends, is over) and are shared by
the actions.

The rest is about the counts of dependents and is inductive as `CountedInv`, over the
first invariant. A count says how many edges of the graph are left, not which, and that
is what the argument needs. `EdgesInv` says that there is a set `D` of edges that have
been decremented, exactly as large as the counts have it (`Exact`), and what is known of
its members (`Counted`): the edges of a call that it is past are in `D` and those before
it are not (`Sure`, `Never`; after a failure some are neither), none of a target that
is not begun, all of one that has succeeded, and in the `last` mode only edges of
targets whose own work is done, of members and of the driver. `StartedInv` says that a
target whose count is zero is executed by somebody, and in the `last` mode no other is.
With it `CleanedInOrder` is immediate: a target that is cleaned has all its edges in
`D`. `AllExecuted` needs more, because it is also about failures. `LookInv` says that in
the `last` mode the dependent that executes a target is going to look at the outcome,
or has, while the others have blanked it out; `RootInv` and `ResultInv` say what the
driver and a call that has executed its prerequisite itself find. In the end there are
no calls (`NothingLeft`: of the targets in execution the topmost would have nobody to be
executed for), and a topmost target that failed or was not executed would have all its
edges in `D`, so be executed, and the failure be seen. `ExecuteDecrement` is the only
step that adds to `D`; what the others have in common for these invariants is `Calm`.

**DepdbProofs.** `Written` is what has been accepted or written of the database so
far: a prefix of the file while it is read, the file and the buffer once it is
written. `Progress` says that it encodes the lines that the build has looked at;
`expect()` adds one to it whether it reads or writes, and `close()` leaves `Written`
and the end marker. `FileInv` says that the end marker is the last symbol and is gone
as soon as anything is written, so that whatever part of the buffer an interruption
lets through is not complete: `DatabaseHonest`. `Trusted` is the core of `UpToDate`: a
complete database that is not newer than the target says what the target was made
from, with the further facts that an update relies upon when it does not look at
everything. `Decisions` says what the decision not to update was made from.
`NothingToDo` speaks of a build that finds what the last one has left; `SettledInv`
carries that through the steps of the build.

**PackageProofs.** `PrerequisitesConfigured` speaks of the database, but what
protects it are the checks that a command makes when it begins and does not
repeat when it commits. `CommandInv` carries them to the commit: nothing depends
on the package of the command, and the record to be committed, if it is a
configured one, is satisfied by the others (`MayCommit`). `RecordsInv` says that
only configured packages have prerequisites, so that a package that others depend
on is configured (`DependentsOnConfigured`) and is touched by no other command
than `pkg-disfigure`. Three lemmas are the ways in which a step can matter:
`BeginPreserves`, `StepPreserves` and `RecordPreserves`, to which the commands,
their steps and their failures are reduced one by one.

`RecordBacked` and `NoLitter` tie the database to the file system, which a command
changes step by step before it commits. `OutcomeInv` is the heart of it: at each
step it says what the record to be committed will find once the steps that are left
have been done, and that the record in the database is still right if they fail and
the code cleans up. `OthersInv` says that all is well with the packages that no
command is about, whose paths are apart from its own (`ObjectsInv`), and
`ConfiguredInv` that what is configured exists. Both theorems assume `~SelfReplace`
(see the remark on `pkg-fetch -e -r` below), as the run does.

**PkgBuildProofs.** `PackagesStand` is a matter of the database alone: each
transaction, as it is refused or not, leads from one good database (`GoodDatabase`) to
another, whatever the plan is. The other theorems need to know what a plan may contain.
A plan is *fine* (`Fine`, `EntryFine`) if a build has a version, only a decision of the
refinement drops a package, a package that nobody has asked for keeps a held version and
is neither held nor unheld, and one that is to be held is built in a version that was asked
for. The first half of the module goes through `collect_build()`, its
recursion, the arguments, the decisions, `order()` and `collect_order_dependents()`, and
shows that each keeps plans fine, and that the packages asked for end up on the list
(`PlannedFine`). What is hard there is merging: an entry is replaced by another version,
and what the user wanted has to survive it (`CollectFine`), and a held version has to
survive a dependency that wants another one (`CollectDependencyFine`: the code checks
that after it has collected the replacement, and only if the user has not asked for
the dependency).

The second half relates the simulation to the execution. `DisfigurePass`, `BuildPass` and
`HoldPass` give the databases on the way of a simulation that succeeds: there is one for
each package and pass, each is good, and the next one is what the transactions for
that package make of it; after the second pass nothing is left to do for any package
(`Finished`), after the third one every hold state is as planned. `Underway` says that
the execution, at some position in some phase, is at one of them (`Reached`). The invariant
`IInv` says that the database is good, that a plan is fine while it is refined, and that
it is `Underway` from a simulation by which the request is honoured while it is executed.
So no transaction is refused that was not refused in the simulation
(`ExecutionsNotRefused`), and the database at the end is the one the refinement has
looked at (`RequestsHonoured`). That one is as it was asked for because nothing on the
list is left to do and the entries are fine, and because the refinement stops only when
no package is unused, no decision has become stale and no wish is left unsatisfied
(`ResultFacts`, `ResultHolds`, `ResultUnholds`). `HeldVersionsKept` looks at one step: a
transaction is about an entry that is fine.

Folds and the levels of a recursion are functions on `0 .. n`. The provers do no
induction over data, but a set of naturals has a least element (`LeastElement`, from the
well-founded induction of the library with a set for the predicate), and the least
number at which such a function were not what it should be follows one at which it is
(`IterationExists`, `InductionUpTo`). This is why no definition of the model is a recursive operator.

The attempt to prove these found three things about the model, which were put right:
alternatives of a `CASE` whose guards overlap, of which TLA+ may take any and the code
takes the first (TLC does so too); the position of a package that is not on the list,
which now is the end of the list as `end()` is; and recursions with no bound, which are
not defined where they do not end.

Only model-checked: all liveness properties and what depends on fairness (`ENABLED` is
out of the prover's reach), that is `ShutdownReturns`, `DeadlockNoticed`, `Arrives`,
`WaitReturns`, `MatchReturns`, `ExecuteReturns` and `RefinementEnds`; and `PlanSound`. The
latter says that the order of the plan is right for every transaction of the simulation,
from whatever state an earlier request has left, which needs an argument about the paths
by which a package gets on the list; the two exceptions to it that are known (section 5)
were found by TLC, and there may be more on other repositories.
`ExecutionsNotRefused` is what holds regardless: a plan with a wrong order is refused in its
simulation, before anything is changed.

## 5. Findings

With a run that shows a counterexample:

* **A locked target after a failed load** (`match_load_fails`,
  `algorithm.cxx:736`). A match task that finds the phase mutex failed drops the
  lock it was handed, and whoever waits for the target waits for ever.
* **A cycle below the requested package** (`pkg_build_cycle`,
  `pkg-build.cxx:649`). An entry is replaced by one of the same version over and
  over, and the collection does not return; a cycle is only diagnosed by the
  ordering, which is never reached.
* **A dropped dependent behind its prerequisite** (`pkg_build_drop`,
  `pkg-build.cxx:1418`). Dependents that are dropped are not moved before a
  prerequisite that is only reconfigured, and the plan is refused by its own
  simulation.

Remarks that were met while modelling and are left as exceptions or as constants of the
modules:

* Shutdown with tasks left (`scheduler.cxx:772`, `ShutdownWithTasks`): helpers skip
  the queues that are flagged for shutdown but scan as long as
  `queued_task_count_` is not 0, so that `shutdown()` would not return. The guards
  of all callers wait for their tasks, so that the queues are empty by then.
* Slots held on `lm_` (`context.cxx:663, 772`): threads wait for the load mutex as
  active ones, against the advice in `scheduler.hxx:133-136`. A load that waits for
  tasks, as ad hoc C++ recipes do, gives its slot up; once all the slots are taken by
  threads that wait for `lm_`, its owner cannot become active again (`LoadStarved`,
  reached by TLC with two slots and three threads). The build hangs, and as there are
  active threads the deadlock monitor does not report it. `Arrives` excepts this state
  and holds otherwise; without the exception TLC finds the hang.
* A thread whose rule has failed works its queued tasks while the exception is in flight,
  and in these tasks the guards do not throw when a load has failed elsewhere
  (`context.cxx:867, 926`: "Fail unless we are already failing"): a target may still be
  matched after a failed load without `--keep-going`. The thread itself fails in the end,
  and so does the operation (`NothingAfterFailure`).
* If such a task performs a load, `~phase_switch` takes the exception of the task below
  for a failure of the load and marks the phase mutex although the load has succeeded
  (`context.cxx:915`). With `--keep-going` other targets then fail for no reason of
  their own. Comparing `uncaught_exceptions()` with its value at construction would tell
  the two apart.
* A stale mark (`scheduler.hxx:683-698`): after a wrap the owner may stop
  working its queue with tasks of its level left, which then wait for a helper.
  They are delayed and not lost.
* With `--keep-going` a thread whose own load has failed goes on to match other
  targets (`NothingAfterFailure` excepts that).
* A held package that an aborted upgrade has left half built is an assertion
  failure (`pkg-build.cxx:4818`) or a refused plan when the next request
  unholds or drops it (`UnheldHalfBuilt`, excepted in `PlanSound`).
* `pkg-fetch -e -r` of the archive that a package owns and purges automatically
  removes it and records it as fetched (`SelfReplace`, `pkg-fetch.cli:32-37`).
* A checkout that fails loses the repository's state until the next `rep-fetch`;
  `Package` has that in `CheckoutFails` and `RepFetch`.
* Prerequisites shared by several dependents are collected again for each of them,
  so that the work grows exponentially with a chain of diamonds.

## 6. What is not modelled

* `Scheduler`: the failure to create a thread, statistics, the queue of
  `async()` beyond its size. `PhaseMutex` and `Scheduler` abstract each other.
* `Match`: target groups, `try_match`, `resolve_members`, ad hoc recipes.
* `Execute`: outer operations (`execute_inner`), backlinks, the callbacks of
  directories.
* `Depdb`: `flush()`, `skip()`, `reopen()`, `check_mtime()`. It assumes that every
  modification has a timestamp of its own, later than the ones before (the code
  has special cases for coarse clocks), that external programs replace the target in one step, and that
  inputs change only between builds.
* `Package`: one command at a time, as the lock of the database enforces.
* `PkgBuild`: system packages, several repositories and the postponed collection,
  configuration variables, patch and recursive upgrades, broken packages.
* Variables and overrides, the rest of `bpkg` (`rep-fetch`, `pkg-drop`) and `bdep`:
  in the plan below.
* Parsing, diagnostics, scripts, compilers and linkers, manifests, network and
  file system I/O: sequential or external code, better covered by the test
  suites of the repository.
* The vendored libraries, generated command line parsers and documentation. They
  are by far the largest part of the repository.

## 7. Plan

In this order:

1. Target groups and `try_match` in `Match`; outer operations in `Execute`.
2. `rep-fetch` and `pkg-drop`; system packages and several repositories in
   `PkgBuild`; the synchronisation of `bdep`.
3. Pure algorithms against reference definitions: the order of versions, the
   variable override cache.
4. More instances of what exists: a scheduler with two masters, one whose
   monitor is late (`LateMonitor`, where a notification before the monitor's
   first wait is lost), a `depdb` whose clock does not advance with every write.
