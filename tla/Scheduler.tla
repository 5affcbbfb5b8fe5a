----------------------------- MODULE Scheduler -----------------------------
(***************************************************************************)
(* Thread accounting of the build2 scheduler (libbuild2/scheduler.{hxx,    *)
(* txx,cxx}): which threads are active, idle, waiting, ready or starting,  *)
(* who is notified when an active slot becomes free, how helpers come and  *)
(* go, how shutdown collects them and how the deadlock monitor is woken.   *)
(*                                                                         *)
(* Every step that the code performs under scheduler::mutex_ is one action *)
(* here.  The task queues are abstracted to queued_task_count_; module     *)
(* TaskQueue models one queue in full.  A thread that is blocked on a task *)
(* count, a mutex or an external event may be released at any time.        *)
(***************************************************************************)
EXTENDS Naturals, FiniteSets

CONSTANTS
    Masters,           \* the initially active threads (init_active of them)
    Helpers,           \* identities for helper threads (bounds helpers_)
    MaxActive,         \* max_active argument of startup()
    MaxThreads,        \* max_threads argument of startup()
    MaxQueued,         \* bound on queued_task_count_
    ShutdownWithTasks, \* may shutdown() be called with tasks in the queues?
    LateMonitor        \* may work begin before the monitor's first wait?

ASSUME ThreadsAssumption ==
    /\ IsFiniteSet(Masters) /\ Masters # {}
    /\ IsFiniteSet(Helpers)
    /\ Masters \cap Helpers = {}

\* The assertion in startup().
ASSUME LimitsAssumption ==
    /\ MaxActive \in Nat /\ MaxThreads \in Nat /\ MaxQueued \in Nat
    /\ Cardinality(Masters) <= MaxActive
    /\ MaxActive <= MaxThreads
    /\ ShutdownWithTasks \in BOOLEAN /\ LateMonitor \in BOOLEAN

VARIABLES
    shutdown,    \* shutdown_ (and the shutdown flag of every queue and slot)
    max_active,  \* max_active_; tune() changes it
    helpers,     \* helpers_
    active,      \* active_
    idle,        \* idle_
    waiting,     \* waiting_
    ready,       \* ready_
    starting,    \* starting_
    external,    \* external_
    queued,      \* queued_task_count_
    progressed,  \* has progress_ changed since the monitor last read it?
    pc,          \* where each thread is
    mon          \* where the deadlock monitor thread is

vars == <<shutdown, max_active, helpers, active, idle, waiting, ready,
          starting, external, queued, progressed, pc, mon>>

Threads == Masters \cup Helpers

init_active == Cardinality(Masters)

(***************************************************************************)
(* The places a thread can be in.  "pushed" is inside async() between the  *)
(* push and the mutex_ section, "scanning" is a helper going through the   *)
(* queues without the lock, X_woken is a thread that a condition variable  *)
(* released but that has not reacquired mutex_ yet.                        *)
(***************************************************************************)
ActiveStates   == {"active", "pushed", "scanning", "left", "stopping", "joining"}
WaitingStates  == {"waiting", "external"}
ReadyStates    == {"ready", "ready_woken"}
IdleStates     == {"idle", "idle_woken"}
ThreadStates   == ActiveStates \cup WaitingStates \cup ReadyStates
                    \cup IdleStates \cup {"starting", "none"}
MasterStates   == {"none", "active", "pushed", "left", "stopping", "joining"}
                    \cup WaitingStates \cup ReadyStates
HelperStates   == {"none", "starting", "active", "pushed", "scanning"}
                    \cup WaitingStates \cup ReadyStates \cup IdleStates
MonitorStates  == {"none", "start", "waiting", "woken", "spin", "spun",
                   "exited", "aborted"}

\* The threads in one of the given places.
In(states) == {t \in Threads : pc[t] \in states}

\* The process is over once the monitor has called terminate().
Alive == mon # "aborted"

(***************************************************************************)
(* Initially the scheduler is shut down (default constructor).             *)
(***************************************************************************)
Init ==
    /\ shutdown = TRUE
    /\ max_active = 0
    /\ helpers = 0 /\ active = 0 /\ idle = 0 /\ waiting = 0
    /\ ready = 0 /\ starting = 0 /\ external = 0
    /\ queued = 0
    /\ progressed = FALSE
    /\ pc = [t \in Threads |-> "none"]
    /\ mon = "none"

\* startup(): the masters are active from here on, the monitor thread is created.
Startup ==
    /\ shutdown /\ mon = "none" /\ \A m \in Masters : pc[m] \in {"none", "left"}
    /\ shutdown' = FALSE
    /\ max_active' = MaxActive
    /\ active' = init_active
    /\ queued' = 0
    /\ progressed' = FALSE
    /\ pc' = [t \in Threads |-> IF t \in Masters THEN "active" ELSE "none"]
    /\ mon' = IF MaxActive = 1 THEN "none" ELSE IF LateMonitor THEN "start" ELSE "waiting"
    /\ UNCHANGED <<helpers, idle, waiting, ready, starting, external>>

-----------------------------------------------------------------------------
(***************************************************************************)
(* Condition variables.  Notifying with nobody waiting is lost.            *)
(***************************************************************************)

\* X_condv_.notify_one () with the threads at p (p is pc after the caller's move).
NotifyOne(p, from, to) ==
    \/ /\ \A t \in Threads : p[t] # from
       /\ pc' = p
    \/ \E t \in Threads :
         /\ p[t] = from
         /\ pc' = [p EXCEPT ![t] = to]

NotifyReady(p) == NotifyOne(p, "ready", "ready_woken")

NotifyIdle(p) == NotifyOne(p, "idle", "idle_woken")

\* Mutant: the notification never reaches the monitor.
NotifyMonitorLost == UNCHANGED mon

\* dead_condv_.notify_one ().
NotifyMonitor == mon' = IF mon = "waiting" THEN "woken" ELSE mon

\* A wait returns without a notification.
SpuriousWakeup(t) ==
    /\ \/ pc[t] = "ready" /\ pc' = [pc EXCEPT ![t] = "ready_woken"]
       \/ pc[t] = "idle"  /\ pc' = [pc EXCEPT ![t] = "idle_woken"]
    /\ UNCHANGED <<shutdown, max_active, helpers, active, idle, waiting, ready,
                   starting, external, queued, progressed, mon>>

SpuriousMonitorWakeup ==
    /\ mon = "waiting"
    /\ mon' = "woken"
    /\ UNCHANGED <<shutdown, max_active, helpers, active, idle, waiting, ready,
                   starting, external, queued, progressed, pc>>

-----------------------------------------------------------------------------
(***************************************************************************)
(* activate_helper() and create_helper().  a is active_ and p is pc at the *)
(* time of the call.                                                       *)
(***************************************************************************)

\* Mutant: max_threads is a hard limit.
HelperAvailableHard(a) ==
    ~shutdown /\ (idle # 0 \/ init_active + helpers < MaxThreads)

\* Will activate_helper() find or create a helper?
HelperAvailable(a) ==
    /\ ~shutdown
    /\ \/ idle # 0
       \/ init_active + helpers < MaxThreads
       \/ a = 0 /\ queued # 0

ActivateHelper(p) ==
    \/ /\ idle # 0
       /\ NotifyIdle(p)
       /\ UNCHANGED <<helpers, starting>>
    \/ /\ idle = 0
       /\ helpers' = helpers + 1
       /\ starting' = starting + 1
       /\ \E h \in Helpers :
            /\ p[h] = "none"
            /\ pc' = [p EXCEPT ![h] = "starting"]

-----------------------------------------------------------------------------
(***************************************************************************)
(* async(): the push is done under the lock of the queue, the rest under   *)
(* mutex_.  The count is read before mutex_ is taken, right after the push *)
(* at the earliest, so the wake-up may find it zero again.                 *)
(***************************************************************************)
Push(t) ==
    /\ pc[t] = "active" /\ max_active # 1
    /\ ~shutdown                        \* otherwise async() throws ECANCELED
    /\ queued < MaxQueued
    /\ queued' = queued + 1
    /\ pc' = [pc EXCEPT ![t] = "pushed"]
    /\ UNCHANGED <<shutdown, max_active, helpers, active, idle, waiting, ready,
                   starting, external, progressed, mon>>

\* The task has been snatched already.
PushSnatched(t) ==
    /\ pc[t] = "pushed" /\ queued = 0
    /\ pc' = [pc EXCEPT ![t] = "active"]
    /\ UNCHANGED <<shutdown, max_active, helpers, active, idle, waiting, ready,
                   starting, external, queued, progressed, mon>>

PushWake(t) ==
    /\ pc[t] = "pushed"
    /\ LET p == [pc EXCEPT ![t] = "active"] IN
         \/ /\ active < max_active /\ HelperAvailable(active)
            /\ ActivateHelper(p)
         \/ /\ ~(active < max_active /\ HelperAvailable(active))
            /\ pc' = p
            /\ UNCHANGED <<helpers, starting>>
    /\ UNCHANGED <<shutdown, max_active, active, idle, waiting, ready,
                   external, queued, progressed, mon>>

\* wait() works the thread's own queue: pop_back() runs the task in this thread.
WorkOwn(t) ==
    /\ pc[t] = "active" /\ queued # 0 /\ ~shutdown
    /\ queued' = queued - 1
    /\ UNCHANGED <<shutdown, max_active, helpers, active, idle, waiting, ready,
                   starting, external, progressed, pc, mon>>

-----------------------------------------------------------------------------
(***************************************************************************)
(* deactivate() and activate(): suspend(), sleep() and the phase mutex.    *)
(***************************************************************************)

\* Wake whoever can use the slot that the caller has just given up: a ready
\* master first, then a helper if there is work, else tell the monitor.
Deactivate(t, ext) ==
    /\ pc[t] = "active" /\ max_active # 1
    /\ active' = active - 1
    /\ waiting' = waiting + 1
    /\ external' = IF ext THEN external + 1 ELSE external
    /\ progressed' = TRUE
    /\ LET p == [pc EXCEPT ![t] = IF ext THEN "external" ELSE "waiting"]
           work == queued # 0 /\ HelperAvailable(active - 1)
       IN
         \/ /\ ready # 0
            /\ NotifyReady(p)
            /\ UNCHANGED <<helpers, starting, mon>>
         \/ /\ ready = 0 /\ work
            /\ ActivateHelper(p)
            /\ UNCHANGED mon
         \/ /\ ready = 0 /\ ~work
            /\ pc' = p
            /\ IF active' = 0 /\ external' = 0 THEN NotifyMonitor ELSE UNCHANGED mon
            /\ UNCHANGED <<helpers, starting>>
    /\ UNCHANGED <<shutdown, max_active, idle, ready, queued>>

\* Mutant: off by one.
MayBecomeActiveAtLimit == shutdown \/ active <= max_active

\* The condition activate() waits for on ready_condv_.
MayBecomeActive == shutdown \/ active < max_active

\* Mutant: activate (false) after deactivate (true).
ExternalLeftForgotten(t) == external

\* external_ once t has stopped waiting.
ExternalLeft(t) == IF pc[t] = "external" THEN external - 1 ELSE external

Activate(t) ==
    /\ pc[t] \in WaitingStates
    /\ external' = ExternalLeft(t)
    /\ waiting' = waiting - 1
    /\ progressed' = TRUE
    /\ \/ /\ MayBecomeActive
          /\ active' = active + 1
          /\ pc' = [pc EXCEPT ![t] = "active"]
          /\ UNCHANGED ready
       \/ /\ ~MayBecomeActive
          /\ ready' = ready + 1
          /\ pc' = [pc EXCEPT ![t] = "ready"]
          /\ UNCHANGED active
    /\ UNCHANGED <<shutdown, max_active, helpers, idle, starting, queued, mon>>

\* The ready thread has the lock again and re-evaluates the condition.
ReadyWake(t) ==
    /\ pc[t] = "ready_woken"
    /\ \/ /\ MayBecomeActive
          /\ ready' = ready - 1
          /\ active' = active + 1
          /\ progressed' = TRUE
          /\ pc' = [pc EXCEPT ![t] = "active"]
       \/ /\ ~MayBecomeActive
          /\ pc' = [pc EXCEPT ![t] = "ready"]
          /\ UNCHANGED <<ready, active, progressed>>
    /\ UNCHANGED <<shutdown, max_active, helpers, idle, waiting, starting,
                   external, queued, mon>>

-----------------------------------------------------------------------------
(***************************************************************************)
(* helper().  One pass of its loop runs under mutex_ from the moment the   *)
(* thread has the lock to the wait on idle_condv_, except while it goes    *)
(* through the queues.                                                     *)
(***************************************************************************)

\* Mutants: a helper that stops leaves the ready queue, or the monitor, alone.
HelperDoneNotReady(a, p) ==
    /\ pc' = p
    /\ IF a = 0 /\ external = 0 THEN NotifyMonitor ELSE UNCHANGED mon

HelperDoneNotMonitor(a, p) ==
    /\ IF ready # 0 THEN NotifyReady(p) ELSE pc' = p
    /\ UNCHANGED mon

\* active_ has just dropped to a: "equivalent logic to deactivate()".
HelperDone(a, p) ==
    \/ /\ ready # 0
       /\ NotifyReady(p)
       /\ UNCHANGED mon
    \/ /\ ready = 0
       /\ pc' = p
       /\ IF a = 0 /\ external = 0 THEN NotifyMonitor ELSE UNCHANGED mon

\* The body of the loop; i is idle_ without this helper.
HelperPass(h, i) ==
    \/ /\ shutdown
       /\ helpers' = helpers - 1
       /\ idle' = i
       /\ pc' = [pc EXCEPT ![h] = "none"]
       /\ UNCHANGED <<active, mon>>
    \/ /\ ~shutdown /\ active < max_active /\ queued # 0
       /\ active' = active + 1
       /\ idle' = i
       /\ pc' = [pc EXCEPT ![h] = "scanning"]
       /\ UNCHANGED <<helpers, mon>>
    \/ /\ ~shutdown /\ active < max_active /\ queued = 0
       /\ idle' = i + 1
       /\ HelperDone(active, [pc EXCEPT ![h] = "idle"])
       /\ UNCHANGED <<helpers, active>>
    \/ /\ ~shutdown /\ active >= max_active
       /\ idle' = i + 1
       /\ pc' = [pc EXCEPT ![h] = "idle"]
       /\ UNCHANGED <<helpers, active, mon>>

HelperStart(h) ==
    /\ pc[h] = "starting"
    /\ starting' = starting - 1
    /\ HelperPass(h, idle)
    /\ UNCHANGED <<shutdown, max_active, waiting, ready, external, queued,
                   progressed>>

HelperWake(h) ==
    /\ pc[h] = "idle_woken"
    /\ HelperPass(h, idle - 1)
    /\ UNCHANGED <<shutdown, max_active, waiting, ready, starting, external,
                   queued, progressed>>

\* pop_front() from some queue; the task runs in this thread.
HelperPop(h) ==
    /\ pc[h] = "scanning" /\ queued # 0 /\ ~shutdown
    /\ queued' = queued - 1
    /\ pc' = [pc EXCEPT ![h] = "active"]
    /\ UNCHANGED <<shutdown, max_active, helpers, active, idle, waiting, ready,
                   starting, external, progressed, mon>>

HelperTaskDone(h) ==
    /\ h \in Helpers /\ pc[h] = "active"
    /\ pc' = [pc EXCEPT ![h] = "scanning"]
    /\ UNCHANGED <<shutdown, max_active, helpers, active, idle, waiting, ready,
                   starting, external, queued, progressed, mon>>

\* All the queues have been visited.  With the lock: repeat while there are
\* tasks (no change of state), otherwise give up the slot and become idle,
\* whether or not shutdown() has begun.
HelperScanned(h) ==
    /\ pc[h] = "scanning" /\ queued = 0
    /\ active' = active - 1
    /\ idle' = idle + 1
    /\ HelperDone(active - 1, [pc EXCEPT ![h] = "idle"])
    /\ UNCHANGED <<shutdown, max_active, helpers, waiting, ready, starting,
                   external, queued, progressed>>

-----------------------------------------------------------------------------
\* tune() with its wait_idle(): only a lone master may call it, after its
\* top-level wait(), so no task is queued or running.
Tune(t, n) ==
    /\ pc[t] = "active" /\ t \in Masters /\ ~shutdown
    /\ init_active = 1
    /\ n # max_active
    /\ waiting = 0 /\ ready = 0 /\ queued = 0
    /\ active = init_active /\ starting = 0
    /\ max_active' = n
    /\ UNCHANGED <<shutdown, helpers, active, idle, waiting, ready, starting,
                   external, queued, progressed, pc, mon>>

\* An initially active thread leaves; the counters keep it as active.
Leave(t) ==
    /\ t \in Masters /\ pc[t] = "active"
    /\ ~shutdown
    /\ \E m \in Masters \ {t} : pc[m] # "left"
    /\ pc' = [pc EXCEPT ![t] = "left"]
    /\ UNCHANGED <<shutdown, max_active, helpers, active, idle, waiting, ready,
                   starting, external, queued, progressed, mon>>

(***************************************************************************)
(* shutdown(), called by the last initially active thread.  The flags of   *)
(* the slots and the queues are set while mutex_ is held, and a push or a  *)
(* pop of a queue whose flag is not set yet could as well have come first, *)
(* so one step sets them all.                                              *)
(***************************************************************************)
ShutdownBegin(t) ==
    /\ t \in Masters /\ pc[t] = "active"
    /\ ~shutdown
    /\ \A m \in Masters \ {t} : pc[m] = "left"
    /\ ShutdownWithTasks \/ queued = 0
    /\ shutdown' = TRUE
    /\ pc' = [pc EXCEPT ![t] = "stopping"]
    /\ UNCHANGED <<max_active, helpers, active, idle, waiting, ready, starting,
                   external, queued, progressed, mon>>

\* Mutant: the idle helpers are not woken.
WokenReadyOnly(place) == IF place = "ready" THEN "ready_woken" ELSE place

\* notify_all () on idle_condv_ and ready_condv_.
Woken(place) ==
    IF place = "idle" THEN "idle_woken"
    ELSE IF place = "ready" THEN "ready_woken"
    ELSE place

\* One round of the loop that wakes up everybody who sleeps.
ShutdownNotify(t) ==
    /\ pc[t] = "stopping" /\ helpers # 0
    /\ pc' = [u \in Threads |-> Woken(pc[u])]
    /\ UNCHANGED <<shutdown, max_active, helpers, active, idle, waiting, ready,
                   starting, external, queued, progressed, mon>>

ShutdownJoin(t) ==
    /\ pc[t] = "stopping" /\ helpers = 0
    /\ pc' = [pc EXCEPT ![t] = "joining"]
    /\ IF MaxActive # 1 THEN NotifyMonitor ELSE UNCHANGED mon
    /\ UNCHANGED <<shutdown, max_active, helpers, active, idle, waiting, ready,
                   starting, external, queued, progressed>>

\* dead_thread_.join () returns; the queues are freed.
ShutdownEnd(t) ==
    /\ pc[t] = "joining" /\ mon \in {"exited", "none"}
    /\ mon' = "none"
    /\ pc' = [pc EXCEPT ![t] = "left"]
    /\ UNCHANGED <<shutdown, max_active, helpers, active, idle, waiting, ready,
                   starting, external, queued, progressed>>

-----------------------------------------------------------------------------
(***************************************************************************)
(* deadlock_monitor().  progressed stands for op # np.                     *)
(***************************************************************************)
DeadlockSuspected == active = 0 /\ external = 0 /\ ~shutdown

\* The condition of the inner and then of the outer loop, under mutex_.
MonitorLoop ==
    \/ /\ DeadlockSuspected
       /\ mon' = "spin"
       /\ progressed' = FALSE
    \/ /\ ~DeadlockSuspected
       /\ mon' = IF shutdown THEN "exited" ELSE "waiting"
       /\ UNCHANGED progressed

MonitorStart ==
    /\ mon = "start"
    /\ mon' = IF shutdown THEN "exited" ELSE "waiting"
    /\ UNCHANGED <<shutdown, max_active, helpers, active, idle, waiting, ready,
                   starting, external, queued, progressed, pc>>

MonitorWake ==
    /\ mon = "woken"
    /\ MonitorLoop
    /\ UNCHANGED <<shutdown, max_active, helpers, active, idle, waiting, ready,
                   starting, external, queued, pc>>

\* The spinning, without the lock, ends at once if there was progress, else
\* when the time is up.
MonitorSpin ==
    /\ mon = "spin"
    /\ mon' = IF progressed THEN "woken" ELSE "spun"
    /\ UNCHANGED <<shutdown, max_active, helpers, active, idle, waiting, ready,
                   starting, external, queued, progressed, pc>>

\* No progress was seen.  The counts are checked again with the lock.
MonitorSpun ==
    /\ mon = "spun"
    /\ \/ /\ DeadlockSuspected
          /\ mon' = "aborted"
          /\ UNCHANGED progressed
       \/ /\ ~DeadlockSuspected
          /\ MonitorLoop
    /\ UNCHANGED <<shutdown, max_active, helpers, active, idle, waiting, ready,
                   starting, external, queued, pc>>

Monitor == MonitorStart \/ MonitorWake \/ MonitorSpin \/ MonitorSpun

\* terminate(): nothing happens any more.
Terminated == ~Alive /\ UNCHANGED vars

-----------------------------------------------------------------------------
HelperStep(h) ==
    \/ HelperStart(h) \/ HelperWake(h) \/ HelperPop(h)
    \/ HelperTaskDone(h) \/ HelperScanned(h)

ShutdownStep(t) ==
    \/ ShutdownBegin(t) \/ ShutdownNotify(t) \/ ShutdownJoin(t) \/ ShutdownEnd(t)

ThreadStep(t) ==
    \/ Push(t) \/ PushSnatched(t) \/ PushWake(t) \/ WorkOwn(t)
    \/ \E ext \in BOOLEAN : Deactivate(t, ext)
    \/ Activate(t) \/ ReadyWake(t) \/ SpuriousWakeup(t)
    \/ \E n \in init_active .. MaxActive : Tune(t, n)
    \/ Leave(t)

Next ==
    \/ /\ Alive
       /\ \/ Startup
          \/ \E t \in Threads : ThreadStep(t)
          \/ \E h \in Helpers : HelperStep(h)
          \/ \E t \in Masters : ShutdownStep(t)
          \/ Monitor
          \/ SpuriousMonitorWakeup
    \/ Terminated

Spec == Init /\ [][Next]_vars

(***************************************************************************)
(* Fairness.  Threads that can run are scheduled by the operating system;  *)
(* a task ends even if it keeps being suspended; shutdown() releases the   *)
(* threads that wait on a slot, and the others are released by the event   *)
(* they wait for.                                                          *)
(***************************************************************************)
Fairness ==
    /\ \A t \in Threads :
         /\ WF_vars(Alive /\ (PushSnatched(t) \/ PushWake(t)))
         /\ WF_vars(Alive /\ ReadyWake(t))
         /\ WF_vars(Alive /\ shutdown /\ Activate(t))
    /\ \A h \in Helpers :
         /\ WF_vars(Alive /\ (HelperStart(h) \/ HelperWake(h)))
         /\ WF_vars(Alive /\ (HelperPop(h) \/ HelperScanned(h)))
         /\ SF_vars(Alive /\ HelperTaskDone(h))
    /\ \A t \in Masters :
         WF_vars(Alive /\ (ShutdownNotify(t) \/ ShutdownJoin(t) \/ ShutdownEnd(t)))
    /\ WF_vars(Alive /\ Monitor)

FairSpec == Spec /\ Fairness

-----------------------------------------------------------------------------
(***************************************************************************)
(* Properties.                                                             *)
(***************************************************************************)

\* The counters are natural numbers and every thread is in a known place.
TypeOK ==
    /\ shutdown \in BOOLEAN
    /\ max_active \in Nat
    /\ helpers \in Nat /\ active \in Nat /\ idle \in Nat /\ waiting \in Nat
    /\ ready \in Nat /\ starting \in Nat /\ external \in Nat
    /\ queued \in Nat
    /\ progressed \in BOOLEAN
    /\ pc \in [Threads -> ThreadStates]
    /\ mon \in MonitorStates

\* "Every thread that we manage must be accounted for in one of these
\* counters.  And their sum should equal (init_active + helpers)"
\* (scheduler.hxx): whenever mutex_ is free each counter is the number of
\* threads that really are in that state, and nobody is counted twice.
Accounting ==
    /\ active   = Cardinality(In(ActiveStates))
    /\ waiting  = Cardinality(In(WaitingStates))
    /\ ready    = Cardinality(In(ReadyStates))
    /\ idle     = Cardinality(In(IdleStates))
    /\ starting = Cardinality(In({"starting"}))
    /\ external = Cardinality(In({"external"}))
    /\ helpers  = Cardinality({h \in Helpers : pc[h] # "none"})

\* Masters are never helpers and helpers never run the master's side of the
\* protocol; a shutdown that has got past its wait for the helpers, and a
\* scheduler that has not been started, has none; the limits stay in range.
Placement ==
    /\ \A m \in Masters : pc[m] \in MasterStates
    /\ \A h \in Helpers : pc[h] \in HelperStates
    /\ shutdown /\ (\A m \in Masters : pc[m] # "stopping")
         => \A h \in Helpers : pc[h] = "none"
    /\ ~shutdown => max_active \in init_active .. MaxActive

\* What every step of the scheduler preserves.
IndInv == TypeOK /\ Accounting /\ Placement

\* active <= max_active (scheduler.hxx, "The constraints that we must
\* maintain"): a ready master and a helper never both take the last slot.
\* shutdown() gives the constraint up to let every thread run out.
ActiveBound == ~shutdown => active <= max_active

\* A free slot is never withheld from the ready queue: while a thread sleeps
\* on ready_condv_ there are at least as many threads already released from
\* it as there are free slots.  A notify_one() missing anywhere would strand
\* a master that could run.
ReadyNotStranded ==
    In({"ready"}) # {} => max_active <= active + Cardinality(In({"ready_woken"}))

\* The threads that will take mutex_ without anybody's help.
Pending == In({"starting", "idle_woken", "ready_woken"})

\* Queued tasks are never left with nobody to run them, even at the
\* max_threads limit: "This means everyone is waiting for something to happen
\* but nobody is doing anything" (activate_helper()).
NoStrandedWork == ~shutdown /\ queued # 0 /\ active = 0 => Pending # {}

\* The monitor sleeps only while somebody is going to call it: if every
\* thread is suspended and none waits for an external event, the monitor has
\* been notified.  Both deactivate() and helper() have to do that.
MonitorNotMissed ==
    mon = "waiting" /\ ~shutdown /\ active = 0 /\ external = 0 => Pending # {}

\* Nobody can take a step by himself and nobody outside will help.
Stuck ==
    /\ ~shutdown /\ active = 0 /\ external = 0 /\ Pending = {}

\* A deadlock is noticed: unless some wait ends after all, the process is
\* terminated ("deadlock suspected, aborting").
DeadlockNoticed == Stuck ~> (~Stuck \/ ~Alive)

\* shutdown() "wait[s] for all the helper threads to terminate": it wakes
\* everybody who sleeps, the monitor included, and returns.
ShutdownReturns == (\E m \in Masters : pc[m] = "stopping") ~>
                       (\A m \in Masters : pc[m] = "left")
=============================================================================
