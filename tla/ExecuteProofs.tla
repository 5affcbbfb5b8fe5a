--------------------------- MODULE ExecuteProofs ---------------------------
(***************************************************************************)
(* Proofs about Execute.                                                   *)
(*                                                                         *)
(* IndInv is inductive.  StructInv says where the calls and the tasks are, *)
(* that a target is executed in one place, and what the task counts count. *)
(* FramesInv says what each call has established by itself: as far as it   *)
(* has tried its prerequisites they are being executed, and as far as it   *)
(* has waited for them they are executed and no change is overlooked.      *)
(* StatesInv ties the states of targets to their counts and to the work.   *)
(* PrerequisitesDone is what is left of a call in the first mode when it   *)
(* is over.  The order of updates and the propagation of changes follow.   *)
(*                                                                         *)
(* CountedInv is inductive over IndInv and is about the counts.  EdgesInv  *)
(* says that there is a set of edges that have been decremented, exactly   *)
(* as large as the counts say, and which of its edges a call has been      *)
(* through.  StartedInv: a target whose count is zero is executed, and in  *)
(* the last mode no other is.  LookInv: in the last mode some dependent    *)
(* looks at the outcome.  RootInv and ResultInv: what the driver and a     *)
(* call that has executed its prerequisite itself may rely on.  All steps  *)
(* but ExecuteDecrement are Calm: they leave the counts as they are.       *)
(***************************************************************************)
EXTENDS Execute, FiniteSetTheorems, TLAPS

\* The calls in progress, each a thread and the depth in its stack.
Calls == UNION {{u} \X DOMAIN stack[u] : u \in Threads}
Frame(c) == stack[c[1]][c[2]]
Below(c) == <<c[1], c[2] - 1>>

\* A call holds its target until it has set the state.
Holding(c) == Frame(c).step # "done"

(***************************************************************************)
(* Where the calls and the tasks are.                                      *)
(***************************************************************************)

\* In these steps a call may have tasks.
Open == {"start", "try", "result", "wait"}

\* There is a call of p that is going to wait for its tasks.
Expects(p) == \E d \in Calls : Frame(d).target = p /\ Frame(d).step \in Open

\* A call that is not a task is made by the one below it for its prerequisite,
\* or by a rule during match.
Placed(c) ==
    LET f == Frame(c)
        g == Frame(Below(c))
    IN  /\ f.target = Root <=> c = <<Main, 1>>
        /\ f.target = Root => f.parent = Root
        /\ f.parent = f.target /\ f.target # Root =>
              Matching \/ (c[2] > 1 /\ g.step = "result" /\ f.target \in PrerequisitesOf(g.target))
        /\ f.parent # f.target => Expects(f.parent) /\ f.target \in PrerequisitesOf(f.parent)

PlacesInv ==
    /\ \A c \in Calls : Placed(c)
    /\ \A task \in queued : Expects(task.parent) /\ task.target \in PrerequisitesOf(task.parent)
    /\ result = "running" <=> <<Main, 1>> \in Calls

\* Target t is being executed, or is going to be by a task.
Held(t) == (\E c \in Calls : Holding(c) /\ Frame(c).target = t) \/ \E task \in queued : task.target = t

\* A target is executed in one place.
LocksInv ==
    /\ \A c, d \in Calls : Holding(c) /\ Holding(d) /\ Frame(c).target = Frame(d).target => c = d
    /\ \A k, l \in queued : k.target = l.target => k = l
    /\ \A c \in Calls, k \in queued : Holding(c) => Frame(c).target # k.target
    /\ \A t \in Targets : task_count[t] >= count_busy <=> Held(t)
    /\ \A t \in Targets : task_count[t] < count_busy => task_count[t] \in {count_applied, count_executed}

\* The tasks of node n, in the queues and running.
TasksOf(n) == {task \in queued : task.parent = n}
CallsOf(n) == {c \in Calls : Frame(c).parent = n /\ Frame(c).target # n}

CountsInv ==
    \A n \in Nodes : /\ IsFiniteSet(TasksOf(n)) /\ IsFiniteSet(CallsOf(n))
                     /\ n = Root \/ task_count[n] >= count_busy =>
                           task_count[n] = StartCount(n) + Cardinality(TasksOf(n)) + Cardinality(CallsOf(n))

Types ==
    /\ prerequisites \in Graphs /\ current_mode \in Modes /\ keep_going \in KeepGoings
    /\ task_count \in [Nodes -> Nat]
    /\ state \in [Targets -> {"unknown", "unchanged", "changed", "failed", "group"}]
    /\ stack \in [Threads -> Seq(Frames)] /\ queued \subseteq Tasks
    /\ worked \subseteq Targets /\ result \in {"running", "executed", "failed"}

StructInv == Types /\ PlacesInv /\ LocksInv /\ CountsInv

(***************************************************************************)
(* What a call has established.                                            *)
(***************************************************************************)
InRange(f) ==
    LET n == Len(prerequisites[f.target])
    IN  /\ f.next >= 1 /\ f.next <= n + 1
        /\ f.step \in {"try", "result"} => f.next <= n
        /\ f.step = "wait" /\ ~f.bad /\ f.target # Root => f.next = n + 1
        /\ f.step = "match" \/ (f.step = "work" /\ current_mode = "last") => f.next = 1 /\ f.postponed = {}
        /\ f.step \in {"start", "try", "result"} => f.postponed \subseteq 1 .. (f.next - 1)
        /\ current_mode = "first" => f.postponed = {}
        /\ f.postponed \subseteq 1 .. n

\* Which steps there are for whom, and who has done its own work.
Stepwise(f) ==
    /\ f.target = Root => ~f.bad /\ f.step \in {"match", "start", "try", "result", "wait", "end"}
    /\ f.step = "match" => f.target = Root
    /\ f.step = "done" => f.parent # f.target
    /\ f.bad => f.step \in {"wait", "end", "done"}
    /\ f.target \in Members => ~f.bad /\ f.step # "work"
    /\ f.target \notin Noop
    /\ ~f.bad /\ f.target \notin Members \cup {Root} =>
          IF current_mode = "first" THEN f.step \in {"end", "done"} => f.target \in worked
                                    ELSE f.step # "work" => f.target \in worked

\* The prerequisites that have been tried are being executed by someone, or
\* were left to another dependent.
Tried(f) ==
    LET n == IF f.step = "finish" THEN Len(prerequisites[f.target]) ELSE f.next - 1
    IN  /\ f.step \in Open \cup {"finish"} /\ ~f.bad =>
             \A i \in 1 .. n : i \in f.postponed \/ task_count[InOrder(f.target)[i]] >= count_executed
        /\ f.step = "result" => task_count[Prerequisite(f)] >= count_executed

\* The prerequisites that have been waited for are executed, without failure
\* and no change of theirs is overlooked.
Passed(t, p, changed) ==
    /\ Executed(p)
    /\ t \notin Members => ExecutedState(p) # "failed" /\ (ExecutedState(p) = "changed" => changed)

Seen(f) ==
    LET n == IF f.step = "finish" THEN f.next - 1 ELSE Len(prerequisites[f.target])
    IN  f.target # Root /\ ~f.bad
        /\ (f.step \in {"finish", "end", "done"} \/ (f.step = "work" /\ current_mode = "first")) =>
             \A i \in 1 .. n : i \in f.postponed \/ Passed(f.target, InOrder(f.target)[i], f.changed)

Sound(f) == InRange(f) /\ Stepwise(f) /\ Tried(f) /\ Seen(f)

FramesInv ==
    /\ \A c \in Calls : Sound(Frame(c))
    /\ \A task \in queued : task.target \notin Noop

\* The states, and what is done.
StatesInv ==
    \A t \in Targets :
        /\ ~Executed(t) => state[t] = IF t \in Noop THEN "unchanged" ELSE "unknown"
        /\ Executed(t) => state[t] # "unknown"
        /\ t \in Members => state[t] \in {"unknown", "unchanged", "group"}
        /\ t \in Members /\ state[t] = "group" => Executed(prerequisites[t][1])
        /\ t \in Noop => state[t] = "unchanged"
        /\ t \in worked => task_count[t] >= count_executed /\ t \notin Noop \cup Members
        /\ Executed(t) /\ state[t] # "failed" /\ t \notin Noop \cup Members => t \in worked

\* In the first mode what is executed has executed prerequisites.
PrerequisitesDone ==
    current_mode = "first" =>
        \A t \in Targets : Executed(t) /\ state[t] # "failed" =>
            /\ t \in Members => state[t] = "group"
            /\ \A p \in PrerequisitesOf(t) : Passed(t, p, state[t] = "changed")

IndInv == StructInv /\ FramesInv /\ StatesInv /\ PrerequisitesDone /\ UpdatedInOrder

(***************************************************************************)
(* The counts of dependents.                                               *)
(***************************************************************************)
Edges == {e \in Nodes \X Targets : e[2] \in PrerequisitesOf(e[1])}

\* The dependents of t whose edges are not in D.
Left(t, D) == {n \in DependentsOf(t) : <<n, t>> \notin D}

\* D is what has been decremented, according to the counts.
Exact(D) ==
    /\ \A t \in Targets : dependents[t] = Cardinality(Left(t, D))
    /\ dependency_count = Cardinality(Edges \ D)

\* Edge i of a call is decremented, for sure or for sure not.
Sure(f, i) ==
    \/ f.step = "start" /\ i < f.next
    \/ f.step \in {"try", "result"} /\ i <= f.next
    \/ f.step \in {"wait", "finish", "end", "done"} /\ ~f.bad /\ f.target # Root
    \/ f.step \in {"wait", "end"} /\ f.target = Root /\ i < f.next
    \/ f.step = "work" /\ current_mode = "first"

Never(f, i) ==
    \/ f.step = "start" /\ i >= f.next
    \/ f.step \in {"try", "result"} /\ i > f.next
    \/ f.step = "match"
    \/ f.step = "work" /\ current_mode = "last"

Fits(f, D) ==
    \A i \in 1 .. Len(prerequisites[f.target]) :
        LET e == <<f.target, InOrder(f.target)[i]>>
        IN  (Sure(f, i) => e \in D) /\ (Never(f, i) => e \notin D)

Counted(D) ==
    /\ \A c \in Calls : Holding(c) => Fits(Frame(c), D)
    /\ result = "executed" => \A p \in PrerequisitesOf(Root) : <<Root, p>> \in D
    /\ \A e \in Edges : /\ e[1] \in Targets /\ Executed(e[1]) /\ state[e[1]] # "failed" => e \in D
                        /\ e[1] \in Targets /\ task_count[e[1]] = count_applied => e \notin D
                        /\ (\E task \in queued : task.target = e[1]) => e \notin D
                        /\ current_mode = "last" /\ e \in D => e[1] \in worked \cup Members \cup {Root}

\* Somebody is about to execute t, or has begun to.
Started(t) ==
    \/ task_count[t] # count_applied
    \/ \E c \in Calls : Frame(c).step = "try" /\ Prerequisite(Frame(c)) = t

\* In the last mode only the last dependent executes a target; one does.
StartedInv ==
    /\ \A t \in Targets : dependents[t] = 0 => Started(t)
    /\ current_mode = "last" => \A t \in Targets : Started(t) => dependents[t] = 0

EdgesInv == \E D \in SUBSET Edges : Exact(D) /\ Counted(D)

TargetCount ==
    target_count = Cardinality({t \in Targets \ (Noop \cup Members) : ~Executed(t)})

CountTypes ==
    /\ depth \in Depths /\ dependents \in [Targets -> Nat] /\ dependency_count \in Nat /\ target_count \in Nat

\* The driver leaves the loop early only because of a failure.
Sated(f) ==
    \/ \E p \in PrerequisitesOf(Root) : Executed(p) /\ ExecutedState(p) = "failed"
    \/ f.next = Len(prerequisites[Root]) + 1

RootInv ==
    /\ \A c \in Calls : Frame(c).target = Root /\ Frame(c).step \in {"wait", "end"} => Sated(Frame(c))
    /\ result = "executed" => \A p \in PrerequisitesOf(Root) : ExecutedState(p) # "failed"

\* In the last mode one of the dependents looks at the outcome.
Looks(n, t) ==
    \/ n = Root
    \/ \E c \in Calls : /\ Holding(c) /\ Frame(c).target = n
                        /\ \A i \in Frame(c).postponed : InOrder(n)[i] # t
    \/ /\ n # Root /\ Executed(n)
       /\ \/ state[n] = "failed" \/ (n \in Members /\ state[n] = "group")
          \/ Executed(t) /\ ExecutedState(t) # "failed"

LookInv ==
    current_mode = "last" => \A t \in Targets : Started(t) => \E n \in DependentsOf(t) : Looks(n, t)

\* A call that looks at the state of a prerequisite that it has executed itself:
\* the call for the prerequisite is above it, or over.
Answered(c) ==
    \/ Executed(Prerequisite(Frame(c)))
    \/ \E d \in Calls : /\ Below(d) = c /\ Holding(d) /\ Frame(d).target = Prerequisite(Frame(c))
                        /\ Frame(d).parent = Frame(d).target

ResultInv == \A c \in Calls : Frame(c).step = "result" => Answered(c)

CountedInv ==
    /\ IndInv /\ CountTypes /\ EdgesInv /\ StartedInv /\ LookInv /\ TargetCount /\ RootInv /\ ResultInv

-----------------------------------------------------------------------------
(***************************************************************************)
(* Stacks.                                                                 *)
(***************************************************************************)
LEMMA Pairs ==
    ASSUME NEW s \in [Threads -> Seq(Frames)], NEW C, C = UNION {{u} \X DOMAIN s[u] : u \in Threads}
    PROVE  /\ \A u \in Threads, i \in Nat : <<u, i>> \in C <=> i \in 1 .. Len(s[u])
           /\ \A c \in C : /\ c = <<c[1], c[2]>> /\ c[1] \in Threads /\ c[2] \in 1 .. Len(s[c[1]])
                           /\ c[2] \in Nat /\ s[c[1]][c[2]] \in Frames
<1>1. \A u \in Threads : DOMAIN s[u] = 1 .. Len(s[u]) /\ Len(s[u]) \in Nat
  OBVIOUS
<1>2. \A c : c \in C <=> \E u \in Threads : c \in {u} \X DOMAIN s[u]
  OBVIOUS
<1>3. ASSUME NEW c \in C
      PROVE  /\ c = <<c[1], c[2]>> /\ c[1] \in Threads /\ c[2] \in 1 .. Len(s[c[1]]) /\ c[2] \in Nat
             /\ s[c[1]][c[2]] \in Frames
  <2>1. PICK u \in Threads : c \in {u} \X DOMAIN s[u]
    BY <1>2
  <2>2. c = <<c[1], c[2]>> /\ c[1] = u /\ c[2] \in 1 .. Len(s[u])
    BY <1>1, <2>1
  <2>3. s[u] \in Seq(Frames)
    OBVIOUS
  <2>4. s[u][c[2]] \in Frames
    BY <2>2, <2>3
  <2> QED
    BY <1>1, <2>2, <2>4
<1>4. ASSUME NEW u \in Threads, NEW i \in Nat PROVE <<u, i>> \in C <=> i \in 1 .. Len(s[u])
  <2>1. i \in 1 .. Len(s[u]) => <<u, i>> \in {u} \X DOMAIN s[u]
    BY <1>1
  <2>2. <<u, i>> \in C => i \in 1 .. Len(s[u])
    BY <1>3
  <2> QED
    BY <1>2, <2>1, <2>2
<1> QED
  BY <1>3, <1>4

LEMMA InCalls ==
    ASSUME stack \in [Threads -> Seq(Frames)]
    PROVE  /\ \A u \in Threads, i \in Nat : <<u, i>> \in Calls <=> i \in 1 .. Len(stack[u])
           /\ \A c \in Calls : /\ c = <<c[1], c[2]>> /\ c[1] \in Threads /\ c[2] \in 1 .. Len(stack[c[1]])
                               /\ c[2] \in Nat /\ Frame(c) \in Frames
BY Pairs DEF Calls, Frame

\* c is the innermost call of thread u.
Innermost(u, c) == u \in Threads /\ Busy(u) /\ c = <<u, Len(stack[u])>>

LEMMA InnermostCall ==
    ASSUME stack \in [Threads -> Seq(Frames)], NEW u \in Threads, NEW c, Innermost(u, c)
    PROVE  /\ c \in Calls /\ Frame(c) = Top(u) /\ Frame(c) \in Frames
           /\ \A d \in Calls : Below(d) # c
           /\ c[1] = u /\ c[2] = Len(stack[u])
<1>1. stack[u] \in Seq(Frames) /\ Len(stack[u]) \in Nat /\ Len(stack[u]) >= 1
  BY DEF Innermost, Busy
<1>2. c \in Calls /\ c[1] = u /\ c[2] = Len(stack[u])
  BY <1>1, InCalls DEF Innermost
<1>3. Frame(c) = Top(u) /\ Frame(c) \in Frames
  BY <1>2, InCalls DEF Frame, Top
<1>5. ASSUME NEW d \in Calls, Below(d) = c PROVE FALSE
  <2>1. d[1] = u /\ d[2] - 1 = Len(stack[u])
    BY <1>2, <1>5 DEF Below
  <2>2. d[2] \in 1 .. Len(stack[u])
    BY <2>1, InCalls
  <2> QED
    BY <1>1, <2>1, <2>2
<1> QED
  BY <1>2, <1>3, <1>5

LEMMA MovedStack ==
    ASSUME stack \in [Threads -> Seq(Frames)], NEW u \in Threads, NEW c, Innermost(u, c),
           NEW g \in Frames, stack' = Moved(u, g)
    PROVE  /\ stack' \in [Threads -> Seq(Frames)] /\ Calls' = Calls
           /\ Frame(c)' = g /\ \A d \in Calls : d # c => Frame(d)' = Frame(d)
<1> DEFINE n == Len(stack[u])
           s == [stack[u] EXCEPT ![n] = g]
<1>1. stack[u] \in Seq(Frames) /\ n \in Nat /\ n >= 1 /\ c = <<u, n>>
  BY DEF Innermost, Busy
<1>2. stack' = [stack EXCEPT ![u] = s]
  BY DEF Moved
<1>3. s \in Seq(Frames) /\ Len(s) = n /\ s[n] = g /\ \A i \in 1 .. n : i # n => s[i] = stack[u][i]
  BY <1>1
<1> HIDE DEF s
<1>4. stack' \in [Threads -> Seq(Frames)] /\ stack'[u] = s /\ \A v \in Threads : v # u => stack'[v] = stack[v]
  BY <1>2, <1>3
<1>5. \A v \in Threads : DOMAIN stack'[v] = DOMAIN stack[v]
  <2>1. DOMAIN s = DOMAIN stack[u]
    BY <1>1, <1>3
  <2> QED
    BY <1>4, <2>1
<1>6. Calls' = Calls
  BY <1>5 DEF Calls
<1>7. Frame(c)' = g
  BY <1>1, <1>3, <1>4 DEF Frame
<1>8. ASSUME NEW d \in Calls, d # c PROVE Frame(d)' = Frame(d)
  <2>1. d = <<d[1], d[2]>> /\ d[1] \in Threads /\ d[2] \in 1 .. Len(stack[d[1]])
    BY InCalls
  <2>2. CASE d[1] = u
    BY <1>1, <1>3, <1>4, <1>8, <2>1, <2>2 DEF Frame
  <2>3. CASE d[1] # u
    BY <1>4, <2>1, <2>3 DEF Frame
  <2> QED
    BY <2>2, <2>3
<1> QED
  BY <1>4, <1>6, <1>7, <1>8

LEMMA PushedStack ==
    ASSUME stack \in [Threads -> Seq(Frames)], NEW u \in Threads, NEW c, c = <<u, Len(stack[u]) + 1>>,
           NEW g \in Frames, stack' = [stack EXCEPT ![u] = Append(@, g)]
    PROVE  /\ stack' \in [Threads -> Seq(Frames)] /\ c \notin Calls /\ Calls' = Calls \cup {c}
           /\ Frame(c)' = g /\ \A d \in Calls : Frame(d)' = Frame(d)
           /\ \A d \in Calls : Below(d) # c
           /\ c[1] = u /\ c[2] = Len(stack[u]) + 1
<1> DEFINE n == Len(stack[u])
           s == Append(stack[u], g)
<1>1. stack[u] \in Seq(Frames) /\ n \in Nat
  OBVIOUS
<1>2. stack' = [stack EXCEPT ![u] = s]
  OBVIOUS
<1>3. s \in Seq(Frames) /\ Len(s) = n + 1 /\ s[n + 1] = g /\ \A i \in 1 .. n : s[i] = stack[u][i]
  BY <1>1
<1> HIDE DEF s
<1>4. stack' \in [Threads -> Seq(Frames)] /\ stack'[u] = s /\ \A v \in Threads : v # u => stack'[v] = stack[v]
  BY <1>2, <1>3
<1>5. c \notin Calls /\ c[1] = u /\ c[2] = n + 1
  BY <1>1, InCalls
<1>6. Calls' = Calls \cup {c}
  <2>1. \A v \in Threads, i \in Nat : <<v, i>> \in Calls' <=> i \in 1 .. Len(stack'[v])
    BY <1>4, Pairs DEF Calls
  <2>2. \A d \in Calls' : d = <<d[1], d[2]>> /\ d[1] \in Threads /\ d[2] \in Nat
    BY <1>4, Pairs DEF Calls
  <2>3. ASSUME NEW v \in Threads, NEW i \in Nat
        PROVE  <<v, i>> \in Calls' <=> <<v, i>> \in Calls \/ <<v, i>> = c
    <3>1. <<v, i>> \in Calls <=> i \in 1 .. Len(stack[v])
      BY InCalls
    <3>2. <<v, i>> = c <=> v = u /\ i = n + 1
      BY <1>1
    <3>3. CASE v = u
      BY <1>1, <1>3, <1>4, <2>1, <3>1, <3>2, <3>3
    <3>4. CASE v # u
      BY <1>4, <2>1, <3>1, <3>2, <3>4
    <3> QED
      BY <3>3, <3>4
  <2>4. \A d \in Calls : d = <<d[1], d[2]>> /\ d[1] \in Threads /\ d[2] \in Nat
    BY InCalls
  <2> QED
    BY <1>1, <1>5, <2>2, <2>3, <2>4
<1>7. Frame(c)' = g
  BY <1>1, <1>3, <1>4, <1>5 DEF Frame
<1>8. ASSUME NEW d \in Calls PROVE Frame(d)' = Frame(d) /\ Below(d) # c
  <2>1. d = <<d[1], d[2]>> /\ d[1] \in Threads /\ d[2] \in 1 .. Len(stack[d[1]])
    BY InCalls
  <2>2. Frame(d)' = Frame(d)
    BY <1>1, <1>3, <1>4, <2>1 DEF Frame
  <2>3. Below(d) # c
    BY <1>1, <1>5, <2>1 DEF Below
  <2> QED
    BY <2>2, <2>3
<1> QED
  BY <1>4, <1>5, <1>6, <1>7, <1>8

LEMMA ReturnedStack ==
    ASSUME stack \in [Threads -> Seq(Frames)], NEW u \in Threads, NEW c, Innermost(u, c), stack' = Returned(u)
    PROVE  /\ stack' \in [Threads -> Seq(Frames)] /\ Calls' = Calls \ {c}
           /\ \A d \in Calls : d # c => Frame(d)' = Frame(d)
<1> DEFINE n == Len(stack[u])
           s == SubSeq(stack[u], 1, n - 1)
<1>1. stack[u] \in Seq(Frames) /\ n \in Nat /\ n >= 1 /\ c = <<u, n>>
  BY DEF Innermost, Busy
<1>2. stack' = [stack EXCEPT ![u] = s]
  BY DEF Returned, Front
<1>3. s \in Seq(Frames) /\ Len(s) = n - 1 /\ \A i \in 1 .. n - 1 : s[i] = stack[u][i]
  BY <1>1
<1> HIDE DEF s
<1>4. stack' \in [Threads -> Seq(Frames)] /\ stack'[u] = s /\ \A v \in Threads : v # u => stack'[v] = stack[v]
  BY <1>2, <1>3
<1>5. Calls' = Calls \ {c}
  <2>1. \A v \in Threads, i \in Nat : <<v, i>> \in Calls' <=> i \in 1 .. Len(stack'[v])
    BY <1>4, Pairs DEF Calls
  <2>2. \A d \in Calls' : d = <<d[1], d[2]>> /\ d[1] \in Threads /\ d[2] \in Nat
    BY <1>4, Pairs DEF Calls
  <2>3. ASSUME NEW v \in Threads, NEW i \in Nat
        PROVE  <<v, i>> \in Calls' <=> <<v, i>> \in Calls /\ <<v, i>> # c
    <3>1. <<v, i>> \in Calls <=> i \in 1 .. Len(stack[v])
      BY InCalls
    <3>2. <<v, i>> = c <=> v = u /\ i = n
      BY <1>1
    <3>3. CASE v = u
      BY <1>1, <1>3, <1>4, <2>1, <3>1, <3>2, <3>3
    <3>4. CASE v # u
      BY <1>4, <2>1, <3>1, <3>2, <3>4
    <3> QED
      BY <3>3, <3>4
  <2>4. \A d \in Calls : d = <<d[1], d[2]>> /\ d[1] \in Threads /\ d[2] \in Nat
    BY InCalls
  <2> QED
    BY <1>1, <2>2, <2>3, <2>4
<1>6. ASSUME NEW d \in Calls, d # c PROVE Frame(d)' = Frame(d)
  <2>1. d = <<d[1], d[2]>> /\ d[1] \in Threads /\ d[2] \in 1 .. Len(stack[d[1]])
    BY InCalls
  <2>2. CASE d[1] = u
    <3>1. d[2] \in 1 .. n - 1
      BY <1>1, <1>6, <2>1, <2>2
    <3> QED
      BY <1>3, <1>4, <2>2, <3>1 DEF Frame
  <2>3. CASE d[1] # u
    BY <1>4, <2>1, <2>3 DEF Frame
  <2> QED
    BY <2>2, <2>3
<1> QED
  BY <1>4, <1>5, <1>6

LEMMA BelowCall ==
    ASSUME NEW s \in [Threads -> Seq(Frames)], NEW C, C = UNION {{u} \X DOMAIN s[u] : u \in Threads},
           NEW c \in C, c[2] > 1
    PROVE  Below(c) \in C /\ Below(c) # c
<1>1. c = <<c[1], c[2]>> /\ c[1] \in Threads /\ c[2] \in 1 .. Len(s[c[1]]) /\ c[2] \in Nat /\ Len(s[c[1]]) \in Nat
  BY Pairs
<1>2. c[2] - 1 \in Nat /\ c[2] - 1 \in 1 .. Len(s[c[1]])
  BY <1>1
<1>3. Below(c) \in C
  BY <1>1, <1>2, Pairs DEF Below
<1> QED
  BY <1>1, <1>3 DEF Below

\* The innermost call goes on once the one that it makes has returned.
LEMMA CalledStack ==
    ASSUME stack \in [Threads -> Seq(Frames)], NEW u \in Threads, NEW c, Innermost(u, c),
           NEW f \in Frames, NEW g \in Frames, stack' = Called(u, f, g),
           NEW e, e = <<u, Len(stack[u]) + 1>>
    PROVE  /\ stack' \in [Threads -> Seq(Frames)] /\ e \notin Calls /\ Calls' = Calls \cup {e}
           /\ Frame(e)' = g /\ Frame(c)' = f /\ \A d \in Calls : d # c => Frame(d)' = Frame(d)
           /\ (\A d \in Calls : Below(d) # e) /\ Below(e) = c /\ e[2] > 1
<1> DEFINE n == Len(stack[u])
           s == Append(SubSeq(stack[u], 1, n - 1), f) \o <<g>>
<1>1. stack[u] \in Seq(Frames) /\ n \in Nat /\ n >= 1 /\ c = <<u, n>>
  BY DEF Innermost, Busy
<1>2. stack' = [stack EXCEPT ![u] = s]
  BY DEF Called, Front
<1>3. s \in Seq(Frames) /\ Len(s) = n + 1 /\ s[n + 1] = g /\ s[n] = f /\ \A i \in 1 .. n - 1 : s[i] = stack[u][i]
  <2> DEFINE r == SubSeq(stack[u], 1, n - 1)
             q == Append(r, f)
  <2>1. r \in Seq(Frames) /\ Len(r) = n - 1 /\ \A i \in 1 .. n - 1 : r[i] = stack[u][i]
    BY <1>1
  <2> HIDE DEF r
  <2>2. q \in Seq(Frames) /\ Len(q) = n /\ q[n] = f /\ \A i \in 1 .. n - 1 : q[i] = stack[u][i]
    BY <1>1, <2>1
  <2> HIDE DEF q
  <2>3. s = q \o <<g>>
    BY DEF q, r
  <2> HIDE DEF s
  <2>4. <<g>> \in Seq(Frames) /\ Len(<<g>>) = 1 /\ <<g>>[1] = g
    OBVIOUS
  <2>5. s \in Seq(Frames) /\ Len(s) = n + 1
    BY <1>1, <2>2, <2>3, <2>4
  <2>6. \A i \in 1 .. n : s[i] = q[i]
    BY <1>1, <2>2, <2>3, <2>4
  <2>7. s[n + 1] = g
    BY <1>1, <2>2, <2>3, <2>4
  <2>8. n \in 1 .. n /\ \A i \in 1 .. n - 1 : i \in 1 .. n
    BY <1>1
  <2> HIDE DEF n
  <2>9. s[n] = f /\ \A i \in 1 .. n - 1 : s[i] = stack[u][i]
    BY <2>2, <2>6, <2>8
  <2> QED
    BY <2>5, <2>7, <2>9
<1> HIDE DEF s
<1>4. stack' \in [Threads -> Seq(Frames)] /\ stack'[u] = s /\ \A v \in Threads : v # u => stack'[v] = stack[v]
  BY <1>2, <1>3
<1>5. e \notin Calls /\ e[1] = u /\ e[2] = n + 1 /\ c[1] = u /\ c[2] = n /\ Below(e) = c
  BY <1>1, InCalls DEF Below
<1>6. Calls' = Calls \cup {e}
  <2>1. \A v \in Threads, i \in Nat : <<v, i>> \in Calls' <=> i \in 1 .. Len(stack'[v])
    BY <1>4, Pairs DEF Calls
  <2>2. \A d \in Calls' : d = <<d[1], d[2]>> /\ d[1] \in Threads /\ d[2] \in Nat
    BY <1>4, Pairs DEF Calls
  <2>3. ASSUME NEW v \in Threads, NEW i \in Nat
        PROVE  <<v, i>> \in Calls' <=> <<v, i>> \in Calls \/ <<v, i>> = e
    <3>1. <<v, i>> \in Calls <=> i \in 1 .. Len(stack[v])
      BY InCalls
    <3>2. <<v, i>> = e <=> v = u /\ i = n + 1
      BY <1>1
    <3>3. CASE v = u
      BY <1>1, <1>3, <1>4, <2>1, <3>1, <3>2, <3>3
    <3>4. CASE v # u
      BY <1>4, <2>1, <3>1, <3>2, <3>4
    <3> QED
      BY <3>3, <3>4
  <2>4. \A d \in Calls : d = <<d[1], d[2]>> /\ d[1] \in Threads /\ d[2] \in Nat
    BY InCalls
  <2> QED
    BY <1>1, <1>5, <2>2, <2>3, <2>4
<1>7. Frame(e)' = g /\ Frame(c)' = f
  BY <1>1, <1>3, <1>4, <1>5 DEF Frame
<1>8. ASSUME NEW d \in Calls PROVE (d # c => Frame(d)' = Frame(d)) /\ Below(d) # e
  <2>1. d = <<d[1], d[2]>> /\ d[1] \in Threads /\ d[2] \in 1 .. Len(stack[d[1]])
    BY InCalls
  <2>2. d # c => Frame(d)' = Frame(d)
    <3>1. CASE d[1] = u
      BY <1>1, <1>3, <1>4, <2>1, <3>1 DEF Frame
    <3>2. CASE d[1] # u
      BY <1>4, <2>1, <3>2 DEF Frame
    <3> QED
      BY <3>1, <3>2
  <2>3. Below(d) # e
    BY <1>1, <1>5, <2>1 DEF Below
  <2> QED
    BY <2>2, <2>3
<1> QED
  BY <1>1, <1>4, <1>5, <1>6, <1>7, <1>8

LEMMA MatchingCall ==
    ASSUME stack \in [Threads -> Seq(Frames)]
    PROVE  Matching <=> <<Main, 1>> \in Calls /\ Frame(<<Main, 1>>).step = "match"
<1>1. Main \in Threads /\ stack[Main] \in Seq(Frames)
  BY DEF Threads
<1>2. <<Main, 1>> \in Calls <=> 1 \in 1 .. Len(stack[Main])
  BY <1>1, InCalls
<1> QED
  BY <1>1, <1>2 DEF Matching, Frame

(***************************************************************************)
(* The graph, and the parts of calls.                                      *)
(***************************************************************************)
LEMMA Constants ==
    /\ Root \notin Targets /\ Targets \subseteq Nodes /\ Root \in Nodes /\ Main \in Threads /\ Main \notin Helpers
    /\ \A n \in Nodes : n = Root \/ n \in Targets
    /\ StartCount(Root) = 0 /\ \A t \in Targets : StartCount(t) = count_busy
    /\ \A n \in Nodes : StartCount(n) \in Nat
    /\ Noop \subseteq Targets /\ Members \subseteq Targets /\ Noop \cap Members = {}
BY ExecuteAssumption DEF Nodes, Threads, StartCount, count_busy

LEMMA Ordered ==
    ASSUME Types, NEW n \in Nodes
    PROVE  /\ prerequisites[n] \in Seq(Targets) /\ Len(prerequisites[n]) \in Nat
           /\ Len(InOrder(n)) = Len(prerequisites[n])
           /\ \A i \in 1 .. Len(prerequisites[n]) : InOrder(n)[i] \in Targets /\ InOrder(n)[i] \in PrerequisitesOf(n)
           /\ \A p \in PrerequisitesOf(n) : \E i \in 1 .. Len(prerequisites[n]) : p = InOrder(n)[i]
           /\ \A i, j \in 1 .. Len(prerequisites[n]) : InOrder(n)[i] = InOrder(n)[j] => i = j
           /\ PrerequisitesOf(n) \subseteq Targets
<1> DEFINE s == prerequisites[n]
           k == Len(s)
<1>1. prerequisites \in [Nodes -> Seq(Targets)] /\ prerequisites \in Graphs
  BY ExecuteAssumption DEF Types
<1>2. s \in Seq(Targets) /\ k \in Nat /\ DOMAIN s = 1 .. k
  BY <1>1
<1>3. \A i, j \in 1 .. k : s[i] = s[j] => i = j
  <2>1. \A g \in Graphs : \A m \in Nodes : \A i, j \in DOMAIN g[m] : g[m][i] = g[m][j] => i = j
    BY ExecuteAssumption
  <2>2. \A i, j \in DOMAIN prerequisites[n] : prerequisites[n][i] = prerequisites[n][j] => i = j
    BY <1>1, <2>1
  <2> QED
    BY <1>2, <2>2
<1>4. PrerequisitesOf(n) = {s[i] : i \in 1 .. k}
  BY <1>2 DEF PrerequisitesOf
<1> HIDE DEF s
<1>5. CASE current_mode = "first"
  <2>1. InOrder(n) = s
    BY <1>5 DEF InOrder, s
  <2> QED
    BY <1>2, <1>3, <1>4, <2>1 DEF s
<1>6. CASE current_mode # "first"
  <2>1. InOrder(n) = [i \in 1 .. k |-> s[(k - i) + 1]]
    BY <1>6 DEF InOrder, s, Reverse
  <2>2. \A i \in 1 .. k : (k - i) + 1 \in 1 .. k /\ InOrder(n)[i] = s[(k - i) + 1]
    BY <1>2, <2>1
  <2>3. Len(InOrder(n)) = k
    BY <1>2, <2>1
  <2>4. ASSUME NEW p \in PrerequisitesOf(n) PROVE \E i \in 1 .. k : p = InOrder(n)[i]
    <3>1. PICK j \in 1 .. k : p = s[j]
      BY <1>4
    <3>2. (k - j) + 1 \in 1 .. k /\ (k - ((k - j) + 1)) + 1 = j
      BY <1>2
    <3> QED
      BY <2>2, <3>1, <3>2
  <2>5. ASSUME NEW i \in 1 .. k, NEW j \in 1 .. k, InOrder(n)[i] = InOrder(n)[j] PROVE i = j
    <3>1. (k - i) + 1 = (k - j) + 1
      BY <1>3, <2>2, <2>5
    <3> QED
      BY <1>2, <3>1
  <2>6. \A i \in 1 .. k : s[i] \in Targets
    BY <1>2
  <2>7. \A i \in 1 .. k : InOrder(n)[i] \in Targets /\ InOrder(n)[i] \in PrerequisitesOf(n)
    BY <1>4, <2>2, <2>6
  <2> QED
    BY <1>2, <1>4, <2>3, <2>4, <2>5, <2>6, <2>7 DEF s
<1> QED
  BY <1>5, <1>6

LEMMA FrameTypes ==
    ASSUME NEW f \in Frames
    PROVE  /\ f.target \in Nodes /\ f.parent \in Nodes /\ f.step \in Steps /\ f.next \in Nat
           /\ f.bad \in BOOLEAN /\ f.changed \in BOOLEAN /\ f.postponed \subseteq Nat
BY DEF Frames

LEMMA FrameMore ==
    ASSUME Types, NEW f \in Frames, f.next >= 1, More(f)
    PROVE  /\ f.next \in 1 .. Len(prerequisites[f.target]) /\ Prerequisite(f) \in Targets
           /\ Prerequisite(f) \in PrerequisitesOf(f.target) /\ Prerequisite(f) = InOrder(f.target)[f.next]
<1>1. f.target \in Nodes /\ f.next \in Nat
  BY FrameTypes
<1>2. Len(prerequisites[f.target]) \in Nat
  BY <1>1, Ordered
<1>3. f.next \in 1 .. Len(prerequisites[f.target])
  BY <1>1, <1>2 DEF More
<1> QED
  BY <1>1, <1>3, Ordered DEF Prerequisite

LEMMA CallParts ==
    ASSUME NEW t \in Nodes, NEW parent \in Nodes
    PROVE  LET g == Call(t, parent)
           IN  /\ g \in Frames /\ g.target = t /\ g.parent = parent /\ g.next = 1 /\ ~g.bad /\ ~g.changed
               /\ g.postponed = {} /\ g.step = FirstStep(t) /\ g.step \in {"work", "start"}
<1>1. FirstStep(t) \in {"work", "start"} /\ FirstStep(t) \in Steps
  BY DEF FirstStep, Steps
<1> QED
  BY <1>1 DEF Call, Frames

LEMMA GoToParts ==
    ASSUME NEW f \in Frames, NEW step \in Steps
    PROVE  LET g == GoTo(f, step)
           IN  /\ g \in Frames /\ g.target = f.target /\ g.parent = f.parent /\ g.step = step /\ g.next = f.next
               /\ g.bad = f.bad /\ g.changed = f.changed /\ g.postponed = f.postponed
BY DEF GoTo, Frames

LEMMA NextParts ==
    ASSUME NEW f \in Frames
    PROVE  LET g == NextOne(f)
           IN  /\ g \in Frames /\ g.target = f.target /\ g.parent = f.parent /\ g.step = "start"
               /\ g.next = f.next + 1 /\ g.bad = f.bad /\ g.changed = f.changed /\ g.postponed = f.postponed
<1>1. PICK n : n = f.next + 1
  OBVIOUS
<1>2. n \in Nat
  BY <1>1 DEF Frames
<1>3. NextOne(f) = [f EXCEPT !.step = "start", !.next = n]
  BY <1>1 DEF NextOne
<1> QED
  BY <1>1, <1>2, <1>3 DEF Frames, Steps

LEMMA FailedParts ==
    ASSUME NEW f \in Frames
    PROVE  LET g == Failed(f)
           IN  /\ g \in Frames /\ g.target = f.target /\ g.parent = f.parent /\ g.step = "end" /\ g.next = f.next
               /\ g.bad /\ g.changed = f.changed /\ g.postponed = f.postponed
BY DEF Failed, Frames, Steps

LEMMA BadParts ==
    ASSUME NEW f \in Frames
    PROVE  LET g == [f EXCEPT !.bad = TRUE]
           IN  /\ g \in Frames /\ g.target = f.target /\ g.parent = f.parent /\ g.step = f.step /\ g.next = f.next
               /\ g.bad /\ g.changed = f.changed /\ g.postponed = f.postponed
BY DEF Frames

LEMMA WaitedParts ==
    ASSUME NEW f \in Frames
    PROVE  LET g == Waited(f)
           IN  /\ g \in Frames /\ g.target = f.target /\ g.parent = f.parent
               /\ g.bad = f.bad /\ g.changed = f.changed /\ g.postponed = f.postponed
               /\ f.bad \/ f.target = Root => g.step = "end" /\ g.next = f.next
               /\ ~(f.bad \/ f.target = Root) => g.step = "finish" /\ g.next = 1
<1>1. CASE f.bad \/ f.target = Root
  <2>1. Waited(f) = GoTo(f, "end")
    BY <1>1 DEF Waited
  <2> QED
    BY <1>1, <2>1, GoToParts DEF Steps
<1>2. CASE ~(f.bad \/ f.target = Root)
  <2>1. Waited(f) = [f EXCEPT !.step = "finish", !.next = 1]
    BY <1>2 DEF Waited
  <2>2. PICK g : g = [f EXCEPT !.step = "finish", !.next = 1]
    OBVIOUS
  <2>3. /\ g \in Frames /\ g.target = f.target /\ g.parent = f.parent /\ g.bad = f.bad /\ g.changed = f.changed
        /\ g.postponed = f.postponed /\ g.step = "finish" /\ g.next = 1
    BY <2>2 DEF Frames, Steps
  <2> QED
    BY <1>2, <2>1, <2>2, <2>3
<1> QED
  BY <1>1, <1>2

-----------------------------------------------------------------------------
(***************************************************************************)
(* Where the calls and the tasks are: what follows from it.                *)
(***************************************************************************)

\* The count of a node that is being executed says whether there are tasks.
LEMMA Occupied ==
    ASSUME Types, CountsInv, NEW n \in Nodes, n = Root \/ task_count[n] >= count_busy
    PROVE  /\ task_count[n] >= StartCount(n)
           /\ task_count[n] <= StartCount(n) => TasksOf(n) = {} /\ CallsOf(n) = {}
           /\ TasksOf(n) = {} /\ CallsOf(n) = {} => task_count[n] = StartCount(n)
<1>1. /\ IsFiniteSet(TasksOf(n)) /\ IsFiniteSet(CallsOf(n))
      /\ task_count[n] = StartCount(n) + Cardinality(TasksOf(n)) + Cardinality(CallsOf(n))
  BY DEF CountsInv
<1>2. Cardinality(TasksOf(n)) \in Nat /\ Cardinality(CallsOf(n)) \in Nat
  BY <1>1, FS_CardinalityType
<1>3. /\ Cardinality(TasksOf(n)) = 0 <=> TasksOf(n) = {}
      /\ Cardinality(CallsOf(n)) = 0 <=> CallsOf(n) = {}
  BY <1>1, FS_EmptySet
<1>4. StartCount(n) \in Nat
  BY Constants
<1> QED
  BY <1>1, <1>2, <1>3, <1>4

\* A call in progress holds its target.
LEMMA HolderCount ==
    ASSUME Types, LocksInv, NEW c \in Calls, Holding(c)
    PROVE  /\ Frame(c) \in Frames /\ Frame(c).target \in Nodes
           /\ Frame(c).target = Root \/ (Frame(c).target \in Targets /\ task_count[Frame(c).target] >= count_busy)
<1>1. Frame(c) \in Frames
  BY InCalls DEF Types
<1>2. Frame(c).target \in Nodes
  BY <1>1 DEF Frames
<1> QED
  BY <1>1, <1>2, Constants DEF LocksInv, Held

LEMMA ExpectedCount ==
    ASSUME Types, LocksInv, NEW p, Expects(p)
    PROVE  p \in Nodes /\ (p = Root \/ (p \in Targets /\ task_count[p] >= count_busy))
<1>1. PICK d \in Calls : Frame(d).target = p /\ Frame(d).step \in Open
  BY DEF Expects
<1> QED
  BY <1>1, HolderCount DEF Holding, Open

\* A call that is not going to wait has no tasks.
LEMMA ClosedCall ==
    ASSUME StructInv, NEW c \in Calls, Holding(c), Frame(c).step \notin Open
    PROVE  /\ TasksOf(Frame(c).target) = {} /\ CallsOf(Frame(c).target) = {}
           /\ task_count[Frame(c).target] = StartCount(Frame(c).target)
<1>1. Types /\ PlacesInv /\ LocksInv /\ CountsInv
  BY DEF StructInv
<1>2. PICK n : n = Frame(c).target
  OBVIOUS
<1>3. ~Expects(n)
  BY <1>1, <1>2 DEF Expects, LocksInv, Holding, Open
<1>4. TasksOf(n) = {} /\ CallsOf(n) = {}
  BY <1>1, <1>3 DEF PlacesInv, Placed, TasksOf, CallsOf
<1>5. n \in Nodes /\ (n = Root \/ task_count[n] >= count_busy)
  BY <1>1, <1>2, HolderCount
<1> QED
  BY <1>1, <1>2, <1>4, <1>5, Occupied

\* There are no tasks of a target that is not being executed, or is still queued.
LEMMA NothingFor ==
    ASSUME StructInv, NEW t \in Targets, \A c \in Calls : Holding(c) => Frame(c).target # t
    PROVE  TasksOf(t) = {} /\ CallsOf(t) = {} /\ ~Expects(t)
<1>1. PlacesInv
  BY DEF StructInv
<1>2. ~Expects(t)
  BY DEF Expects, Holding, Open
<1> QED
  BY <1>1, <1>2 DEF PlacesInv, Placed, TasksOf, CallsOf

LEMMA NotHeld ==
    ASSUME StructInv, NEW t \in Targets, task_count[t] < count_busy
    PROVE  /\ ~Held(t) /\ TasksOf(t) = {} /\ CallsOf(t) = {} /\ ~Expects(t)
           /\ \A c \in Calls : Holding(c) => Frame(c).target # t
           /\ \A task \in queued : task.target # t
<1>1. task_count[t] \in Nat
  BY Constants DEF StructInv, Types
<1>2. ~Held(t)
  BY <1>1 DEF StructInv, LocksInv, count_busy
<1> QED
  BY <1>2, NothingFor DEF Held

\* The innermost call of a thread.
LEMMA TopCall ==
    ASSUME StructInv, NEW u \in Threads, Busy(u)
    PROVE  \E c \in Calls :
              /\ Innermost(u, c) /\ Frame(c) = Top(u) /\ Frame(c) \in Frames /\ Placed(c)
              /\ \A d \in Calls : Below(d) # c
              /\ Frame(c).step # "done" =>
                    /\ Holding(c)
                    /\ Frame(c).target = Root \/ (Frame(c).target \in Targets /\ task_count[Frame(c).target] >= count_busy)
                    /\ task_count[Frame(c).target] >= StartCount(Frame(c).target)
<1>1. Types /\ PlacesInv /\ LocksInv /\ CountsInv /\ stack \in [Threads -> Seq(Frames)]
  BY DEF StructInv, Types
<1>2. PICK c : Innermost(u, c)
  BY DEF Innermost
<1>3. c \in Calls /\ Frame(c) = Top(u) /\ Frame(c) \in Frames /\ \A d \in Calls : Below(d) # c
  BY <1>1, <1>2, InnermostCall
<1>4. Placed(c)
  BY <1>1, <1>3 DEF PlacesInv
<1>5. ASSUME Frame(c).step # "done"
      PROVE  /\ Holding(c)
             /\ Frame(c).target = Root \/ (Frame(c).target \in Targets /\ task_count[Frame(c).target] >= count_busy)
             /\ task_count[Frame(c).target] >= StartCount(Frame(c).target)
  BY <1>1, <1>3, <1>5, HolderCount, Occupied DEF Holding
<1> QED
  BY <1>2, <1>3, <1>4, <1>5

(***************************************************************************)
(* What stays when a call c is made, changed or over.                      *)
(***************************************************************************)
LEMMA StillPlaced ==
    ASSUME NEW c, Placed(c), prerequisites' = prerequisites,
           Frame(c)'.target = Frame(c).target, Frame(c)'.parent = Frame(c).parent,
           c[2] > 1 => Frame(Below(c))'.target = Frame(Below(c)).target
                       /\ (Frame(Below(c)).step = "result" => Frame(Below(c))'.step = "result"),
           Matching => Matching',
           NEW p, p = Frame(c).parent, p # Frame(c).target => Expects(p)'
    PROVE  Placed(c)'
<1>1. PICK f : f = Frame(c)
  OBVIOUS
<1>2. PICK g : g = Frame(Below(c))
  OBVIOUS
<1>3. /\ f.target = Root <=> c = <<Main, 1>>
      /\ f.target = Root => f.parent = Root
      /\ f.parent = f.target /\ f.target # Root =>
            Matching \/ (c[2] > 1 /\ g.step = "result" /\ f.target \in PrerequisitesOf(g.target))
      /\ f.parent # f.target => f.target \in PrerequisitesOf(p)
  BY <1>1, <1>2 DEF Placed
<1>4. \A n : PrerequisitesOf(n)' = PrerequisitesOf(n)
  BY DEF PrerequisitesOf
<1>5. PICK f2 : f2 = Frame(c)'
  OBVIOUS
<1>6. PICK g2 : g2 = Frame(Below(c))'
  OBVIOUS
<1>7. /\ f2.target = f.target /\ f2.parent = f.parent /\ p = f.parent
      /\ c[2] > 1 => g2.target = g.target /\ (g.step = "result" => g2.step = "result")
  BY <1>1, <1>2, <1>5, <1>6
<1>8. /\ f2.target = Root <=> c = <<Main, 1>>
      /\ f2.target = Root => f2.parent = Root
      /\ f2.parent = f2.target /\ f2.target # Root =>
            Matching' \/ (c[2] > 1 /\ g2.step = "result" /\ f2.target \in PrerequisitesOf(g2.target))
      /\ f2.parent # f2.target => f2.target \in PrerequisitesOf(f2.parent)
  BY <1>3, <1>7
<1>9. f2.parent # f2.target => \E e \in Calls' : Frame(e)'.target = f2.parent /\ Frame(e)'.step \in Open
  BY <1>1, <1>7 DEF Expects
<1> QED
  BY <1>5, <1>6, <1>8, <1>9 DEF Placed, Expects, PrerequisitesOf

LEMMA OthersPlaced ==
    ASSUME Types, PlacesInv, prerequisites' = prerequisites, stack' \in [Threads -> Seq(Frames)], NEW c,
           \A d \in Calls : Below(d) # c /\ (d # c => d \in Calls' /\ Frame(d)' = Frame(d)),
           c \in Calls /\ Frame(c).step \in Open =>
              \/ c \in Calls' /\ Frame(c)'.step \in Open /\ Frame(c)'.target = Frame(c).target
              \/ TasksOf(Frame(c).target) = {} /\ CallsOf(Frame(c).target) = {},
           c \in Calls /\ Frame(c).step = "match" => c \in Calls' /\ Frame(c)'.step = "match"
    PROVE  /\ \A p : Expects(p) /\ (TasksOf(p) # {} \/ CallsOf(p) # {}) => Expects(p)'
           /\ \A p : Expects(p) /\ ~(c \in Calls /\ Frame(c).target = p) => Expects(p)'
           /\ \A d \in Calls : d # c => Placed(d)'
           /\ \A task \in queued : Expects(task.parent)' /\ task.target \in PrerequisitesOf(task.parent)'
           /\ Matching => Matching'
           /\ \A n : PrerequisitesOf(n)' = PrerequisitesOf(n)
<1>1. ASSUME NEW p, Expects(p), TasksOf(p) # {} \/ CallsOf(p) # {} \/ ~(c \in Calls /\ Frame(c).target = p)
      PROVE  Expects(p)'
  <2>1. PICK d \in Calls : Frame(d).target = p /\ Frame(d).step \in Open
    BY <1>1 DEF Expects
  <2>2. d \in Calls' /\ Frame(d)'.target = p /\ Frame(d)'.step \in Open
    BY <1>1, <2>1
  <2> QED
    BY <2>2 DEF Expects
<1>2. ASSUME NEW d \in Calls, d[2] > 1 PROVE Below(d) \in Calls /\ Frame(Below(d))' = Frame(Below(d))
  BY <1>2, BelowCall DEF Calls, Types
<1>3. Matching => Matching'
  <2>1. Matching => <<Main, 1>> \in Calls /\ Frame(<<Main, 1>>).step = "match"
    BY MatchingCall DEF Types
  <2>2. Matching => <<Main, 1>> \in Calls' /\ Frame(<<Main, 1>>)'.step = "match"
    BY <2>1
  <2>3. <<Main, 1>> \in Calls' /\ Frame(<<Main, 1>>)'.step = "match" => Matching'
    <3>1. stack'[Main] \in Seq(Frames)
      BY Constants
    <3>2. <<Main, 1>> \in Calls' => 1 \in 1 .. Len(stack'[Main])
      BY Pairs, Constants DEF Calls
    <3> QED
      BY <3>1, <3>2 DEF Matching, Frame
  <2> QED
    BY <2>2, <2>3
<1>4. \A n : PrerequisitesOf(n)' = PrerequisitesOf(n)
  BY DEF PrerequisitesOf
<1>5. ASSUME NEW d \in Calls, d # c PROVE Placed(d)'
  <2>1. PICK p : p = Frame(d).parent
    OBVIOUS
  <2>2. Placed(d) /\ Frame(d)' = Frame(d) /\ (d[2] > 1 => Frame(Below(d))' = Frame(Below(d)))
    BY <1>2, <1>5 DEF PlacesInv
  <2>3. p # Frame(d).target => d \in CallsOf(p) /\ Expects(p)
    BY <2>1, <2>2 DEF CallsOf, Placed
  <2>4. p # Frame(d).target => Expects(p)'
    BY <1>1, <2>3
  <2> QED
    BY <1>3, <2>1, <2>2, <2>4, StillPlaced
<1>6. ASSUME NEW task \in queued
      PROVE  Expects(task.parent)' /\ task.target \in PrerequisitesOf(task.parent)'
  <2>1. Expects(task.parent) /\ task.target \in PrerequisitesOf(task.parent)
    BY DEF PlacesInv
  <2>2. PICK p : p = task.parent
    OBVIOUS
  <2>3. task \in TasksOf(p)
    BY <2>2 DEF TasksOf
  <2>4. Expects(p)'
    BY <1>1, <2>1, <2>2, <2>3
  <2> QED
    BY <1>4, <2>1, <2>2, <2>4
<1> QED
  BY <1>1, <1>3, <1>4, <1>5, <1>6

-----------------------------------------------------------------------------
(***************************************************************************)
(* The kinds of steps, and where they leave the calls and the tasks.       *)
(***************************************************************************)

\* What a step leaves alone of the types.
OtherTypes ==
    /\ prerequisites' = prerequisites /\ current_mode' = current_mode /\ keep_going' = keep_going
    /\ state' \in [Targets -> {"unknown", "unchanged", "changed", "failed", "group"}]
    /\ worked' \subseteq Targets

\* A call moves on, or none does; a target with the noop recipe may be over.
LEMMA MoveStruct ==
    ASSUME StructInv, OtherTypes, stack' \in [Threads -> Seq(Frames)], NEW c, Calls' = Calls,
           \A d \in Calls : Below(d) # c /\ (d # c => Frame(d)' = Frame(d)),
           c \in Calls => /\ Frame(c)'.target = Frame(c).target /\ Frame(c)'.parent = Frame(c).parent
                          /\ Frame(c).step # "done" /\ Frame(c)'.step # "done"
                          /\ Frame(c).step \in Open /\ Frame(c)'.step \notin Open =>
                                task_count[Frame(c).target] <= StartCount(Frame(c).target)
                          /\ Frame(c).step = "match" => Frame(c)'.step = "match" \/ Calls = {c},
           queued' = queued, result' = result,
           \/ task_count' = task_count
           \/ \E t \in Targets : /\ task_count[t] = count_applied
                                 /\ task_count' = [task_count EXCEPT ![t] = count_executed]
    PROVE  StructInv'
<1>1. Types /\ PlacesInv /\ LocksInv /\ CountsInv /\ task_count \in [Nodes -> Nat]
  BY DEF StructInv, Types
<1>2. /\ task_count' \in [Nodes -> Nat]
      /\ \A n \in Nodes : \/ task_count'[n] = task_count[n]
                          \/ n \in Targets /\ task_count[n] = count_applied /\ task_count'[n] = count_executed
  <2>1. CASE task_count' = task_count
    BY <1>1, <2>1
  <2>2. CASE \E t \in Targets : /\ task_count[t] = count_applied
                                /\ task_count' = [task_count EXCEPT ![t] = count_executed]
    BY <1>1, <2>2, Constants DEF count_executed
  <2> QED
    BY <2>1, <2>2
<1>3. Types'
  BY <1>1, <1>2 DEF Types, OtherTypes
<1>4. \A d \in Calls : /\ Frame(d)'.target = Frame(d).target /\ Frame(d)'.parent = Frame(d).parent
                       /\ Holding(d)' <=> Holding(d)
  BY DEF Holding
<1>5. PlacesInv'
  <2>1. CASE c \in Calls /\ Calls = {c} /\ Frame(c).step = "match"
    <3>1. ~Expects(Frame(c).target) /\ queued = {}
      BY <1>1, <2>1 DEF Expects, Open, PlacesInv
    <3>2. Placed(c)
      BY <1>1, <2>1 DEF PlacesInv
    <3>3. c[2] > 1 => Below(c) \in Calls
      BY <1>1, <2>1, BelowCall DEF Calls, Types
    <3>4. PICK f : f = Frame(c)
      OBVIOUS
    <3>5. f.parent = f.target
      BY <2>1, <3>2, <3>4 DEF Placed, Expects, Open
    <3>6. f.parent = f.target => f.target = Root
      <4>1. ASSUME f.parent = f.target, f.target # Root PROVE FALSE
        <5>1. Matching
          BY <2>1, <3>2, <3>3, <3>4, <4>1 DEF Placed
        <5>2. <<Main, 1>> \in Calls
          BY <1>1, <5>1, MatchingCall DEF Types
        <5> QED
          BY <2>1, <3>2, <3>4, <4>1, <5>2 DEF Placed
      <4> QED
        BY <4>1
    <3>7. Placed(c)'
      BY <1>4, <2>1, <3>2, <3>4, <3>5, <3>6 DEF Placed
    <3> QED
      BY <1>1, <2>1, <3>1, <3>7 DEF PlacesInv
  <2>2. CASE ~(c \in Calls /\ Calls = {c} /\ Frame(c).step = "match")
    <3>1. c \in Calls /\ Frame(c).step \in Open =>
              \/ c \in Calls' /\ Frame(c)'.step \in Open /\ Frame(c)'.target = Frame(c).target
              \/ TasksOf(Frame(c).target) = {} /\ CallsOf(Frame(c).target) = {}
      <4> SUFFICES ASSUME c \in Calls, Frame(c).step \in Open, Frame(c)'.step \notin Open
                   PROVE  TasksOf(Frame(c).target) = {} /\ CallsOf(Frame(c).target) = {}
        OBVIOUS
      <4>1. task_count[Frame(c).target] <= StartCount(Frame(c).target)
        OBVIOUS
      <4> QED
        BY <1>1, <4>1, HolderCount, Occupied DEF Holding
    <3>2. /\ \A p : Expects(p) /\ (TasksOf(p) # {} \/ CallsOf(p) # {}) => Expects(p)'
          /\ \A d \in Calls : d # c => Placed(d)'
          /\ \A task \in queued : Expects(task.parent)' /\ task.target \in PrerequisitesOf(task.parent)'
          /\ Matching => Matching'
      BY <1>1, <2>2, <3>1, OthersPlaced DEF OtherTypes
    <3>3. c \in Calls => Placed(c)'
      <4> SUFFICES ASSUME c \in Calls PROVE Placed(c)'
        OBVIOUS
      <4>1. PICK p : p = Frame(c).parent
        OBVIOUS
      <4>2. Placed(c) /\ Frame(c)'.target = Frame(c).target /\ Frame(c)'.parent = Frame(c).parent
        BY <1>1 DEF PlacesInv
      <4>3. c[2] > 1 => Frame(Below(c))' = Frame(Below(c))
        <5>1. c[2] > 1 => Below(c) \in Calls /\ Below(c) # c
          BY <1>1, BelowCall DEF Calls, Types
        <5> QED
          BY <5>1
      <4>4. p # Frame(c).target => c \in CallsOf(p) /\ Expects(p)
        BY <4>1, <4>2 DEF CallsOf, Placed
      <4>5. p # Frame(c).target => Expects(p)'
        BY <3>2, <4>4
      <4> QED
        BY <3>2, <4>1, <4>2, <4>3, <4>5, StillPlaced DEF OtherTypes
    <3> QED
      BY <1>1, <3>2, <3>3 DEF PlacesInv
  <2> QED
    BY <2>1, <2>2
<1>6. \A t : Held(t)' <=> Held(t)
  BY <1>4 DEF Held
<1>7. LocksInv'
  <2>1. ASSUME NEW t \in Targets
        PROVE  /\ task_count'[t] >= count_busy <=> task_count[t] >= count_busy
               /\ task_count'[t] < count_busy => task_count'[t] \in {count_applied, count_executed}
    <3>1. t \in Nodes /\ task_count[t] \in Nat
      BY <1>1, Constants
    <3>2. task_count[t] < count_busy => task_count[t] \in {count_applied, count_executed}
      BY <1>1 DEF LocksInv
    <3> QED
      BY <1>2, <3>1, <3>2 DEF count_busy, count_applied, count_executed
  <2> QED
    BY <1>1, <1>4, <1>6, <2>1 DEF LocksInv, count_busy, count_applied, count_executed
<1>8. CountsInv'
  <2>1. \A n : TasksOf(n)' = TasksOf(n) /\ CallsOf(n)' = CallsOf(n)
    BY <1>4 DEF TasksOf, CallsOf
  <2>2. ASSUME NEW n \in Nodes, n = Root \/ task_count'[n] >= count_busy
        PROVE  task_count'[n] = task_count[n] /\ (n = Root \/ task_count[n] >= count_busy)
    BY <1>2, <2>2, Constants DEF count_busy, count_executed
  <2> QED
    BY <1>1, <2>1, <2>2 DEF CountsInv, StartCount, count_busy
<1> QED
  BY <1>3, <1>5, <1>7, <1>8 DEF StructInv

\* A task is queued.
LEMMA QueueStruct ==
    ASSUME StructInv, OtherTypes, NEW u \in Threads, NEW c, Innermost(u, c), NEW g \in Frames, stack' = Moved(u, g),
           g.target = Frame(c).target, g.parent = Frame(c).parent, Frame(c).step \in Open, g.step \in Open,
           NEW t \in Targets, task_count[t] = count_applied, t \in PrerequisitesOf(Frame(c).target),
           NEW n, n = Frame(c).target,
           task_count' = [task_count EXCEPT ![t] = count_busy, ![n] = @ + 1],
           NEW task \in Tasks, task.target = t, task.parent = n, queued' = queued \cup {task}, result' = result
    PROVE  StructInv'
<1>1. /\ Types /\ PlacesInv /\ LocksInv /\ CountsInv /\ task_count \in [Nodes -> Nat]
      /\ stack \in [Threads -> Seq(Frames)] /\ queued \subseteq Tasks
  BY DEF StructInv, Types
<1>2. c \in Calls /\ Frame(c) \in Frames /\ \A d \in Calls : Below(d) # c
  BY <1>1, InnermostCall
<1>3. /\ stack' \in [Threads -> Seq(Frames)] /\ Calls' = Calls
      /\ Frame(c)' = g /\ \A d \in Calls : d # c => Frame(d)' = Frame(d)
  BY <1>1, MovedStack
<1>4. Holding(c) /\ Holding(c)' /\ n \in Nodes /\ (n = Root \/ (n \in Targets /\ task_count[n] >= count_busy))
  <2>1. Holding(c) /\ Holding(c)'
    BY <1>3 DEF Holding, Open
  <2> QED
    BY <1>1, <1>2, <2>1, HolderCount
<1>5. t # n /\ t \in Nodes /\ task_count[t] < count_busy /\ t # Root /\ task_count[n] \in Nat
  <2>1. task_count[t] < count_busy /\ t # Root /\ t \in Nodes /\ task_count[n] \in Nat
    BY <1>1, <1>4, Constants DEF count_applied, count_busy
  <2> QED
    BY <1>4, <2>1 DEF count_applied, count_busy
<1>6. /\ task_count' \in [Nodes -> Nat] /\ task_count'[t] = count_busy /\ task_count'[n] = task_count[n] + 1
      /\ \A m \in Nodes : m # t /\ m # n => task_count'[m] = task_count[m]
  BY <1>1, <1>4, <1>5 DEF count_busy
<1>7. /\ ~Held(t) /\ TasksOf(t) = {} /\ CallsOf(t) = {}
      /\ \A d \in Calls : Holding(d) => Frame(d).target # t
      /\ \A k \in queued : k.target # t
  BY <1>5, NotHeld
<1>8. Types'
  BY <1>1, <1>3, <1>6 DEF Types, OtherTypes
<1>9. \A d \in Calls : /\ Frame(d)'.target = Frame(d).target /\ Frame(d)'.parent = Frame(d).parent
                       /\ Holding(d)' <=> Holding(d)
  BY <1>3, <1>4 DEF Holding
<1>10. PlacesInv'
  <2>1. /\ \A p : Expects(p) /\ (TasksOf(p) # {} \/ CallsOf(p) # {}) => Expects(p)'
        /\ \A d \in Calls : d # c => Placed(d)'
        /\ \A k \in queued : Expects(k.parent)' /\ k.target \in PrerequisitesOf(k.parent)'
        /\ Matching => Matching'
        /\ \A m : PrerequisitesOf(m)' = PrerequisitesOf(m)
    BY <1>1, <1>2, <1>3, OthersPlaced DEF OtherTypes, Open
  <2>2. Placed(c)'
    <3>1. PICK p : p = Frame(c).parent
      OBVIOUS
    <3>2. Placed(c) /\ Frame(c)'.target = Frame(c).target /\ Frame(c)'.parent = Frame(c).parent
      BY <1>1, <1>2, <1>3 DEF PlacesInv
    <3>3. c[2] > 1 => Frame(Below(c))' = Frame(Below(c))
      <4>1. c[2] > 1 => Below(c) \in Calls /\ Below(c) # c
        BY <1>1, <1>2, BelowCall DEF Calls
      <4> QED
        BY <1>3, <4>1
    <3>4. p # Frame(c).target => c \in CallsOf(p) /\ Expects(p)
      BY <1>2, <3>1, <3>2 DEF CallsOf, Placed
    <3>5. p # Frame(c).target => Expects(p)'
      BY <2>1, <3>4
    <3> QED
      BY <2>1, <3>1, <3>2, <3>3, <3>5, StillPlaced DEF OtherTypes
  <2>3. Expects(n)'
    BY <1>2, <1>3 DEF Expects
  <2>4. t \in PrerequisitesOf(n)'
    BY <2>1
  <2> QED
    BY <1>1, <1>3, <2>1, <2>2, <2>3, <2>4 DEF PlacesInv
<1>11. LocksInv'
  <2>1. \A q : Held(q)' <=> Held(q) \/ q = t
    BY <1>3, <1>9 DEF Held
  <2>2. \A x, y \in Calls : Holding(x)' /\ Holding(y)' /\ Frame(x)'.target = Frame(y)'.target => x = y
    BY <1>1, <1>9 DEF LocksInv
  <2>3. \A k, l \in queued' : k.target = l.target => k = l
    BY <1>1, <1>7 DEF LocksInv
  <2>4. \A x \in Calls, k \in queued' : Holding(x)' => Frame(x)'.target # k.target
    BY <1>1, <1>7, <1>9 DEF LocksInv
  <2>5. ASSUME NEW q \in Targets
        PROVE  /\ task_count'[q] >= count_busy <=> Held(q)'
               /\ task_count'[q] < count_busy => task_count'[q] \in {count_applied, count_executed}
    <3>1. CASE q = t
      BY <1>6, <2>1, <3>1 DEF count_busy
    <3>2. CASE q = n
      <4>1. Held(n) /\ task_count[n] >= count_busy
        BY <1>2, <1>4, <3>2, Constants DEF Held
      <4> QED
        BY <1>5, <1>6, <2>1, <3>2, <4>1 DEF count_busy
    <3>3. CASE q # t /\ q # n
      <4>1. task_count'[q] = task_count[q]
        BY <1>6, <3>3, Constants
      <4> QED
        BY <1>1, <2>1, <3>3, <4>1 DEF LocksInv
    <3> QED
      BY <3>1, <3>2, <3>3
  <2> QED
    BY <1>3, <2>2, <2>3, <2>4, <2>5 DEF LocksInv, count_busy, count_applied, count_executed
<1>12. CountsInv'
  <2>1. \A m : CallsOf(m)' = CallsOf(m)
    BY <1>3, <1>9 DEF CallsOf
  <2>2. \A m : m # n => TasksOf(m)' = TasksOf(m)
    BY DEF TasksOf
  <2>3. TasksOf(n)' = TasksOf(n) \cup {task} /\ task \notin TasksOf(n)
    BY <1>7 DEF TasksOf
  <2>4. /\ IsFiniteSet(TasksOf(n)) /\ IsFiniteSet(CallsOf(n))
        /\ task_count[n] = StartCount(n) + Cardinality(TasksOf(n)) + Cardinality(CallsOf(n))
    BY <1>1, <1>4 DEF CountsInv
  <2>5. IsFiniteSet(TasksOf(n) \cup {task}) /\ Cardinality(TasksOf(n) \cup {task}) = Cardinality(TasksOf(n)) + 1
    BY <2>3, <2>4, FS_AddElement
  <2>6. Cardinality(TasksOf(n)) \in Nat /\ Cardinality(CallsOf(n)) \in Nat /\ StartCount(n) \in Nat
    BY <1>4, <2>4, FS_CardinalityType, Constants
  <2> SUFFICES ASSUME NEW m \in Nodes
               PROVE  /\ IsFiniteSet(TasksOf(m)') /\ IsFiniteSet(CallsOf(m)')
                      /\ m = Root \/ task_count'[m] >= count_busy =>
                            task_count'[m] = StartCount(m) + Cardinality(TasksOf(m)') + Cardinality(CallsOf(m)')
    BY DEF CountsInv, StartCount, count_busy
  <2>7. CASE m = n
    <3>1. /\ TasksOf(m)' = TasksOf(n) \cup {task} /\ CallsOf(m)' = CallsOf(n)
          /\ task_count'[m] = task_count[n] + 1 /\ StartCount(m) = StartCount(n)
      BY <1>6, <2>1, <2>3, <2>7
    <3> QED
      BY <2>4, <2>5, <2>6, <3>1
  <2>8. CASE m = t
    <3>1. m # n /\ TasksOf(m)' = {} /\ CallsOf(m)' = {} /\ StartCount(m) = count_busy
      BY <1>5, <1>7, <2>1, <2>2, <2>8, Constants
    <3>2. IsFiniteSet({}) /\ Cardinality({}) = 0
      BY FS_EmptySet
    <3> QED
      BY <1>6, <2>8, <3>1, <3>2 DEF count_busy
  <2>9. CASE m # n /\ m # t
    BY <1>1, <1>6, <2>1, <2>2, <2>9 DEF CountsInv
  <2> QED
    BY <2>7, <2>8, <2>9
<1> QED
  BY <1>8, <1>10, <1>11, <1>12 DEF StructInv

\* A target is executed within a call, or directly during match.
LEMMA CallStruct ==
    ASSUME StructInv, OtherTypes, stack' \in [Threads -> Seq(Frames)], NEW c, NEW e,
           e \notin Calls, e # <<Main, 1>>, Calls' = Calls \cup {e},
           \A d \in Calls : Below(d) # c /\ (d # c => Frame(d)' = Frame(d)),
           c \in Calls => /\ Frame(c)'.target = Frame(c).target /\ Frame(c)'.parent = Frame(c).parent
                          /\ Frame(c).step \in Open /\ Frame(c)'.step \in Open,
           NEW t \in Targets, task_count[t] = count_applied, Frame(e)' = Call(t, t),
           task_count' = [task_count EXCEPT ![t] = count_busy], queued' = queued, result' = result,
           Matching \/ (e[2] > 1 /\ c \in Calls /\ Below(e) = c /\ Frame(c)'.step = "result"
                        /\ t \in PrerequisitesOf(Frame(c).target))
    PROVE  StructInv'
<1>1. Types /\ PlacesInv /\ LocksInv /\ CountsInv /\ task_count \in [Nodes -> Nat]
  BY DEF StructInv, Types
<1>2. t \in Nodes /\ task_count[t] < count_busy /\ t # Root
  BY Constants DEF count_applied, count_busy
<1>3. /\ task_count' \in [Nodes -> Nat] /\ task_count'[t] = count_busy
      /\ \A m \in Nodes : m # t => task_count'[m] = task_count[m]
  BY <1>1, <1>2 DEF count_busy
<1>4. /\ ~Held(t) /\ TasksOf(t) = {} /\ CallsOf(t) = {}
      /\ \A d \in Calls : Holding(d) => Frame(d).target # t
      /\ \A k \in queued : k.target # t
  BY <1>2, NotHeld
<1>5. Frame(e)'.target = t /\ Frame(e)'.parent = t /\ Holding(e)'
  <2>1. PICK g : g = Call(t, t)
    OBVIOUS
  <2>2. g.target = t /\ g.parent = t /\ g.step # "done"
    BY <1>2, <2>1, CallParts
  <2> QED
    BY <2>1, <2>2 DEF Holding
<1>6. Types'
  BY <1>1, <1>3 DEF Types, OtherTypes
<1>7. \A d \in Calls : /\ Frame(d)'.target = Frame(d).target /\ Frame(d)'.parent = Frame(d).parent
                       /\ Holding(d)' <=> Holding(d)
  BY DEF Holding, Open
<1>8. PlacesInv'
  <2>1. /\ \A p : Expects(p) /\ (TasksOf(p) # {} \/ CallsOf(p) # {}) => Expects(p)'
        /\ \A d \in Calls : d # c => Placed(d)'
        /\ \A k \in queued : Expects(k.parent)' /\ k.target \in PrerequisitesOf(k.parent)'
        /\ Matching => Matching'
        /\ \A m : PrerequisitesOf(m)' = PrerequisitesOf(m)
    BY <1>1, OthersPlaced DEF OtherTypes, Open
  <2>2. ASSUME c \in Calls PROVE Placed(c)'
    <3>1. PICK p : p = Frame(c).parent
      OBVIOUS
    <3>2. Placed(c) /\ Frame(c)'.target = Frame(c).target /\ Frame(c)'.parent = Frame(c).parent
      BY <1>1, <2>2 DEF PlacesInv
    <3>3. c[2] > 1 => Frame(Below(c))' = Frame(Below(c))
      <4>1. c[2] > 1 => Below(c) \in Calls /\ Below(c) # c
        BY <1>1, <2>2, BelowCall DEF Calls, Types
      <4> QED
        BY <4>1
    <3>4. p # Frame(c).target => c \in CallsOf(p) /\ Expects(p)
      BY <2>2, <3>1, <3>2 DEF CallsOf, Placed
    <3>5. p # Frame(c).target => Expects(p)'
      BY <2>1, <3>4
    <3> QED
      BY <2>1, <3>1, <3>2, <3>3, <3>5, StillPlaced DEF OtherTypes
  <2>3. Placed(e)'
    <3>1. Matching' \/ (e[2] > 1 /\ Frame(Below(e))'.step = "result" /\ t \in PrerequisitesOf(Frame(Below(e))'.target))
      BY <2>1
    <3>2. PICK f2 : f2 = Frame(e)'
      OBVIOUS
    <3>3. PICK g2 : g2 = Frame(Below(e))'
      OBVIOUS
    <3>4. /\ f2.target = t /\ f2.parent = t
          /\ Matching' \/ (e[2] > 1 /\ g2.step = "result" /\ t \in PrerequisitesOf(g2.target))
      BY <1>5, <3>1, <3>2, <3>3
    <3> QED
      BY <1>2, <2>1, <3>2, <3>3, <3>4 DEF Placed, PrerequisitesOf, OtherTypes
  <2> QED
    BY <1>1, <2>1, <2>2, <2>3 DEF PlacesInv
<1>9. LocksInv'
  <2>1. \A q : Held(q)' <=> Held(q) \/ q = t
    BY <1>5, <1>7 DEF Held
  <2>2. \A x, y \in Calls' : Holding(x)' /\ Holding(y)' /\ Frame(x)'.target = Frame(y)'.target => x = y
    BY <1>1, <1>4, <1>5, <1>7 DEF LocksInv
  <2>3. \A x \in Calls', k \in queued' : Holding(x)' => Frame(x)'.target # k.target
    BY <1>1, <1>4, <1>5, <1>7 DEF LocksInv
  <2>4. ASSUME NEW q \in Targets
        PROVE  /\ task_count'[q] >= count_busy <=> Held(q)'
               /\ task_count'[q] < count_busy => task_count'[q] \in {count_applied, count_executed}
    <3>1. CASE q = t
      BY <1>3, <2>1, <3>1 DEF count_busy
    <3>2. CASE q # t
      <4>1. task_count'[q] = task_count[q]
        BY <1>3, <3>2, Constants
      <4> QED
        BY <1>1, <2>1, <3>2, <4>1 DEF LocksInv
    <3> QED
      BY <3>1, <3>2
  <2> QED
    BY <1>1, <2>2, <2>3, <2>4 DEF LocksInv, count_busy, count_applied, count_executed
<1>10. CountsInv'
  <2>1. \A m : TasksOf(m)' = TasksOf(m) /\ CallsOf(m)' = CallsOf(m)
    BY <1>5, <1>7 DEF TasksOf, CallsOf
  <2> SUFFICES ASSUME NEW m \in Nodes
               PROVE  /\ IsFiniteSet(TasksOf(m)') /\ IsFiniteSet(CallsOf(m)')
                      /\ m = Root \/ task_count'[m] >= count_busy =>
                            task_count'[m] = StartCount(m) + Cardinality(TasksOf(m)') + Cardinality(CallsOf(m)')
    BY DEF CountsInv, StartCount, count_busy
  <2>2. CASE m = t
    <3>1. TasksOf(m)' = {} /\ CallsOf(m)' = {} /\ StartCount(m) = count_busy
      BY <1>4, <2>1, <2>2, Constants
    <3>2. IsFiniteSet({}) /\ Cardinality({}) = 0
      BY FS_EmptySet
    <3> QED
      BY <1>3, <2>2, <3>1, <3>2 DEF count_busy
  <2>3. CASE m # t
    BY <1>1, <1>3, <2>1, <2>3 DEF CountsInv
  <2> QED
    BY <2>2, <2>3
<1> QED
  BY <1>6, <1>8, <1>9, <1>10 DEF StructInv

\* A task is taken from a queue.
LEMMA StartStruct ==
    ASSUME StructInv, OtherTypes, NEW u \in Threads, NEW e, e = <<u, Len(stack[u]) + 1>>, e # <<Main, 1>>,
           NEW task \in queued, NEW g, g = Call(task.target, task.parent), stack' = [stack EXCEPT ![u] = Append(@, g)],
           task_count' = task_count, queued' = queued \ {task}, result' = result
    PROVE  /\ StructInv' /\ e \notin Calls /\ Calls' = Calls \cup {e} /\ Frame(e)' = g
           /\ \A d \in Calls : Frame(d)' = Frame(d)
           /\ task.target \in Targets /\ task.parent \in Nodes /\ task.target # task.parent
           /\ task_count[task.target] >= count_busy
<1>1. /\ Types /\ PlacesInv /\ LocksInv /\ CountsInv /\ task_count \in [Nodes -> Nat]
      /\ stack \in [Threads -> Seq(Frames)] /\ queued \subseteq Tasks
  BY DEF StructInv, Types
<1>2. PICK t : t = task.target
  OBVIOUS
<1>3. PICK n : n = task.parent
  OBVIOUS
<1>4. t \in Targets /\ t \in Nodes /\ n \in Nodes /\ t # Root
  BY <1>1, <1>2, <1>3, Constants DEF Tasks
<1>5. Expects(n) /\ t \in PrerequisitesOf(n)
  BY <1>1, <1>2, <1>3 DEF PlacesInv
<1>6. t # n
  BY <1>1, <1>2, <1>5 DEF Expects, LocksInv, Holding, Open
<1>7. g = Call(t, n)
  BY <1>2, <1>3
<1>8. g \in Frames /\ g.target = t /\ g.parent = n /\ g.step # "done"
  BY <1>4, <1>7, CallParts
<1>10. /\ stack' \in [Threads -> Seq(Frames)] /\ e \notin Calls /\ Calls' = Calls \cup {e}
       /\ Frame(e)' = g /\ \A d \in Calls : Frame(d)' = Frame(d) /\ Below(d) # e
  BY <1>1, <1>8, PushedStack
<1>11. Types'
  BY <1>1, <1>10 DEF Types, OtherTypes
<1>12. /\ Holding(e)' /\ Frame(e)'.target = t
       /\ \A d \in Calls : (Holding(d)' <=> Holding(d)) /\ Frame(d)'.target = Frame(d).target
  BY <1>8, <1>10 DEF Holding
<1>13. PlacesInv'
  <2>1. /\ \A p : Expects(p) /\ ~(e \in Calls /\ Frame(e).target = p) => Expects(p)'
        /\ \A d \in Calls : d # e => Placed(d)'
        /\ \A k \in queued : Expects(k.parent)' /\ k.target \in PrerequisitesOf(k.parent)'
        /\ \A m : PrerequisitesOf(m)' = PrerequisitesOf(m)
    BY <1>1, <1>10, OthersPlaced DEF OtherTypes
  <2>2. Expects(n)'
    BY <1>5, <1>10, <2>1
  <2>3. Placed(e)'
    <3>1. PICK f2 : f2 = Frame(e)'
      OBVIOUS
    <3>2. f2.target = t /\ f2.parent = n
      BY <1>8, <1>10, <3>1
    <3> QED
      BY <1>4, <1>5, <1>6, <2>1, <2>2, <3>1, <3>2 DEF Placed, PrerequisitesOf, Expects, OtherTypes
  <2> QED
    BY <1>1, <1>10, <2>1, <2>3 DEF PlacesInv
<1>14. /\ \A k \in queued' : k # task /\ k \in queued /\ k.target # t
       /\ \A d \in Calls : Holding(d) => Frame(d).target # t
  BY <1>1, <1>2 DEF LocksInv
<1>15. LocksInv'
  <2>1. ASSUME NEW q PROVE Held(q)' <=> Held(q)
    <3>1. CASE q = t
      <4>1. Held(t)
        BY <1>2 DEF Held
      <4>2. Held(t)'
        BY <1>8, <1>10, <1>12 DEF Held
      <4> QED
        BY <3>1, <4>1, <4>2
    <3>2. CASE q # t
      BY <1>2, <1>8, <1>10, <1>12, <3>2 DEF Held
    <3> QED
      BY <3>1, <3>2
  <2>2. \A x, y \in Calls' : Holding(x)' /\ Holding(y)' /\ Frame(x)'.target = Frame(y)'.target => x = y
    <3>1. Calls' = Calls \cup {e}
      BY <1>10
    <3>2. \A x, y \in Calls : Holding(x) /\ Holding(y) /\ Frame(x).target = Frame(y).target => x = y
      BY <1>1 DEF LocksInv
    <3> QED
      BY <1>12, <1>14, <3>1, <3>2
  <2>3. \A x \in Calls', k \in queued' : Holding(x)' => Frame(x)'.target # k.target
    <3>1. Calls' = Calls \cup {e}
      BY <1>10
    <3>2. \A x \in Calls, k \in queued : Holding(x) => Frame(x).target # k.target
      BY <1>1 DEF LocksInv
    <3> QED
      BY <1>12, <1>14, <3>1, <3>2
  <2> QED
    BY <1>1, <2>1, <2>2, <2>3 DEF LocksInv, count_busy, count_applied, count_executed
<1>16. CountsInv'
  <2>1. \A m : m # n => TasksOf(m)' = TasksOf(m) /\ CallsOf(m)' = CallsOf(m)
    BY <1>3, <1>8, <1>10 DEF TasksOf, CallsOf
  <2>2. TasksOf(n)' = TasksOf(n) \ {task} /\ task \in TasksOf(n)
    BY <1>3 DEF TasksOf
  <2>3. CallsOf(n)' = CallsOf(n) \cup {e} /\ e \notin CallsOf(n)
    BY <1>6, <1>8, <1>10 DEF CallsOf
  <2>4. IsFiniteSet(TasksOf(n)) /\ IsFiniteSet(CallsOf(n))
    BY <1>1, <1>4 DEF CountsInv
  <2>5. /\ IsFiniteSet(TasksOf(n) \ {task}) /\ Cardinality(TasksOf(n) \ {task}) = Cardinality(TasksOf(n)) - 1
        /\ IsFiniteSet(CallsOf(n) \cup {e}) /\ Cardinality(CallsOf(n) \cup {e}) = Cardinality(CallsOf(n)) + 1
    BY <2>2, <2>3, <2>4, FS_AddElement, FS_RemoveElement
  <2>6. Cardinality(TasksOf(n)) \in Nat /\ Cardinality(CallsOf(n)) \in Nat /\ StartCount(n) \in Nat
    BY <1>4, <2>4, FS_CardinalityType, Constants
  <2> SUFFICES ASSUME NEW m \in Nodes
               PROVE  /\ IsFiniteSet(TasksOf(m)') /\ IsFiniteSet(CallsOf(m)')
                      /\ m = Root \/ task_count[m] >= count_busy =>
                            task_count[m] = StartCount(m) + Cardinality(TasksOf(m)') + Cardinality(CallsOf(m)')
    BY DEF CountsInv, StartCount, count_busy
  <2>7. CASE m = n
    <3>1. n = Root \/ task_count[n] >= count_busy =>
             task_count[n] = StartCount(n) + Cardinality(TasksOf(n)) + Cardinality(CallsOf(n))
      BY <1>1, <1>4 DEF CountsInv
    <3>2. TasksOf(m)' = TasksOf(n) \ {task} /\ CallsOf(m)' = CallsOf(n) \cup {e}
      BY <2>2, <2>3, <2>7
    <3> QED
      BY <2>5, <2>6, <2>7, <3>1, <3>2
  <2>8. CASE m # n
    BY <1>1, <2>1, <2>8 DEF CountsInv
  <2> QED
    BY <2>7, <2>8
<1>17. task_count[t] >= count_busy
  BY <1>1, <1>2, <1>4 DEF LocksInv, Held
<1> QED
  BY <1>2, <1>3, <1>4, <1>6, <1>10, <1>11, <1>13, <1>15, <1>16, <1>17 DEF StructInv

\* A call ends: its target is executed.
LEMMA EndStruct ==
    ASSUME StructInv, OtherTypes, stack' \in [Threads -> Seq(Frames)], NEW c \in Calls, NEW t \in Targets,
           Frame(c).target = t, Frame(c).step = "end", \A d \in Calls : Below(d) # c /\ (d # c => Frame(d)' = Frame(d)),
           \/ Calls' = Calls \ {c} /\ Frame(c).parent = t
           \/ /\ Calls' = Calls /\ Frame(c).parent # t /\ Frame(c)'.step = "done"
              /\ Frame(c)'.target = t /\ Frame(c)'.parent = Frame(c).parent,
           task_count' = [task_count EXCEPT ![t] = count_executed], queued' = queued, result' = result
    PROVE  StructInv' /\ task_count[t] = count_busy
<1>1. Types /\ PlacesInv /\ LocksInv /\ CountsInv /\ task_count \in [Nodes -> Nat] /\ t \in Nodes /\ t # Root
  BY Constants DEF StructInv, Types
<1>2. Holding(c) /\ (c \in Calls' => ~Holding(c)')
  BY DEF Holding
<1>3. TasksOf(t) = {} /\ CallsOf(t) = {} /\ task_count[t] = count_busy
  <2>1. Frame(c).step \notin Open
    BY DEF Open
  <2> QED
    BY <1>2, <2>1, ClosedCall, Constants
<1>4. /\ task_count' \in [Nodes -> Nat] /\ task_count'[t] = count_executed
      /\ \A m \in Nodes : m # t => task_count'[m] = task_count[m]
  BY <1>1 DEF count_executed
<1>5. Types'
  BY <1>1, <1>4 DEF Types, OtherTypes
<1>6. /\ \A d \in Calls : Holding(d) /\ Frame(d).target = t => d = c
      /\ \A k \in queued : k.target # t
  BY <1>1, <1>2 DEF LocksInv
<1>7. PlacesInv'
  <2>1. /\ \A p : Expects(p) /\ (TasksOf(p) # {} \/ CallsOf(p) # {}) => Expects(p)'
        /\ \A d \in Calls : d # c => Placed(d)'
        /\ \A k \in queued : Expects(k.parent)' /\ k.target \in PrerequisitesOf(k.parent)'
        /\ Matching => Matching'
    BY <1>1, OthersPlaced DEF OtherTypes, Open
  <2>2. ASSUME c \in Calls' PROVE Placed(c)'
    <3>1. PICK p : p = Frame(c).parent
      OBVIOUS
    <3>2. Placed(c) /\ Frame(c)'.target = Frame(c).target /\ Frame(c)'.parent = Frame(c).parent
      BY <1>1, <2>2 DEF PlacesInv
    <3>3. c[2] > 1 => Frame(Below(c))' = Frame(Below(c))
      <4>1. c[2] > 1 => Below(c) \in Calls /\ Below(c) # c
        BY <1>1, BelowCall DEF Calls, Types
      <4> QED
        BY <4>1
    <3>4. p # Frame(c).target => c \in CallsOf(p) /\ Expects(p)
      BY <3>1, <3>2 DEF CallsOf, Placed
    <3>5. p # Frame(c).target => Expects(p)'
      BY <2>1, <3>4
    <3> QED
      BY <2>1, <3>1, <3>2, <3>3, <3>5, StillPlaced DEF OtherTypes
  <2>3. c # <<Main, 1>>
    BY <1>1 DEF PlacesInv, Placed
  <2> QED
    BY <1>1, <2>1, <2>2, <2>3 DEF PlacesInv
<1>8. LocksInv'
  <2>1. \A d \in Calls' : Holding(d)' => d \in Calls /\ d # c /\ Holding(d) /\ Frame(d)' = Frame(d)
    BY <1>2 DEF Holding
  <2>2. \A d \in Calls : d # c /\ Holding(d) => d \in Calls' /\ Holding(d)' /\ Frame(d)' = Frame(d)
    BY DEF Holding
  <2>3. \A q : Held(q)' <=> Held(q) /\ q # t
    BY <1>6, <2>1, <2>2 DEF Held
  <2>4. \A x, y \in Calls' : Holding(x)' /\ Holding(y)' /\ Frame(x)'.target = Frame(y)'.target => x = y
    BY <1>1, <2>1 DEF LocksInv
  <2>5. \A x \in Calls', k \in queued' : Holding(x)' => Frame(x)'.target # k.target
    BY <1>1, <2>1 DEF LocksInv
  <2>6. ASSUME NEW q \in Targets
        PROVE  /\ task_count'[q] >= count_busy <=> Held(q)'
               /\ task_count'[q] < count_busy => task_count'[q] \in {count_applied, count_executed}
    <3>1. CASE q = t
      BY <1>4, <2>3, <3>1 DEF count_busy, count_executed
    <3>2. CASE q # t
      <4>1. task_count'[q] = task_count[q]
        BY <1>4, <3>2, Constants
      <4> QED
        BY <1>1, <2>3, <3>2, <4>1 DEF LocksInv
    <3> QED
      BY <3>1, <3>2
  <2> QED
    BY <1>1, <2>4, <2>5, <2>6 DEF LocksInv, count_busy, count_applied, count_executed
<1>9. CountsInv'
  <2>1. \A m : TasksOf(m)' = TasksOf(m) /\ CallsOf(m)' = CallsOf(m)
    <3>1. \A m : TasksOf(m)' = TasksOf(m)
      BY DEF TasksOf
    <3>2. CASE Calls' = Calls \ {c} /\ Frame(c).parent = t
      BY <3>1, <3>2 DEF CallsOf
    <3>3. CASE /\ Calls' = Calls /\ Frame(c).parent # t /\ Frame(c)'.step = "done"
               /\ Frame(c)'.target = t /\ Frame(c)'.parent = Frame(c).parent
      BY <3>1, <3>3 DEF CallsOf
    <3> QED
      BY <3>2, <3>3
  <2>2. ASSUME NEW m \in Nodes, m = Root \/ task_count'[m] >= count_busy
        PROVE  task_count'[m] = task_count[m] /\ (m = Root \/ task_count[m] >= count_busy)
    BY <1>1, <1>4, <2>2 DEF count_busy, count_executed
  <2> QED
    BY <1>1, <2>1, <2>2 DEF CountsInv, StartCount, count_busy
<1> QED
  BY <1>3, <1>5, <1>7, <1>8, <1>9 DEF StructInv

\* A task is over.
LEMMA DoneStruct ==
    ASSUME StructInv, OtherTypes, stack' \in [Threads -> Seq(Frames)], NEW c \in Calls, NEW p, Frame(c).parent = p,
           Frame(c).step = "done", Frame(c).target # p,
           \A d \in Calls : Below(d) # c /\ (d # c => Frame(d)' = Frame(d)), Calls' = Calls \ {c},
           NEW less, less = task_count[p] - 1, task_count' = [task_count EXCEPT ![p] = less], queued' = queued, result' = result
    PROVE  /\ StructInv' /\ p \in Nodes /\ task_count[p] > StartCount(p)
           /\ \A m \in Nodes : m # p => task_count'[m] = task_count[m]
           /\ p \in Targets => task_count[p] > count_busy /\ task_count'[p] >= count_busy
<1>1. Types /\ PlacesInv /\ LocksInv /\ CountsInv /\ task_count \in [Nodes -> Nat]
  BY DEF StructInv, Types
<1>2. Placed(c)
  BY <1>1 DEF PlacesInv
<1>3. Expects(p) /\ c \in CallsOf(p)
  BY <1>2 DEF Placed, CallsOf
<1>4. p \in Nodes /\ (p = Root \/ (p \in Targets /\ task_count[p] >= count_busy))
  BY <1>1, <1>3, ExpectedCount
<1>5. /\ IsFiniteSet(TasksOf(p)) /\ IsFiniteSet(CallsOf(p))
      /\ task_count[p] = StartCount(p) + Cardinality(TasksOf(p)) + Cardinality(CallsOf(p))
  BY <1>1, <1>4 DEF CountsInv
<1>6. IsFiniteSet(CallsOf(p) \ {c}) /\ Cardinality(CallsOf(p) \ {c}) = Cardinality(CallsOf(p)) - 1
  BY <1>3, <1>5, FS_RemoveElement
<1>7. /\ Cardinality(TasksOf(p)) \in Nat /\ Cardinality(CallsOf(p)) \in Nat /\ Cardinality(CallsOf(p) \ {c}) \in Nat
      /\ StartCount(p) \in Nat
  BY <1>4, <1>5, <1>6, FS_CardinalityType, Constants
<1>8. task_count[p] >= StartCount(p) + 1 /\ task_count[p] - 1 \in Nat
  BY <1>5, <1>6, <1>7
<1>9. /\ task_count' \in [Nodes -> Nat] /\ task_count'[p] = task_count[p] - 1
      /\ \A m \in Nodes : m # p => task_count'[m] = task_count[m]
  BY <1>1, <1>4, <1>8
<1>10. Types'
  BY <1>1, <1>9 DEF Types, OtherTypes
<1>11. ~Holding(c)
  BY DEF Holding
<1>12. PlacesInv'
  <2>1. /\ \A d \in Calls : d # c => Placed(d)'
        /\ \A k \in queued : Expects(k.parent)' /\ k.target \in PrerequisitesOf(k.parent)'
    BY <1>1, OthersPlaced DEF OtherTypes, Open
  <2>2. c # <<Main, 1>>
    BY <1>2 DEF Placed
  <2> QED
    BY <1>1, <2>1, <2>2 DEF PlacesInv
<1>13. p \in Targets => task_count[p] > count_busy /\ task_count'[p] >= count_busy
  <2>1. p \in Targets => StartCount(p) = count_busy
    BY Constants
  <2>2. task_count[p] \in Nat /\ task_count'[p] \in Nat
    BY <1>1, <1>4, <1>9
  <2> QED
    BY <1>8, <1>9, <2>1, <2>2 DEF count_busy
<1>14. LocksInv'
  <2>1. \A d \in Calls' : d \in Calls /\ Frame(d)' = Frame(d) /\ (Holding(d)' <=> Holding(d))
    BY DEF Holding
  <2>2. \A q : Held(q)' <=> Held(q)
    BY <1>11, <2>1 DEF Held
  <2>3. ASSUME NEW q \in Targets
        PROVE  /\ task_count'[q] >= count_busy <=> Held(q)'
               /\ task_count'[q] < count_busy => task_count'[q] \in {count_applied, count_executed}
    <3>1. CASE q = p
      <4>1. Held(q)
        BY <1>3, <3>1 DEF Expects, Held, Holding, Open
      <4> QED
        BY <1>9, <1>13, <2>2, <3>1, <4>1, Constants DEF count_busy
    <3>2. CASE q # p
      <4>1. task_count'[q] = task_count[q]
        BY <1>9, <3>2, Constants
      <4> QED
        BY <1>1, <2>2, <3>2, <4>1 DEF LocksInv
    <3> QED
      BY <3>1, <3>2
  <2> QED
    BY <1>1, <2>1, <2>3 DEF LocksInv, count_busy, count_applied, count_executed
<1>15. CountsInv'
  <2>1. \A m : TasksOf(m)' = TasksOf(m) /\ (m # p => CallsOf(m)' = CallsOf(m))
    BY DEF TasksOf, CallsOf
  <2>2. CallsOf(p)' = CallsOf(p) \ {c}
    BY DEF CallsOf
  <2> SUFFICES ASSUME NEW m \in Nodes
               PROVE  /\ IsFiniteSet(TasksOf(m)') /\ IsFiniteSet(CallsOf(m)')
                      /\ m = Root \/ task_count'[m] >= count_busy =>
                            task_count'[m] = StartCount(m) + Cardinality(TasksOf(m)') + Cardinality(CallsOf(m)')
    BY DEF CountsInv, StartCount, count_busy
  <2>3. CASE m = p
    <3>1. TasksOf(m)' = TasksOf(p) /\ CallsOf(m)' = CallsOf(p) \ {c}
      BY <2>1, <2>2, <2>3
    <3> QED
      BY <1>5, <1>6, <1>7, <1>9, <2>3, <3>1
  <2>4. CASE m # p
    BY <1>1, <1>9, <2>1, <2>4 DEF CountsInv
  <2> QED
    BY <2>3, <2>4
<1>16. task_count[p] > StartCount(p)
  BY <1>7, <1>8, <1>9, <1>4, <1>1
<1> QED
  BY <1>4, <1>9, <1>10, <1>12, <1>13, <1>14, <1>15, <1>16 DEF StructInv

\* The operation is over.
LEMMA RootStruct ==
    ASSUME StructInv, OtherTypes, stack' \in [Threads -> Seq(Frames)], NEW c \in Calls, Frame(c).target = Root,
           Frame(c).step = "end" \/ (Frame(c).step = "match" /\ Calls = {c}),
           \A d \in Calls : Below(d) # c /\ (d # c => Frame(d)' = Frame(d)), Calls' = Calls \ {c},
           task_count' = task_count, queued' = queued, result' \in {"executed", "failed"}
    PROVE  StructInv'
<1>1. Types /\ PlacesInv /\ LocksInv /\ CountsInv /\ task_count \in [Nodes -> Nat]
  BY DEF StructInv, Types
<1>2. c = <<Main, 1>> /\ Frame(c).parent = Root
  BY <1>1 DEF PlacesInv, Placed
<1>3. Types'
  BY <1>1 DEF Types, OtherTypes
<1>4. PlacesInv'
  <2>1. CASE Frame(c).step = "end"
    <3>1. /\ \A d \in Calls : d # c => Placed(d)'
          /\ \A k \in queued : Expects(k.parent)' /\ k.target \in PrerequisitesOf(k.parent)'
      BY <1>1, <2>1, OthersPlaced DEF OtherTypes, Open
    <3> QED
      BY <1>2, <3>1 DEF PlacesInv
  <2>2. CASE Frame(c).step = "match" /\ Calls = {c}
    <3>1. queued = {}
      BY <1>1, <2>2 DEF PlacesInv, Expects, Open
    <3> QED
      BY <1>2, <2>2, <3>1 DEF PlacesInv
  <2> QED
    BY <2>1, <2>2
<1>5. \A d \in Calls' : d \in Calls /\ Frame(d)' = Frame(d) /\ (Holding(d)' <=> Holding(d))
  BY DEF Holding
<1>6. LocksInv'
  <2>1. \A q \in Targets : Held(q)' <=> Held(q)
    BY <1>5, Constants DEF Held
  <2> QED
    BY <1>1, <1>5, <2>1 DEF LocksInv, count_busy, count_applied, count_executed
<1>7. CountsInv'
  <2>1. \A m : TasksOf(m)' = TasksOf(m) /\ CallsOf(m)' = CallsOf(m)
    BY <1>2, <1>5 DEF TasksOf, CallsOf
  <2> QED
    BY <1>1, <2>1 DEF CountsInv, StartCount, count_busy
<1> QED
  BY <1>3, <1>4, <1>6, <1>7 DEF StructInv

-----------------------------------------------------------------------------
(***************************************************************************)
(* What a call has established stays so: what is executed is final.        *)
(***************************************************************************)
Kept ==
    /\ prerequisites' = prerequisites /\ current_mode' = current_mode /\ keep_going' = keep_going
    /\ worked \subseteq worked'
    /\ \A t \in Targets : task_count[t] >= count_executed => task_count'[t] >= count_executed
    /\ \A t \in Targets : Executed(t) => Executed(t)' /\ state'[t] = state[t]

LEMMA GroupOf ==
    ASSUME Types, NEW t \in Members
    PROVE  /\ t \in Targets /\ t \in Nodes /\ t # Root /\ Len(prerequisites[t]) = 1
           /\ prerequisites[t][1] \in Targets /\ prerequisites[t][1] \notin Members
           /\ PrerequisitesOf(t) = {prerequisites[t][1]} /\ InOrder(t)[1] = prerequisites[t][1]
<1>1. prerequisites \in [Nodes -> Seq(Targets)] /\ t \in Targets /\ t \in Nodes /\ t # Root
  <2>1. prerequisites \in [Nodes -> Seq(Targets)]
    BY ExecuteAssumption DEF Types
  <2>2. t \in Targets /\ t \in Nodes /\ t # Root
    BY Constants
  <2> QED
    BY <2>1, <2>2
<1>2. prerequisites \in Graphs
  BY DEF Types
<1>3. Len(prerequisites[t]) = 1 /\ prerequisites[t][1] \notin Members
  BY <1>2, ExecuteAssumption
<1>4. prerequisites[t] \in Seq(Targets) /\ DOMAIN prerequisites[t] = {1}
  <2>1. prerequisites[t] \in Seq(Targets)
    BY <1>1
  <2>2. DOMAIN prerequisites[t] = 1 .. 1
    BY <1>3, <2>1
  <2> QED
    BY <2>1, <2>2
<1>5. PrerequisitesOf(t) = {prerequisites[t][1]} /\ prerequisites[t][1] \in Targets
  BY <1>4 DEF PrerequisitesOf
<1>6. InOrder(t)[1] = prerequisites[t][1]
  <2>1. 1 \in 1 .. Len(prerequisites[t])
    BY <1>3
  <2>2. InOrder(t)[1] \in PrerequisitesOf(t)
    BY <1>1, <2>1, Ordered
  <2> QED
    BY <1>5, <2>2
<1> QED
  BY <1>1, <1>3, <1>5, <1>6

LEMMA FinalState ==
    ASSUME Types, StatesInv, Kept, NEW p \in Targets, Executed(p)
    PROVE  Executed(p)' /\ state'[p] = state[p] /\ ExecutedState(p)' = ExecutedState(p)
<1>1. Executed(p)' /\ state'[p] = state[p] /\ prerequisites' = prerequisites
  BY DEF Kept
<1>2. state[p] # "unknown"
  BY DEF StatesInv
<1>3. CASE p \in Members /\ state[p] = "group"
  <2>1. prerequisites[p][1] \in Targets
    BY <1>3, GroupOf
  <2>2. state'[prerequisites[p][1]] = state[prerequisites[p][1]]
    BY <1>3, <2>1 DEF StatesInv, Kept
  <2> QED
    BY <1>1, <1>3, <2>2 DEF ExecutedState
<1>4. CASE ~(p \in Members /\ state[p] = "group")
  BY <1>1, <1>2, <1>4 DEF ExecutedState
<1> QED
  BY <1>1, <1>3, <1>4

LEMMA PassedStays ==
    ASSUME Types, StatesInv, Kept, NEW t, NEW p \in Targets, NEW x, Passed(t, p, x)
    PROVE  Passed(t, p, x)'
BY FinalState DEF Passed

LEMMA SameOrder ==
    ASSUME Kept
    PROVE  /\ \A n : InOrder(n)' = InOrder(n) /\ PrerequisitesOf(n)' = PrerequisitesOf(n)
           /\ \A f : Prerequisite(f)' = Prerequisite(f) /\ (More(f)' <=> More(f))
BY DEF Kept, InOrder, PrerequisitesOf, Prerequisite, More

LEMMA SoundStays ==
    ASSUME Types, StatesInv, Kept, NEW f \in Frames, Sound(f), NEW d, Frame(d)' = f
    PROVE  Sound(Frame(d))'
<1>1. /\ prerequisites' = prerequisites /\ current_mode' = current_mode
      /\ \A n : InOrder(n)' = InOrder(n)
  BY SameOrder DEF Kept
<1>2. InRange(Frame(d))'
  BY <1>1 DEF Sound, InRange
<1>3. Stepwise(Frame(d))'
  BY <1>1 DEF Sound, Stepwise, Kept
<1>4. /\ f.target \in Nodes /\ f.next \in Nat /\ Len(prerequisites[f.target]) \in Nat
      /\ f.next >= 1 /\ f.next <= Len(prerequisites[f.target]) + 1
      /\ \A i \in 1 .. Len(prerequisites[f.target]) : InOrder(f.target)[i] \in Targets
  BY FrameTypes, Ordered DEF Sound, InRange
<1>5. Tried(Frame(d))'
  <2> DEFINE n == IF f.step = "finish" THEN Len(prerequisites[f.target]) ELSE f.next - 1
  <2>1. \A i \in 1 .. n : i \in 1 .. Len(prerequisites[f.target])
    BY <1>4
  <2>2. \A i \in 1 .. n : InOrder(f.target)[i] \in Targets
    BY <1>4, <2>1
  <2>3. f.step = "result" => Prerequisite(f) \in Targets
    BY <1>4 DEF Sound, InRange, Prerequisite
  <2>4. f.step \in Open \cup {"finish"} /\ ~f.bad =>
             \A i \in 1 .. n : i \in f.postponed \/ task_count'[InOrder(f.target)[i]] >= count_executed
    BY <2>2 DEF Sound, Tried, Kept
  <2>5. f.step = "result" => task_count'[Prerequisite(f)] >= count_executed
    BY <2>3 DEF Sound, Tried, Kept
  <2>6. Prerequisite(f)' = Prerequisite(f)
    BY SameOrder
  <2> QED
    BY <1>1, <2>4, <2>5, <2>6 DEF Tried, Prerequisite, count_executed
<1>6. Seen(Frame(d))'
  <2> DEFINE n == IF f.step = "finish" THEN f.next - 1 ELSE Len(prerequisites[f.target])
  <2>1. \A i \in 1 .. n : i \in 1 .. Len(prerequisites[f.target])
    BY <1>4
  <2>2. ASSUME f.target # Root, ~f.bad,
               f.step \in {"finish", "end", "done"} \/ (f.step = "work" /\ current_mode = "first"),
               NEW i \in 1 .. n, i \notin f.postponed
        PROVE  Passed(f.target, InOrder(f.target)[i], f.changed)'
    <3>1. PICK p : p = InOrder(f.target)[i]
      OBVIOUS
    <3>2. PICK t : t = f.target
      OBVIOUS
    <3>3. PICK x : x = f.changed
      OBVIOUS
    <3>4. p \in Targets
      BY <1>4, <2>1, <3>1
    <3>5. Passed(t, p, x)
      BY <2>2, <3>1, <3>2, <3>3 DEF Sound, Seen
    <3>6. Passed(t, p, x)'
      BY <3>4, <3>5, PassedStays
    <3> QED
      BY <1>1, <3>1, <3>2, <3>3, <3>6 DEF Passed
  <2> QED
    BY <1>1, <2>2 DEF Seen
<1> QED
  BY <1>2, <1>3, <1>5, <1>6 DEF Sound

\* Nothing more is executed or worked on.
LEMMA QuietStates ==
    ASSUME Types, StatesInv, PrerequisitesDone, UpdatedInOrder, Kept, state' = state, worked' = worked,
           \A t \in Targets : Executed(t)' => Executed(t)
    PROVE  StatesInv' /\ PrerequisitesDone' /\ UpdatedInOrder'
<1>1. /\ \A t \in Targets : Executed(t)' <=> Executed(t)
      /\ \A t \in Members : prerequisites[t][1] \in Targets
      /\ prerequisites' = prerequisites /\ current_mode' = current_mode
      /\ \A n : PrerequisitesOf(n)' = PrerequisitesOf(n)
  BY GroupOf, SameOrder DEF Kept
<1>2. StatesInv'
  <2> SUFFICES ASSUME NEW t \in Targets
               PROVE  /\ ~Executed(t)' => state[t] = IF t \in Noop THEN "unchanged" ELSE "unknown"
                      /\ Executed(t)' => state[t] # "unknown"
                      /\ t \in Members => state[t] \in {"unknown", "unchanged", "group"}
                      /\ t \in Members /\ state[t] = "group" => Executed(prerequisites[t][1])'
                      /\ t \in Noop => state[t] = "unchanged"
                      /\ t \in worked => task_count'[t] >= count_executed /\ t \notin Noop \cup Members
                      /\ Executed(t)' /\ state[t] # "failed" /\ t \notin Noop \cup Members => t \in worked
    BY <1>1 DEF StatesInv, Executed, count_executed
  <2> QED
    BY <1>1 DEF StatesInv, Kept
<1>3. \A t \in Targets : PrerequisitesOf(t) \subseteq Targets
  BY Ordered, Constants
<1>4. PrerequisitesDone'
  <2> SUFFICES ASSUME current_mode = "first", NEW t \in Targets, Executed(t), state[t] # "failed",
                      NEW p \in PrerequisitesOf(t)
               PROVE  Passed(t, p, state[t] = "changed")'
    BY <1>1 DEF PrerequisitesDone
  <2>1. PICK x : x = (state[t] = "changed")
    OBVIOUS
  <2>2. Passed(t, p, x)
    BY <2>1 DEF PrerequisitesDone
  <2>3. Passed(t, p, x)'
    BY <1>3, <2>2, PassedStays
  <2> QED
    BY <2>1, <2>3 DEF Passed
<1>5. UpdatedInOrder'
  <2>1. \A t \in worked : t \in Targets
    BY DEF Types
  <2> QED
    BY <1>1, <1>3, <2>1, FinalState DEF UpdatedInOrder
<1> QED
  BY <1>2, <1>4, <1>5

\* The calls that are not changed are sound, and those that are if they were made so.
LEMMA FramesStay ==
    ASSUME Types, StatesInv, FramesInv, Kept,
           \A d \in Calls' : (d \in Calls /\ Frame(d)' = Frame(d)) \/ Sound(Frame(d))',
           \A task \in queued' : task \in queued \/ task.target \notin Noop
    PROVE  FramesInv'
<1>1. ASSUME NEW d \in Calls', d \in Calls, Frame(d)' = Frame(d) PROVE Sound(Frame(d))'
  <2>1. Frame(d) \in Frames /\ Sound(Frame(d))
    BY <1>1, InCalls DEF FramesInv, Types
  <2> QED
    BY <1>1, <2>1, SoundStays
<1> QED
  BY <1>1 DEF FramesInv

\* A step that changes nothing but the call.
Still == UNCHANGED <<fixed, task_count, state, queued, worked, result>>

LEMMA StillKept ==
    ASSUME Types, Still
    PROVE  /\ Kept /\ OtherTypes /\ task_count' = task_count /\ queued' = queued /\ result' = result
           /\ state' = state /\ worked' = worked
           /\ \A t \in Targets : Executed(t)' => Executed(t)
BY DEF Still, fixed, Kept, OtherTypes, Types, Executed, count_executed

LEMMA MoveTop ==
    ASSUME IndInv, Still, NEW u \in Threads, NEW c, Innermost(u, c), NEW g \in Frames, stack' = Moved(u, g),
           g.target = Frame(c).target, g.parent = Frame(c).parent, Frame(c).step # "done", g.step # "done",
           Frame(c).step \in Open /\ g.step \notin Open => task_count[g.target] <= StartCount(g.target),
           Frame(c).step = "match" => Calls = {c}, Sound(g)
    PROVE  IndInv' /\ Kept
<1>1. /\ StructInv /\ Types /\ FramesInv /\ StatesInv /\ PrerequisitesDone /\ UpdatedInOrder
      /\ stack \in [Threads -> Seq(Frames)]
  BY DEF IndInv, StructInv, Types
<1>2. /\ Kept /\ OtherTypes /\ task_count' = task_count /\ queued' = queued /\ result' = result
      /\ state' = state /\ worked' = worked
      /\ \A t \in Targets : Executed(t)' => Executed(t)
  BY <1>1, StillKept
<1>3. c \in Calls /\ \A d \in Calls : Below(d) # c
  BY <1>1, InnermostCall
<1>4. /\ stack' \in [Threads -> Seq(Frames)] /\ Calls' = Calls
      /\ Frame(c)' = g /\ \A d \in Calls : d # c => Frame(d)' = Frame(d)
  BY <1>1, MovedStack
<1>5. StructInv'
  BY <1>1, <1>2, <1>3, <1>4, MoveStruct
<1>6. Sound(Frame(c))'
  BY <1>1, <1>2, <1>4, SoundStays
<1>7. FramesInv'
  BY <1>1, <1>2, <1>4, <1>6, FramesStay
<1>8. StatesInv' /\ PrerequisitesDone' /\ UpdatedInOrder'
  BY <1>1, <1>2, QuietStates
<1> QED
  BY <1>2, <1>5, <1>7, <1>8 DEF IndInv

(***************************************************************************)
(* The steps of a call by itself.                                          *)
(***************************************************************************)
LEMMA BadSound ==
    ASSUME Types, NEW f \in Frames, Sound(f), f.target \notin Members, f.target # Root, NEW g \in Frames,
           g.target = f.target, g.next = f.next, g.postponed = f.postponed, g.bad, g.step \in {"wait", "end"}
    PROVE  Sound(g)
<1>1. InRange(g)
  BY DEF Sound, InRange
<1>2. Stepwise(g)
  BY DEF Sound, Stepwise
<1>3. Tried(g) /\ Seen(g)
  BY DEF Tried, Seen
<1> QED
  BY <1>1, <1>2, <1>3 DEF Sound

LEMMA AwaitSound ==
    ASSUME Types, NEW f \in Frames, Sound(f), f.step \in Open,
           f.bad \/ f.target = Root \/ f.next = Len(prerequisites[f.target]) + 1
    PROVE  /\ Sound(Waited(f)) /\ Sound(GoTo(f, "wait"))
<1>1. f.target \in Nodes /\ f.next \in Nat /\ Len(prerequisites[f.target]) \in Nat
  BY FrameTypes, Ordered
<1>2. Sound(GoTo(f, "wait"))
  <2>1. PICK g : g = GoTo(f, "wait")
    OBVIOUS
  <2>2. /\ g \in Frames /\ g.target = f.target /\ g.parent = f.parent /\ g.step = "wait" /\ g.next = f.next
        /\ g.bad = f.bad /\ g.changed = f.changed /\ g.postponed = f.postponed
    BY <2>1, GoToParts DEF Steps
  <2>3. InRange(g)
    BY <1>1, <2>2 DEF Sound, InRange
  <2>4. Stepwise(g)
    BY <2>2 DEF Sound, Stepwise, Open
  <2>5. Tried(g) /\ Seen(g)
    BY <2>2 DEF Sound, Tried, Seen, Open
  <2> QED
    BY <2>1, <2>3, <2>4, <2>5 DEF Sound
<1>3. Sound(Waited(f))
  <2>1. PICK g : g = Waited(f)
    OBVIOUS
  <2>2. /\ g \in Frames /\ g.target = f.target /\ g.parent = f.parent
        /\ g.bad = f.bad /\ g.changed = f.changed /\ g.postponed = f.postponed
        /\ f.bad \/ f.target = Root => g.step = "end" /\ g.next = f.next
        /\ ~(f.bad \/ f.target = Root) => g.step = "finish" /\ g.next = 1
    BY <2>1, WaitedParts
  <2>3. CASE f.bad \/ f.target = Root
    <3>1. g.step = "end" /\ g.next = f.next
      BY <2>2, <2>3
    <3>2. InRange(g)
      BY <1>1, <2>2, <3>1 DEF Sound, InRange
    <3>3. Stepwise(g)
      BY <2>2, <2>3, <3>1 DEF Sound, Stepwise, Open
    <3>4. Tried(g) /\ Seen(g)
      BY <2>2, <2>3, <3>1 DEF Sound, Tried, Seen, Open
    <3> QED
      BY <2>1, <3>2, <3>3, <3>4 DEF Sound
  <2>4. CASE ~(f.bad \/ f.target = Root)
    <3>1. g.step = "finish" /\ g.next = 1 /\ f.next = Len(prerequisites[f.target]) + 1 /\ ~f.bad
      BY <2>2, <2>4
    <3>2. InRange(g)
      BY <1>1, <2>2, <3>1 DEF Sound, InRange
    <3>3. Stepwise(g)
      BY <2>2, <2>4, <3>1 DEF Sound, Stepwise, Open
    <3>4. f.next - 1 = Len(prerequisites[f.target])
      BY <1>1, <3>1
    <3>5. Tried(g)
      BY <2>2, <3>1, <3>4 DEF Sound, Tried, Open
    <3>6. Seen(g)
      BY <3>1 DEF Seen
    <3> QED
      BY <2>1, <3>2, <3>3, <3>5, <3>6 DEF Sound
  <2> QED
    BY <2>3, <2>4
<1> QED
  BY <1>2, <1>3

\* Waiting, if there is anything to wait for.
LEMMA AwaitParts ==
    ASSUME Types, NEW f \in Frames
    PROVE  LET g == Await(f)
           IN  /\ g \in Frames /\ g.target = f.target /\ g.parent = f.parent /\ g.step \in {"wait", "finish", "end"}
               /\ g.bad = f.bad /\ g.postponed = f.postponed
               /\ f.bad \/ f.target = Root => g.next = f.next /\ g.step \in {"wait", "end"}
               /\ g = GoTo(f, "wait") \/ (g = Waited(f) /\ task_count[f.target] <= StartCount(f.target))
               /\ g.step \notin Open => task_count[f.target] <= StartCount(f.target)
<1>1. f.target \in Nodes /\ StartCount(f.target) \in Nat /\ task_count[f.target] \in Nat
  BY FrameTypes, Constants DEF Types
<1>2. CASE task_count[f.target] > StartCount(f.target)
  <2>1. PICK g : g = GoTo(f, "wait")
    OBVIOUS
  <2>2. /\ g \in Frames /\ g.target = f.target /\ g.parent = f.parent /\ g.step = "wait"
        /\ g.bad = f.bad /\ g.postponed = f.postponed /\ g.next = f.next
    BY <2>1, GoToParts DEF Steps
  <2>3. Await(f) = g
    BY <1>2, <2>1 DEF Await
  <2> QED
    BY <2>1, <2>2, <2>3 DEF Open
<1>3. CASE ~(task_count[f.target] > StartCount(f.target))
  <2>1. PICK g : g = Waited(f)
    OBVIOUS
  <2>2. /\ g \in Frames /\ g.target = f.target /\ g.parent = f.parent
        /\ g.bad = f.bad /\ g.changed = f.changed /\ g.postponed = f.postponed
        /\ f.bad \/ f.target = Root => g.step = "end" /\ g.next = f.next
        /\ ~(f.bad \/ f.target = Root) => g.step = "finish" /\ g.next = 1
    BY <2>1, WaitedParts
  <2>3. Await(f) = g /\ task_count[f.target] <= StartCount(f.target)
    BY <1>1, <1>3, <2>1 DEF Await
  <2> QED
    BY <2>1, <2>2, <2>3
<1> QED
  BY <1>2, <1>3

\* The prerequisite of a call has been tried: it is being executed by someone.
LEMMA TriedSound ==
    ASSUME Types, StatesInv, Kept, NEW f \in Frames, Sound(f), f.step \in {"try", "result"},
           task_count'[Prerequisite(f)] >= count_executed,
           NEW g \in Frames, g = NextOne(f) \/ g = GoTo(f, "result"), NEW d, Frame(d)' = g
    PROVE  Sound(Frame(d))'
<1>1. /\ prerequisites' = prerequisites /\ current_mode' = current_mode
      /\ \A n : InOrder(n)' = InOrder(n)
  BY SameOrder DEF Kept
<1>2. /\ f.target \in Nodes /\ f.next \in Nat /\ Len(prerequisites[f.target]) \in Nat
      /\ f.next >= 1 /\ f.next <= Len(prerequisites[f.target])
      /\ \A i \in 1 .. Len(prerequisites[f.target]) : InOrder(f.target)[i] \in Targets
  BY FrameTypes, Ordered DEF Sound, InRange
<1>3. /\ g.target = f.target /\ g.parent = f.parent /\ g.bad = f.bad /\ g.changed = f.changed
      /\ g.postponed = f.postponed
      /\ (g.step = "start" /\ g.next = f.next + 1) \/ (g.step = "result" /\ g.next = f.next)
  BY NextParts, GoToParts DEF Steps
<1>4. InRange(Frame(d))'
  <2>1. /\ f.postponed \subseteq 1 .. (f.next - 1) /\ (current_mode = "first" => f.postponed = {})
        /\ f.postponed \subseteq 1 .. Len(prerequisites[f.target])
    BY DEF Sound, InRange
  <2>2. f.postponed \subseteq 1 .. (g.next - 1)
    <3>1. \A i \in 1 .. (f.next - 1) : i \in 1 .. (g.next - 1)
      BY <1>2, <1>3
    <3> QED
      BY <2>1, <3>1
  <2>3. g.next >= 1 /\ g.next <= Len(prerequisites[f.target]) + 1 /\ (g.step = "result" => g.next <= Len(prerequisites[f.target]))
    BY <1>2, <1>3
  <2>4. InRange(g)
    BY <1>3, <2>1, <2>2, <2>3 DEF InRange
  <2> QED
    BY <1>1, <2>4 DEF InRange
<1>5. Stepwise(Frame(d))'
  <2>1. Stepwise(g)
    BY <1>3 DEF Sound, Stepwise
  <2> QED
    BY <1>1, <2>1 DEF Stepwise, Kept
<1>6. ~f.bad
  BY DEF Sound, Stepwise
<1>7. ASSUME NEW i \in 1 .. f.next PROVE i \in f.postponed \/ task_count'[InOrder(f.target)[i]] >= count_executed
  <2>1. CASE i = f.next
    BY <2>1 DEF Prerequisite
  <2>2. CASE i # f.next
    <3>1. i \in 1 .. f.next - 1 /\ i \in 1 .. Len(prerequisites[f.target])
      BY <1>2, <2>2
    <3>2. i \in f.postponed \/ task_count[InOrder(f.target)[i]] >= count_executed
      BY <1>6, <3>1 DEF Sound, Tried, Open
    <3> QED
      BY <1>2, <3>1, <3>2 DEF Kept
  <2> QED
    BY <2>1, <2>2
<1>8. Tried(Frame(d))'
  <2>1. \A i \in 1 .. g.next - 1 : i \in 1 .. f.next
    BY <1>2, <1>3
  <2>2. \A i \in 1 .. g.next - 1 : i \in g.postponed \/ task_count'[InOrder(g.target)[i]] >= count_executed
    BY <1>3, <1>7, <2>1
  <2>3. g.step = "result" => task_count'[InOrder(g.target)[g.next]] >= count_executed
    BY <1>3 DEF Prerequisite
  <2>4. g.step # "finish"
    BY <1>3
  <2> QED
    BY <1>1, <2>2, <2>3, <2>4 DEF Tried, Prerequisite, count_executed
<1>9. Seen(Frame(d))'
  BY <1>3 DEF Seen
<1> QED
  BY <1>4, <1>5, <1>8, <1>9 DEF Sound

LEMMA TopFrame ==
    ASSUME IndInv, NEW u \in Threads, Busy(u)
    PROVE  \E c \in Calls :
              /\ Innermost(u, c) /\ Frame(c) = Top(u) /\ Frame(c) \in Frames /\ Placed(c) /\ Sound(Frame(c))
              /\ \A d \in Calls : Below(d) # c
              /\ Top(u).step # "done" =>
                    /\ Holding(c)
                    /\ Top(u).target = Root \/ (Top(u).target \in Targets /\ task_count[Top(u).target] >= count_busy)
                    /\ task_count[Top(u).target] >= StartCount(Top(u).target)
<1>1. StructInv /\ FramesInv
  BY DEF IndInv
<1>2. PICK c \in Calls :
              /\ Innermost(u, c) /\ Frame(c) = Top(u) /\ Frame(c) \in Frames /\ Placed(c)
              /\ \A d \in Calls : Below(d) # c
              /\ Frame(c).step # "done" =>
                    /\ Holding(c)
                    /\ Frame(c).target = Root \/ (Frame(c).target \in Targets /\ task_count[Frame(c).target] >= count_busy)
                    /\ task_count[Frame(c).target] >= StartCount(Frame(c).target)
  BY <1>1, TopCall
<1>3. Sound(Frame(c))
  BY <1>1, <1>2 DEF FramesInv
<1> QED
  BY <1>2, <1>3

LEMMA DecrementKeeps ==
    ASSUME IndInv, NEW u \in Threads, ExecuteDecrement(u)
    PROVE  IndInv' /\ Kept
<1>1. Types /\ Busy(u) /\ Top(u).step = "start" /\ More(Top(u)) /\ Still
  BY DEF IndInv, StructInv, ExecuteDecrement, At, Still
<1>2. PICK c \in Calls : Innermost(u, c) /\ Frame(c) = Top(u) /\ Frame(c) \in Frames /\ Sound(Frame(c))
  BY <1>1, TopFrame
<1>3. PICK f : f = Frame(c)
  OBVIOUS
<1>4. /\ f \in Frames /\ f = Top(u) /\ Sound(f) /\ f.step = "start" /\ More(f) /\ f.target \in Nodes /\ f.next \in Nat
      /\ f.next >= 1 /\ Len(prerequisites[f.target]) \in Nat /\ f.postponed \subseteq Nat
  BY <1>1, <1>2, <1>3, FrameTypes, Ordered DEF Sound, InRange
<1>5. CASE Postpones(Prerequisite(f))
  <2>1. PICK s : s = f.postponed \cup {f.next}
    OBVIOUS
  <2>2. PICK h : h = NextOne(f)
    OBVIOUS
  <2>3. PICK g : g = [h EXCEPT !.postponed = s]
    OBVIOUS
  <2>4. /\ h \in Frames /\ h.target = f.target /\ h.parent = f.parent /\ h.step = "start"
        /\ h.next = f.next + 1 /\ h.bad = f.bad /\ h.changed = f.changed /\ h.postponed = f.postponed
    BY <1>4, <2>2, NextParts
  <2>5. s \in SUBSET Nat
    BY <1>4, <2>1
  <2>6. /\ g \in Frames /\ g.target = f.target /\ g.parent = f.parent /\ g.step = "start"
        /\ g.next = f.next + 1 /\ g.bad = f.bad /\ g.changed = f.changed /\ g.postponed = s
    BY <2>3, <2>4, <2>5 DEF Frames
  <2>7. stack' = Moved(u, g)
    <3>1. g = [NextOne(f) EXCEPT !.postponed = @ \cup {f.next}]
      BY <2>1, <2>2, <2>3, <2>4
    <3> QED
      BY <1>4, <1>5, <3>1 DEF ExecuteDecrement
  <2>8. current_mode # "first"
    BY <1>5 DEF Postpones
  <2>9. InRange(g)
    <3>1. f.postponed \subseteq 1 .. (f.next - 1)
      BY <1>4 DEF Sound, InRange
    <3>2. \A i \in s : i \in 1 .. (g.next - 1)
      BY <1>4, <2>1, <2>6, <3>1
    <3>3. g.next >= 1 /\ g.next <= Len(prerequisites[f.target]) + 1
      BY <1>4, <2>6 DEF More
    <3>4. \A i \in s : i \in 1 .. Len(prerequisites[f.target])
      BY <1>4, <2>6, <3>2, <3>3
    <3> QED
      BY <2>6, <2>8, <3>2, <3>3, <3>4 DEF InRange
  <2>10. Stepwise(g)
    BY <1>4, <2>6 DEF Sound, Stepwise
  <2>11. Tried(g)
    <3>1. ASSUME NEW i \in 1 .. (g.next - 1) PROVE i \in g.postponed \/ task_count[InOrder(g.target)[i]] >= count_executed
      <4>1. i = f.next \/ i \in 1 .. (f.next - 1)
        BY <1>4, <2>6
      <4>2. ~f.bad
        BY <1>4 DEF Sound, Stepwise
      <4> QED
        BY <1>4, <2>1, <2>6, <4>1, <4>2 DEF Sound, Tried, Open
    <3> QED
      BY <2>6, <3>1 DEF Tried
  <2>12. Seen(g)
    BY <2>6 DEF Seen
  <2>13. Sound(g)
    BY <2>9, <2>10, <2>11, <2>12 DEF Sound
  <2> QED
    BY <1>1, <1>2, <1>3, <1>4, <2>6, <2>7, <2>13, MoveTop DEF Open
<1>6. CASE ~Postpones(Prerequisite(f))
  <2>1. PICK g : g = GoTo(f, "try")
    OBVIOUS
  <2>2. /\ g \in Frames /\ g.target = f.target /\ g.parent = f.parent /\ g.step = "try" /\ g.next = f.next
        /\ g.bad = f.bad /\ g.changed = f.changed /\ g.postponed = f.postponed
    BY <1>4, <2>1, GoToParts DEF Steps
  <2>3. stack' = Moved(u, g)
    BY <1>4, <1>6, <2>1 DEF ExecuteDecrement
  <2>4. InRange(g) /\ Stepwise(g)
    BY <1>4, <2>2 DEF Sound, InRange, Stepwise, More
  <2>5. Tried(g) /\ Seen(g)
    BY <1>4, <2>2 DEF Sound, Tried, Seen, Open
  <2>6. Sound(g)
    BY <2>4, <2>5 DEF Sound
  <2> QED
    BY <1>1, <1>2, <1>3, <1>4, <2>2, <2>3, <2>6, MoveTop DEF Open
<1> QED
  BY <1>5, <1>6

\* The call goes on to the next prerequisite.
LEMMA NextSound ==
    ASSUME IndInv, Kept, NEW f \in Frames, Sound(f), f.step \in {"try", "result"},
           task_count[Prerequisite(f)] >= count_executed
    PROVE  Sound(NextOne(f))
<1>1. Types
  BY DEF IndInv, StructInv
<1>2. PICK g : g = NextOne(f)
  OBVIOUS
<1>3. /\ g \in Frames /\ g.target = f.target /\ g.parent = f.parent /\ g.step = "start"
      /\ g.next = f.next + 1 /\ g.bad = f.bad /\ g.changed = f.changed /\ g.postponed = f.postponed
  BY <1>2, NextParts
<1>4. /\ f.target \in Nodes /\ f.next \in Nat /\ Len(prerequisites[f.target]) \in Nat
      /\ f.next >= 1 /\ f.next <= Len(prerequisites[f.target])
      /\ f.postponed \subseteq 1 .. (f.next - 1) /\ (current_mode = "first" => f.postponed = {})
  BY <1>1, FrameTypes, Ordered DEF Sound, InRange
<1>5. InRange(g)
  <2>1. \A i \in 1 .. (f.next - 1) : i \in 1 .. (g.next - 1)
    BY <1>3, <1>4
  <2>2. g.next >= 1 /\ g.next <= Len(prerequisites[f.target]) + 1
    BY <1>3, <1>4
  <2> QED
    BY <1>3, <1>4, <2>1, <2>2 DEF InRange
<1>6. Stepwise(g)
  BY <1>3 DEF Sound, Stepwise
<1>7. Tried(g)
  <2>1. ASSUME NEW i \in 1 .. (g.next - 1) PROVE i \in g.postponed \/ task_count[InOrder(g.target)[i]] >= count_executed
    <3>1. i = f.next \/ i \in 1 .. (f.next - 1)
      BY <1>3, <1>4
    <3>2. ~f.bad
      BY DEF Sound, Stepwise
    <3> QED
      BY <1>3, <3>1, <3>2 DEF Sound, Tried, Open, Prerequisite
  <2> QED
    BY <1>3, <2>1 DEF Tried
<1>8. Seen(g)
  BY <1>3 DEF Seen
<1> QED
  BY <1>2, <1>5, <1>6, <1>7, <1>8 DEF Sound

LEMMA ExecutedKeeps ==
    ASSUME IndInv, NEW u \in Threads, ExecuteBusy(u) \/ ExecuteExecuted(u)
    PROVE  IndInv' /\ Kept
<1>1. Types /\ Busy(u) /\ Top(u).step \in {"try", "result"} /\ Still
  BY DEF IndInv, StructInv, ExecuteBusy, ExecuteExecuted, At, Still, counts
<1>2. PICK c \in Calls : Innermost(u, c) /\ Frame(c) = Top(u) /\ Frame(c) \in Frames /\ Sound(Frame(c))
  BY <1>1, TopFrame
<1>3. PICK f : f = Frame(c)
  OBVIOUS
<1>4. f \in Frames /\ f = Top(u) /\ Sound(f) /\ f.step \in {"try", "result"} /\ f.next >= 1 /\ More(f)
  BY <1>1, <1>2, <1>3 DEF Sound, InRange, More
<1>5. Prerequisite(f) \in Targets
  BY <1>1, <1>4, FrameMore
<1>6. task_count[Prerequisite(f)] >= count_executed
  <2>1. task_count[Prerequisite(f)] \in Nat
    BY <1>1, <1>5, Constants DEF Types
  <2>2. \/ f.step = "result" \/ task_count[Prerequisite(f)] >= count_busy
        \/ task_count[Prerequisite(f)] = count_executed
    BY <1>4 DEF ExecuteBusy, ExecuteExecuted, At
  <2> QED
    BY <1>4, <2>1, <2>2 DEF Sound, Tried, count_busy, count_executed
<1>7. Kept
  BY <1>1, StillKept
<1>8. CASE stack' = Moved(u, NextOne(f))
  <2>1. PICK g : g = NextOne(f)
    OBVIOUS
  <2>2. g \in Frames /\ g.target = f.target /\ g.parent = f.parent /\ g.step = "start" /\ Sound(g) /\ stack' = Moved(u, g)
    BY <1>4, <1>6, <1>7, <1>8, <2>1, NextParts, NextSound
  <2> QED
    BY <1>1, <1>2, <1>3, <1>4, <2>2, MoveTop DEF Open
<1>9. CASE stack' # Moved(u, NextOne(f))
  <2>1. PICK g : g = Looked(f)
    OBVIOUS
  <2>2. stack' = Moved(u, g)
    BY <1>4, <1>9, <2>1 DEF ExecuteBusy, ExecuteExecuted
  <2>3. f.target \notin Members /\ (IF f.target = Root THEN g = Await(f) ELSE g = Thrown(f))
    BY <1>9, <2>1, <2>2 DEF Looked
  <2>4. CASE f.target = Root
    <3>1. /\ g \in Frames /\ g.target = f.target /\ g.parent = f.parent /\ g.step \in {"wait", "finish", "end"}
          /\ g = GoTo(f, "wait") \/ g = Waited(f)
          /\ g.step \notin Open => task_count[f.target] <= StartCount(f.target)
      BY <1>1, <1>4, <2>3, <2>4, AwaitParts
    <3>2. Sound(g)
      <4>1. f.step \in Open
        BY <1>4 DEF Open
      <4>2. Sound(Waited(f)) /\ Sound(GoTo(f, "wait"))
        BY <1>1, <1>4, <2>4, <4>1, AwaitSound
      <4> QED
        BY <3>1, <4>2
    <3> QED
      BY <1>1, <1>2, <1>3, <1>4, <2>2, <3>1, <3>2, MoveTop
  <2>5. CASE f.target # Root
    <3>1. PICK h : h = [f EXCEPT !.bad = TRUE]
      OBVIOUS
    <3>2. /\ h \in Frames /\ h.target = f.target /\ h.parent = f.parent /\ h.next = f.next
          /\ h.bad /\ h.postponed = f.postponed
      BY <1>4, <3>1, BadParts
    <3>3. g = Await(h)
      BY <2>3, <2>5, <3>1 DEF Thrown
    <3>4. /\ g \in Frames /\ g.target = f.target /\ g.parent = f.parent /\ g.step \in {"wait", "end"}
          /\ g.bad /\ g.postponed = f.postponed /\ g.next = f.next
          /\ g.step \notin Open => task_count[f.target] <= StartCount(f.target)
      BY <1>1, <3>2, <3>3, AwaitParts
    <3>5. Sound(g)
      BY <1>1, <1>4, <2>3, <2>5, <3>4, BadSound
    <3> QED
      BY <1>1, <1>2, <1>3, <1>4, <2>2, <3>4, <3>5, MoveTop
  <2> QED
    BY <2>4, <2>5
<1> QED
  BY <1>8, <1>9

LEMMA AllKeeps ==
    ASSUME IndInv, NEW u \in Threads, ExecuteAll(u)
    PROVE  IndInv' /\ Kept
<1>1. Types /\ Busy(u) /\ Top(u).step = "start" /\ ~More(Top(u)) /\ Still
  BY DEF IndInv, StructInv, ExecuteAll, At, Still, counts
<1>2. PICK c \in Calls : Innermost(u, c) /\ Frame(c) = Top(u) /\ Frame(c) \in Frames /\ Sound(Frame(c))
  BY <1>1, TopFrame
<1>3. PICK f : f = Frame(c)
  OBVIOUS
<1>4. f \in Frames /\ f = Top(u) /\ Sound(f) /\ f.step = "start" /\ ~More(f) /\ f.step \in Open
  BY <1>1, <1>2, <1>3 DEF Open
<1>5. f.next = Len(prerequisites[f.target]) + 1
  <2>1. f.target \in Nodes /\ f.next \in Nat /\ Len(prerequisites[f.target]) \in Nat
    BY <1>1, <1>4, FrameTypes, Ordered
  <2> QED
    BY <1>4, <2>1 DEF Sound, InRange, More
<1>6. PICK g : g = Await(f)
  OBVIOUS
<1>7. /\ g \in Frames /\ g.target = f.target /\ g.parent = f.parent /\ g.step \in {"wait", "finish", "end"}
      /\ g = GoTo(f, "wait") \/ g = Waited(f)
      /\ g.step \notin Open => task_count[f.target] <= StartCount(f.target)
  BY <1>1, <1>4, <1>6, AwaitParts
<1>8. Sound(g)
  BY <1>1, <1>4, <1>5, <1>7, AwaitSound
<1>9. stack' = Moved(u, g)
  BY <1>4, <1>6 DEF ExecuteAll
<1> QED
  BY <1>1, <1>2, <1>3, <1>4, <1>7, <1>8, <1>9, MoveTop

LEMMA WaitDoneKeeps ==
    ASSUME IndInv, NEW u \in Threads, WaitDone(u)
    PROVE  IndInv' /\ Kept
<1>1. Types /\ Busy(u) /\ Top(u).step = "wait" /\ task_count[Top(u).target] <= StartCount(Top(u).target) /\ Still
  BY DEF IndInv, StructInv, WaitDone, At, Still, counts
<1>2. PICK c \in Calls : Innermost(u, c) /\ Frame(c) = Top(u) /\ Frame(c) \in Frames /\ Sound(Frame(c))
  BY <1>1, TopFrame
<1>3. PICK f : f = Frame(c)
  OBVIOUS
<1>4. /\ f \in Frames /\ f = Top(u) /\ Sound(f) /\ f.step = "wait" /\ f.step \in Open
      /\ task_count[f.target] <= StartCount(f.target)
  BY <1>1, <1>2, <1>3 DEF Open
<1>5. f.bad \/ f.target = Root \/ f.next = Len(prerequisites[f.target]) + 1
  BY <1>4 DEF Sound, InRange
<1>6. PICK g : g = Waited(f)
  OBVIOUS
<1>7. g \in Frames /\ g.target = f.target /\ g.parent = f.parent /\ g.step \in {"finish", "end"}
  BY <1>4, <1>6, WaitedParts
<1>8. Sound(g)
  BY <1>1, <1>4, <1>5, <1>6, AwaitSound
<1>9. stack' = Moved(u, g)
  BY <1>4, <1>6 DEF WaitDone
<1> QED
  BY <1>1, <1>2, <1>3, <1>4, <1>7, <1>8, <1>9, MoveTop

LEMMA FinishKeeps ==
    ASSUME IndInv, NEW u \in Threads, FinishOne(u) \/ FinishPostponed(u)
    PROVE  IndInv' /\ Kept
<1>1. Types /\ Busy(u) /\ Top(u).step = "finish" /\ More(Top(u)) /\ Still
  BY DEF IndInv, StructInv, FinishOne, FinishPostponed, At, Still, counts
<1>2. PICK c \in Calls : Innermost(u, c) /\ Frame(c) = Top(u) /\ Frame(c) \in Frames /\ Sound(Frame(c))
  BY <1>1, TopFrame
<1>3. PICK f : f = Frame(c)
  OBVIOUS
<1>4. /\ f \in Frames /\ f = Top(u) /\ Sound(f) /\ f.step = "finish" /\ f.target \in Nodes /\ f.next \in Nat
      /\ f.next >= 1 /\ More(f) /\ Len(prerequisites[f.target]) \in Nat /\ f.next <= Len(prerequisites[f.target])
      /\ ~f.bad /\ f.target # Root /\ f.changed \in BOOLEAN
  BY <1>1, <1>2, <1>3, FrameTypes, Ordered DEF Sound, InRange, Stepwise, More
<1>5. PICK p : p = Prerequisite(f)
  OBVIOUS
<1>6. p \in Targets /\ p = InOrder(f.target)[f.next] /\ f.next \in 1 .. Len(prerequisites[f.target])
  BY <1>1, <1>4, <1>5, FrameMore
<1>7. ASSUME FinishOne(u) PROVE Executed(p) /\ f.next \notin f.postponed
  <2>1. f.next \notin f.postponed /\ task_count[p] <= count_executed
    BY <1>4, <1>5, <1>7 DEF FinishOne, Settled
  <2>2. task_count[p] >= count_executed
    BY <1>4, <1>6, <2>1 DEF Sound, Tried
  <2>3. task_count[p] \in Nat
    BY <1>1, <1>6, Constants DEF Types
  <2> QED
    BY <2>1, <2>2, <2>3 DEF Executed, count_executed
<1>8. CASE FinishOne(u) /\ ExecutedState(p) = "failed" /\ f.target \notin Members
  <2>1. PICK g : g = Failed(f)
    OBVIOUS
  <2>2. /\ g \in Frames /\ g.target = f.target /\ g.parent = f.parent /\ g.step = "end" /\ g.next = f.next
        /\ g.bad /\ g.postponed = f.postponed
    BY <1>4, <2>1, FailedParts
  <2>3. Sound(g)
    BY <1>1, <1>4, <1>8, <2>2, BadSound
  <2>4. stack' = Moved(u, g)
    BY <1>4, <1>5, <1>8, <2>1 DEF FinishOne
  <2> QED
    BY <1>1, <1>2, <1>3, <1>4, <2>2, <2>3, <2>4, MoveTop DEF Open
<1>9. CASE ~(FinishOne(u) /\ ExecutedState(p) = "failed" /\ f.target \notin Members)
  <2>1. PICK x \in BOOLEAN : x = IF FinishOne(u) THEN f.changed \/ ExecutedState(p) = "changed" ELSE f.changed
    BY <1>4
  <2>2. PICK n \in Nat : n = f.next + 1
    BY <1>4
  <2>3. PICK g : g = [f EXCEPT !.next = n, !.changed = x]
    OBVIOUS
  <2>4. /\ g \in Frames /\ g.target = f.target /\ g.parent = f.parent /\ g.step = "finish" /\ g.next = n
        /\ g.bad = f.bad /\ g.postponed = f.postponed /\ g.changed = x
    BY <1>4, <2>3 DEF Frames
  <2>5. stack' = Moved(u, g)
    <3>1. CASE FinishOne(u)
      <4>1. stack' = Moved(u, [f EXCEPT !.next = @ + 1, !.changed = @ \/ ExecutedState(p) = "changed"])
        BY <1>4, <1>5, <1>9, <3>1 DEF FinishOne
      <4>2. g = [f EXCEPT !.next = @ + 1, !.changed = @ \/ ExecutedState(p) = "changed"]
        BY <1>4, <2>1, <2>2, <2>3, <3>1 DEF Frames
      <4> QED
        BY <4>1, <4>2
    <3>2. CASE ~FinishOne(u)
      <4>1. stack' = Moved(u, [f EXCEPT !.next = @ + 1])
        BY <1>4, <3>2 DEF FinishPostponed
      <4>2. x = f.changed
        BY <2>1, <3>2
      <4>3. g = [f EXCEPT !.next = n, !.changed = f.changed]
        BY <2>3, <4>2
      <4>4. g = [f EXCEPT !.next = @ + 1]
        BY <1>4, <2>2, <4>3 DEF Frames
      <4> QED
        BY <4>1, <4>4
    <3> QED
      BY <3>1, <3>2
  <2>6. InRange(g)
    BY <1>4, <2>2, <2>4 DEF Sound, InRange
  <2>7. Stepwise(g)
    BY <1>4, <2>4 DEF Sound, Stepwise
  <2>8. Tried(g)
    BY <1>4, <2>4 DEF Sound, Tried, Open
  <2>9. Seen(g)
    <3> SUFFICES ASSUME NEW i \in 1 .. n - 1, i \notin f.postponed
                 PROVE  Passed(f.target, InOrder(f.target)[i], x)
      BY <2>4 DEF Seen
    <3>1. CASE i = f.next
      <4>1. FinishOne(u)
        BY <1>4, <3>1 DEF FinishPostponed
      <4>2. x = (f.changed \/ ExecutedState(p) = "changed")
        BY <2>1, <4>1
      <4> QED
        BY <1>6, <1>7, <1>9, <3>1, <4>1, <4>2 DEF Passed
    <3>2. CASE i # f.next
      <4>1. i \in 1 .. f.next - 1
        BY <1>4, <2>2, <3>2
      <4>2. Passed(f.target, InOrder(f.target)[i], f.changed)
        BY <1>4, <4>1 DEF Sound, Seen
      <4>3. f.changed => x
        BY <2>1
      <4> QED
        BY <4>2, <4>3 DEF Passed
    <3> QED
      BY <3>1, <3>2
  <2>10. Sound(g)
    BY <2>6, <2>7, <2>8, <2>9 DEF Sound
  <2> QED
    BY <1>1, <1>2, <1>3, <1>4, <2>4, <2>5, <2>10, MoveTop DEF Open
<1> QED
  BY <1>8, <1>9

LEMMA FinishAllKeeps ==
    ASSUME IndInv, NEW u \in Threads, FinishAll(u)
    PROVE  IndInv' /\ Kept
<1>1. Types /\ Busy(u) /\ Top(u).step = "finish" /\ ~More(Top(u)) /\ Still
  BY DEF IndInv, StructInv, FinishAll, At, Still, counts
<1>2. PICK c \in Calls : Innermost(u, c) /\ Frame(c) = Top(u) /\ Frame(c) \in Frames /\ Sound(Frame(c))
  BY <1>1, TopFrame
<1>3. PICK f : f = Frame(c)
  OBVIOUS
<1>4. /\ f \in Frames /\ f = Top(u) /\ Sound(f) /\ f.step = "finish" /\ f.target \in Nodes /\ f.next \in Nat
      /\ f.next >= 1 /\ ~More(f) /\ Len(prerequisites[f.target]) \in Nat /\ f.next = Len(prerequisites[f.target]) + 1
      /\ ~f.bad /\ f.target # Root
  <2>1. f \in Frames /\ f = Top(u) /\ Sound(f) /\ f.step = "finish" /\ ~More(f)
    BY <1>1, <1>2, <1>3
  <2>2. f.target \in Nodes /\ f.next \in Nat /\ Len(prerequisites[f.target]) \in Nat
    BY <1>1, <2>1, FrameTypes, Ordered
  <2> QED
    BY <2>1, <2>2 DEF Sound, InRange, Stepwise, More
<1>5. PICK s : s = IF FirstStep(f.target) = "start" /\ f.target \notin Members THEN "work" ELSE "end"
  OBVIOUS
<1>6. s \in {"work", "end"} /\ (s = "work" => current_mode = "first" /\ f.target \notin Members)
      /\ (s = "end" => f.target \in Members \/ current_mode = "last")
  <2>1. current_mode \in {"first", "last"}
    BY <1>1, ExecuteAssumption DEF Types
  <2> QED
    BY <1>5, <2>1 DEF FirstStep
<1>7. PICK g : g = GoTo(f, s)
  OBVIOUS
<1>8. /\ g \in Frames /\ g.target = f.target /\ g.parent = f.parent /\ g.step = s /\ g.next = f.next
      /\ g.bad = f.bad /\ g.changed = f.changed /\ g.postponed = f.postponed
  BY <1>4, <1>6, <1>7, GoToParts DEF Steps
<1>9. stack' = Moved(u, g)
  BY <1>4, <1>5, <1>7 DEF FinishAll
<1>10. InRange(g)
  BY <1>4, <1>6, <1>8 DEF Sound, InRange
<1>11. Stepwise(g)
  BY <1>4, <1>6, <1>8 DEF Sound, Stepwise
<1>12. Tried(g)
  BY <1>6, <1>8 DEF Tried, Open
<1>13. Seen(g)
  <2>1. f.next - 1 = Len(prerequisites[f.target])
    BY <1>4
  <2> QED
    BY <1>4, <1>6, <1>8, <2>1 DEF Sound, Seen
<1>14. Sound(g)
  BY <1>10, <1>11, <1>12, <1>13 DEF Sound
<1> QED
  BY <1>1, <1>2, <1>3, <1>4, <1>6, <1>8, <1>9, <1>14, MoveTop DEF Open

\* The work is the one step that changes the files.
LEMMA WorkKeeps ==
    ASSUME IndInv, NEW u \in Threads, Work(u)
    PROVE  IndInv' /\ Kept
<1>1. /\ StructInv /\ Types /\ FramesInv /\ StatesInv /\ PrerequisitesDone /\ UpdatedInOrder
      /\ Busy(u) /\ Top(u).step = "work" /\ stack \in [Threads -> Seq(Frames)]
  BY DEF IndInv, StructInv, Types, Work, At
<1>2. PICK c \in Calls :
         /\ Innermost(u, c) /\ Frame(c) = Top(u) /\ Frame(c) \in Frames /\ Sound(Frame(c))
         /\ \A d \in Calls : Below(d) # c
         /\ Top(u).target = Root \/ (Top(u).target \in Targets /\ task_count[Top(u).target] >= count_busy)
  BY <1>1, TopFrame
<1>3. PICK f : f = Frame(c)
  OBVIOUS
<1>4. /\ f \in Frames /\ f = Top(u) /\ Sound(f) /\ f.step = "work" /\ f.target \in Targets /\ f.target \in Nodes
      /\ task_count[f.target] >= count_busy /\ ~f.bad /\ f.target # Root /\ f.target \notin Members
      /\ f.target \notin Noop /\ f.next \in Nat /\ Len(prerequisites[f.target]) \in Nat
  BY <1>1, <1>2, <1>3, FrameTypes, Ordered, Constants DEF Sound, Stepwise
<1>5. current_mode \in {"first", "last"} /\ task_count[f.target] \in Nat
  BY <1>1, <1>4, ExecuteAssumption DEF Types
<1>6. /\ prerequisites' = prerequisites /\ current_mode' = current_mode /\ keep_going' = keep_going
      /\ task_count' = task_count /\ state' = state /\ queued' = queued /\ result' = result
  BY DEF Work, fixed, counts
<1>7. CASE worked' = worked /\ stack' = Moved(u, Failed(f))
  <2>1. Still
    BY <1>7 DEF Work, Still, counts
  <2>2. PICK g : g = Failed(f)
    OBVIOUS
  <2>3. /\ g \in Frames /\ g.target = f.target /\ g.parent = f.parent /\ g.step = "end" /\ g.next = f.next
        /\ g.bad /\ g.postponed = f.postponed
    BY <1>4, <2>2, FailedParts
  <2>4. Sound(g)
    BY <1>1, <1>4, <2>3, BadSound
  <2> QED
    BY <1>2, <1>3, <1>4, <1>7, <2>1, <2>2, <2>3, <2>4, MoveTop DEF Open
<1>8. ASSUME NEW x \in BOOLEAN, f.changed => x, worked' = worked \cup {f.target},
             stack' = Moved(u, [f EXCEPT !.step = AfterWork, !.changed = x])
      PROVE  IndInv' /\ Kept
  <2>1. PICK s : s = AfterWork
    OBVIOUS
  <2>2. s = IF current_mode = "first" THEN "end" ELSE "start"
    BY <2>1 DEF AfterWork
  <2>3. PICK g : g = [f EXCEPT !.step = s, !.changed = x]
    OBVIOUS
  <2>4. /\ g \in Frames /\ g.target = f.target /\ g.parent = f.parent /\ g.step = s /\ g.next = f.next
        /\ g.bad = f.bad /\ g.postponed = f.postponed /\ g.changed = x
    BY <1>4, <2>2, <2>3 DEF Frames, Steps
  <2>5. stack' = Moved(u, g)
    BY <1>8, <2>1, <2>3
  <2>6. /\ stack' \in [Threads -> Seq(Frames)] /\ Calls' = Calls
        /\ Frame(c)' = g /\ \A d \in Calls : d # c => Frame(d)' = Frame(d)
    BY <1>1, <1>2, <2>4, <2>5, MovedStack
  <2>7. Kept /\ OtherTypes /\ \A n : InOrder(n)' = InOrder(n) /\ PrerequisitesOf(n)' = PrerequisitesOf(n)
    <3>1. Kept
      BY <1>6, <1>8 DEF Kept, Executed, count_executed
    <3>2. OtherTypes
      BY <1>1, <1>4, <1>6, <1>8 DEF OtherTypes, Types
    <3> QED
      BY <3>1, <3>2, SameOrder
  <2>8. StructInv'
    <3>1. /\ Frame(c).step \notin Open /\ Frame(c).step # "match" /\ Frame(c).step # "done"
          /\ Frame(c)'.target = Frame(c).target /\ Frame(c)'.parent = Frame(c).parent /\ Frame(c)'.step # "done"
      BY <1>3, <1>4, <2>2, <2>4, <2>6 DEF Open
    <3> QED
      BY <1>1, <1>2, <1>6, <2>6, <2>7, <3>1, MoveStruct
  <2>9. InRange(g)
    BY <1>4, <1>5, <2>2, <2>4 DEF Sound, InRange
  <2>10. Stepwise(Frame(c))'
    BY <1>4, <1>6, <1>8, <2>2, <2>4, <2>6 DEF Sound, Stepwise
  <2>11. Tried(g)
    <3>1. CASE current_mode = "first"
      BY <2>2, <2>4, <3>1 DEF Tried, Open
    <3>2. CASE current_mode # "first"
      <4>1. g.next = 1 /\ g.step = "start"
        BY <1>4, <1>5, <2>2, <2>4, <3>2 DEF Sound, InRange
      <4> QED
        BY <4>1 DEF Tried
    <3> QED
      BY <3>1, <3>2
  <2>12. Seen(g)
    <3>1. CASE current_mode = "first"
      <4> SUFFICES ASSUME NEW i \in 1 .. Len(prerequisites[f.target]), i \notin f.postponed
                   PROVE  Passed(f.target, InOrder(f.target)[i], x)
        BY <2>2, <2>4, <3>1 DEF Seen
      <4>1. Passed(f.target, InOrder(f.target)[i], f.changed)
        BY <1>4, <3>1 DEF Sound, Seen
      <4> QED
        BY <1>8, <4>1 DEF Passed
    <3>2. CASE current_mode # "first"
      BY <2>2, <2>4, <3>2 DEF Seen
    <3> QED
      BY <3>1, <3>2
  <2>13. Sound(Frame(c))'
    <3>1. InRange(Frame(c))' /\ Tried(Frame(c))'
      BY <1>6, <2>6, <2>7, <2>9, <2>11 DEF InRange, Tried, Prerequisite, count_executed
    <3>2. Seen(Frame(c))'
      <4>1. \A i : Passed(g.target, InOrder(g.target)[i], g.changed)' <=> Passed(g.target, InOrder(g.target)[i], g.changed)
        BY <1>6, <2>7 DEF Passed, Executed, ExecutedState, count_executed, InOrder
      <4> QED
        BY <1>6, <2>6, <2>7, <2>12, <4>1 DEF Seen
    <3> QED
      BY <2>10, <3>1, <3>2 DEF Sound
  <2>14. FramesInv'
    BY <1>1, <1>6, <2>6, <2>7, <2>13, FramesStay
  <2>15. \A t : (Executed(t)' <=> Executed(t)) /\ ExecutedState(t)' = ExecutedState(t)
    BY <1>6 DEF Executed, ExecutedState, count_executed
  <2>16. StatesInv'
    <3> SUFFICES ASSUME NEW t \in Targets
                 PROVE  /\ ~Executed(t) => state[t] = IF t \in Noop THEN "unchanged" ELSE "unknown"
                        /\ Executed(t) => state[t] # "unknown"
                        /\ t \in Members => state[t] \in {"unknown", "unchanged", "group"}
                        /\ t \in Members /\ state[t] = "group" => Executed(prerequisites[t][1])
                        /\ t \in Noop => state[t] = "unchanged"
                        /\ t \in worked' => task_count[t] >= count_executed /\ t \notin Noop \cup Members
                        /\ Executed(t) /\ state[t] # "failed" /\ t \notin Noop \cup Members => t \in worked'
      BY <1>6, <2>15 DEF StatesInv, count_executed, Executed
    <3>1. task_count[f.target] >= count_executed
      BY <1>4, <1>5 DEF count_busy, count_executed
    <3> QED
      BY <1>1, <1>4, <1>8, <3>1 DEF StatesInv
  <2>17. PrerequisitesDone'
    BY <1>1, <1>6, <2>7, <2>15 DEF PrerequisitesDone, Passed
  <2>18. UpdatedInOrder'
    <3>1. ASSUME current_mode = "first", NEW p \in PrerequisitesOf(f.target)
          PROVE  Executed(p) /\ ExecutedState(p) # "failed"
      <4>1. PICK i \in 1 .. Len(prerequisites[f.target]) : p = InOrder(f.target)[i]
        BY <1>1, <1>4, <3>1, Ordered
      <4>2. i \notin f.postponed
        BY <1>4, <3>1 DEF Sound, InRange
      <4> QED
        BY <1>4, <3>1, <4>1, <4>2 DEF Sound, Seen, Passed
    <3> QED
      BY <1>1, <1>6, <1>8, <2>7, <2>15, <3>1 DEF UpdatedInOrder
  <2> QED
    BY <2>7, <2>8, <2>14, <2>16, <2>17, <2>18 DEF IndInv
<1> QED
  <2>1. \/ /\ stack' = Moved(u, [f EXCEPT !.step = AfterWork, !.changed = TRUE])
           /\ worked' = worked \cup {f.target}
        \/ /\ ~f.changed
           /\ stack' = Moved(u, [f EXCEPT !.step = AfterWork, !.changed = FALSE])
           /\ worked' = worked \cup {f.target}
        \/ stack' = Moved(u, Failed(f)) /\ worked' = worked
    BY <1>4 DEF Work, UpToDate
  <2> QED
    BY <1>7, <1>8, <2>1

(***************************************************************************)
(* The steps that execute a target.                                        *)
(***************************************************************************)

\* A target a is executed: what has to hold of it.
LEMMA OneExecuted ==
    ASSUME Types, StatesInv, PrerequisitesDone, UpdatedInOrder, NEW a \in Targets, ~Executed(a),
           prerequisites' = prerequisites, current_mode' = current_mode, keep_going' = keep_going, worked' = worked,
           task_count' = [task_count EXCEPT ![a] = count_executed],
           \A t \in Targets : t # a => state'[t] = state[t],
           state'[a] # "unknown", a \in Members => state'[a] \in {"unchanged", "group"},
           a \in Members /\ state'[a] = "group" => Executed(prerequisites[a][1]),
           a \in Noop => state'[a] = "unchanged",
           state'[a] # "failed" /\ a \notin Noop \cup Members => a \in worked,
           current_mode = "first" /\ state'[a] # "failed" =>
               /\ a \in Members => state'[a] = "group"
               /\ \A p \in PrerequisitesOf(a) : Passed(a, p, state'[a] = "changed")
    PROVE  Kept /\ StatesInv' /\ PrerequisitesDone' /\ UpdatedInOrder'
<1>1. task_count \in [Nodes -> Nat] /\ a \in Nodes
  BY Constants DEF Types
<1>2. Executed(a)' /\ \A t \in Targets : t # a => task_count'[t] = task_count[t] /\ (Executed(t)' <=> Executed(t))
  BY <1>1, Constants DEF Executed, count_executed
<1>3. Kept
  BY <1>2 DEF Kept, Executed, count_executed
<1>4. /\ \A t \in Members : prerequisites[t][1] \in Targets
      /\ \A t \in Targets : PrerequisitesOf(t) \subseteq Targets
      /\ \A n : PrerequisitesOf(n)' = PrerequisitesOf(n)
  BY <1>3, GroupOf, SameOrder, Ordered, Constants
<1>5. StatesInv'
  <2> SUFFICES ASSUME NEW t \in Targets
               PROVE  /\ ~Executed(t)' => state'[t] = IF t \in Noop THEN "unchanged" ELSE "unknown"
                      /\ Executed(t)' => state'[t] # "unknown"
                      /\ t \in Members => state'[t] \in {"unknown", "unchanged", "group"}
                      /\ t \in Members /\ state'[t] = "group" => Executed(prerequisites[t][1])'
                      /\ t \in Noop => state'[t] = "unchanged"
                      /\ t \in worked => task_count'[t] >= count_executed /\ t \notin Noop \cup Members
                      /\ Executed(t)' /\ state'[t] # "failed" /\ t \notin Noop \cup Members => t \in worked
    BY DEF StatesInv, Executed, count_executed
  <2>1. CASE t = a
    <3>1. a \in Members /\ state'[a] = "group" => Executed(prerequisites[a][1])'
      BY <1>3, <1>4 DEF Kept
    <3>2. task_count'[a] >= count_executed
      BY <1>2 DEF Executed, count_executed
    <3>3. a \in worked => a \notin Noop \cup Members
      BY DEF StatesInv
    <3> QED
      BY <1>2, <2>1, <3>1, <3>2, <3>3
  <2>2. CASE t # a
    <3>1. t \in Members /\ state[t] = "group" => Executed(prerequisites[t][1])'
      BY <1>3, <1>4 DEF Kept, StatesInv
    <3> QED
      BY <1>2, <2>2, <3>1 DEF StatesInv
  <2> QED
    BY <2>1, <2>2
<1>6. PrerequisitesDone'
  <2> SUFFICES ASSUME current_mode = "first", NEW t \in Targets, Executed(t)', state'[t] # "failed"
               PROVE  /\ t \in Members => state'[t] = "group"
                      /\ \A p \in PrerequisitesOf(t) : Passed(t, p, state[t] = "changed")'
    BY <1>4 DEF PrerequisitesDone
  <2>1. PICK x : x = (state'[t] = "changed")
    OBVIOUS
  <2>2. /\ t \in Members => state'[t] = "group"
        /\ \A p \in PrerequisitesOf(t) : Passed(t, p, x)
    <3>1. CASE t = a
      BY <2>1, <3>1
    <3>2. CASE t # a
      BY <1>2, <2>1, <3>2 DEF PrerequisitesDone
    <3> QED
      BY <3>1, <3>2
  <2>3. \A p \in PrerequisitesOf(t) : Passed(t, p, x)'
    BY <1>3, <1>4, <2>2, PassedStays
  <2> QED
    BY <2>1, <2>2, <2>3 DEF Passed
<1>7. UpdatedInOrder'
  <2>1. \A t \in worked : t \in Targets
    BY DEF Types
  <2> QED
    BY <1>3, <1>4, <2>1, FinalState DEF UpdatedInOrder
<1> QED
  BY <1>3, <1>5, <1>6, <1>7

\* So is one with the noop recipe.
LEMMA NoopExecuted ==
    ASSUME Types, StatesInv, PrerequisitesDone, UpdatedInOrder, NEW a \in Targets,
           task_count[a] = count_applied, state[a] = "unchanged",
           UNCHANGED <<fixed, state, worked>>, task_count' = [task_count EXCEPT ![a] = count_executed]
    PROVE  /\ Kept /\ StatesInv' /\ PrerequisitesDone' /\ UpdatedInOrder' /\ OtherTypes
           /\ task_count'[a] >= count_executed
<1>1. ~Executed(a)
  BY DEF Executed, count_applied, count_executed
<1>2. a \in Noop /\ a \notin Members
  BY <1>1, Constants DEF StatesInv
<1>3. PrerequisitesOf(a) = {}
  <2>1. prerequisites \in Graphs
    BY DEF Types
  <2>2. prerequisites[a] = <<>>
    BY <1>2, <2>1, ExecuteAssumption
  <2> QED
    BY <2>2 DEF PrerequisitesOf
<1>4. prerequisites' = prerequisites /\ current_mode' = current_mode /\ keep_going' = keep_going
  BY DEF fixed
<1>5. OtherTypes
  BY <1>4 DEF OtherTypes, Types
<1>6. task_count'[a] >= count_executed
  BY Constants DEF Types, count_executed
<1> QED
  BY <1>1, <1>2, <1>3, <1>4, <1>5, <1>6, OneExecuted

LEMMA NoopKeeps ==
    ASSUME IndInv, NEW u \in Threads, ExecuteNoop(u)
    PROVE  IndInv' /\ Kept
<1>1. /\ StructInv /\ Types /\ FramesInv /\ StatesInv /\ PrerequisitesDone /\ UpdatedInOrder
      /\ Busy(u) /\ Top(u).step = "try" /\ stack \in [Threads -> Seq(Frames)]
  BY DEF IndInv, StructInv, Types, ExecuteNoop, Trying, At
<1>2. PICK c \in Calls :
         /\ Innermost(u, c) /\ Frame(c) = Top(u) /\ Frame(c) \in Frames /\ Sound(Frame(c))
         /\ \A d \in Calls : Below(d) # c
  BY <1>1, TopFrame
<1>3. PICK f : f = Frame(c)
  OBVIOUS
<1>4. f \in Frames /\ f = Top(u) /\ Sound(f) /\ f.step = "try" /\ f.next >= 1 /\ More(f)
  BY <1>1, <1>2, <1>3 DEF Sound, InRange, More
<1>5. PICK a : a = Prerequisite(f)
  OBVIOUS
<1>6. a \in Targets
  BY <1>1, <1>4, <1>5, FrameMore
<1>7. /\ task_count[a] = count_applied /\ state[a] = "unchanged" /\ UNCHANGED <<fixed, state, worked>>
      /\ task_count' = [task_count EXCEPT ![a] = count_executed] /\ queued' = queued /\ result' = result
  BY <1>4, <1>5 DEF ExecuteNoop, Trying, MayExecute
<1>8. /\ Kept /\ StatesInv' /\ PrerequisitesDone' /\ UpdatedInOrder' /\ OtherTypes
      /\ task_count'[a] >= count_executed
  BY <1>1, <1>6, <1>7, NoopExecuted
<1>9. PICK g : g = NextOne(f)
  OBVIOUS
<1>10. g \in Frames /\ g.target = f.target /\ g.parent = f.parent /\ g.step = "start"
  BY <1>4, <1>9, NextParts
<1>11. stack' = Moved(u, g)
  BY <1>4, <1>9 DEF ExecuteNoop
<1>12. /\ stack' \in [Threads -> Seq(Frames)] /\ Calls' = Calls
       /\ Frame(c)' = g /\ \A d \in Calls : d # c => Frame(d)' = Frame(d)
  BY <1>1, <1>2, <1>10, <1>11, MovedStack
<1>13. StructInv'
  <2>1. /\ Frame(c).step # "match" /\ Frame(c).step # "done" /\ Frame(c)'.target = Frame(c).target
        /\ Frame(c)'.parent = Frame(c).parent /\ Frame(c)'.step # "done" /\ Frame(c)'.step \in Open
    BY <1>3, <1>4, <1>10, <1>12 DEF Open
  <2> QED
    BY <1>1, <1>2, <1>6, <1>7, <1>8, <1>12, <2>1, MoveStruct
<1>14. Sound(Frame(c))'
  BY <1>1, <1>4, <1>5, <1>8, <1>9, <1>10, <1>12, TriedSound
<1>15. FramesInv'
  BY <1>1, <1>7, <1>8, <1>12, <1>14, FramesStay
<1> QED
  BY <1>8, <1>13, <1>15 DEF IndInv

\* A target becomes busy: nothing is executed yet.
LEMMA BusyKept ==
    ASSUME Types, UNCHANGED <<fixed, state, worked>>, NEW a \in Targets, task_count[a] = count_applied,
           task_count'[a] = count_busy, \A t \in Targets : t # a => task_count'[t] >= task_count[t]
                                                                 /\ (task_count'[t] # task_count[t] => task_count[t] >= count_busy),
           \A t \in Targets : task_count'[t] \in Nat
    PROVE  Kept /\ OtherTypes /\ \A t \in Targets : Executed(t)' => Executed(t)
<1>1. prerequisites' = prerequisites /\ current_mode' = current_mode /\ keep_going' = keep_going
  BY DEF fixed
<1>2. OtherTypes
  BY <1>1 DEF OtherTypes, Types
<1>3. ASSUME NEW t \in Targets
      PROVE  /\ task_count[t] >= count_executed => task_count'[t] >= count_executed
             /\ Executed(t)' <=> Executed(t)
  <2>1. task_count[t] \in Nat /\ task_count'[t] \in Nat
    BY Constants DEF Types
  <2>2. CASE t = a
    BY <2>1, <2>2 DEF Executed, count_executed, count_busy, count_applied
  <2>3. CASE t # a
    BY <2>1, <2>3 DEF Executed, count_executed, count_busy
  <2> QED
    BY <2>2, <2>3
<1>4. Kept
  BY <1>1, <1>3 DEF Kept, count_executed
<1> QED
  BY <1>2, <1>3, <1>4

LEMMA NotNoop ==
    ASSUME Types, StatesInv, NEW a \in Targets, state[a] # "unchanged"
    PROVE  a \notin Noop
BY DEF StatesInv

LEMMA QueuedKeeps ==
    ASSUME IndInv, NEW u \in Threads, ExecuteQueued(u)
    PROVE  IndInv' /\ Kept
<1>1. /\ StructInv /\ Types /\ FramesInv /\ StatesInv /\ PrerequisitesDone /\ UpdatedInOrder
      /\ Busy(u) /\ Top(u).step = "try" /\ stack \in [Threads -> Seq(Frames)]
  BY DEF IndInv, StructInv, Types, ExecuteQueued, Trying, At
<1>2. PICK c \in Calls :
         /\ Innermost(u, c) /\ Frame(c) = Top(u) /\ Frame(c) \in Frames /\ Sound(Frame(c))
         /\ Top(u).target = Root \/ (Top(u).target \in Targets /\ task_count[Top(u).target] >= count_busy)
  BY <1>1, TopFrame
<1>3. PICK f : f = Frame(c)
  OBVIOUS
<1>4. /\ f \in Frames /\ f = Top(u) /\ Sound(f) /\ f.step = "try" /\ f.next >= 1 /\ More(f) /\ f.target \in Nodes
      /\ f.target = Root \/ (f.target \in Targets /\ task_count[f.target] >= count_busy)
  BY <1>1, <1>2, <1>3, FrameTypes DEF Sound, InRange, More
<1>5. PICK a : a = Prerequisite(f)
  OBVIOUS
<1>6. a \in Targets /\ a \in PrerequisitesOf(f.target)
  BY <1>1, <1>4, <1>5, FrameMore
<1>7. PICK n : n = f.target
  OBVIOUS
<1>8. PICK task : task = [target |-> a, parent |-> n, owner |-> u]
  OBVIOUS
<1>9. task \in Tasks /\ task.target = a /\ task.parent = n
  BY <1>4, <1>6, <1>7, <1>8 DEF Tasks
<1>10. PICK g : g = NextOne(f)
  OBVIOUS
<1>11. g \in Frames /\ g.target = f.target /\ g.parent = f.parent /\ g.step = "start"
  BY <1>4, <1>10, NextParts
<1>12. /\ task_count[a] = count_applied /\ state[a] # "unchanged" /\ UNCHANGED <<fixed, state, worked>>
       /\ task_count' = [task_count EXCEPT ![a] = count_busy, ![n] = @ + 1]
       /\ queued' = queued \cup {task} /\ result' = result /\ stack' = Moved(u, g)
  BY <1>4, <1>5, <1>7, <1>8, <1>10 DEF ExecuteQueued, Trying, MayExecute
<1>13. a # n /\ task_count[n] \in Nat /\ a \in Nodes /\ n \in Nodes /\ task_count \in [Nodes -> Nat]
  <2>1. task_count[n] \in Nat /\ a \in Nodes /\ n \in Nodes /\ a # Root /\ task_count \in [Nodes -> Nat]
    BY <1>1, <1>4, <1>6, <1>7, Constants DEF Types
  <2> QED
    BY <1>4, <1>7, <1>12, <2>1 DEF count_applied, count_busy
<1>14. /\ task_count'[a] = count_busy /\ task_count'[n] = task_count[n] + 1
       /\ \A t \in Nodes : t # a /\ t # n => task_count'[t] = task_count[t]
  BY <1>12, <1>13
<1>15. Kept /\ OtherTypes /\ \A t \in Targets : Executed(t)' => Executed(t)
  <2>1. ASSUME NEW t \in Targets, t # a
        PROVE  /\ task_count'[t] >= task_count[t] /\ (task_count'[t] # task_count[t] => task_count[t] >= count_busy)
               /\ task_count'[t] \in Nat
    <3>1. t \in Nodes /\ task_count[t] \in Nat /\ t # Root
      BY <1>13, Constants
    <3>2. CASE t = n
      BY <1>4, <1>7, <1>13, <1>14, <3>1, <3>2
    <3>3. CASE t # n
      BY <1>14, <2>1, <3>1, <3>3
    <3> QED
      BY <3>2, <3>3
  <2>2. task_count'[a] \in Nat
    BY <1>14 DEF count_busy
  <2> QED
    BY <1>1, <1>6, <1>12, <1>14, <2>1, <2>2, BusyKept
<1>16. StructInv'
  BY <1>1, <1>2, <1>3, <1>4, <1>6, <1>7, <1>9, <1>11, <1>12, <1>15, QueueStruct DEF Open
<1>17. /\ stack' \in [Threads -> Seq(Frames)] /\ Calls' = Calls
       /\ Frame(c)' = g /\ \A d \in Calls : d # c => Frame(d)' = Frame(d)
  BY <1>1, <1>2, <1>11, <1>12, MovedStack
<1>18. Sound(Frame(c))'
  <2>1. task_count'[Prerequisite(f)] >= count_executed
    BY <1>5, <1>14 DEF count_busy, count_executed
  <2> QED
    BY <1>1, <1>4, <1>10, <1>11, <1>15, <1>17, <2>1, TriedSound
<1>19. FramesInv'
  <2>1. a \notin Noop
    BY <1>1, <1>6, <1>12, NotNoop
  <2> QED
    BY <1>1, <1>9, <1>12, <1>15, <1>17, <1>18, <2>1, FramesStay
<1>20. StatesInv' /\ PrerequisitesDone' /\ UpdatedInOrder'
  BY <1>1, <1>12, <1>15, QuietStates
<1> QED
  BY <1>15, <1>16, <1>19, <1>20 DEF IndInv

\* A call that begins has established nothing.
LEMMA CallSound ==
    ASSUME Types, NEW t \in Targets, NEW n \in Nodes, t \notin Noop
    PROVE  Sound(Call(t, n)) /\ Call(t, n) \in Frames
<1>1. PICK g : g = Call(t, n)
  OBVIOUS
<1>2. /\ g \in Frames /\ g.target = t /\ g.parent = n /\ g.next = 1 /\ ~g.bad /\ ~g.changed
      /\ g.postponed = {} /\ g.step = FirstStep(t) /\ g.step \in {"work", "start"}
  BY <1>1, CallParts, Constants
<1>3. t \in Nodes /\ t # Root /\ Len(prerequisites[t]) \in Nat /\ current_mode \in {"first", "last"}
  <2>1. t \in Nodes /\ t # Root /\ current_mode \in {"first", "last"}
    BY Constants, ExecuteAssumption DEF Types
  <2> QED
    BY <2>1, Ordered
<1>4. InRange(g)
  BY <1>2, <1>3 DEF InRange
<1>5. Stepwise(g)
  BY <1>2, <1>3 DEF Stepwise, FirstStep
<1>6. Tried(g) /\ Seen(g)
  BY <1>2, <1>3 DEF Tried, Seen, FirstStep
<1> QED
  BY <1>1, <1>2, <1>4, <1>5, <1>6 DEF Sound

LEMMA SyncKeeps ==
    ASSUME IndInv, NEW u \in Threads, ExecuteSync(u)
    PROVE  IndInv' /\ Kept
<1>1. /\ StructInv /\ Types /\ FramesInv /\ StatesInv /\ PrerequisitesDone /\ UpdatedInOrder
      /\ Busy(u) /\ Top(u).step = "try" /\ stack \in [Threads -> Seq(Frames)]
  BY DEF IndInv, StructInv, Types, ExecuteSync, Trying, At
<1>2. PICK c \in Calls :
         /\ Innermost(u, c) /\ Frame(c) = Top(u) /\ Frame(c) \in Frames /\ Sound(Frame(c))
         /\ \A d \in Calls : Below(d) # c
  BY <1>1, TopFrame
<1>3. PICK f : f = Frame(c)
  OBVIOUS
<1>4. f \in Frames /\ f = Top(u) /\ Sound(f) /\ f.step = "try" /\ f.next >= 1 /\ More(f)
  BY <1>1, <1>2, <1>3 DEF Sound, InRange, More
<1>5. PICK a : a = Prerequisite(f)
  OBVIOUS
<1>6. a \in Targets /\ a \in PrerequisitesOf(f.target) /\ a \in Nodes
  BY <1>1, <1>4, <1>5, FrameMore, Constants
<1>7. PICK g : g = GoTo(f, "result")
  OBVIOUS
<1>8. g \in Frames /\ g.target = f.target /\ g.parent = f.parent /\ g.step = "result"
  BY <1>4, <1>7, GoToParts DEF Steps
<1>9. PICK h : h = Call(a, a)
  OBVIOUS
<1>10. /\ task_count[a] = count_applied /\ state[a] # "unchanged" /\ UNCHANGED <<fixed, state, worked>>
       /\ task_count' = [task_count EXCEPT ![a] = count_busy]
       /\ queued' = queued /\ result' = result /\ stack' = Called(u, g, h)
  BY <1>4, <1>5, <1>7, <1>9 DEF ExecuteSync, Trying, MayExecute
<1>11. a \notin Noop
  BY <1>1, <1>6, <1>10, NotNoop
<1>12. Sound(h) /\ h \in Frames
  BY <1>1, <1>6, <1>9, <1>11, CallSound
<1>13. PICK e : e = <<u, Len(stack[u]) + 1>>
  OBVIOUS
<1>14. /\ stack' \in [Threads -> Seq(Frames)] /\ e \notin Calls /\ Calls' = Calls \cup {e}
       /\ Frame(e)' = h /\ Frame(c)' = g /\ \A d \in Calls : d # c => Frame(d)' = Frame(d)
       /\ Below(e) = c /\ e[2] > 1
  BY <1>1, <1>2, <1>8, <1>10, <1>12, <1>13, CalledStack
<1>15. task_count'[a] = count_busy /\ \A t \in Targets : task_count'[t] \in Nat /\ (t # a => task_count'[t] = task_count[t])
  BY <1>1, <1>6, <1>10, Constants DEF Types, count_busy
<1>16. Kept /\ OtherTypes /\ \A t \in Targets : Executed(t)' => Executed(t)
  BY <1>1, <1>6, <1>10, <1>15, BusyKept
<1>17. StructInv'
  <2>1. e # <<Main, 1>>
    BY <1>14
  <2>2. /\ Frame(c)'.target = Frame(c).target /\ Frame(c)'.parent = Frame(c).parent /\ Frame(c).step \in Open
        /\ Frame(c)'.step \in Open /\ Frame(c)'.step = "result" /\ a \in PrerequisitesOf(Frame(c).target)
    BY <1>3, <1>4, <1>6, <1>8, <1>14 DEF Open
  <2>3. Frame(e)' = Call(a, a)
    BY <1>9, <1>14
  <2> QED
    BY <1>1, <1>2, <1>6, <1>10, <1>14, <1>16, <2>1, <2>2, <2>3, CallStruct
<1>18. Sound(Frame(c))'
  <2>1. task_count'[Prerequisite(f)] >= count_executed
    BY <1>5, <1>15 DEF count_busy, count_executed
  <2> QED
    BY <1>1, <1>4, <1>7, <1>8, <1>14, <1>16, <2>1, TriedSound
<1>19. Sound(Frame(e))'
  BY <1>1, <1>12, <1>14, <1>16, SoundStays
<1>20. FramesInv'
  <2>1. \A d \in Calls' : (d \in Calls /\ Frame(d)' = Frame(d)) \/ Sound(Frame(d))'
    BY <1>14, <1>18, <1>19
  <2> QED
    BY <1>1, <1>10, <1>16, <2>1, FramesStay
<1>21. StatesInv' /\ PrerequisitesDone' /\ UpdatedInOrder'
  BY <1>1, <1>10, <1>16, QuietStates
<1> QED
  BY <1>16, <1>17, <1>20, <1>21 DEF IndInv

\* A thread that is to make its first call is a helper.
LEMMA PushAt ==
    ASSUME Types, NEW u \in Threads, u \in Helpers \/ Busy(u), NEW e, e = <<u, Len(stack[u]) + 1>>
    PROVE  e # <<Main, 1>> /\ \A d \in Calls : Below(d) # e
<1>1. stack \in [Threads -> Seq(Frames)]
  BY DEF Types
<1>2. e[1] = u /\ e[2] = Len(stack[u]) + 1 /\ Len(stack[u]) \in Nat
  BY <1>1
<1>3. u \in Helpers => u # Main
  BY Constants
<1>4. Busy(u) => Len(stack[u]) >= 1
  BY <1>1 DEF Busy
<1>5. e # <<Main, 1>>
  BY <1>2, <1>3, <1>4
<1>6. ASSUME NEW d \in Calls PROVE Below(d) # e
  <2>1. d[2] \in 1 .. Len(stack[d[1]]) /\ d[1] \in Threads
    BY <1>1, InCalls
  <2> QED
    BY <1>1, <1>2, <2>1 DEF Below
<1> QED
  BY <1>5, <1>6

LEMMA DirectKeeps ==
    ASSUME IndInv, NEW u \in Threads, NEW a \in Early, ExecuteDirect(u, a)
    PROVE  IndInv' /\ Kept
<1>1. /\ StructInv /\ Types /\ FramesInv /\ StatesInv /\ PrerequisitesDone /\ UpdatedInOrder
      /\ Matching /\ stack \in [Threads -> Seq(Frames)] /\ task_count[a] = count_applied
      /\ (u \in Helpers \/ Busy(u)) /\ a \in Targets /\ a \in Nodes
  BY ExecuteAssumption, Constants DEF IndInv, StructInv, Types, ExecuteDirect, At
<1>2. UNCHANGED <<fixed, state, worked>> /\ queued' = queued /\ result' = result
  BY DEF ExecuteDirect
<1>3. PICK e : e = <<u, Len(stack[u]) + 1>>
  OBVIOUS
<1>4. e # <<Main, 1>> /\ \A d \in Calls : Below(d) # e
  BY <1>1, <1>3, PushAt DEF ExecuteDirect, At
<1>5. CASE state[a] = "unchanged"
  <2>1. task_count' = [task_count EXCEPT ![a] = count_executed] /\ stack' = stack
    BY <1>5 DEF ExecuteDirect
  <2>2. Kept /\ StatesInv' /\ PrerequisitesDone' /\ UpdatedInOrder' /\ OtherTypes
    BY <1>1, <1>2, <1>5, <2>1, NoopExecuted
  <2>3. Calls' = Calls /\ \A d \in Calls : Frame(d)' = Frame(d)
    BY <2>1 DEF Calls, Frame
  <2>4. e \notin Calls
    BY <1>1, <1>3, InCalls
  <2>5. StructInv'
    BY <1>1, <1>2, <1>4, <2>1, <2>2, <2>3, <2>4, MoveStruct
  <2>6. FramesInv'
    BY <1>1, <1>2, <2>2, <2>3, FramesStay
  <2> QED
    BY <2>2, <2>5, <2>6 DEF IndInv
<1>6. CASE state[a] # "unchanged"
  <2>1. PICK h : h = Call(a, a)
    OBVIOUS
  <2>2. task_count' = [task_count EXCEPT ![a] = count_busy] /\ stack' = [stack EXCEPT ![u] = Append(@, h)]
    BY <1>6, <2>1 DEF ExecuteDirect
  <2>3. a \notin Noop
    BY <1>1, <1>6, NotNoop
  <2>4. Sound(h) /\ h \in Frames
    BY <1>1, <2>1, <2>3, CallSound
  <2>5. /\ stack' \in [Threads -> Seq(Frames)] /\ e \notin Calls /\ Calls' = Calls \cup {e}
        /\ Frame(e)' = h /\ \A d \in Calls : Frame(d)' = Frame(d)
    BY <1>1, <1>3, <2>2, <2>4, PushedStack
  <2>6. task_count'[a] = count_busy /\ \A t \in Targets : task_count'[t] \in Nat /\ (t # a => task_count'[t] = task_count[t])
    BY <1>1, <2>2, Constants DEF Types, count_busy
  <2>7. Kept /\ OtherTypes /\ \A t \in Targets : Executed(t)' => Executed(t)
    BY <1>1, <1>2, <2>6, BusyKept
  <2>8. StructInv'
    <3>1. Frame(e)' = Call(a, a)
      BY <2>1, <2>5
    <3> QED
      BY <1>1, <1>2, <1>4, <2>2, <2>5, <2>7, <3>1, CallStruct
  <2>9. Sound(Frame(e))'
    BY <1>1, <2>4, <2>5, <2>7, SoundStays
  <2>10. FramesInv'
    <3>1. \A d \in Calls' : (d \in Calls /\ Frame(d)' = Frame(d)) \/ Sound(Frame(d))'
      BY <2>5, <2>9
    <3> QED
      BY <1>1, <1>2, <2>7, <3>1, FramesStay
  <2>11. StatesInv' /\ PrerequisitesDone' /\ UpdatedInOrder'
    BY <1>1, <1>2, <2>7, QuietStates
  <2> QED
    BY <2>7, <2>8, <2>10, <2>11 DEF IndInv
<1> QED
  BY <1>5, <1>6

LEMMA TaskStartKeeps ==
    ASSUME IndInv, NEW u \in Threads, NEW task \in queued, TaskStart(u, task)
    PROVE  IndInv' /\ Kept
<1>1. /\ StructInv /\ Types /\ FramesInv /\ StatesInv /\ PrerequisitesDone /\ UpdatedInOrder
      /\ u \in Helpers \/ Busy(u)
  BY DEF IndInv, StructInv, TaskStart, MayTake, At
<1>2. PICK e : e = <<u, Len(stack[u]) + 1>>
  OBVIOUS
<1>3. e # <<Main, 1>>
  BY <1>1, <1>2, PushAt
<1>0. PICK h : h = Call(task.target, task.parent)
  OBVIOUS
<1>4. /\ prerequisites' = prerequisites /\ current_mode' = current_mode /\ keep_going' = keep_going
      /\ task_count' = task_count /\ state' = state /\ worked' = worked /\ result' = result
      /\ queued' = queued \ {task} /\ stack' = [stack EXCEPT ![u] = Append(@, h)]
  BY <1>0 DEF TaskStart, fixed, counts
<1>5. Kept /\ OtherTypes /\ \A t \in Targets : Executed(t)' => Executed(t)
  BY <1>1, <1>4 DEF Kept, OtherTypes, Types, Executed, count_executed
<1>6. /\ StructInv' /\ e \notin Calls /\ Calls' = Calls \cup {e} /\ Frame(e)' = h
      /\ \A d \in Calls : Frame(d)' = Frame(d)
      /\ task.target \in Targets /\ task.parent \in Nodes
  <2>1. StructInv /\ OtherTypes /\ e # <<Main, 1>> /\ e = <<u, Len(stack[u]) + 1>> /\ h = Call(task.target, task.parent)
        /\ stack' = [stack EXCEPT ![u] = Append(@, h)]
        /\ task_count' = task_count /\ queued' = queued \ {task} /\ result' = result
    BY <1>0, <1>1, <1>2, <1>3, <1>4, <1>5
  <2>2. StructInv'
    BY <2>1, StartStruct
  <2>3. e \notin Calls /\ Calls' = Calls \cup {e}
    BY <2>1, StartStruct
  <2>4. Frame(e)' = h
    BY <2>1, StartStruct
  <2>5. \A d \in Calls : Frame(d)' = Frame(d)
    BY <2>1, StartStruct
  <2>6. task.target \in Targets /\ task.parent \in Nodes
    BY <1>1 DEF Types, Tasks
  <2> QED
    BY <2>2, <2>3, <2>4, <2>5, <2>6
<1>7. task.target \notin Noop
  BY <1>1 DEF FramesInv
<1>9. h \in Frames /\ Sound(h) /\ Frame(e)' = h
  BY <1>0, <1>1, <1>6, <1>7, CallSound
<1>10. Sound(Frame(e))'
  BY <1>1, <1>5, <1>9, SoundStays
<1>11. FramesInv'
  <2>1. \A d \in Calls' : (d \in Calls /\ Frame(d)' = Frame(d)) \/ Sound(Frame(d))'
    BY <1>6, <1>10
  <2> QED
    BY <1>1, <1>4, <1>5, <2>1, FramesStay
<1>12. StatesInv' /\ PrerequisitesDone' /\ UpdatedInOrder'
  BY <1>1, <1>4, <1>5, QuietStates
<1> QED
  BY <1>5, <1>6, <1>11, <1>12 DEF IndInv

LEMMA TaskDoneKeeps ==
    ASSUME IndInv, NEW u \in Threads, TaskDone(u)
    PROVE  IndInv' /\ Kept
<1>1. /\ StructInv /\ Types /\ FramesInv /\ StatesInv /\ PrerequisitesDone /\ UpdatedInOrder
      /\ Busy(u) /\ Top(u).step = "done" /\ stack \in [Threads -> Seq(Frames)]
  BY DEF IndInv, StructInv, Types, TaskDone, At
<1>2. PICK c \in Calls :
         /\ Innermost(u, c) /\ Frame(c) = Top(u) /\ Frame(c) \in Frames /\ Sound(Frame(c))
         /\ \A d \in Calls : Below(d) # c
  BY <1>1, TopFrame
<1>3. PICK p : p = Frame(c).parent
  OBVIOUS
<1>0. PICK k : k = task_count[p] - 1
  OBVIOUS
<1>4. Frame(c).step = "done" /\ Frame(c).target # p
  BY <1>1, <1>2, <1>3 DEF Sound, Stepwise
<1>5. /\ prerequisites' = prerequisites /\ current_mode' = current_mode /\ keep_going' = keep_going
      /\ state' = state /\ worked' = worked /\ result' = result /\ queued' = queued
      /\ task_count' = [task_count EXCEPT ![p] = k] /\ stack' = Returned(u)
  BY <1>0, <1>2, <1>3 DEF TaskDone, fixed
<1>6. OtherTypes
  BY <1>1, <1>5 DEF OtherTypes, Types
<1>7. /\ stack' \in [Threads -> Seq(Frames)] /\ Calls' = Calls \ {c}
      /\ \A d \in Calls : d # c => Frame(d)' = Frame(d)
  BY <1>1, <1>2, <1>5, ReturnedStack
<1>8. /\ StructInv' /\ \A m \in Nodes : m # p => task_count'[m] = task_count[m]
      /\ p \in Targets => task_count[p] > count_busy /\ task_count'[p] >= count_busy
  <2>1. /\ StructInv /\ OtherTypes /\ stack' \in [Threads -> Seq(Frames)] /\ Frame(c).parent = p
        /\ Frame(c).step = "done" /\ Frame(c).target # p
        /\ \A d \in Calls : Below(d) # c /\ (d # c => Frame(d)' = Frame(d))
        /\ Calls' = Calls \ {c} /\ k = task_count[p] - 1 /\ task_count' = [task_count EXCEPT ![p] = k]
        /\ queued' = queued /\ result' = result
    BY <1>0, <1>1, <1>2, <1>3, <1>4, <1>5, <1>6, <1>7
  <2>2. StructInv'
    BY <2>1, DoneStruct
  <2>3. \A m \in Nodes : m # p => task_count'[m] = task_count[m]
    BY <2>1, DoneStruct
  <2>4. p \in Targets => task_count[p] > count_busy
    BY <2>1, DoneStruct
  <2>5. p \in Targets => task_count'[p] >= count_busy
    BY <2>1, DoneStruct
  <2> QED
    BY <2>2, <2>3, <2>4, <2>5
<1>9. ASSUME NEW t \in Targets
      PROVE  /\ Executed(t)' <=> Executed(t)
             /\ task_count[t] >= count_executed => task_count'[t] >= count_executed
  <2>1. t \in Nodes /\ task_count[t] \in Nat /\ task_count'[t] \in Nat
    BY <1>1, <1>8, Constants DEF Types, StructInv
  <2>2. CASE t = p
    BY <1>8, <2>1, <2>2 DEF Executed, count_busy, count_executed
  <2>3. CASE t # p
    BY <1>8, <2>1, <2>3 DEF Executed, count_executed
  <2> QED
    BY <2>2, <2>3
<1>10. Kept
  BY <1>5, <1>9 DEF Kept, count_executed
<1>11. FramesInv'
  BY <1>1, <1>5, <1>7, <1>10, FramesStay
<1>12. StatesInv' /\ PrerequisitesDone' /\ UpdatedInOrder'
  BY <1>1, <1>5, <1>9, <1>10, QuietStates
<1> QED
  BY <1>8, <1>10, <1>11, <1>12 DEF IndInv

LEMMA EndKeeps ==
    ASSUME IndInv, NEW u \in Threads, End(u)
    PROVE  IndInv' /\ Kept
<1>1. /\ StructInv /\ Types /\ FramesInv /\ StatesInv /\ PrerequisitesDone /\ UpdatedInOrder
      /\ Busy(u) /\ Top(u).step = "end" /\ Top(u).target # Root /\ stack \in [Threads -> Seq(Frames)]
  BY DEF IndInv, StructInv, Types, End, At
<1>2. PICK c \in Calls :
         /\ Innermost(u, c) /\ Frame(c) = Top(u) /\ Frame(c) \in Frames /\ Sound(Frame(c))
         /\ \A d \in Calls : Below(d) # c
  BY <1>1, TopFrame
<1>3. PICK f : f = Frame(c)
  OBVIOUS
<1>4. PICK t : t = f.target
  OBVIOUS
<1>5. /\ f \in Frames /\ f = Top(u) /\ Sound(f) /\ f.step = "end" /\ t # Root /\ t \in Nodes /\ t \in Targets
      /\ f.bad \in BOOLEAN /\ f.changed \in BOOLEAN
  <2>1. f \in Frames /\ f = Top(u) /\ Sound(f) /\ f.step = "end" /\ t # Root
    BY <1>1, <1>2, <1>3, <1>4
  <2> QED
    BY <1>4, <2>1, FrameTypes, Constants
<1>6. PICK s : s = EndState(f)
  OBVIOUS
<1>7. s \in {"unknown", "unchanged", "changed", "failed", "group"}
  BY <1>6 DEF EndState
<1>8. /\ prerequisites' = prerequisites /\ current_mode' = current_mode /\ keep_going' = keep_going
      /\ worked' = worked /\ result' = result /\ queued' = queued
      /\ state' = [state EXCEPT ![t] = s] /\ task_count' = [task_count EXCEPT ![t] = count_executed]
      /\ stack' = IF f.parent = t THEN Returned(u) ELSE Moved(u, GoTo(f, "done"))
  BY <1>4, <1>5, <1>6 DEF End, fixed, EndCount
<1>9. OtherTypes /\ state'[t] = s /\ \A q \in Targets : q # t => state'[q] = state[q]
  BY <1>1, <1>5, <1>7, <1>8 DEF OtherTypes, Types
<1>10. PICK g : g = GoTo(f, "done")
  OBVIOUS
<1>11. /\ g \in Frames /\ g.target = f.target /\ g.parent = f.parent /\ g.step = "done" /\ g.next = f.next
       /\ g.bad = f.bad /\ g.changed = f.changed /\ g.postponed = f.postponed
  BY <1>5, <1>10, GoToParts DEF Steps
<1>12. f.parent # t => Sound(g)
  <2>1. InRange(g)
    BY <1>5, <1>11 DEF Sound, InRange
  <2>2. f.parent # t => Stepwise(g)
    BY <1>4, <1>5, <1>11 DEF Sound, Stepwise
  <2>3. Tried(g)
    BY <1>11 DEF Tried, Open
  <2>4. Seen(g)
    BY <1>5, <1>11 DEF Sound, Seen
  <2> QED
    BY <2>1, <2>2, <2>3, <2>4 DEF Sound
<1>13. /\ stack' \in [Threads -> Seq(Frames)] /\ \A d \in Calls : d # c => Frame(d)' = Frame(d)
       /\ \/ Calls' = Calls \ {c} /\ f.parent = t
          \/ Calls' = Calls /\ f.parent # t /\ Frame(c)' = g
  <2>1. CASE f.parent = t
    <3>1. stack' = Returned(u)
      BY <1>8, <2>1
    <3> QED
      BY <1>1, <1>2, <2>1, <3>1, ReturnedStack
  <2>2. CASE f.parent # t
    <3>1. stack' = Moved(u, g)
      BY <1>8, <1>10, <2>2
    <3> QED
      BY <1>1, <1>2, <1>11, <2>2, <3>1, MovedStack
  <2> QED
    BY <2>1, <2>2
<1>14. StructInv' /\ task_count[t] = count_busy
  <2>1. \/ Calls' = Calls \ {c} /\ Frame(c).parent = t
        \/ /\ Calls' = Calls /\ Frame(c).parent # t /\ Frame(c)'.step = "done"
           /\ Frame(c)'.target = t /\ Frame(c)'.parent = Frame(c).parent
    BY <1>3, <1>4, <1>11, <1>13
  <2>2. Frame(c).target = t /\ Frame(c).step = "end"
    BY <1>3, <1>4, <1>5
  <2> QED
    BY <1>1, <1>2, <1>5, <1>8, <1>9, <1>13, <2>1, <2>2, EndStruct
<1>15. Kept /\ StatesInv' /\ PrerequisitesDone' /\ UpdatedInOrder'
  <2>1. ~Executed(t)
    BY <1>14 DEF Executed, count_busy, count_executed
  <2>2. /\ s # "unknown" /\ t \notin Noop /\ (t \in Members => ~f.bad)
        /\ s = "failed" <=> f.bad
        /\ t \in Members => s \in {"unchanged", "group"} /\ (s = "group" <=> f.postponed = {})
        /\ t \notin Members /\ ~f.bad => (s = "changed" <=> f.changed)
    BY <1>4, <1>5, <1>6 DEF EndState, Sound, Stepwise
  <2>3. current_mode \in {"first", "last"}
    BY <1>1, ExecuteAssumption DEF Types
  <2>4. s # "failed" /\ t \notin Noop \cup Members => t \in worked
    BY <1>4, <1>5, <2>2, <2>3 DEF Sound, Stepwise
  <2>5. ASSUME ~f.bad, f.postponed = {}, NEW p \in PrerequisitesOf(t) PROVE Passed(t, p, f.changed)
    <3>1. PICK i \in 1 .. Len(prerequisites[t]) : p = InOrder(t)[i]
      BY <1>1, <1>5, <2>5, Ordered
    <3> QED
      BY <1>4, <1>5, <2>5, <3>1 DEF Sound, Seen
  <2>6. t \in Members /\ s = "group" => Executed(prerequisites[t][1])
    BY <1>1, <2>2, <2>5, GroupOf DEF Passed
  <2>7. ASSUME current_mode = "first", s # "failed"
        PROVE  /\ t \in Members => s = "group"
               /\ \A p \in PrerequisitesOf(t) : Passed(t, p, s = "changed")
    <3>1. f.postponed = {} /\ ~f.bad
      BY <1>5, <2>2, <2>7 DEF Sound, InRange
    <3>2. \A p \in PrerequisitesOf(t) : Passed(t, p, f.changed)
      BY <2>5, <3>1
    <3> QED
      BY <2>2, <3>1, <3>2 DEF Passed
  <2> QED
    BY <1>1, <1>5, <1>8, <1>9, <2>1, <2>2, <2>4, <2>6, <2>7, OneExecuted
<1>16. c \in Calls' => Sound(Frame(c))'
  <2>1. c \in Calls' => f.parent # t /\ Frame(c)' = g
    BY <1>13
  <2> QED
    BY <1>1, <1>11, <1>12, <1>15, <2>1, SoundStays
<1>17. FramesInv'
  <2>1. \A d \in Calls' : (d \in Calls /\ Frame(d)' = Frame(d)) \/ Sound(Frame(d))'
    BY <1>13, <1>16
  <2> QED
    BY <1>1, <1>8, <1>15, <2>1, FramesStay
<1> QED
  BY <1>14, <1>15, <1>17 DEF IndInv

(***************************************************************************)
(* The operation.                                                          *)
(***************************************************************************)

\* When the driver begins, its call is the only one.
LEMMA OnlyCall ==
    ASSUME IndInv, At(Main, "match"), \A u \in Threads \ {Main} : ~Busy(u)
    PROVE  \E c \in Calls :
              /\ Innermost(Main, c) /\ Frame(c) = Top(Main) /\ Frame(c) \in Frames /\ Sound(Frame(c))
              /\ \A d \in Calls : Below(d) # c
              /\ Calls = {c} /\ Frame(c).target = Root /\ Frame(c).parent = Root /\ Frame(c).step = "match"
<1>1. Types /\ stack \in [Threads -> Seq(Frames)] /\ Main \in Threads /\ Busy(Main)
  BY Constants DEF IndInv, StructInv, Types, At
<1>2. PICK c \in Calls :
         /\ Innermost(Main, c) /\ Frame(c) = Top(Main) /\ Frame(c) \in Frames /\ Sound(Frame(c)) /\ Placed(c)
         /\ \A d \in Calls : Below(d) # c
  BY <1>1, TopFrame
<1>3. Frame(c).step = "match" /\ Frame(c).target = Root
  BY <1>2 DEF At, Sound, Stepwise
<1>4. c = <<Main, 1>> /\ Frame(c).parent = Root
  BY <1>2, <1>3 DEF Placed
<1>5. Len(stack[Main]) = 1
  BY <1>1, <1>2, <1>4 DEF Innermost
<1>6. ASSUME NEW d \in Calls PROVE d = c
  <2>1. d = <<d[1], d[2]>> /\ d[1] \in Threads /\ d[2] \in 1 .. Len(stack[d[1]]) /\ d[2] \in Nat
    BY <1>1, InCalls
  <2>2. d[1] = Main
    <3>1. d[1] # Main => stack[d[1]] = <<>>
      BY <2>1 DEF Busy
    <3>2. Len(<<>>) = 0
      OBVIOUS
    <3> QED
      BY <2>1, <3>1, <3>2
  <2>3. d[2] = 1
    <3>1. d[2] \in 1 .. 1
      BY <1>5, <2>1, <2>2
    <3> QED
      BY <3>1
  <2> QED
    BY <1>4, <2>1, <2>2, <2>3
<1> QED
  BY <1>2, <1>3, <1>4, <1>6

\* The driver returns.
LEMMA RootKeeps ==
    ASSUME IndInv, NEW c \in Calls, Innermost(Main, c), Frame(c).target = Root,
           Frame(c).step = "end" \/ (Frame(c).step = "match" /\ Calls = {c}),
           stack' = Returned(Main), result' \in {"executed", "failed"},
           UNCHANGED <<fixed, task_count, state, queued, worked>>
    PROVE  IndInv' /\ Kept
<1>1. /\ StructInv /\ Types /\ FramesInv /\ StatesInv /\ PrerequisitesDone /\ UpdatedInOrder
      /\ stack \in [Threads -> Seq(Frames)] /\ Main \in Threads
  BY Constants DEF IndInv, StructInv, Types
<1>2. /\ prerequisites' = prerequisites /\ current_mode' = current_mode /\ keep_going' = keep_going
      /\ task_count' = task_count /\ state' = state /\ queued' = queued /\ worked' = worked
  BY DEF fixed
<1>3. Kept /\ OtherTypes /\ \A t \in Targets : Executed(t)' => Executed(t)
  BY <1>1, <1>2 DEF Kept, OtherTypes, Types, Executed, count_executed
<1>4. \A d \in Calls : Below(d) # c
  BY <1>1, InnermostCall
<1>5. /\ stack' \in [Threads -> Seq(Frames)] /\ Calls' = Calls \ {c}
      /\ \A d \in Calls : d # c => Frame(d)' = Frame(d)
  BY <1>1, ReturnedStack
<1>6. StructInv'
  BY <1>1, <1>2, <1>3, <1>4, <1>5, RootStruct
<1>7. FramesInv'
  BY <1>1, <1>2, <1>3, <1>5, FramesStay
<1>8. StatesInv' /\ PrerequisitesDone' /\ UpdatedInOrder'
  BY <1>1, <1>2, <1>3, QuietStates
<1> QED
  BY <1>3, <1>6, <1>7, <1>8 DEF IndInv

LEMMA BeginKeeps ==
    ASSUME IndInv, ExecuteBegin
    PROVE  IndInv' /\ Kept
<1>1. Types /\ Main \in Threads
  BY Constants DEF IndInv, StructInv
<1>2. PICK c \in Calls :
         /\ Innermost(Main, c) /\ Frame(c) = Top(Main) /\ Frame(c) \in Frames /\ Sound(Frame(c))
         /\ \A d \in Calls : Below(d) # c
         /\ Calls = {c} /\ Frame(c).target = Root /\ Frame(c).parent = Root /\ Frame(c).step = "match"
  BY OnlyCall DEF ExecuteBegin
<1>3. UNCHANGED <<fixed, task_count, state, queued, worked>>
  BY DEF ExecuteBegin, counts
<1>4. CASE \E t \in Early : state[t] = "failed"
  <2>1. stack' = Returned(Main) /\ result' = "failed"
    BY <1>4 DEF ExecuteBegin
  <2> QED
    BY <1>2, <1>3, <2>1, RootKeeps
<1>5. CASE ~\E t \in Early : state[t] = "failed"
  <2>1. Still
    BY <1>3, <1>5 DEF ExecuteBegin, Still
  <2>2. PICK g : g = GoTo(RootCall, "start")
    OBVIOUS
  <2>3. RootCall \in Frames
    BY Constants DEF RootCall, Frames, Steps
  <2>4. /\ g \in Frames /\ g.target = Root /\ g.parent = Root /\ g.step = "start" /\ g.next = 1
        /\ ~g.bad /\ g.postponed = {}
    <3>1. RootCall.target = Root /\ RootCall.parent = Root /\ RootCall.next = 1 /\ ~RootCall.bad /\ RootCall.postponed = {}
      BY DEF RootCall
    <3> QED
      BY <2>2, <2>3, <3>1, GoToParts DEF Steps
  <2>5. stack' = Moved(Main, g)
    BY <1>5, <2>2 DEF ExecuteBegin
  <2>6. Len(prerequisites[Root]) \in Nat
    BY <1>1, Ordered, Constants
  <2>7. InRange(g)
    BY <2>4, <2>6 DEF InRange
  <2>8. Stepwise(g)
    BY <2>4, Constants DEF Stepwise
  <2>9. Tried(g) /\ Seen(g)
    BY <2>4 DEF Tried, Seen
  <2>10. Sound(g)
    BY <2>7, <2>8, <2>9 DEF Sound
  <2> QED
    BY <1>1, <1>2, <2>1, <2>4, <2>5, <2>10, MoveTop DEF Open
<1> QED
  BY <1>4, <1>5

LEMMA OperationKeeps ==
    ASSUME IndInv, OperationExecuted
    PROVE  IndInv' /\ Kept
<1>1. Main \in Threads /\ Busy(Main) /\ Top(Main).step = "end" /\ Top(Main).target = Root
  BY Constants DEF OperationExecuted, At
<1>2. PICK c \in Calls : Innermost(Main, c) /\ Frame(c) = Top(Main)
  BY <1>1, TopFrame
<1>3. /\ UNCHANGED <<fixed, task_count, state, queued, worked>> /\ stack' = Returned(Main)
      /\ result' \in {"executed", "failed"}
  BY DEF OperationExecuted, counts
<1> QED
  BY <1>1, <1>2, <1>3, RootKeeps

\* The operation begins with the call of the driver.
LEMMA InitCalls ==
    ASSUME Init
    PROVE  Types /\ RootCall \in Frames /\ Main \in Threads /\ \E c : c = <<Main, 1>> /\ Calls = {c} /\ Frame(c) = RootCall
<1>1. RootCall \in Frames /\ Main \in Threads
  BY Constants DEF RootCall, Frames, Steps
<1>2. Types
  <2>1. stack \in [Threads -> Seq(Frames)]
    <3>1. <<RootCall>> \in Seq(Frames) /\ <<>> \in Seq(Frames)
      BY <1>1
    <3> QED
      BY <3>1 DEF Init
  <2>2. task_count \in [Nodes -> Nat]
    BY DEF Init, count_applied
  <2> QED
    BY <2>1, <2>2 DEF Init, Types
<1>3. stack[Main] = <<RootCall>> /\ \A u \in Threads : u # Main => stack[u] = <<>>
  BY <1>1 DEF Init
<1>4. PICK c : c = <<Main, 1>>
  OBVIOUS
<1>5. Calls = {c} /\ Frame(c) = RootCall
  <2>1. stack \in [Threads -> Seq(Frames)]
    BY <1>2 DEF Types
  <2>2. Len(<<RootCall>>) = 1 /\ <<RootCall>>[1] = RootCall /\ Len(<<>>) = 0
    OBVIOUS
  <2>3. c \in Calls
    <3>1. 1 \in Nat /\ 1 \in 1 .. Len(stack[Main])
      BY <1>3, <2>2
    <3>2. <<Main, 1>> \in Calls
      BY <1>1, <2>1, <3>1, InCalls
    <3> QED
      BY <1>4, <3>2
  <2>4. ASSUME NEW d \in Calls PROVE d = c
    <3>1. d = <<d[1], d[2]>> /\ d[1] \in Threads /\ d[2] \in 1 .. Len(stack[d[1]]) /\ d[2] \in Nat
      BY <2>1, InCalls
    <3>2. d[1] = Main
      BY <1>3, <2>2, <3>1
    <3>3. d[2] = 1
      BY <1>3, <2>2, <3>1, <3>2
    <3> QED
      BY <1>4, <3>1, <3>2, <3>3
  <2>5. Frame(c) = RootCall
    BY <1>3, <1>4, <2>2 DEF Frame
  <2> QED
    BY <2>3, <2>4, <2>5
<1> QED
  BY <1>1, <1>2, <1>4, <1>5

LEMMA InitKeeps == Init => IndInv
<1> SUFFICES ASSUME Init PROVE IndInv
  OBVIOUS
<1>1. Types /\ RootCall \in Frames /\ Main \in Threads
  BY InitCalls
<1>2. Types
  BY <1>1
<1>4. PICK c : c = <<Main, 1>> /\ Calls = {c} /\ Frame(c) = RootCall
  BY InitCalls
<1>5. Calls = {c} /\ Frame(c) = RootCall
  BY <1>4
<1>6. /\ RootCall.target = Root /\ RootCall.parent = Root /\ RootCall.next = 1 /\ ~RootCall.bad
      /\ RootCall.postponed = {} /\ RootCall.step = "match"
  BY DEF RootCall
<1>7. queued = {} /\ worked = {} /\ result = "running"
  BY DEF Init
<1>8. PlacesInv
  BY <1>4, <1>5, <1>6, <1>7 DEF PlacesInv, Placed
<1>9. \A t \in Targets : t \in Nodes /\ t # Root /\ task_count[t] = count_applied /\ ~Executed(t)
  BY Constants DEF Init, Executed, count_applied, count_executed
<1>10. LocksInv
  <2>1. \A t \in Targets : ~Held(t)
    BY <1>5, <1>6, <1>7, Constants DEF Held
  <2> QED
    BY <1>5, <1>7, <1>9, <2>1 DEF LocksInv, count_applied, count_busy, count_executed
<1>11. CountsInv
  <2>1. \A n : TasksOf(n) = {} /\ CallsOf(n) = {}
    BY <1>5, <1>6, <1>7 DEF TasksOf, CallsOf
  <2>2. IsFiniteSet({}) /\ Cardinality({}) = 0
    BY FS_EmptySet
  <2>3. task_count[Root] = 0 /\ StartCount(Root) = 0
    BY Constants DEF Init
  <2>4. \A n \in Nodes : task_count[n] >= count_busy => n = Root
    BY <1>9, Constants DEF count_applied, count_busy
  <2> QED
    BY <2>1, <2>2, <2>3, <2>4 DEF CountsInv
<1>12. Sound(RootCall)
  <2>1. Len(prerequisites[Root]) \in Nat
    BY <1>2, Ordered, Constants
  <2>2. InRange(RootCall)
    BY <1>6, <2>1 DEF InRange
  <2>3. Stepwise(RootCall)
    BY <1>6, Constants DEF Stepwise
  <2>4. Tried(RootCall) /\ Seen(RootCall)
    BY <1>6 DEF Tried, Seen, Open
  <2> QED
    BY <2>2, <2>3, <2>4 DEF Sound
<1>13. FramesInv
  BY <1>5, <1>7, <1>12 DEF FramesInv
<1>14. StatesInv
  <2>1. \A t \in Targets : state[t] = IF t \in Noop THEN "unchanged" ELSE "unknown"
    BY DEF Init
  <2> QED
    BY <1>7, <1>9, <2>1, Constants DEF StatesInv
<1>15. PrerequisitesDone /\ UpdatedInOrder
  BY <1>7, <1>9 DEF PrerequisitesDone, UpdatedInOrder
<1> QED
  BY <1>2, <1>8, <1>10, <1>11, <1>13, <1>14, <1>15 DEF IndInv, StructInv

LEMMA StepKeeps ==
    ASSUME IndInv, NEW u \in Threads, Step(u)
    PROVE  IndInv' /\ Kept
BY DecrementKeeps, NoopKeeps, QueuedKeeps, SyncKeeps, ExecutedKeeps, AllKeeps, WaitDoneKeeps, FinishKeeps,
   FinishAllKeeps, WorkKeeps, EndKeeps, TaskDoneKeeps, TaskStartKeeps DEF Step

LEMMA StutterKeeps ==
    ASSUME IndInv, UNCHANGED vars
    PROVE  IndInv' /\ Kept
<1>1. /\ Types /\ StructInv /\ stack' = stack /\ Still
  BY DEF IndInv, StructInv, vars, counts, Still
<1>2. /\ Kept /\ OtherTypes /\ task_count' = task_count /\ queued' = queued /\ result' = result
      /\ state' = state /\ worked' = worked
      /\ prerequisites' = prerequisites /\ current_mode' = current_mode /\ keep_going' = keep_going
  BY <1>1, StillKept DEF OtherTypes
<1>3. Calls' = Calls /\ \A d : Frame(d)' = Frame(d)
  BY <1>1 DEF Calls, Frame
<1>4. FramesInv'
  BY <1>1, <1>2, <1>3, FramesStay DEF IndInv
<1>5. StatesInv' /\ PrerequisitesDone' /\ UpdatedInOrder'
  BY <1>1, <1>2, StillKept, QuietStates DEF IndInv
<1>6. StructInv'
  <2>1. PICK e : e = <<Main, Len(stack[Main]) + 1>>
    OBVIOUS
  <2>2. e \notin Calls /\ stack \in [Threads -> Seq(Frames)]
    BY <1>1, <2>1, InCalls, Constants DEF Types
  <2>3. \A d \in Calls : Below(d) # e
    <3>1. ASSUME NEW d \in Calls PROVE Below(d) # e
      <4>1. d[2] \in 1 .. Len(stack[d[1]]) /\ d[1] \in Threads /\ e[1] = Main /\ e[2] = Len(stack[Main]) + 1
        BY <2>1, <2>2, InCalls
      <4> QED
        BY <2>2, <4>1 DEF Below
    <3> QED
      BY <3>1
  <2> QED
    BY <1>1, <1>2, <1>3, <2>2, <2>3, MoveStruct
<1> QED
  BY <1>2, <1>4, <1>5, <1>6 DEF IndInv

LEMMA NextKeeps == IndInv /\ [Next]_vars => IndInv' /\ Kept
BY StepKeeps, DirectKeeps, BeginKeeps, OperationKeeps, StutterKeeps DEF Next, Driver

LEMMA Invariance == Spec => []IndInv
<1>1. Init => IndInv
  BY InitKeeps
<1>2. IndInv /\ [Next]_vars => IndInv'
  BY NextKeeps
<1> QED
  BY <1>1, <1>2, PTL DEF Spec

-----------------------------------------------------------------------------
(***************************************************************************)
(* The order of updates.                                                   *)
(***************************************************************************)

\* No target is updated before all of its prerequisites have been, whichever
\* of the threads executes which (execute_prerequisites(), wait_guard).
THEOREM UpdatedInOrderCorrect == Spec => []UpdatedInOrder
<1>1. IndInv => UpdatedInOrder
  BY DEF IndInv
<1> QED
  BY <1>1, Invariance, PTL

\* A target is executed by one thread at a time: the compare and exchange of
\* applied for busy in execute() is a lock.
THEOREM LocksExclude == Spec => []LocksInv
<1>1. IndInv => LocksInv
  BY DEF IndInv, StructInv
<1> QED
  BY <1>1, Invariance, PTL

\* A target that is executed is never executed again, and its state is final.
THEOREM ExecutedFinalCorrect == Spec => ExecutedFinal
<1>1. IndInv /\ [Next]_vars => [\A t \in Targets : Executed(t) => Executed(t)' /\ state'[t] = state[t]]_vars
  BY NextKeeps DEF Kept
<1> QED
  BY <1>1, Invariance, PTL DEF Spec, ExecutedFinal

\* A change of a prerequisite is not lost on the way to the dependents, whoever
\* has executed it and whether or not it is the member of a group.
THEOREM ChangePropagatesCorrect == Spec => []ChangePropagates
<1>1. ASSUME IndInv PROVE ChangePropagates
  <2>1. Types /\ StatesInv /\ PrerequisitesDone
    BY <1>1 DEF IndInv, StructInv
  <2> SUFFICES ASSUME current_mode = "first", NEW t \in Targets, Executed(t), ExecutedState(t) = "unchanged",
                      NEW p \in PrerequisitesOf(t)
               PROVE  ExecutedState(p) # "changed"
    BY DEF ChangePropagates
  <2>2. CASE t \in Members
    <3>1. state[t] = "group"
      BY <2>1, <2>2 DEF StatesInv, PrerequisitesDone
    <3>2. p = prerequisites[t][1] /\ p \notin Members
      BY <2>1, <2>2, GroupOf
    <3> QED
      BY <2>2, <3>1, <3>2 DEF ExecutedState
  <2>3. CASE t \notin Members
    <3>1. state[t] = "unchanged"
      BY <2>3 DEF ExecutedState
    <3> QED
      BY <2>1, <2>3, <3>1 DEF PrerequisitesDone, Passed
  <2> QED
    BY <2>2, <2>3
<1> QED
  BY <1>1, Invariance, PTL

-----------------------------------------------------------------------------
(***************************************************************************)
(* The counts of dependents: what all the steps but ExecuteDecrement have  *)
(* in common.                                                              *)
(***************************************************************************)

\* A call goes on: f is its frame before the step and g after it.
Onward(f, g) ==
    /\ g.target = f.target /\ g.parent = f.parent /\ g.postponed = f.postponed
    /\ g.step = "try" => g = f
    /\ g.step # "done" => f.step # "done"
    /\ \A i \in 1 .. Len(prerequisites[f.target]) : (Sure(g, i) => Sure(f, i)) /\ (Never(g, i) => Never(f, i))

\* A call begins.
Entered(g) ==
    /\ g.target \in Targets /\ g = Call(g.target, g.parent)
    /\ task_count[g.target] = count_applied \/ \E task \in queued : task.target = g.target

\* The call of a target is over, and the target is executed.
Over(c) ==
    /\ Frame(c).step = "end" /\ task_count'[Frame(c).target] = count_executed
    /\ state'[Frame(c).target] = EndState(Frame(c))

CallsCalm ==
    /\ \A c \in Calls' : (c \in Calls /\ Onward(Frame(c), Frame(c)')) \/ (c \notin Calls /\ Entered(Frame(c)'))
    /\ \A c \in Calls : Frame(c).step = "try" =>
          (c \in Calls' /\ Frame(c)' = Frame(c)) \/ task_count'[Prerequisite(Frame(c))] # count_applied
    /\ \A c \in Calls : Holding(c) /\ Frame(c).target # Root => (c \in Calls' /\ Holding(c)') \/ Over(c)
    /\ \A c \in Calls' : Frame(c)'.step = "result" => (c \in Calls /\ Frame(c)' = Frame(c)) \/ Answered(c)'
    /\ \A c \in Calls' : Frame(c)'.target = Root /\ Frame(c)'.step \in {"wait", "end"} =>
          \/ c \in Calls /\ Frame(c).target = Root /\ Frame(c).step \in {"wait", "end"} /\ Frame(c)'.next = Frame(c).next
          \/ Sated(Frame(c))'

DataCalm ==
    /\ UNCHANGED <<fixed, dependents, dependency_count>>
    /\ \A t \in Targets : task_count'[t] = count_applied => task_count[t] = count_applied
    /\ \A t \in Targets : task_count'[t] # count_applied => Started(t) \/ current_mode = "first"
    /\ \A task \in queued' : task \in queued \/ (task.target \in Targets /\ task_count[task.target] = count_applied)
    /\ \A t \in Targets : Executed(t)' /\ ~Executed(t) /\ t \notin Noop =>
          \E c \in Calls : Frame(c).target = t /\ Frame(c).step = "end" /\ Over(c)
    /\ result' = "executed" =>
          /\ state' = state
          /\ result = "executed"
             \/ /\ \E c \in Calls : Frame(c).target = Root /\ Frame(c).step = "end"
                /\ \A p \in PrerequisitesOf(Root) : ExecutedState(p) # "failed"

Calm == CallsCalm /\ DataCalm

-----------------------------------------------------------------------------
LEMMA SameEdges ==
    ASSUME Kept
    PROVE  Edges' = Edges /\ \A n : DependentsOf(n)' = DependentsOf(n)
BY DEF Kept, Edges, DependentsOf, PrerequisitesOf

LEMMA FitsStays ==
    ASSUME Kept, NEW D, NEW g, Fits(g, D), NEW c, Frame(c)' = g
    PROVE  Fits(Frame(c), D)'
<1>1. /\ prerequisites' = prerequisites /\ current_mode' = current_mode
      /\ \A n : InOrder(n)' = InOrder(n)
  BY SameOrder DEF Kept
<1> QED
  BY <1>1 DEF Fits, Sure, Never

LEMMA OnwardFits ==
    ASSUME NEW D, NEW f, NEW g, Fits(f, D), Onward(f, g)
    PROVE  Fits(g, D)
BY DEF Fits, Onward

\* A call that begins has no edge decremented.
LEMMA EnteredFits ==
    ASSUME Types, NEW D \in SUBSET Edges, Counted(D), NEW g, Entered(g)
    PROVE  Fits(g, D) /\ g.step \in {"start", "work"}
<1>1. g.target \in Targets /\ g.target \in Nodes
  BY Constants DEF Entered
<1>2. g.next = 1 /\ g.step = FirstStep(g.target) /\ g = Call(g.target, g.parent)
  BY DEF Entered, Call
<1>3. ASSUME NEW i \in 1 .. Len(prerequisites[g.target]) PROVE <<g.target, InOrder(g.target)[i]>> \notin D /\ ~Sure(g, i)
  <2>1. InOrder(g.target)[i] \in Targets /\ InOrder(g.target)[i] \in PrerequisitesOf(g.target)
    BY <1>1, Ordered
  <2>2. PICK e : e = <<g.target, InOrder(g.target)[i]>>
    OBVIOUS
  <2>3. e \in Edges /\ e[1] = g.target
    BY <1>1, <2>1, <2>2 DEF Edges
  <2>4. e \notin D
    BY <1>1, <2>3 DEF Counted, Entered
  <2>5. i >= 1 /\ Len(prerequisites[g.target]) \in Nat
    BY <1>1, Ordered
  <2> QED
    BY <1>2, <2>2, <2>4, <2>5 DEF Sure, FirstStep
<1> QED
  BY <1>2, <1>3 DEF Fits, FirstStep

-----------------------------------------------------------------------------
\* The edges that have been decremented stay the same.
LEMMA CalmEdges ==
    ASSUME IndInv, EdgesInv, RootInv, Kept, Calm
    PROVE  EdgesInv'
<1>1. /\ Types /\ StatesInv /\ FramesInv /\ dependents' = dependents /\ dependency_count' = dependency_count
      /\ prerequisites' = prerequisites /\ current_mode' = current_mode
  BY DEF IndInv, StructInv, Calm, DataCalm, fixed
<1>2. PICK D \in SUBSET Edges : Exact(D) /\ Counted(D)
  BY DEF EdgesInv
<1>3. Edges' = Edges /\ \A n : DependentsOf(n)' = DependentsOf(n) /\ PrerequisitesOf(n)' = PrerequisitesOf(n)
  BY SameEdges, SameOrder
<1>4. Exact(D)'
  BY <1>1, <1>2, <1>3 DEF Exact, Left
<1>5. ASSUME NEW c \in Calls', Holding(c)' PROVE Fits(Frame(c), D)'
  <2>1. PICK g : g = Frame(c)'
    OBVIOUS
  <2>2. g.step # "done"
    BY <1>5, <2>1 DEF Holding
  <2>3. CASE c \in Calls /\ Onward(Frame(c), g)
    <3>1. Holding(c) /\ Fits(Frame(c), D)
      BY <1>2, <2>2, <2>3 DEF Onward, Holding, Counted
    <3>2. Fits(g, D)
      BY <2>3, <3>1, OnwardFits
    <3> QED
      BY <2>1, <3>2, FitsStays
  <2>4. CASE Entered(g)
    <3>1. Fits(g, D)
      BY <1>1, <1>2, <2>4, EnteredFits
    <3> QED
      BY <2>1, <3>1, FitsStays
  <2> QED
    BY <1>5, <2>1, <2>3, <2>4 DEF Calm, CallsCalm
<1>6. ASSUME result' = "executed", NEW p \in PrerequisitesOf(Root) PROVE <<Root, p>> \in D
  <2>1. CASE result = "executed"
    BY <1>2, <1>6, <2>1 DEF Counted
  <2>2. CASE result # "executed"
    <3>1. PICK c \in Calls : Frame(c).target = Root /\ Frame(c).step = "end"
      BY <1>6, <2>2 DEF Calm, DataCalm
    <3>2. \A q \in PrerequisitesOf(Root) : ExecutedState(q) # "failed"
      BY <1>6, <2>2 DEF Calm, DataCalm
    <3>3. Frame(c).next = Len(prerequisites[Root]) + 1
      BY <3>1, <3>2 DEF RootInv, Sated
    <3>4. PICK i \in 1 .. Len(prerequisites[Root]) : p = InOrder(Root)[i]
      BY <1>1, <1>6, Ordered, Constants
    <3>5. Len(prerequisites[Root]) \in Nat
      BY <1>1, Ordered, Constants
    <3>6. Sure(Frame(c), i)
      BY <3>1, <3>3, <3>4, <3>5 DEF Sure
    <3>7. Fits(Frame(c), D)
      BY <1>2, <3>1 DEF Counted, Holding
    <3> QED
      BY <3>1, <3>4, <3>6, <3>7 DEF Fits
  <2> QED
    BY <2>1, <2>2
<1>7. ASSUME NEW e \in Edges
      PROVE  /\ e[1] \in Targets /\ Executed(e[1])' /\ state'[e[1]] # "failed" => e \in D
             /\ e[1] \in Targets /\ task_count'[e[1]] = count_applied => e \notin D
             /\ (\E task \in queued' : task.target = e[1]) => e \notin D
             /\ current_mode = "last" /\ e \in D => e[1] \in worked' \cup Members \cup {Root}
  <2>1. e[1] \in Nodes /\ e[2] \in PrerequisitesOf(e[1]) /\ e = <<e[1], e[2]>>
    BY DEF Edges
  <2>2. ASSUME e[1] \in Targets, Executed(e[1])', state'[e[1]] # "failed" PROVE e \in D
    <3>1. CASE Executed(e[1])
      BY <1>2, <2>2, <3>1 DEF Counted, Kept
    <3>2. CASE e[1] \in Noop
      <4>1. prerequisites[e[1]] = <<>>
        BY <1>1, <3>2, ExecuteAssumption DEF Types
      <4> QED
        BY <2>1, <4>1 DEF PrerequisitesOf
    <3>3. CASE ~Executed(e[1]) /\ e[1] \notin Noop
      <4>1. PICK c \in Calls : Frame(c).target = e[1] /\ Frame(c).step = "end" /\ Over(c)
        BY <2>2, <3>3 DEF Calm, DataCalm
      <4>2. ~Frame(c).bad
        BY <2>2, <4>1 DEF Over, EndState
      <4>3. PICK i \in 1 .. Len(prerequisites[e[1]]) : e[2] = InOrder(e[1])[i]
        BY <1>1, <2>1, Ordered
      <4>4. Sure(Frame(c), i)
        BY <2>2, <4>1, <4>2, Constants DEF Sure
      <4>5. Fits(Frame(c), D)
        BY <1>2, <4>1 DEF Counted, Holding
      <4> QED
        BY <2>1, <4>1, <4>3, <4>4, <4>5 DEF Fits
    <3> QED
      BY <3>1, <3>2, <3>3
  <2>3. e[1] \in Targets /\ task_count'[e[1]] = count_applied => e \notin D
    BY <1>2 DEF Counted, Calm, DataCalm
  <2>4. ASSUME NEW task \in queued', task.target = e[1] PROVE e \notin D
    <3>1. CASE task \in queued
      BY <1>2, <2>4, <3>1 DEF Counted
    <3>2. CASE task.target \in Targets /\ task_count[task.target] = count_applied
      BY <1>2, <2>4, <3>2 DEF Counted
    <3> QED
      BY <2>4, <3>1, <3>2 DEF Calm, DataCalm
  <2>5. current_mode = "last" /\ e \in D => e[1] \in worked' \cup Members \cup {Root}
    BY <1>2 DEF Counted, Kept
  <2> QED
    BY <2>2, <2>3, <2>4, <2>5
<1>8. Counted(D)'
  BY <1>1, <1>3, <1>5, <1>6, <1>7 DEF Counted, Executed
<1> QED
  BY <1>2, <1>3, <1>4, <1>8 DEF EdgesInv

\* Who has been started stays so, and in the last mode nobody else is.
LEMMA CalmStarted ==
    ASSUME Kept, Calm, NEW t \in Targets
    PROVE  /\ Started(t) => Started(t)'
           /\ current_mode = "last" => (Started(t)' => Started(t))
<1>1. \A c : (Prerequisite(Frame(c)))' = InOrder(Frame(c)'.target)[Frame(c)'.next]
  BY SameOrder DEF Prerequisite
<1>2. ASSUME Started(t) PROVE Started(t)'
  <2>1. CASE task_count[t] # count_applied
    BY <2>1 DEF Calm, DataCalm, Started
  <2>2. CASE \E c \in Calls : Frame(c).step = "try" /\ Prerequisite(Frame(c)) = t
    <3>1. PICK c \in Calls : Frame(c).step = "try" /\ Prerequisite(Frame(c)) = t
      BY <2>2
    <3>2. CASE c \in Calls' /\ Frame(c)' = Frame(c)
      BY <1>1, <3>1, <3>2 DEF Started, Prerequisite
    <3>3. CASE task_count'[t] # count_applied
      BY <3>3 DEF Started
    <3> QED
      BY <3>1, <3>2, <3>3 DEF Calm, CallsCalm
  <2> QED
    BY <1>2, <2>1, <2>2 DEF Started
<1>3. ASSUME current_mode = "last", Started(t)' PROVE Started(t)
  <2>1. CASE task_count'[t] # count_applied
    BY <1>3, <2>1 DEF Calm, DataCalm
  <2>2. CASE \E c \in Calls' : Frame(c)'.step = "try" /\ (Prerequisite(Frame(c)))' = t
    <3>1. PICK c \in Calls' : Frame(c)'.step = "try" /\ (Prerequisite(Frame(c)))' = t
      BY <2>2
    <3>2. ~Entered(Frame(c)')
      BY <3>1 DEF Entered, Call, FirstStep
    <3>3. c \in Calls /\ Frame(c)' = Frame(c)
      BY <3>1, <3>2 DEF Calm, CallsCalm, Onward
    <3> QED
      BY <1>1, <3>1, <3>3 DEF Started, Prerequisite
  <2> QED
    BY <1>3, <2>1, <2>2 DEF Started
<1> QED
  BY <1>2, <1>3

\* Nobody stops looking at a prerequisite before it is over.
LEMMA CalmLooks ==
    ASSUME IndInv, Kept, Calm, NEW t \in Targets, NEW n \in DependentsOf(t), Looks(n, t)
    PROVE  Looks(n, t)'
<1>1. /\ Types /\ StatesInv /\ FramesInv /\ prerequisites' = prerequisites /\ current_mode' = current_mode
      /\ n \in Nodes /\ t \in PrerequisitesOf(n)
  BY DEF IndInv, StructInv, Kept, DependentsOf
<1>2. \A m : InOrder(m)' = InOrder(m)
  BY SameOrder
<1>3. CASE n = Root
  BY <1>3 DEF Looks
<1>4. ASSUME n # Root, NEW c \in Calls, Holding(c), Frame(c).target = n, \A i \in Frame(c).postponed : InOrder(n)[i] # t
      PROVE  Looks(n, t)'
  <2>1. CASE c \in Calls' /\ Holding(c)'
    <3>1. Onward(Frame(c), Frame(c)')
      BY <1>4, <2>1 DEF Calm, CallsCalm
    <3>2. Frame(c)'.target = n /\ Frame(c)'.postponed = Frame(c).postponed
      BY <1>4, <3>1 DEF Onward
    <3> QED
      BY <1>2, <1>4, <2>1, <3>2 DEF Looks
  <2>2. CASE Over(c)
    <3>1. PICK f : f = Frame(c)
      OBVIOUS
    <3>2. /\ f.step = "end" /\ f.target = n /\ Executed(n)' /\ state'[n] = EndState(f) /\ Sound(f)
          /\ \A i \in f.postponed : InOrder(n)[i] # t
      BY <1>1, <1>4, <2>2, <3>1 DEF Over, Executed, FramesInv
    <3>3. PICK i \in 1 .. Len(prerequisites[n]) : t = InOrder(n)[i]
      BY <1>1, Ordered
    <3>4. i \notin f.postponed
      BY <3>2, <3>3
    <3>5. CASE f.bad
      BY <1>4, <3>2, <3>5 DEF EndState, Looks
    <3>6. CASE ~f.bad /\ n \in Members
      <4>1. Len(prerequisites[n]) = 1 /\ i = 1
        <5>1. Len(prerequisites[n]) = 1
          BY <1>1, <3>6, GroupOf
        <5>2. i \in 1 .. 1
          BY <3>3, <5>1
        <5> QED
          BY <5>1, <5>2
      <4>2. f.postponed = {}
        <5>1. f.postponed \subseteq 1 .. 1
          BY <3>2, <4>1 DEF Sound, InRange
        <5>2. \A j \in 1 .. 1 : j = 1
          OBVIOUS
        <5> QED
          BY <3>4, <4>1, <5>1, <5>2
      <4> QED
        BY <1>4, <3>2, <3>6, <4>2 DEF EndState, Looks
    <3>7. CASE ~f.bad /\ n \notin Members
      <4>1. Passed(n, t, f.changed)
        BY <1>4, <3>2, <3>3, <3>4, <3>7 DEF Sound, Seen
      <4>2. Executed(t) /\ ExecutedState(t) # "failed"
        BY <3>7, <4>1 DEF Passed
      <4>3. Executed(t)' /\ ExecutedState(t)' # "failed"
        BY <1>1, <4>2, FinalState
      <4> QED
        BY <1>4, <3>2, <4>3 DEF Looks
    <3> QED
      BY <3>5, <3>6, <3>7
  <2> QED
    BY <1>4, <2>1, <2>2 DEF Calm, CallsCalm
<1>5. ASSUME n # Root, Executed(n), state[n] = "failed" \/ (n \in Members /\ state[n] = "group")
      PROVE  Looks(n, t)'
  <2>1. n \in Targets
    BY <1>1, <1>5, Constants
  <2>2. Executed(n)' /\ state'[n] = state[n]
    BY <1>5, <2>1 DEF Kept
  <2> QED
    BY <1>5, <2>2 DEF Looks
<1>6. ASSUME n # Root, Executed(n), Executed(t), ExecutedState(t) # "failed"
      PROVE  Looks(n, t)'
  <2>1. n \in Targets
    BY <1>1, <1>6, Constants
  <2>2. Executed(n)'
    BY <1>6, <2>1 DEF Kept
  <2>3. Executed(t)' /\ ExecutedState(t)' # "failed"
    BY <1>1, <1>6, FinalState
  <2> QED
    BY <1>6, <2>2, <2>3 DEF Looks
<1> QED
  BY <1>3, <1>4, <1>5, <1>6 DEF Looks

\* A call that is going to look at its prerequisite still is.
LEMMA CalmAnswered ==
    ASSUME IndInv, Kept, Calm, NEW c \in Calls, Frame(c).step = "result", Answered(c),
           c \in Calls', Frame(c)' = Frame(c)
    PROVE  Answered(c)'
<1>1. Types /\ FramesInv /\ PlacesInv /\ stack \in [Threads -> Seq(Frames)]
  BY DEF IndInv, StructInv, Types
<1>2. PICK f : f = Frame(c)
  OBVIOUS
<1>3. f \in Frames /\ Sound(f)
  BY <1>1, <1>2, InCalls DEF FramesInv
<1>4. PICK t : t = Prerequisite(f)
  OBVIOUS
<1>5. t \in Targets
  BY <1>1, <1>2, <1>3, <1>4, FrameMore DEF Sound, InRange, More
<1>6. (Prerequisite(Frame(c)))' = t
  BY <1>2, <1>4, SameOrder DEF Prerequisite
<1>7. CASE Executed(t)
  <2>1. Executed(t)'
    BY <1>5, <1>7 DEF Kept
  <2> QED
    BY <1>6, <2>1 DEF Answered
<1>8. ASSUME NEW d \in Calls, Below(d) = c, Holding(d), Frame(d).target = t, Frame(d).parent = Frame(d).target
      PROVE  Answered(c)'
  <2>1. CASE d \in Calls' /\ Holding(d)'
    <3>1. Onward(Frame(d), Frame(d)')
      BY <1>8, <2>1 DEF Calm, CallsCalm
    <3>2. Frame(d)'.target = t /\ Frame(d)'.parent = Frame(d)'.target
      BY <1>8, <3>1 DEF Onward
    <3>3. Below(d)' = c
      BY <1>8 DEF Below
    <3> QED
      BY <1>6, <2>1, <3>2, <3>3 DEF Answered
  <2>2. CASE Over(d)
    <3>1. Executed(t)'
      BY <1>8, <2>2 DEF Over, Executed
    <3> QED
      BY <1>6, <3>1 DEF Answered
  <2> QED
    BY <1>5, <1>8, <2>1, <2>2, Constants DEF Calm, CallsCalm
<1> QED
  BY <1>2, <1>4, <1>7, <1>8 DEF Answered

\* The targets that are not executed yet: one less at the end of a call.
TargetsLeft ==
    \/ target_count' = target_count /\ \A t \in Targets \ (Noop \cup Members) : Executed(t)' => Executed(t)
    \/ \E a \in Targets \ (Noop \cup Members) :
          /\ ~Executed(a) /\ Executed(a)' /\ target_count' = target_count - 1
          /\ \A t \in Targets : t # a /\ Executed(t)' => Executed(t)

LEMMA TargetsLeftKept ==
    ASSUME Kept, TargetCount, TargetsLeft
    PROVE  TargetCount' /\ target_count' \in Nat
<1>1. PICK T : T = {t \in Targets \ (Noop \cup Members) : ~Executed(t)}
  OBVIOUS
<1>2. IsFiniteSet(T) /\ T \subseteq Targets
  BY <1>1, ExecuteAssumption, FS_Subset
<1>3. \A t \in Targets : Executed(t) => Executed(t)'
  BY DEF Kept
<1>4. Cardinality(T) \in Nat /\ target_count = Cardinality(T)
  BY <1>1, <1>2, FS_CardinalityType DEF TargetCount
<1>5. CASE target_count' = target_count /\ \A t \in Targets \ (Noop \cup Members) : Executed(t)' => Executed(t)
  <2>1. T = {t \in Targets \ (Noop \cup Members) : ~Executed(t)'}
    BY <1>1, <1>3, <1>5
  <2> QED
    BY <1>4, <1>5, <2>1 DEF TargetCount
<1>6. ASSUME NEW a \in Targets \ (Noop \cup Members), ~Executed(a), Executed(a)', target_count' = target_count - 1,
             \A t \in Targets : t # a /\ Executed(t)' => Executed(t)
      PROVE  TargetCount' /\ target_count' \in Nat
  <2>1. T \ {a} = {t \in Targets \ (Noop \cup Members) : ~Executed(t)'}
    BY <1>1, <1>3, <1>6
  <2>2. a \in T
    BY <1>1, <1>6
  <2>3. /\ IsFiniteSet(T \ {a}) /\ Cardinality(T \ {a}) = Cardinality(T) - 1
    BY <1>2, <2>2, FS_RemoveElement
  <2>4. Cardinality(T \ {a}) \in Nat
    BY <2>3, FS_CardinalityType
  <2>5. target_count' = Cardinality(T \ {a})
    BY <1>4, <1>6, <2>3
  <2> QED
    BY <2>1, <2>4, <2>5 DEF TargetCount
<1> QED
  BY <1>5, <1>6 DEF TargetsLeft

\* The counts of dependents mean the same after every step but ExecuteDecrement.
LEMMA CalmKeeps ==
    ASSUME CountedInv, IndInv', Kept, Calm, TargetsLeft
    PROVE  CountedInv'
<1>1. /\ IndInv /\ CountTypes /\ EdgesInv /\ StartedInv /\ LookInv /\ TargetCount /\ RootInv /\ ResultInv
      /\ Types /\ StatesInv
  BY DEF CountedInv, IndInv, StructInv
<1>2. /\ dependents' = dependents /\ dependency_count' = dependency_count /\ depth' = depth
      /\ prerequisites' = prerequisites /\ current_mode' = current_mode
      /\ \A n : DependentsOf(n)' = DependentsOf(n) /\ PrerequisitesOf(n)' = PrerequisitesOf(n)
  BY SameEdges, SameOrder DEF Calm, DataCalm, fixed
<1>3. EdgesInv'
  BY <1>1, CalmEdges
<1>4. StartedInv'
  BY <1>1, <1>2, CalmStarted DEF StartedInv
<1>5. LookInv'
  <2> SUFFICES ASSUME current_mode = "last", NEW t \in Targets, Started(t)' PROVE \E n \in DependentsOf(t) : Looks(n, t)'
    BY <1>2 DEF LookInv
  <2>1. Started(t)
    BY CalmStarted
  <2>2. PICK n \in DependentsOf(t) : Looks(n, t)
    BY <1>1, <2>1 DEF LookInv
  <2> QED
    BY <1>1, <2>2, CalmLooks
<1>6. TargetCount' /\ target_count' \in Nat
  BY <1>1, TargetsLeftKept
<1>7. CountTypes'
  BY <1>1, <1>2, <1>6 DEF CountTypes
<1>8. ASSUME NEW p \in PrerequisitesOf(Root), result' = "executed"
      PROVE  ExecutedState(p)' # "failed"
  <2>1. state' = state /\ ExecutedState(p) # "failed"
    BY <1>1, <1>8 DEF Calm, DataCalm, RootInv
  <2> QED
    BY <1>2, <2>1 DEF ExecutedState
<1>9. ASSUME NEW c \in Calls', Frame(c)'.target = Root, Frame(c)'.step \in {"wait", "end"}
      PROVE  Sated(Frame(c))'
  <2>1. CASE /\ c \in Calls /\ Frame(c).target = Root /\ Frame(c).step \in {"wait", "end"}
             /\ Frame(c)'.next = Frame(c).next
    <3>1. CASE \E p \in PrerequisitesOf(Root) : Executed(p) /\ ExecutedState(p) = "failed"
      <4>1. PICK p \in PrerequisitesOf(Root) : Executed(p) /\ ExecutedState(p) = "failed"
        BY <3>1
      <4>2. p \in Targets
        BY <1>1, <4>1, Ordered, Constants
      <4>3. Executed(p)' /\ ExecutedState(p)' = "failed"
        BY <1>1, <4>1, <4>2, FinalState
      <4> QED
        BY <1>2, <4>1, <4>3 DEF Sated
    <3>2. CASE Frame(c).next = Len(prerequisites[Root]) + 1
      BY <1>2, <2>1, <3>2 DEF Sated
    <3> QED
      BY <1>1, <2>1, <3>1, <3>2 DEF RootInv, Sated
  <2> QED
    BY <1>9, <2>1 DEF Calm, CallsCalm
<1>10. RootInv'
  BY <1>2, <1>8, <1>9 DEF RootInv
<1>11. ResultInv'
  <2> SUFFICES ASSUME NEW c \in Calls', Frame(c)'.step = "result" PROVE Answered(c)'
    BY DEF ResultInv
  <2>1. CASE c \in Calls /\ Frame(c)' = Frame(c)
    BY <1>1, <2>1, CalmAnswered DEF ResultInv
  <2> QED
    BY <2>1 DEF Calm, CallsCalm
<1> QED
  BY <1>3, <1>4, <1>5, <1>6, <1>7, <1>10, <1>11 DEF CountedInv

-----------------------------------------------------------------------------
(***************************************************************************)
(* When the operation is over there are no calls and no tasks: whoever     *)
(* executes a target does so for a dependent that is being executed, up to *)
(* the driver.                                                             *)
(***************************************************************************)

\* A call of t, or a task for it, comes with a held dependent.
LEMMA HeldDependent ==
    ASSUME IndInv, <<Main, 1>> \notin Calls, NEW t \in Targets, Held(t)
    PROVE  \E n \in Targets : Held(n) /\ t \in PrerequisitesOf(n)
<1>1. Types /\ PlacesInv /\ FramesInv /\ stack \in [Threads -> Seq(Frames)]
  BY DEF IndInv, StructInv, Types
<1>2. ASSUME NEW p, Expects(p) PROVE p \in Targets /\ Held(p)
  <2>1. PICK d \in Calls : Frame(d).target = p /\ Frame(d).step \in Open
    BY <1>2 DEF Expects
  <2>2. Frame(d) \in Frames /\ Placed(d) /\ d # <<Main, 1>>
    BY <1>1, InCalls DEF PlacesInv
  <2>3. p # Root /\ p \in Nodes
    BY <2>1, <2>2, FrameTypes DEF Placed
  <2>4. Holding(d)
    BY <2>1 DEF Holding, Open
  <2> QED
    BY <2>1, <2>3, <2>4, Constants DEF Held
<1>3. CASE \E task \in queued : task.target = t
  <2>1. PICK task \in queued : task.target = t
    BY <1>3
  <2>2. Expects(task.parent) /\ t \in PrerequisitesOf(task.parent)
    BY <1>1, <2>1 DEF PlacesInv
  <2> QED
    BY <1>2, <2>2
<1>4. CASE \E c \in Calls : Holding(c) /\ Frame(c).target = t
  <2>1. PICK c \in Calls : Holding(c) /\ Frame(c).target = t
    BY <1>4
  <2>2. Placed(c) /\ c[1] \in Threads /\ c[2] \in 1 .. Len(stack[c[1]]) /\ c[2] \in Nat /\ c = <<c[1], c[2]>>
    BY <1>1, InCalls DEF PlacesInv
  <2>3. ~Matching
    BY <1>1, MatchingCall
  <2>4. CASE Frame(c).parent # t
    <3>1. Expects(Frame(c).parent) /\ t \in PrerequisitesOf(Frame(c).parent)
      BY <2>1, <2>2, <2>4 DEF Placed
    <3> QED
      BY <1>2, <3>1
  <2>5. CASE Frame(c).parent = t
    <3>1. PICK g : g = Frame(Below(c))
      OBVIOUS
    <3>2. c[2] > 1 /\ g.step = "result" /\ t \in PrerequisitesOf(g.target)
      BY <2>1, <2>2, <2>3, <2>5, <3>1, Constants DEF Placed
    <3>3. Below(c) \in Calls
      BY <1>1, <3>2, BelowCall DEF Calls
    <3>4. Expects(g.target)
      BY <3>1, <3>2, <3>3 DEF Expects, Open
    <3> QED
      BY <1>2, <3>2, <3>4
  <2> QED
    BY <2>4, <2>5
<1> QED
  BY <1>3, <1>4 DEF Held

LEMMA AllReturned ==
    ASSUME IndInv, result # "running"
    PROVE  Calls = {} /\ queued = {}
<1>1. Types /\ PlacesInv /\ FramesInv /\ stack \in [Threads -> Seq(Frames)] /\ prerequisites \in Graphs
  BY DEF IndInv, StructInv, Types
<1>2. <<Main, 1>> \notin Calls
  BY <1>1 DEF PlacesInv
<1>3. PICK S : S = {t \in Targets : Held(t)}
  OBVIOUS
<1>4. S = {}
  <2> SUFFICES ASSUME S # {} PROVE FALSE
    OBVIOUS
  <2>1. S \in (SUBSET Targets) \ {{}}
    BY <1>3
  <2>2. PICK t \in S : \A n \in S : t \notin Range(prerequisites[n])
    BY <1>1, <2>1, ExecuteAssumption
  <2>3. PICK n \in Targets : Held(n) /\ t \in PrerequisitesOf(n)
    BY <1>2, <1>3, <2>2, HeldDependent
  <2>4. n \in S
    BY <1>3, <2>3
  <2>5. t \in Range(prerequisites[n])
    BY <2>3 DEF PrerequisitesOf, Range
  <2> QED
    BY <2>2, <2>4, <2>5
<1>5. ASSUME NEW p PROVE ~Expects(p)
  <2> SUFFICES ASSUME NEW d \in Calls, Frame(d).target = p, Frame(d).step \in Open PROVE FALSE
    BY DEF Expects
  <2>1. Frame(d) \in Frames /\ Placed(d) /\ d # <<Main, 1>>
    BY <1>1, <1>2, InCalls DEF PlacesInv
  <2>2. p \in Targets
    BY <2>1, FrameTypes, Constants DEF Placed
  <2>3. Held(p)
    BY DEF Held, Holding, Open
  <2> QED
    BY <1>3, <1>4, <2>2, <2>3
<1>6. queued = {}
  BY <1>1, <1>5 DEF PlacesInv
<1>7. ASSUME NEW c \in Calls PROVE FALSE
  <2>1. Frame(c) \in Frames /\ Placed(c) /\ c # <<Main, 1>> /\ Sound(Frame(c))
    BY <1>1, <1>2, InCalls DEF PlacesInv, FramesInv
  <2>2. Frame(c).target \in Targets
    BY <2>1, FrameTypes, Constants DEF Placed
  <2>3. CASE Frame(c).step = "done"
    BY <1>5, <2>1, <2>3 DEF Sound, Stepwise, Placed
  <2>4. CASE Frame(c).step # "done"
    <3>1. Held(Frame(c).target)
      BY <2>4 DEF Held, Holding
    <3> QED
      BY <1>3, <1>4, <2>2, <3>1
  <2> QED
    BY <2>3, <2>4
<1> QED
  BY <1>6, <1>7

-----------------------------------------------------------------------------
(***************************************************************************)
(* The steps in which nothing but a call moves on.                         *)
(***************************************************************************)
LEMMA OnwardSame == \A f : Onward(f, f)
BY DEF Onward

\* One call moves on, and is not about to look at a prerequisite of its own.
LEMMA MoveCalls ==
    ASSUME NEW c \in Calls, NEW f, f = Frame(c), NEW g, Frame(c)' = g, Calls' = Calls,
           \A d \in Calls : d # c => Frame(d)' = Frame(d),
           Onward(f, g), g.step \notin {"done", "result"},
           f.step = "try" => task_count'[Prerequisite(f)] # count_applied,
           g.target = Root /\ g.step \in {"wait", "end"} =>
              (f.step \in {"wait", "end"} /\ g.next = f.next) \/ Sated(Frame(c))'
    PROVE  CallsCalm
<1>1. ASSUME NEW d \in Calls'
      PROVE  /\ d \in Calls /\ Onward(Frame(d), Frame(d)')
             /\ Frame(d)'.step = "result" => Frame(d)' = Frame(d)
             /\ Frame(d)'.target = Root /\ Frame(d)'.step \in {"wait", "end"} =>
                   \/ Frame(d).target = Root /\ Frame(d).step \in {"wait", "end"} /\ Frame(d)'.next = Frame(d).next
                   \/ Sated(Frame(d))'
  <2>1. CASE d = c
    BY <2>1 DEF Onward
  <2>2. CASE d # c
    BY <2>2, OnwardSame
  <2> QED
    BY <2>1, <2>2
<1>2. ASSUME NEW d \in Calls, Frame(d).step = "try"
      PROVE  (d \in Calls' /\ Frame(d)' = Frame(d)) \/ task_count'[Prerequisite(Frame(d))] # count_applied
  BY <1>2
<1>3. ASSUME NEW d \in Calls, Holding(d) PROVE d \in Calls' /\ Holding(d)'
  BY <1>3 DEF Holding
<1> QED
  BY <1>1, <1>2, <1>3 DEF CallsCalm

LEMMA StillData ==
    ASSUME UNCHANGED <<fixed, counts, state, queued, result>>
    PROVE  DataCalm /\ TargetsLeft
<1>1. /\ UNCHANGED fixed /\ task_count' = task_count /\ queued' = queued /\ result' = result /\ state' = state
      /\ dependents' = dependents /\ dependency_count' = dependency_count /\ target_count' = target_count
  BY DEF counts
<1>2. \A t : Executed(t)' <=> Executed(t)
  BY <1>1 DEF Executed
<1> QED
  BY <1>1, <1>2 DEF DataCalm, TargetsLeft, Started

\* The innermost call of a thread moves on, and all else stays.
LEMMA MoveTopCalm ==
    ASSUME IndInv, UNCHANGED <<fixed, counts, state, queued, result>>, NEW u \in Threads, NEW c, Innermost(u, c),
           NEW f, f = Frame(c), NEW g \in Frames, stack' = Moved(u, g), Onward(f, g), g.step \notin {"done", "result"},
           f.step = "try" => task_count[Prerequisite(f)] # count_applied,
           g.target = Root /\ g.step \in {"wait", "end"} => (f.step \in {"wait", "end"} /\ g.next = f.next) \/ Sated(g)
    PROVE  Calm /\ TargetsLeft
<1>1. stack \in [Threads -> Seq(Frames)]
  BY DEF IndInv, StructInv, Types
<1>2. c \in Calls /\ Calls' = Calls /\ Frame(c)' = g /\ \A d \in Calls : d # c => Frame(d)' = Frame(d)
  BY <1>1, MovedStack, InnermostCall
<1>3. /\ task_count' = task_count /\ state' = state /\ prerequisites' = prerequisites
      /\ current_mode' = current_mode
  BY DEF fixed, counts
<1>4. ASSUME Sated(g) PROVE Sated(Frame(c))'
  BY <1>2, <1>3, <1>4 DEF Sated, Executed, ExecutedState, PrerequisitesOf
<1>5. CallsCalm
  BY <1>2, <1>3, <1>4, MoveCalls
<1> QED
  BY <1>5, StillData DEF Calm

LEMMA NextOnward ==
    ASSUME Types, NEW f \in Frames, f.step \in {"try", "result"}
    PROVE  Onward(f, NextOne(f)) /\ NextOne(f).step = "start"
<1>1. PICK g : g = NextOne(f)
  OBVIOUS
<1>2. /\ g.target = f.target /\ g.parent = f.parent /\ g.step = "start" /\ g.next = f.next + 1
      /\ g.postponed = f.postponed /\ f.next \in Nat /\ f.target \in Nodes
  BY <1>1, NextParts, FrameTypes
<1>3. ASSUME NEW i \in 1 .. Len(prerequisites[f.target])
      PROVE  (Sure(g, i) => Sure(f, i)) /\ (Never(g, i) => Never(f, i))
  <2>1. i \in Int
    BY <1>2, Ordered
  <2>2. (i < f.next + 1 => i <= f.next) /\ (i >= f.next + 1 => i > f.next)
    BY <1>2, <2>1
  <2> QED
    BY <1>2, <2>2 DEF Sure, Never
<1> QED
  BY <1>1, <1>2, <1>3 DEF Onward

\* After the loop, or when it is left, the call waits for its tasks.
LEMMA AwaitOnward ==
    ASSUME Types, NEW f \in Frames, f.step \in {"start", "try", "result"}, ~f.bad,
           f.target = Root \/ (f.step = "start" /\ f.next = Len(prerequisites[f.target]) + 1)
    PROVE  Onward(f, Await(f))
<1>1. PICK g : g = Await(f)
  OBVIOUS
<1>2. /\ g.target = f.target /\ g.parent = f.parent /\ g.step \in {"wait", "finish", "end"}
      /\ g.bad = f.bad /\ g.postponed = f.postponed
      /\ f.target = Root => g.next = f.next /\ g.step \in {"wait", "end"}
      /\ f.next \in Nat /\ f.target \in Nodes
  BY <1>1, AwaitParts, FrameTypes
<1>3. ASSUME NEW i \in 1 .. Len(prerequisites[f.target])
      PROVE  (Sure(g, i) => Sure(f, i)) /\ (Never(g, i) => Never(f, i))
  <2>1. i \in Int /\ Len(prerequisites[f.target]) \in Nat /\ i <= Len(prerequisites[f.target])
    BY <1>2, Ordered
  <2>2. ~Never(g, i)
    BY <1>2 DEF Never
  <2>3. CASE f.target = Root
    <3>1. i < f.next => i <= f.next
      BY <1>2, <2>1
    <3> QED
      BY <1>2, <2>2, <2>3, <3>1 DEF Sure
  <2>4. CASE f.step = "start" /\ f.next = Len(prerequisites[f.target]) + 1
    <3>1. i < f.next
      BY <2>1, <2>4
    <3> QED
      BY <2>2, <2>4, <3>1 DEF Sure
  <2> QED
    BY <2>3, <2>4
<1> QED
  BY <1>1, <1>2, <1>3 DEF Onward

\* A call that has failed is sure of nothing.
LEMMA BadOnward ==
    ASSUME NEW f, NEW g, g.target = f.target, g.parent = f.parent, g.postponed = f.postponed, f.step # "done",
           g.step \in {"wait", "end"}, g.bad, f.target # Root
    PROVE  Onward(f, g)
BY DEF Onward, Sure, Never

\* From the waiting on all of the edges are decremented.
LEMMA LateOnward ==
    ASSUME NEW f, NEW g, g.target = f.target, g.parent = f.parent, g.postponed = f.postponed, f.target # Root, ~f.bad,
           f.step \in {"wait", "finish", "end"} \/ (f.step = "work" /\ current_mode = "first"),
           g.step \in {"wait", "finish", "end", "done"} \/ (g.step = "work" /\ current_mode = "first")
    PROVE  Onward(f, g)
BY DEF Onward, Sure, Never

LEMMA ExecutedCalm ==
    ASSUME CountedInv, NEW u \in Threads, ExecuteBusy(u) \/ ExecuteExecuted(u)
    PROVE  Calm /\ TargetsLeft
<1>1. /\ IndInv /\ Types /\ ResultInv /\ Busy(u) /\ Top(u).step \in {"try", "result"}
      /\ UNCHANGED <<fixed, counts, state, queued, result>>
  BY DEF CountedInv, IndInv, StructInv, ExecuteBusy, ExecuteExecuted, At
<1>2. PICK c \in Calls :
         /\ Innermost(u, c) /\ Frame(c) = Top(u) /\ Frame(c) \in Frames /\ Sound(Frame(c))
         /\ \A d \in Calls : Below(d) # c
  BY <1>1, TopFrame
<1>3. PICK f : f = Frame(c)
  OBVIOUS
<1>4. f \in Frames /\ f = Top(u) /\ Sound(f) /\ f.step \in {"try", "result"} /\ ~f.bad
  BY <1>1, <1>2, <1>3 DEF Sound, Stepwise
<1>5. /\ f.step = "try" => task_count[Prerequisite(f)] # count_applied
      /\ ExecuteExecuted(u) => Executed(Prerequisite(f))
  <2>1. CASE f.step = "result"
    <3>1. Answered(c)
      BY <1>1, <1>2, <1>3, <2>1 DEF ResultInv
    <3> QED
      BY <1>2, <1>3, <2>1, <3>1 DEF Answered
  <2>2. CASE f.step = "try"
    BY <1>1, <1>4, <2>2 DEF ExecuteBusy, ExecuteExecuted, At, Executed, count_busy, count_executed, count_applied
  <2> QED
    BY <1>4, <2>1, <2>2
<1>6. PICK g : g = IF ExecuteBusy(u) THEN NextOne(f) ELSE Looked(f)
  OBVIOUS
<1>7. stack' = Moved(u, g)
  BY <1>1, <1>4, <1>6 DEF ExecuteBusy, ExecuteExecuted
<1>8. CASE g = NextOne(f)
  <2>1. g \in Frames /\ g.step = "start" /\ Onward(f, g)
    BY <1>1, <1>4, <1>8, NextOnward, NextParts
  <2> QED
    BY <1>1, <1>2, <1>3, <1>5, <1>7, <2>1, MoveTopCalm
<1>9. CASE g # NextOne(f)
  <2>1. ExecuteExecuted(u) /\ ExecutedState(Prerequisite(f)) = "failed"
    BY <1>6, <1>9 DEF Looked
  <2>2. CASE f.target = Root
    <3>1. g = Await(f)
      BY <1>6, <1>9, <2>2 DEF Looked
    <3>2. g \in Frames /\ g.step \in {"wait", "end"} /\ Onward(f, g)
      BY <1>1, <1>4, <2>2, <3>1, AwaitOnward, AwaitParts
    <3>3. Prerequisite(f) \in PrerequisitesOf(Root)
      BY <1>1, <1>4, <2>2, FrameMore DEF Sound, InRange, More
    <3>4. Sated(g)
      BY <1>5, <2>1, <3>3 DEF Sated
    <3> QED
      BY <1>1, <1>2, <1>3, <1>5, <1>7, <3>2, <3>4, MoveTopCalm
  <2>3. CASE f.target # Root
    <3>1. PICK h : h = [f EXCEPT !.bad = TRUE]
      OBVIOUS
    <3>2. /\ h \in Frames /\ h.target = f.target /\ h.parent = f.parent /\ h.bad /\ h.postponed = f.postponed
      BY <1>4, <3>1, BadParts
    <3>3. g = Await(h)
      BY <1>6, <1>9, <2>3, <3>1 DEF Looked, Thrown
    <3>4. g \in Frames /\ g.step \in {"wait", "end"} /\ g.target = f.target /\ g.parent = f.parent
          /\ g.postponed = f.postponed /\ g.bad
      BY <1>1, <3>2, <3>3, AwaitParts
    <3>5. Onward(f, g)
      BY <1>4, <2>3, <3>4, BadOnward
    <3> QED
      BY <1>1, <1>2, <1>3, <1>5, <1>7, <2>3, <3>4, <3>5, MoveTopCalm
  <2> QED
    BY <2>2, <2>3
<1> QED
  BY <1>8, <1>9

LEMMA AllCalm ==
    ASSUME IndInv, NEW u \in Threads, ExecuteAll(u)
    PROVE  Calm /\ TargetsLeft
<1>1. /\ Types /\ Busy(u) /\ Top(u).step = "start" /\ ~More(Top(u)) /\ stack' = Moved(u, Await(Top(u)))
      /\ UNCHANGED <<fixed, counts, state, queued, result>>
  BY DEF IndInv, StructInv, ExecuteAll, At
<1>2. PICK c \in Calls : Innermost(u, c) /\ Frame(c) = Top(u) /\ Frame(c) \in Frames /\ Sound(Frame(c))
  BY <1>1, TopFrame
<1>3. PICK f : f = Frame(c)
  OBVIOUS
<1>4. /\ f \in Frames /\ f = Top(u) /\ Sound(f) /\ f.step = "start" /\ ~f.bad /\ f.target \in Nodes /\ f.next \in Nat
      /\ Len(prerequisites[f.target]) \in Nat
  BY <1>1, <1>2, <1>3, FrameTypes, Ordered DEF Sound, Stepwise
<1>5. f.next = Len(prerequisites[f.target]) + 1
  BY <1>1, <1>4 DEF Sound, InRange, More
<1>6. PICK g : g = Await(f)
  OBVIOUS
<1>7. /\ g \in Frames /\ g.step \in {"wait", "finish", "end"} /\ g.target = f.target /\ Onward(f, g)
      /\ f.target = Root => g.next = f.next
  BY <1>1, <1>4, <1>5, <1>6, AwaitParts, AwaitOnward
<1>8. f.target = Root => Sated(g)
  BY <1>5, <1>7 DEF Sated
<1> QED
  BY <1>1, <1>2, <1>3, <1>4, <1>6, <1>7, <1>8, MoveTopCalm

LEMMA WaitDoneCalm ==
    ASSUME IndInv, NEW u \in Threads, WaitDone(u)
    PROVE  Calm /\ TargetsLeft
<1>1. /\ Types /\ Busy(u) /\ Top(u).step = "wait" /\ stack' = Moved(u, Waited(Top(u)))
      /\ UNCHANGED <<fixed, counts, state, queued, result>>
  BY DEF IndInv, StructInv, WaitDone, At
<1>2. PICK c \in Calls : Innermost(u, c) /\ Frame(c) = Top(u) /\ Frame(c) \in Frames /\ Sound(Frame(c))
  BY <1>1, TopFrame
<1>3. PICK f : f = Frame(c)
  OBVIOUS
<1>4. f \in Frames /\ f = Top(u) /\ f.step = "wait" /\ (f.target = Root => ~f.bad)
  BY <1>1, <1>2, <1>3 DEF Sound, Stepwise
<1>5. PICK g : g = Waited(f)
  OBVIOUS
<1>6. /\ g \in Frames /\ g.target = f.target /\ g.parent = f.parent /\ g.postponed = f.postponed /\ g.bad = f.bad
      /\ f.bad \/ f.target = Root => g.step = "end" /\ g.next = f.next
      /\ ~(f.bad \/ f.target = Root) => g.step = "finish"
  BY <1>4, <1>5, WaitedParts
<1>7. Onward(f, g)
  <2>1. CASE f.target = Root
    BY <1>4, <1>6, <2>1 DEF Onward, Sure, Never
  <2>2. CASE f.target # Root /\ f.bad
    BY <1>4, <1>6, <2>2, BadOnward
  <2>3. CASE f.target # Root /\ ~f.bad
    BY <1>4, <1>6, <2>3, LateOnward
  <2> QED
    BY <2>1, <2>2, <2>3
<1> QED
  BY <1>1, <1>2, <1>3, <1>4, <1>5, <1>6, <1>7, MoveTopCalm

LEMMA FinishCalm ==
    ASSUME IndInv, NEW u \in Threads, FinishOne(u) \/ FinishPostponed(u) \/ FinishAll(u)
    PROVE  Calm /\ TargetsLeft
<1>1. /\ Types /\ Busy(u) /\ Top(u).step = "finish" /\ UNCHANGED <<fixed, counts, state, queued, result>>
  BY DEF IndInv, StructInv, FinishOne, FinishPostponed, FinishAll, At
<1>2. PICK c \in Calls : Innermost(u, c) /\ Frame(c) = Top(u) /\ Frame(c) \in Frames /\ Sound(Frame(c))
  BY <1>1, TopFrame
<1>3. PICK f : f = Frame(c)
  OBVIOUS
<1>4. /\ f \in Frames /\ f = Top(u) /\ f.step = "finish" /\ ~f.bad /\ f.target # Root /\ f.next \in Nat
      /\ f.changed \in BOOLEAN
  BY <1>1, <1>2, <1>3, FrameTypes DEF Sound, Stepwise
<1>5. ASSUME NEW g \in Frames, stack' = Moved(u, g), Onward(f, g), g.step \notin {"done", "result"}, g.target = f.target
      PROVE  Calm /\ TargetsLeft
  BY <1>1, <1>2, <1>3, <1>4, <1>5, MoveTopCalm
<1>6. CASE FinishOne(u) /\ stack' = Moved(u, Failed(f))
  <2>1. PICK g : g = Failed(f)
    OBVIOUS
  <2>2. /\ g \in Frames /\ g.target = f.target /\ g.parent = f.parent /\ g.step = "end" /\ g.bad
        /\ g.postponed = f.postponed
    BY <1>4, <2>1, FailedParts
  <2>3. Onward(f, g)
    BY <1>4, <2>2, BadOnward
  <2> QED
    BY <1>5, <1>6, <2>1, <2>2, <2>3
<1>7. CASE (FinishOne(u) /\ stack' # Moved(u, Failed(f))) \/ FinishPostponed(u)
  <2>1. PICK k : k = f.next + 1
    OBVIOUS
  <2>2. PICK x : x = IF FinishPostponed(u) THEN f.changed ELSE f.changed \/ ExecutedState(Prerequisite(f)) = "changed"
    OBVIOUS
  <2>3. PICK g : g = [f EXCEPT !.next = k, !.changed = x]
    OBVIOUS
  <2>4. k \in Nat /\ x \in BOOLEAN
    <3>1. k \in Nat
      BY <1>4, <2>1
    <3>2. x = f.changed \/ x = (f.changed \/ ExecutedState(Prerequisite(f)) = "changed")
      BY <2>2
    <3>3. (f.changed \/ ExecutedState(Prerequisite(f)) = "changed") \in BOOLEAN
      OBVIOUS
    <3>4. x \in BOOLEAN
      BY <1>4, <3>2, <3>3, Zenon
    <3> QED
      BY <3>1, <3>4
  <2>5. /\ g \in Frames /\ g.target = f.target /\ g.parent = f.parent /\ g.step = "finish"
        /\ g.postponed = f.postponed
    BY <1>4, <2>3, <2>4 DEF Frames
  <2>6. stack' = Moved(u, g)
    <3>1. CASE FinishPostponed(u)
      <4>1. g = [f EXCEPT !.next = @ + 1]
        BY <1>4, <2>1, <2>2, <2>3, <3>1 DEF Frames
      <4> QED
        BY <1>4, <3>1, <4>1 DEF FinishPostponed
    <3>2. CASE ~FinishPostponed(u)
      <4>1. g = [f EXCEPT !.next = @ + 1, !.changed = @ \/ ExecutedState(Prerequisite(f)) = "changed"]
        BY <1>4, <2>1, <2>2, <2>3, <3>2 DEF Frames
      <4> QED
        BY <1>4, <1>7, <3>2, <4>1 DEF FinishOne
    <3> QED
      BY <3>1, <3>2
  <2>7. Onward(f, g)
    BY <1>4, <2>5, LateOnward
  <2> QED
    BY <1>5, <2>5, <2>6, <2>7
<1>8. CASE FinishAll(u)
  <2>1. PICK step : step = IF FirstStep(f.target) = "start" /\ f.target \notin Members THEN "work" ELSE "end"
    OBVIOUS
  <2>2. PICK g : g = GoTo(f, step)
    OBVIOUS
  <2>3. /\ g \in Frames /\ g.target = f.target /\ g.parent = f.parent /\ g.step = step
        /\ g.postponed = f.postponed
    BY <1>4, <2>1, <2>2, GoToParts DEF Steps
  <2>4. current_mode \in {"first", "last"}
    BY <1>1, ExecuteAssumption DEF Types
  <2>5. step = "end" \/ (step = "work" /\ current_mode = "first")
    BY <2>1, <2>4 DEF FirstStep
  <2>6. Onward(f, g)
    BY <1>4, <2>3, <2>5, LateOnward
  <2>7. stack' = Moved(u, g)
    BY <1>4, <1>8, <2>1, <2>2 DEF FinishAll
  <2> QED
    BY <1>5, <2>3, <2>5, <2>6, <2>7
<1> QED
  BY <1>6, <1>7, <1>8

LEMMA WorkCalm ==
    ASSUME IndInv, NEW u \in Threads, Work(u)
    PROVE  Calm /\ TargetsLeft
<1>1. /\ Types /\ Busy(u) /\ Top(u).step = "work" /\ UNCHANGED <<fixed, counts, state, queued, result>>
  BY DEF IndInv, StructInv, Work, At
<1>2. PICK c \in Calls : Innermost(u, c) /\ Frame(c) = Top(u) /\ Frame(c) \in Frames /\ Sound(Frame(c))
  BY <1>1, TopFrame
<1>3. PICK f : f = Frame(c)
  OBVIOUS
<1>4. /\ f \in Frames /\ f = Top(u) /\ f.step = "work" /\ ~f.bad /\ f.target # Root /\ f.target \in Nodes
      /\ current_mode = "last" => f.next = 1
  BY <1>1, <1>2, <1>3, FrameTypes DEF Sound, Stepwise, InRange
<1>5. current_mode \in {"first", "last"} /\ AfterWork \in Steps
  BY <1>1, ExecuteAssumption DEF Types, AfterWork, Steps
<1>6. CASE stack' = Moved(u, Failed(f))
  <2>1. PICK g : g = Failed(f)
    OBVIOUS
  <2>2. /\ g \in Frames /\ g.target = f.target /\ g.parent = f.parent /\ g.step = "end" /\ g.bad
        /\ g.postponed = f.postponed
    BY <1>4, <2>1, FailedParts
  <2>3. Onward(f, g)
    BY <1>4, <2>2, BadOnward
  <2> QED
    BY <1>1, <1>2, <1>3, <1>4, <1>6, <2>1, <2>2, <2>3, MoveTopCalm
<1>7. ASSUME NEW x \in BOOLEAN, stack' = Moved(u, [f EXCEPT !.step = AfterWork, !.changed = x])
      PROVE  Calm /\ TargetsLeft
  <2>1. PICK g : g = [f EXCEPT !.step = AfterWork, !.changed = x]
    OBVIOUS
  <2>2. /\ g \in Frames /\ g.target = f.target /\ g.parent = f.parent /\ g.step = AfterWork /\ g.next = f.next
        /\ g.postponed = f.postponed /\ g.bad = f.bad
    BY <1>4, <1>5, <2>1 DEF Frames
  <2>3. CASE current_mode = "first"
    <3>1. g.step = "end"
      BY <2>2, <2>3 DEF AfterWork
    <3>2. Onward(f, g)
      BY <1>4, <2>2, <2>3, <3>1, LateOnward
    <3> QED
      BY <1>1, <1>2, <1>3, <1>4, <1>7, <2>1, <2>2, <3>1, <3>2, MoveTopCalm
  <2>4. CASE current_mode = "last"
    <3>1. g.step = "start" /\ g.next = 1
      BY <1>4, <2>2, <2>4 DEF AfterWork
    <3>2. ASSUME NEW i \in 1 .. Len(prerequisites[f.target]) PROVE ~Sure(g, i) /\ Never(f, i)
      <4>1. i >= 1 /\ ~(i < 1)
        BY <1>1, <1>4, Ordered
      <4> QED
        BY <1>4, <2>4, <3>1, <4>1 DEF Sure, Never
    <3>3. Onward(f, g)
      BY <1>4, <2>2, <3>1, <3>2 DEF Onward
    <3> QED
      BY <1>1, <1>2, <1>3, <1>4, <1>7, <2>1, <2>2, <3>1, <3>3, MoveTopCalm
  <2> QED
    BY <1>5, <2>3, <2>4
<1> QED
  BY <1>4, <1>6, <1>7 DEF Work

-----------------------------------------------------------------------------
(***************************************************************************)
(* The steps in which a target becomes busy or a task is queued or taken.  *)
(***************************************************************************)
LEMMA CountData ==
    ASSUME Types, UNCHANGED <<fixed, dependents, dependency_count, target_count, state, result>>,
           \A t \in Targets :
              \/ task_count'[t] = task_count[t]
              \/ task_count[t] >= count_busy /\ task_count'[t] >= count_busy
              \/ /\ task_count[t] = count_applied /\ (Started(t) \/ current_mode = "first")
                 /\ task_count'[t] = count_busy \/ (task_count'[t] = count_executed /\ t \in Noop),
           \A task \in queued' : task \in queued \/ (task.target \in Targets /\ task_count[task.target] = count_applied)
    PROVE  DataCalm /\ TargetsLeft
<1>1. ASSUME NEW t \in Targets
      PROVE  /\ task_count'[t] = count_applied => task_count[t] = count_applied
             /\ task_count'[t] # count_applied => Started(t) \/ current_mode = "first"
             /\ Executed(t)' => Executed(t) \/ t \in Noop
  <2>1. CASE task_count'[t] = task_count[t]
    BY <2>1 DEF Started, Executed
  <2>2. CASE task_count[t] >= count_busy /\ task_count'[t] >= count_busy
    <3>1. ASSUME NEW k, k >= count_busy PROVE k # count_applied /\ k # count_executed
      BY <3>1 DEF count_busy, count_applied, count_executed
    <3>2. task_count[t] # count_applied /\ task_count'[t] # count_applied /\ task_count'[t] # count_executed
      BY <2>2, <3>1
    <3> QED
      BY <3>2 DEF Started, Executed
  <2>3. CASE /\ task_count[t] = count_applied /\ (Started(t) \/ current_mode = "first")
             /\ task_count'[t] = count_busy \/ (task_count'[t] = count_executed /\ t \in Noop)
    BY <2>3 DEF Executed, count_busy, count_executed
  <2> QED
    BY <2>1, <2>2, <2>3
<1> QED
  BY <1>1 DEF DataCalm, TargetsLeft

\* The counts of a step that changes the one of target a from applied.
LEMMA OneCount ==
    ASSUME Types, NEW a \in Targets, NEW k, task_count' = [task_count EXCEPT ![a] = k]
    PROVE  task_count'[a] = k /\ \A t \in Targets : t # a => task_count'[t] = task_count[t]
BY Constants DEF Types

LEMMA TryingStarted ==
    ASSUME IndInv, NEW u \in Threads, Trying(u)
    PROVE  \E c \in Calls :
              /\ Innermost(u, c) /\ Frame(c) = Top(u) /\ Frame(c) \in Frames /\ Frame(c).step = "try"
              /\ Prerequisite(Frame(c)) \in Targets /\ task_count[Prerequisite(Frame(c))] = count_applied
              /\ Started(Prerequisite(Frame(c)))
<1>1. Types /\ Busy(u) /\ Top(u).step = "try" /\ task_count[Prerequisite(Top(u))] = count_applied
  BY DEF IndInv, StructInv, Trying, At, MayExecute
<1>2. PICK c \in Calls : Innermost(u, c) /\ Frame(c) = Top(u) /\ Frame(c) \in Frames /\ Sound(Frame(c))
  BY <1>1, TopFrame
<1>3. PICK f : f = Frame(c)
  OBVIOUS
<1>4. f \in Frames /\ f.next >= 1 /\ More(f)
  BY <1>1, <1>2, <1>3 DEF Sound, InRange, More
<1>5. Prerequisite(f) \in Targets
  BY <1>1, <1>4, FrameMore
<1>6. Started(Prerequisite(f))
  BY <1>1, <1>2, <1>3 DEF Started
<1> QED
  BY <1>1, <1>2, <1>3, <1>5, <1>6

LEMMA NoopCalm ==
    ASSUME IndInv, NEW u \in Threads, ExecuteNoop(u)
    PROVE  Calm /\ TargetsLeft
<1>1. /\ Types /\ StatesInv /\ Trying(u) /\ stack' = Moved(u, NextOne(Top(u))) /\ stack \in [Threads -> Seq(Frames)]
      /\ UNCHANGED <<fixed, dependents, dependency_count, target_count, state, result>> /\ queued' = queued
  BY DEF IndInv, StructInv, Types, ExecuteNoop
<1>2. PICK c \in Calls :
         /\ Innermost(u, c) /\ Frame(c) = Top(u) /\ Frame(c) \in Frames /\ Frame(c).step = "try"
         /\ Prerequisite(Frame(c)) \in Targets /\ task_count[Prerequisite(Frame(c))] = count_applied
         /\ Started(Prerequisite(Frame(c)))
  BY <1>1, TryingStarted
<1>3. PICK f : f = Frame(c)
  OBVIOUS
<1>4. PICK a : a = Prerequisite(f)
  OBVIOUS
<1>5. /\ task_count' = [task_count EXCEPT ![a] = count_executed] /\ state[a] = "unchanged"
      /\ a \in Targets /\ task_count[a] = count_applied /\ Started(a)
  BY <1>2, <1>3, <1>4 DEF ExecuteNoop
<1>6. task_count'[a] = count_executed /\ \A t \in Targets : t # a => task_count'[t] = task_count[t]
  BY <1>1, <1>5, OneCount
<1>7. a \in Noop
  BY <1>1, <1>5 DEF StatesInv, Executed, count_applied, count_executed
<1>8. DataCalm /\ TargetsLeft
  BY <1>1, <1>5, <1>6, <1>7, CountData
<1>9. PICK g : g = NextOne(f)
  OBVIOUS
<1>10. g \in Frames /\ g.step = "start" /\ Onward(f, g)
  BY <1>1, <1>2, <1>3, <1>9, NextParts, NextOnward
<1>11. Calls' = Calls /\ Frame(c)' = g /\ \A d \in Calls : d # c => Frame(d)' = Frame(d)
  BY <1>1, <1>2, <1>3, <1>9, <1>10, MovedStack
<1>12. task_count'[Prerequisite(f)] # count_applied
  BY <1>4, <1>6 DEF count_applied, count_executed
<1>13. CallsCalm
  BY <1>3, <1>10, <1>11, <1>12, MoveCalls
<1> QED
  BY <1>8, <1>13 DEF Calm

LEMMA QueuedCalm ==
    ASSUME IndInv, NEW u \in Threads, ExecuteQueued(u)
    PROVE  Calm /\ TargetsLeft
<1>1. /\ Types /\ LocksInv /\ Trying(u) /\ stack' = Moved(u, NextOne(Top(u))) /\ stack \in [Threads -> Seq(Frames)]
      /\ UNCHANGED <<fixed, dependents, dependency_count, target_count, state, result>>
  BY DEF IndInv, StructInv, Types, ExecuteQueued
<1>2. PICK c \in Calls :
         /\ Innermost(u, c) /\ Frame(c) = Top(u) /\ Frame(c) \in Frames /\ Frame(c).step = "try"
         /\ Prerequisite(Frame(c)) \in Targets /\ task_count[Prerequisite(Frame(c))] = count_applied
         /\ Started(Prerequisite(Frame(c)))
  BY <1>1, TryingStarted
<1>3. PICK f : f = Frame(c)
  OBVIOUS
<1>4. PICK a : a = Prerequisite(f)
  OBVIOUS
<1>5. PICK n : n = f.target
  OBVIOUS
<1>6. n \in Nodes /\ (n = Root \/ (n \in Targets /\ task_count[n] >= count_busy))
  <2>1. Holding(c)
    BY <1>2 DEF Holding
  <2> QED
    BY <1>1, <1>3, <1>5, <2>1, HolderCount, Constants
<1>7. /\ task_count' = [task_count EXCEPT ![a] = count_busy, ![n] = @ + 1]
      /\ queued' = queued \cup {[target |-> a, parent |-> n, owner |-> u]}
      /\ a \in Targets /\ task_count[a] = count_applied /\ Started(a)
  BY <1>2, <1>3, <1>4, <1>5 DEF ExecuteQueued
<1>8. a # n /\ a \in Nodes /\ task_count \in [Nodes -> Nat] /\ task_count[n] \in Nat
  <2>1. ASSUME NEW k, k >= count_busy PROVE k # count_applied
    BY <2>1 DEF count_busy, count_applied
  <2>2. a \in Nodes /\ task_count \in [Nodes -> Nat] /\ task_count[n] \in Nat /\ a # Root
    BY <1>1, <1>6, <1>7, Constants DEF Types
  <2> QED
    BY <1>6, <1>7, <2>1, <2>2
<1>9. /\ task_count'[a] = count_busy /\ task_count'[n] = task_count[n] + 1
      /\ \A t \in Nodes : t # a /\ t # n => task_count'[t] = task_count[t]
  BY <1>6, <1>7, <1>8
<1>10. ASSUME NEW t \in Targets
       PROVE  \/ task_count'[t] = task_count[t]
              \/ task_count[t] >= count_busy /\ task_count'[t] >= count_busy
              \/ task_count[t] = count_applied /\ Started(t) /\ task_count'[t] = count_busy
  <2>1. CASE t = a
    BY <1>7, <1>9, <2>1
  <2>2. CASE t = n
    <3>1. task_count[n] >= count_busy
      BY <1>6, <2>2, Constants
    <3>2. task_count[n] + 1 >= count_busy
      BY <1>8, <3>1 DEF count_busy
    <3> QED
      BY <1>9, <2>2, <3>1, <3>2
  <2>3. CASE t # a /\ t # n
    BY <1>9, <2>3, Constants
  <2> QED
    BY <2>1, <2>2, <2>3
<1>11. DataCalm /\ TargetsLeft
  <2>1. \A t \in Targets :
           \/ task_count'[t] = task_count[t]
           \/ task_count[t] >= count_busy /\ task_count'[t] >= count_busy
           \/ /\ task_count[t] = count_applied /\ (Started(t) \/ current_mode = "first")
              /\ task_count'[t] = count_busy \/ (task_count'[t] = count_executed /\ t \in Noop)
    BY <1>10
  <2>2. \A task \in queued' : task \in queued \/ (task.target \in Targets /\ task_count[task.target] = count_applied)
    <3>1. PICK task : task = [target |-> a, parent |-> n, owner |-> u]
      OBVIOUS
    <3>2. task.target = a /\ queued' = queued \cup {task}
      BY <1>7, <3>1
    <3> QED
      BY <1>7, <3>2
  <2> QED
    BY <1>1, <2>1, <2>2, CountData
<1>12. PICK g : g = NextOne(f)
  OBVIOUS
<1>13. g \in Frames /\ g.step = "start" /\ Onward(f, g)
  BY <1>1, <1>2, <1>3, <1>12, NextParts, NextOnward
<1>14. Calls' = Calls /\ Frame(c)' = g /\ \A d \in Calls : d # c => Frame(d)' = Frame(d)
  BY <1>1, <1>2, <1>3, <1>12, <1>13, MovedStack
<1>15. task_count'[Prerequisite(f)] # count_applied
  BY <1>4, <1>9 DEF count_applied, count_busy
<1>16. CallsCalm
  BY <1>3, <1>13, <1>14, <1>15, MoveCalls
<1> QED
  BY <1>11, <1>16 DEF Calm

\* A call begins, or two: the calls that there are go on as they were.
LEMMA PushCalls ==
    ASSUME NEW e, e \notin Calls, Calls' = Calls \cup {e}, \A d \in Calls : Frame(d)' = Frame(d),
           NEW h, Frame(e)' = h, Entered(h)
    PROVE  CallsCalm
<1>1. h.target # Root /\ h.step \in {"start", "work"}
  <2>1. h.target \in Targets /\ h.step = FirstStep(h.target)
    BY DEF Entered, Call
  <2> QED
    BY <2>1, Constants DEF FirstStep
<1>2. ASSUME NEW d \in Calls'
      PROVE  /\ (d \in Calls /\ Onward(Frame(d), Frame(d)')) \/ (d \notin Calls /\ Entered(Frame(d)'))
             /\ Frame(d)'.step = "result" => d \in Calls /\ Frame(d)' = Frame(d)
             /\ Frame(d)'.target = Root /\ Frame(d)'.step \in {"wait", "end"} =>
                   d \in Calls /\ Frame(d).target = Root /\ Frame(d).step \in {"wait", "end"} /\ Frame(d)'.next = Frame(d).next
  <2>1. CASE d = e
    BY <1>1, <2>1
  <2>2. CASE d # e
    BY <2>2, OnwardSame
  <2> QED
    BY <2>1, <2>2
<1>3. ASSUME NEW d \in Calls PROVE d \in Calls' /\ Frame(d)' = Frame(d)
  OBVIOUS
<1> QED
  BY <1>2, <1>3 DEF CallsCalm, Holding

\* Nothing happens to the calls.
LEMMA SameCalls ==
    ASSUME stack' = stack
    PROVE  CallsCalm
<1>1. Calls' = Calls /\ \A d : Frame(d)' = Frame(d)
  BY DEF Calls, Frame
<1> QED
  BY <1>1, OnwardSame DEF CallsCalm, Holding

LEMMA SyncCalm ==
    ASSUME IndInv, NEW u \in Threads, ExecuteSync(u)
    PROVE  Calm /\ TargetsLeft
<1>1. /\ Types /\ Trying(u) /\ stack \in [Threads -> Seq(Frames)]
      /\ UNCHANGED <<fixed, dependents, dependency_count, target_count, state, result>> /\ queued' = queued
  BY DEF IndInv, StructInv, Types, ExecuteSync
<1>2. PICK c \in Calls :
         /\ Innermost(u, c) /\ Frame(c) = Top(u) /\ Frame(c) \in Frames /\ Frame(c).step = "try"
         /\ Prerequisite(Frame(c)) \in Targets /\ task_count[Prerequisite(Frame(c))] = count_applied
         /\ Started(Prerequisite(Frame(c)))
  BY <1>1, TryingStarted
<1>3. PICK f : f = Frame(c)
  OBVIOUS
<1>4. PICK a : a = Prerequisite(f)
  OBVIOUS
<1>5. PICK g : g = GoTo(f, "result")
  OBVIOUS
<1>6. PICK h : h = Call(a, a)
  OBVIOUS
<1>7. PICK e : e = <<u, Len(stack[u]) + 1>>
  OBVIOUS
<1>8. /\ task_count' = [task_count EXCEPT ![a] = count_busy] /\ stack' = Called(u, g, h)
      /\ a \in Targets /\ task_count[a] = count_applied /\ Started(a) /\ a \in Nodes
  BY <1>2, <1>3, <1>4, <1>5, <1>6, Constants DEF ExecuteSync
<1>9. /\ g \in Frames /\ g.target = f.target /\ g.parent = f.parent /\ g.step = "result" /\ g.next = f.next
      /\ g.postponed = f.postponed
  BY <1>2, <1>3, <1>5, GoToParts DEF Steps
<1>10. h \in Frames /\ h.target = a /\ h.parent = a /\ h.step \in {"start", "work"}
  BY <1>6, <1>8, CallParts
<1>11. /\ e \notin Calls /\ Calls' = Calls \cup {e} /\ Frame(e)' = h /\ Frame(c)' = g
       /\ (\A d \in Calls : d # c => Frame(d)' = Frame(d)) /\ Below(e) = c
  BY <1>1, <1>2, <1>7, <1>8, <1>9, <1>10, CalledStack
<1>12. task_count'[a] = count_busy /\ \A t \in Targets : t # a => task_count'[t] = task_count[t]
  BY <1>1, <1>8, OneCount
<1>13. DataCalm /\ TargetsLeft
  BY <1>1, <1>8, <1>12, CountData
<1>14. Onward(f, g)
  BY <1>2, <1>3, <1>9 DEF Onward, Sure, Never
<1>15. Entered(h)
  BY <1>6, <1>8, <1>10 DEF Entered
<1>16. Answered(c)'
  <2>1. (Prerequisite(Frame(c)))' = a
    <3>1. prerequisites' = prerequisites /\ current_mode' = current_mode
      BY <1>1 DEF fixed
    <3> QED
      BY <1>4, <1>9, <1>11, <3>1 DEF Prerequisite, InOrder
  <2>2. e \in Calls' /\ Below(e)' = c /\ Holding(e)' /\ Frame(e)'.target = a /\ Frame(e)'.parent = a
    BY <1>10, <1>11 DEF Holding, Below
  <2> QED
    BY <2>1, <2>2 DEF Answered
<1>17. ASSUME NEW d \in Calls'
       PROVE  /\ (d \in Calls /\ Onward(Frame(d), Frame(d)')) \/ (d \notin Calls /\ Entered(Frame(d)'))
              /\ Frame(d)'.step = "result" => (d \in Calls /\ Frame(d)' = Frame(d)) \/ Answered(d)'
              /\ Frame(d)'.target = Root /\ Frame(d)'.step \in {"wait", "end"} =>
                    d \in Calls /\ Frame(d).target = Root /\ Frame(d).step \in {"wait", "end"} /\ Frame(d)'.next = Frame(d).next
  <2>1. CASE d = e
    BY <1>10, <1>11, <1>15, <2>1
  <2>2. CASE d = c
    BY <1>3, <1>9, <1>11, <1>14, <1>16, <2>2
  <2>3. CASE d # e /\ d # c
    BY <1>11, <2>3, OnwardSame
  <2> QED
    BY <2>1, <2>2, <2>3
<1>18. ASSUME NEW d \in Calls
       PROVE  /\ Frame(d).step = "try" =>
                    (d \in Calls' /\ Frame(d)' = Frame(d)) \/ task_count'[Prerequisite(Frame(d))] # count_applied
              /\ Holding(d) => d \in Calls' /\ Holding(d)'
  <2>1. CASE d = c
    BY <1>3, <1>4, <1>9, <1>11, <1>12, <2>1 DEF Holding, count_busy, count_applied
  <2>2. CASE d # c
    BY <1>11, <2>2 DEF Holding
  <2> QED
    BY <2>1, <2>2
<1>19. CallsCalm
  BY <1>17, <1>18 DEF CallsCalm
<1> QED
  BY <1>13, <1>19 DEF Calm

LEMMA DirectCalm ==
    ASSUME IndInv, NEW u \in Threads, NEW a \in Early, ExecuteDirect(u, a)
    PROVE  Calm /\ TargetsLeft
<1>1. /\ Types /\ StatesInv /\ stack \in [Threads -> Seq(Frames)] /\ task_count[a] = count_applied
      /\ current_mode = "first" /\ a \in Targets /\ a \in Nodes
      /\ UNCHANGED <<fixed, dependents, dependency_count, target_count, state, result>> /\ queued' = queued
  BY ExecuteAssumption, Constants DEF IndInv, StructInv, Types, ExecuteDirect
<1>2. CASE state[a] = "unchanged"
  <2>1. task_count' = [task_count EXCEPT ![a] = count_executed] /\ stack' = stack
    BY <1>2 DEF ExecuteDirect
  <2>2. task_count'[a] = count_executed /\ \A t \in Targets : t # a => task_count'[t] = task_count[t]
    BY <1>1, <2>1, OneCount
  <2>3. a \in Noop
    BY <1>1, <1>2 DEF StatesInv, Executed, count_applied, count_executed
  <2>4. DataCalm /\ TargetsLeft
    BY <1>1, <2>2, <2>3, CountData
  <2> QED
    BY <2>1, <2>4, SameCalls DEF Calm
<1>3. CASE state[a] # "unchanged"
  <2>1. PICK h : h = Call(a, a)
    OBVIOUS
  <2>2. task_count' = [task_count EXCEPT ![a] = count_busy] /\ stack' = [stack EXCEPT ![u] = Append(@, h)]
    BY <1>3, <2>1 DEF ExecuteDirect
  <2>3. task_count'[a] = count_busy /\ \A t \in Targets : t # a => task_count'[t] = task_count[t]
    BY <1>1, <2>2, OneCount
  <2>4. DataCalm /\ TargetsLeft
    BY <1>1, <2>3, CountData
  <2>5. h \in Frames /\ h.target = a /\ h.parent = a
    BY <1>1, <2>1, CallParts
  <2>6. Entered(h)
    BY <1>1, <2>1, <2>5 DEF Entered
  <2>7. PICK e : e = <<u, Len(stack[u]) + 1>>
    OBVIOUS
  <2>8. e \notin Calls /\ Calls' = Calls \cup {e} /\ Frame(e)' = h /\ \A d \in Calls : Frame(d)' = Frame(d)
    BY <1>1, <2>2, <2>5, <2>7, PushedStack
  <2>9. CallsCalm
    BY <2>6, <2>8, PushCalls
  <2> QED
    BY <2>4, <2>9 DEF Calm
<1> QED
  BY <1>2, <1>3

LEMMA TaskStartCalm ==
    ASSUME IndInv, NEW u \in Threads, NEW task \in queued, TaskStart(u, task)
    PROVE  Calm /\ TargetsLeft
<1>1. /\ Types /\ stack \in [Threads -> Seq(Frames)] /\ task.target \in Targets /\ task.parent \in Nodes
      /\ UNCHANGED <<fixed, dependents, dependency_count, target_count, state, result>> /\ task_count' = task_count
      /\ queued' = queued \ {task}
  BY DEF IndInv, StructInv, Types, TaskStart, counts, Tasks
<1>2. DataCalm /\ TargetsLeft
  BY <1>1, CountData
<1>3. PICK h : h = Call(task.target, task.parent)
  OBVIOUS
<1>4. h \in Frames /\ h.target = task.target /\ h.parent = task.parent
  BY <1>1, <1>3, CallParts, Constants
<1>5. Entered(h)
  BY <1>1, <1>3, <1>4 DEF Entered
<1>6. stack' = [stack EXCEPT ![u] = Append(@, h)]
  BY <1>3 DEF TaskStart
<1>7. PICK e : e = <<u, Len(stack[u]) + 1>>
  OBVIOUS
<1>8. e \notin Calls /\ Calls' = Calls \cup {e} /\ Frame(e)' = h /\ \A d \in Calls : Frame(d)' = Frame(d)
  BY <1>1, <1>4, <1>6, <1>7, PushedStack
<1>9. CallsCalm
  BY <1>5, <1>8, PushCalls
<1> QED
  BY <1>2, <1>9 DEF Calm

\* A call is over: the one of a task, or the driver's.
LEMMA LeaveCalls ==
    ASSUME NEW c \in Calls, Calls' = Calls \ {c}, \A d \in Calls : d # c => Frame(d)' = Frame(d),
           Frame(c).step # "try", ~Holding(c) \/ Frame(c).target = Root \/ Over(c)
    PROVE  CallsCalm
<1>1. ASSUME NEW d \in Calls' PROVE d \in Calls /\ Frame(d)' = Frame(d) /\ Onward(Frame(d), Frame(d)')
  BY OnwardSame
<1>2. ASSUME NEW d \in Calls, d # c PROVE d \in Calls' /\ Frame(d)' = Frame(d)
  BY <1>2
<1> QED
  BY <1>1, <1>2 DEF CallsCalm, Holding

LEMMA TaskDoneCalm ==
    ASSUME IndInv, NEW u \in Threads, TaskDone(u)
    PROVE  Calm /\ TargetsLeft
<1>1. /\ StructInv /\ Types /\ Busy(u) /\ Top(u).step = "done" /\ stack \in [Threads -> Seq(Frames)]
      /\ UNCHANGED <<fixed, dependents, dependency_count, target_count, state, result>> /\ queued' = queued
  BY DEF IndInv, StructInv, Types, TaskDone, At
<1>2. PICK c \in Calls :
         /\ Innermost(u, c) /\ Frame(c) = Top(u) /\ Frame(c) \in Frames /\ Sound(Frame(c))
         /\ \A d \in Calls : Below(d) # c
  BY <1>1, TopFrame
<1>3. PICK p : p = Frame(c).parent
  OBVIOUS
<1>4. PICK k : k = task_count[p] - 1
  OBVIOUS
<1>5. Frame(c).step = "done" /\ Frame(c).target # p
  BY <1>1, <1>2, <1>3 DEF Sound, Stepwise
<1>6. task_count' = [task_count EXCEPT ![p] = k] /\ stack' = Returned(u) /\ OtherTypes
  BY <1>1, <1>2, <1>3, <1>4 DEF TaskDone, OtherTypes, Types, fixed
<1>7. /\ stack' \in [Threads -> Seq(Frames)] /\ Calls' = Calls \ {c}
      /\ \A d \in Calls : d # c => Frame(d)' = Frame(d)
  BY <1>1, <1>2, <1>6, ReturnedStack
<1>8. /\ \A m \in Nodes : m # p => task_count'[m] = task_count[m]
      /\ p \in Targets => task_count[p] > count_busy /\ task_count'[p] >= count_busy
  <2>1. /\ StructInv /\ OtherTypes /\ stack' \in [Threads -> Seq(Frames)] /\ Frame(c).parent = p
        /\ Frame(c).step = "done" /\ Frame(c).target # p
        /\ \A d \in Calls : Below(d) # c /\ (d # c => Frame(d)' = Frame(d))
        /\ Calls' = Calls \ {c} /\ k = task_count[p] - 1 /\ task_count' = [task_count EXCEPT ![p] = k]
        /\ queued' = queued /\ result' = result
    BY <1>1, <1>2, <1>3, <1>4, <1>5, <1>6, <1>7
  <2>2. \A m \in Nodes : m # p => task_count'[m] = task_count[m]
    BY <2>1, DoneStruct
  <2>3. p \in Targets => task_count[p] > count_busy
    BY <2>1, DoneStruct
  <2>4. p \in Targets => task_count'[p] >= count_busy
    BY <2>1, DoneStruct
  <2> QED
    BY <2>2, <2>3, <2>4
<1>9. ASSUME NEW t \in Targets
      PROVE  task_count'[t] = task_count[t] \/ (task_count[t] >= count_busy /\ task_count'[t] >= count_busy)
  <2>1. CASE t = p
    <3>1. task_count[t] \in Nat
      BY <1>1, Constants DEF Types
    <3> QED
      BY <1>8, <2>1, <3>1 DEF count_busy
  <2>2. CASE t # p
    BY <1>8, <2>2, Constants
  <2> QED
    BY <2>1, <2>2
<1>10. DataCalm /\ TargetsLeft
  <2>1. \A t \in Targets :
           \/ task_count'[t] = task_count[t]
           \/ task_count[t] >= count_busy /\ task_count'[t] >= count_busy
           \/ /\ task_count[t] = count_applied /\ (Started(t) \/ current_mode = "first")
              /\ task_count'[t] = count_busy \/ (task_count'[t] = count_executed /\ t \in Noop)
    BY <1>9
  <2> QED
    BY <1>1, <2>1, CountData
<1>11. CallsCalm
  BY <1>5, <1>7, LeaveCalls DEF Holding
<1> QED
  BY <1>10, <1>11 DEF Calm

-----------------------------------------------------------------------------
(***************************************************************************)
(* The end of a call, and the driver.                                      *)
(***************************************************************************)
LEMMA EndCalm ==
    ASSUME IndInv, NEW u \in Threads, End(u)
    PROVE  Calm /\ TargetsLeft
<1>1. /\ Types /\ LocksInv /\ Busy(u) /\ Top(u).step = "end" /\ Top(u).target # Root
      /\ stack \in [Threads -> Seq(Frames)]
  BY DEF IndInv, StructInv, Types, End, At
<1>2. PICK c \in Calls :
         /\ Innermost(u, c) /\ Frame(c) = Top(u) /\ Frame(c) \in Frames /\ Sound(Frame(c))
  BY <1>1, TopFrame
<1>3. PICK f : f = Frame(c)
  OBVIOUS
<1>4. PICK t : t = f.target
  OBVIOUS
<1>5. /\ f \in Frames /\ f = Top(u) /\ f.step = "end" /\ t # Root /\ t \in Targets /\ t \in Nodes
      /\ f.target \notin Noop /\ task_count[t] >= count_busy
  <2>1. f \in Frames /\ f = Top(u) /\ f.step = "end" /\ t # Root /\ f.target \notin Noop
    BY <1>1, <1>2, <1>3, <1>4 DEF Sound, Stepwise
  <2>2. t \in Nodes
    BY <1>4, <2>1, FrameTypes
  <2>3. Holding(c)
    BY <1>3, <2>1 DEF Holding
  <2> QED
    BY <1>1, <1>3, <1>4, <2>1, <2>2, <2>3, HolderCount, Constants
<1>6. PICK s : s = EndState(f)
  OBVIOUS
<1>7. /\ UNCHANGED <<fixed, dependents, dependency_count>> /\ result' = result /\ queued' = queued
      /\ state' = [state EXCEPT ![t] = s] /\ task_count' = [task_count EXCEPT ![t] = count_executed]
      /\ stack' = IF f.parent = t THEN Returned(u) ELSE Moved(u, GoTo(f, "done"))
      /\ target_count' = IF t \in Members THEN target_count ELSE target_count - 1
  BY <1>4, <1>5, <1>6 DEF End, EndCount
<1>8. /\ task_count'[t] = count_executed /\ \A a \in Targets : a # t => task_count'[a] = task_count[a]
  BY <1>1, <1>5, <1>7, OneCount
<1>9. state'[t] = s
  BY <1>1, <1>5, <1>7 DEF Types
<1>10. Over(c)
  BY <1>3, <1>4, <1>5, <1>6, <1>8, <1>9 DEF Over
<1>11. task_count[t] # count_applied /\ ~Executed(t)
  <2>1. ASSUME NEW k, k >= count_busy PROVE k # count_applied /\ k # count_executed
    BY <2>1 DEF count_busy, count_applied, count_executed
  <2> QED
    BY <1>5, <2>1 DEF Executed
<1>12. \A a \in Targets : a # t => (Executed(a)' <=> Executed(a))
  BY <1>8 DEF Executed
<1>13. Executed(t)'
  BY <1>8 DEF Executed
<1>14. TargetsLeft
  <2>1. CASE t \in Members
    BY <1>7, <1>12, <2>1 DEF TargetsLeft
  <2>2. CASE t \notin Members
    BY <1>4, <1>5, <1>7, <1>11, <1>12, <1>13, <2>2 DEF TargetsLeft
  <2> QED
    BY <2>1, <2>2
<1>15. result # "executed"
  BY <1>2, AllReturned
<1>16. DataCalm
  <2>1. ASSUME NEW a \in Targets
        PROVE  /\ task_count'[a] = count_applied => task_count[a] = count_applied
               /\ task_count'[a] # count_applied => Started(a)
               /\ Executed(a)' /\ ~Executed(a) => a = t
    <3>1. CASE a = t
      BY <1>8, <1>11, <3>1 DEF Started, count_applied, count_executed
    <3>2. CASE a # t
      BY <1>8, <1>12, <3>2 DEF Started
    <3> QED
      BY <3>1, <3>2
  <2>2. ASSUME NEW a \in Targets, Executed(a)', ~Executed(a)
        PROVE  \E d \in Calls : Frame(d).target = a /\ Frame(d).step = "end" /\ Over(d)
    BY <1>3, <1>4, <1>5, <1>10, <2>1, <2>2
  <2> QED
    BY <1>7, <1>15, <2>1, <2>2 DEF DataCalm
<1>17. CallsCalm
  <2>1. CASE f.parent = t
    <3>1. Calls' = Calls \ {c} /\ \A d \in Calls : d # c => Frame(d)' = Frame(d)
      BY <1>1, <1>2, <1>7, <2>1, ReturnedStack
    <3> QED
      BY <1>3, <1>5, <1>10, <3>1, LeaveCalls
  <2>2. CASE f.parent # t
    <3>1. PICK g : g = GoTo(f, "done")
      OBVIOUS
    <3>2. /\ g \in Frames /\ g.target = f.target /\ g.parent = f.parent /\ g.step = "done" /\ g.bad = f.bad
          /\ g.postponed = f.postponed
      BY <1>5, <3>1, GoToParts DEF Steps
    <3>3. Calls' = Calls /\ Frame(c)' = g /\ \A d \in Calls : d # c => Frame(d)' = Frame(d)
      BY <1>1, <1>2, <1>7, <2>2, <3>1, <3>2, MovedStack
    <3>4. Onward(f, g)
      BY <1>4, <1>5, <3>2 DEF Onward, Sure, Never
    <3>5. ASSUME NEW d \in Calls'
          PROVE  /\ d \in Calls /\ Onward(Frame(d), Frame(d)')
                 /\ Frame(d)'.step \in {"result", "wait", "end"} => Frame(d)' = Frame(d)
      <4>1. CASE d = c
        BY <1>3, <3>2, <3>3, <3>4, <4>1
      <4>2. CASE d # c
        BY <3>3, <4>2, OnwardSame
      <4> QED
        BY <4>1, <4>2
    <3>6. ASSUME NEW d \in Calls
          PROVE  /\ Frame(d).step = "try" => d \in Calls' /\ Frame(d)' = Frame(d)
                 /\ Holding(d) => (d \in Calls' /\ Holding(d)') \/ Over(d)
      <4>1. CASE d = c
        BY <1>3, <1>5, <1>10, <4>1
      <4>2. CASE d # c
        BY <3>3, <4>2 DEF Holding
      <4> QED
        BY <4>1, <4>2
    <3> QED
      BY <3>5, <3>6 DEF CallsCalm
  <2> QED
    BY <2>1, <2>2
<1> QED
  BY <1>14, <1>16, <1>17 DEF Calm

LEMMA BeginCalm ==
    ASSUME IndInv, ExecuteBegin
    PROVE  Calm /\ TargetsLeft
<1>1. /\ Types /\ stack \in [Threads -> Seq(Frames)] /\ Main \in Threads
      /\ UNCHANGED <<fixed, counts, state, queued>>
  BY Constants DEF IndInv, StructInv, Types, ExecuteBegin
<1>2. PICK c \in Calls :
         /\ Innermost(Main, c) /\ Frame(c) = Top(Main) /\ Frame(c) \in Frames /\ Sound(Frame(c))
         /\ Frame(c).target = Root /\ Frame(c).parent = Root /\ Frame(c).step = "match"
  BY OnlyCall DEF ExecuteBegin
<1>3. CASE \E t \in Early : state[t] = "failed"
  <2>1. stack' = Returned(Main) /\ result' = "failed"
    BY <1>3 DEF ExecuteBegin
  <2>2. Calls' = Calls \ {c} /\ \A d \in Calls : d # c => Frame(d)' = Frame(d)
    BY <1>1, <1>2, <2>1, ReturnedStack
  <2>3. CallsCalm
    BY <1>2, <2>2, LeaveCalls
  <2>4. DataCalm /\ TargetsLeft
    BY <1>1, <2>1 DEF DataCalm, TargetsLeft, counts, Started, Executed
  <2> QED
    BY <2>3, <2>4 DEF Calm
<1>4. CASE ~\E t \in Early : state[t] = "failed"
  <2>1. result' = result
    BY <1>4 DEF ExecuteBegin
  <2>2. PICK g : g = GoTo(RootCall, "start")
    OBVIOUS
  <2>3. RootCall \in Frames
    BY Constants DEF RootCall, Frames, Steps
  <2>4. /\ g \in Frames /\ g.target = Root /\ g.parent = Root /\ g.step = "start" /\ g.next = 1 /\ g.postponed = {}
    <3>1. RootCall.target = Root /\ RootCall.parent = Root /\ RootCall.next = 1 /\ RootCall.postponed = {}
      BY DEF RootCall
    <3> QED
      BY <2>2, <2>3, <3>1, GoToParts DEF Steps
  <2>5. stack' = Moved(Main, g)
    BY <1>4, <2>2 DEF ExecuteBegin
  <2>6. PICK f : f = Frame(c)
    OBVIOUS
  <2>7. f.target = Root /\ f.parent = Root /\ f.step = "match" /\ f.postponed = {}
    BY <1>2, <2>6 DEF Sound, InRange
  <2>8. ASSUME NEW i \in 1 .. Len(prerequisites[f.target]) PROVE ~Sure(g, i) /\ Never(f, i)
    <3>1. i >= 1 /\ ~(i < 1)
      BY <1>1, <2>7, Ordered, Constants
    <3> QED
      BY <2>4, <2>7, <3>1 DEF Sure, Never
  <2>9. Onward(f, g)
    BY <2>4, <2>7, <2>8 DEF Onward
  <2> QED
    BY <1>1, <1>2, <2>1, <2>4, <2>5, <2>6, <2>7, <2>9, MoveTopCalm
<1> QED
  BY <1>3, <1>4

LEMMA OperationCalm ==
    ASSUME IndInv, OperationExecuted
    PROVE  Calm /\ TargetsLeft
<1>1. /\ Main \in Threads /\ Busy(Main) /\ Top(Main).step = "end" /\ Top(Main).target = Root
      /\ UNCHANGED <<fixed, counts, state, queued>> /\ stack' = Returned(Main) /\ stack \in [Threads -> Seq(Frames)]
  BY Constants DEF IndInv, StructInv, Types, OperationExecuted, At
<1>2. PICK c \in Calls : Innermost(Main, c) /\ Frame(c) = Top(Main)
  BY <1>1, TopFrame
<1>3. Calls' = Calls \ {c} /\ \A d \in Calls : d # c => Frame(d)' = Frame(d)
  BY <1>1, <1>2, ReturnedStack
<1>4. CallsCalm
  BY <1>1, <1>2, <1>3, LeaveCalls
<1>5. result' = "executed" => \A p \in PrerequisitesOf(Root) : ExecutedState(p) # "failed"
  BY DEF OperationExecuted
<1>6. DataCalm /\ TargetsLeft
  BY <1>1, <1>2, <1>5 DEF DataCalm, TargetsLeft, counts, Started, Executed
<1> QED
  BY <1>4, <1>6 DEF Calm

-----------------------------------------------------------------------------
(***************************************************************************)
(* ExecuteDecrement: an edge is decremented.                               *)
(***************************************************************************)

\* Call c, which had frame f and now has g, has dropped the count of t.
Dropped(c, f, g, t) ==
    /\ c \in Calls /\ f = Frame(c) /\ f \in Frames /\ Sound(f) /\ f.step = "start"
    /\ f.next \in 1 .. Len(prerequisites[f.target]) /\ t = InOrder(f.target)[f.next]
    /\ f.target \in Nodes /\ t \in Targets /\ t \in PrerequisitesOf(f.target)
    /\ g.target = f.target /\ g.parent = f.parent
    /\ \/ Postpones(t) /\ g.step = "start" /\ g.next = f.next + 1 /\ g.postponed = f.postponed \cup {f.next}
       \/ ~Postpones(t) /\ g.step = "try" /\ g.next = f.next /\ g.postponed = f.postponed
    /\ Calls' = Calls /\ Frame(c)' = g /\ \A d \in Calls : d # c => Frame(d)' = Frame(d)
    /\ dependents' = [dependents EXCEPT ![t] = dependents[t] - 1]
    /\ dependency_count' = dependency_count - 1
    /\ UNCHANGED <<fixed, task_count, target_count, state, queued, worked, result>>

LEMMA DecrementParts ==
    ASSUME IndInv, NEW u \in Threads, ExecuteDecrement(u)
    PROVE  \E c, f, g, t : Dropped(c, f, g, t)
<1>1. /\ Types /\ Busy(u) /\ Top(u).step = "start" /\ More(Top(u)) /\ stack \in [Threads -> Seq(Frames)]
      /\ UNCHANGED <<fixed, task_count, target_count, state, queued, worked, result>>
  BY DEF IndInv, StructInv, Types, ExecuteDecrement, At
<1>2. PICK c \in Calls : Innermost(u, c) /\ Frame(c) = Top(u) /\ Frame(c) \in Frames /\ Sound(Frame(c))
  BY <1>1, TopFrame
<1>3. PICK f : f = Frame(c)
  OBVIOUS
<1>4. /\ f \in Frames /\ f = Top(u) /\ Sound(f) /\ f.step = "start" /\ More(f) /\ f.target \in Nodes /\ f.next \in Nat
      /\ f.next >= 1 /\ f.postponed \subseteq Nat
  BY <1>1, <1>2, <1>3, FrameTypes DEF Sound, InRange
<1>5. PICK t : t = Prerequisite(f)
  OBVIOUS
<1>6. /\ f.next \in 1 .. Len(prerequisites[f.target]) /\ t = InOrder(f.target)[f.next]
      /\ t \in Targets /\ t \in PrerequisitesOf(f.target)
  BY <1>1, <1>4, <1>5, FrameMore
<1>7. /\ dependents' = [dependents EXCEPT ![t] = dependents[t] - 1]
      /\ dependency_count' = dependency_count - 1
  BY <1>4, <1>5 DEF ExecuteDecrement
<1>8. ASSUME NEW g \in Frames, stack' = Moved(u, g), g.target = f.target, g.parent = f.parent,
             \/ Postpones(t) /\ g.step = "start" /\ g.next = f.next + 1 /\ g.postponed = f.postponed \cup {f.next}
             \/ ~Postpones(t) /\ g.step = "try" /\ g.next = f.next /\ g.postponed = f.postponed
      PROVE  Dropped(c, f, g, t)
  <2>1. Calls' = Calls /\ Frame(c)' = g /\ \A d \in Calls : d # c => Frame(d)' = Frame(d)
    BY <1>1, <1>2, <1>8, MovedStack
  <2> QED
    BY <1>1, <1>2, <1>3, <1>4, <1>6, <1>7, <1>8, <2>1 DEF Dropped
<1>9. CASE Postpones(t)
  <2>1. PICK s : s = f.postponed \cup {f.next}
    OBVIOUS
  <2>2. PICK h : h = NextOne(f)
    OBVIOUS
  <2>3. PICK g : g = [h EXCEPT !.postponed = s]
    OBVIOUS
  <2>4. /\ h \in Frames /\ h.target = f.target /\ h.parent = f.parent /\ h.step = "start"
        /\ h.next = f.next + 1 /\ h.postponed = f.postponed
    BY <1>4, <2>2, NextParts
  <2>5. s \in SUBSET Nat
    BY <1>4, <2>1
  <2>6. /\ g \in Frames /\ g.target = f.target /\ g.parent = f.parent /\ g.step = "start"
        /\ g.next = f.next + 1 /\ g.postponed = s
    BY <2>3, <2>4, <2>5 DEF Frames
  <2>7. stack' = Moved(u, g)
    <3>1. g = [NextOne(f) EXCEPT !.postponed = @ \cup {f.next}]
      BY <2>1, <2>2, <2>3, <2>4
    <3> QED
      BY <1>4, <1>5, <1>9, <3>1 DEF ExecuteDecrement
  <2> QED
    BY <1>8, <1>9, <2>1, <2>6, <2>7
<1>10. CASE ~Postpones(t)
  <2>1. PICK g : g = GoTo(f, "try")
    OBVIOUS
  <2>2. /\ g \in Frames /\ g.target = f.target /\ g.parent = f.parent /\ g.step = "try" /\ g.next = f.next
        /\ g.postponed = f.postponed
    BY <1>4, <2>1, GoToParts DEF Steps
  <2>3. stack' = Moved(u, g)
    BY <1>4, <1>5, <1>10, <2>1 DEF ExecuteDecrement
  <2> QED
    BY <1>8, <1>10, <2>2, <2>3
<1> QED
  BY <1>9, <1>10

\* What else follows: the edge was not decremented before.
LEMMA DroppedEdge ==
    ASSUME IndInv, NEW c, NEW f, NEW g, NEW t, Dropped(c, f, g, t), NEW D \in SUBSET Edges, Exact(D), Counted(D)
    PROVE  /\ <<f.target, t>> \in Edges /\ <<f.target, t>> \notin D
           /\ f.target \in Left(t, D) /\ IsFiniteSet(Left(t, D)) /\ IsFiniteSet(Edges \ D)
           /\ dependents[t] \in Nat \ {0}
<1>1. /\ Types /\ c \in Calls /\ f = Frame(c) /\ f.step = "start" /\ t = InOrder(f.target)[f.next]
      /\ f.next \in 1 .. Len(prerequisites[f.target])
      /\ f.target \in Nodes /\ t \in Targets /\ t \in PrerequisitesOf(f.target)
  BY DEF IndInv, StructInv, Dropped
<1>2. PICK e : e = <<f.target, t>>
  OBVIOUS
<1>3. e \in Edges
  BY <1>1, <1>2 DEF Edges
<1>4. e \notin D
  <2>1. Fits(f, D)
    BY <1>1 DEF Counted, Holding
  <2>2. f.next >= f.next
    BY <1>1, Ordered
  <2>3. Never(f, f.next)
    BY <1>1, <2>2 DEF Never
  <2> QED
    BY <1>1, <1>2, <2>1, <2>3 DEF Fits
<1>5. IsFiniteSet(Nodes) /\ IsFiniteSet(Nodes \X Targets)
  BY ExecuteAssumption, FS_AddElement, FS_Product DEF Nodes
<1>6. PICK N : N = Left(t, D)
  OBVIOUS
<1>7. N \subseteq Nodes /\ f.target \in N
  BY <1>1, <1>2, <1>4, <1>6 DEF DependentsOf, Left
<1>8. IsFiniteSet(N) /\ Cardinality(N) \in Nat
  BY <1>5, <1>7, FS_Subset, FS_CardinalityType
<1>9. Cardinality(N) # 0
  BY <1>7, <1>8, FS_EmptySet
<1>10. dependents[t] = Cardinality(N)
  BY <1>1, <1>6 DEF Exact
<1>11. IsFiniteSet(Edges \ D)
  <2>1. Edges \ D \subseteq Nodes \X Targets
    BY DEF Edges
  <2> QED
    BY <1>5, <2>1, FS_Subset
<1> QED
  BY <1>2, <1>3, <1>4, <1>6, <1>7, <1>8, <1>9, <1>10, <1>11

\* What the other calls see of it.
LEMMA DroppedSame ==
    ASSUME IndInv, NEW c, NEW f, NEW g, NEW t, Dropped(c, f, g, t)
    PROVE  /\ Kept /\ Edges' = Edges
           /\ \A n : DependentsOf(n)' = DependentsOf(n) /\ PrerequisitesOf(n)' = PrerequisitesOf(n) /\ InOrder(n)' = InOrder(n)
           /\ \A n : (Executed(n)' <=> Executed(n)) /\ ExecutedState(n)' = ExecutedState(n)
           /\ Holding(c) /\ Holding(c)' /\ \A d \in Calls : Holding(d)' <=> Holding(d)
           /\ Types /\ StatesInv /\ dependents \in [Targets -> Nat] => dependents'[t] = dependents[t] - 1
           /\ ~f.bad /\ f.postponed \subseteq 1 .. (f.next - 1)
<1>1. Types /\ StatesInv /\ UNCHANGED <<fixed, task_count, target_count, state, queued, worked, result>>
  BY DEF IndInv, StructInv, Dropped
<1>2. Kept
  BY <1>1 DEF Kept, fixed, Executed
<1>3. /\ Edges' = Edges
      /\ \A n : DependentsOf(n)' = DependentsOf(n) /\ PrerequisitesOf(n)' = PrerequisitesOf(n) /\ InOrder(n)' = InOrder(n)
  BY <1>2, SameEdges, SameOrder
<1>4. \A n : (Executed(n)' <=> Executed(n)) /\ ExecutedState(n)' = ExecutedState(n)
  BY <1>1, <1>2 DEF Executed, ExecutedState, Kept
<1>5. Holding(c) /\ Holding(c)' /\ \A d \in Calls : Holding(d)' <=> Holding(d)
  BY DEF Dropped, Holding
<1>6. Types /\ StatesInv /\ dependents \in [Targets -> Nat] => dependents'[t] = dependents[t] - 1
  BY DEF Dropped
<1>7. ~f.bad /\ f.postponed \subseteq 1 .. (f.next - 1)
  BY DEF Dropped, Sound, Stepwise, InRange
<1> QED
  BY <1>2, <1>3, <1>4, <1>5, <1>6, <1>7

LEMMA DropEdges ==
    ASSUME IndInv, CountTypes, EdgesInv, NEW c, NEW f, NEW g, NEW t, Dropped(c, f, g, t)
    PROVE  EdgesInv'
<1>1. /\ Types /\ LocksInv /\ c \in Calls /\ f = Frame(c) /\ f.step = "start" /\ f.target \in Nodes /\ t \in Targets
      /\ f.next \in 1 .. Len(prerequisites[f.target]) /\ t = InOrder(f.target)[f.next]
      /\ g.target = f.target /\ Frame(c)' = g /\ Calls' = Calls /\ \A d \in Calls : d # c => Frame(d)' = Frame(d)
      /\ UNCHANGED <<fixed, task_count, target_count, state, queued, worked, result>> /\ Sound(f)
  BY DEF IndInv, StructInv, Dropped
<1>2. PICK D \in SUBSET Edges : Exact(D) /\ Counted(D)
  BY DEF EdgesInv
<1>3. PICK e : e = <<f.target, t>>
  OBVIOUS
<1>4. PICK E : E = D \cup {e}
  OBVIOUS
<1>5. /\ Edges' = Edges /\ Kept
      /\ \A n : DependentsOf(n)' = DependentsOf(n) /\ PrerequisitesOf(n)' = PrerequisitesOf(n) /\ InOrder(n)' = InOrder(n)
      /\ \A n : (Executed(n)' <=> Executed(n)) /\ Holding(c) /\ Holding(c)' /\ \A d \in Calls : Holding(d)' <=> Holding(d)
  BY DroppedSame
<1>6. /\ e \in Edges /\ e \notin D
      /\ dependents[t] - 1 = Cardinality(Left(t, D) \ {f.target})
      /\ dependency_count - 1 = Cardinality((Edges \ D) \ {e})
      /\ \A i \in 1 .. Len(prerequisites[f.target]) : InOrder(f.target)[i] = t => i = f.next
  <2>1. /\ e \in Edges /\ e \notin D
        /\ f.target \in Left(t, D) /\ IsFiniteSet(Left(t, D)) /\ IsFiniteSet(Edges \ D)
    BY <1>2, <1>3, DroppedEdge
  <2>2. dependents[t] = Cardinality(Left(t, D)) /\ dependency_count = Cardinality(Edges \ D)
    BY <1>1, <1>2 DEF Exact
  <2>3. Cardinality(Left(t, D) \ {f.target}) = Cardinality(Left(t, D)) - 1
    BY <2>1, FS_RemoveElement
  <2>4. e \in Edges \ D
    BY <2>1
  <2>5. Cardinality((Edges \ D) \ {e}) = Cardinality(Edges \ D) - 1
    BY <2>1, <2>4, FS_RemoveElement
  <2>6. \A i \in 1 .. Len(prerequisites[f.target]) : InOrder(f.target)[i] = t => i = f.next
    BY <1>1, Ordered
  <2> QED
    BY <2>1, <2>2, <2>3, <2>5, <2>6
<1>7. e[1] = f.target /\ e[2] = t
  BY <1>3
<1>8. f.target = Root \/ (f.target \in Targets /\ task_count[f.target] >= count_busy)
  BY <1>1, <1>5, HolderCount
<1>9. Exact(E)'
  <2>1. dependency_count' = dependency_count - 1 /\ dependents' = [dependents EXCEPT ![t] = dependents[t] - 1]
    BY DEF Dropped
  <2>2. Edges \ E = (Edges \ D) \ {e}
    BY <1>4
  <2>3. dependency_count' = Cardinality(Edges \ E)
    BY <1>6, <2>1, <2>2
  <2>4. ASSUME NEW x \in Targets, x # t PROVE dependents'[x] = Cardinality(Left(x, E))
    <3>1. dependents'[x] = dependents[x]
      BY <2>1, <2>4
    <3>2. \A n : <<n, x>> # e
      BY <1>3, <2>4
    <3>3. Left(x, E) = Left(x, D)
      BY <1>4, <3>2 DEF Left
    <3> QED
      BY <1>2, <3>1, <3>3 DEF Exact
  <2>5. dependents'[t] = Cardinality(Left(t, E))
    <3>1. dependents'[t] = dependents[t] - 1
      <4>1. t \in DOMAIN dependents
        BY <1>1 DEF CountTypes
      <4> QED
        BY <2>1, <4>1
    <3>2. \A n : <<n, t>> = e <=> n = f.target
      BY <1>3
    <3>3. Left(t, E) = Left(t, D) \ {f.target}
      BY <1>4, <3>2 DEF Left
    <3> QED
      BY <1>6, <3>1, <3>3
  <2> QED
    BY <1>5, <2>3, <2>4, <2>5 DEF Exact, Left
<1>10. ASSUME NEW d \in Calls, Holding(d)' PROVE Fits(Frame(d), E)'
  <2>1. CASE d # c
    <3>1. Frame(d)' = Frame(d) /\ Holding(d)
      BY <1>1, <1>5, <1>10, <2>1
    <3>2. Frame(d).target # f.target
      BY <1>1, <1>5, <2>1, <3>1 DEF LocksInv
    <3>3. Fits(Frame(d), D)
      BY <1>2, <3>1 DEF Counted
    <3>4. \A p : <<Frame(d).target, p>> # e
      BY <1>3, <3>2
    <3>5. Fits(Frame(d), E)
      BY <1>4, <3>3, <3>4 DEF Fits
    <3> QED
      BY <1>5, <3>1, <3>5, FitsStays
  <2>2. CASE d = c
    <3>1. Fits(f, D)
      BY <1>1, <1>2, <1>5 DEF Counted
    <3>2. Len(prerequisites[f.target]) \in Nat /\ f.next \in Nat
      BY <1>1, Ordered
    <3>3. ASSUME NEW i \in 1 .. Len(prerequisites[g.target])
          PROVE  LET a == <<g.target, InOrder(g.target)[i]>>
                 IN  (Sure(g, i) => a \in E) /\ (Never(g, i) => a \notin E)
      <4>1. PICK a : a = <<f.target, InOrder(f.target)[i]>>
        OBVIOUS
      <4>2. i \in Nat /\ i \in 1 .. Len(prerequisites[f.target])
        BY <1>1, <3>2, <3>3
      <4>3. /\ g.step \in {"start", "try"}
            /\ g.step = "start" => g.next = f.next + 1
            /\ g.step = "try" => g.next = f.next
        BY DEF Dropped
      <4>4. Sure(g, i) => i <= f.next
        BY <3>2, <4>2, <4>3 DEF Sure
      <4>5. Never(g, i) => i > f.next
        BY <3>2, <4>2, <4>3 DEF Never
      <4>6. i < f.next => a \in D
        BY <1>1, <3>1, <4>1, <4>2 DEF Fits, Sure
      <4>7. i > f.next => a \notin D /\ a # e
        <5>1. i > f.next => i >= f.next /\ i # f.next
          BY <3>2, <4>2
        <5>2. i >= f.next => a \notin D
          BY <1>1, <3>1, <4>1, <4>2 DEF Fits, Never
        <5>3. a = e => InOrder(f.target)[i] = t
          BY <1>3, <4>1
        <5> QED
          BY <1>6, <4>2, <5>1, <5>2, <5>3
      <4>8. i = f.next => a = e
        BY <1>1, <1>3, <4>1
      <4>9. Sure(g, i) => a \in E
        BY <1>4, <3>2, <4>2, <4>4, <4>6, <4>8
      <4>10. Never(g, i) => a \notin E
        BY <1>4, <4>5, <4>7
      <4> QED
        BY <1>1, <4>1, <4>9, <4>10
    <3>4. Fits(g, E)
      BY <3>3 DEF Fits
    <3> QED
      BY <1>1, <1>5, <2>2, <3>4, FitsStays
  <2> QED
    BY <2>1, <2>2
<1>11. ASSUME NEW a \in Edges
       PROVE  /\ a[1] \in Targets /\ Executed(a[1])' /\ state'[a[1]] # "failed" => a \in E
              /\ a[1] \in Targets /\ task_count'[a[1]] = count_applied => a \notin E
              /\ (\E task \in queued' : task.target = a[1]) => a \notin E
              /\ current_mode = "last" /\ a \in E => a[1] \in worked' \cup Members \cup {Root}
  <2>1. /\ a[1] \in Targets /\ Executed(a[1]) /\ state[a[1]] # "failed" => a \in D
        /\ a[1] \in Targets /\ task_count[a[1]] = count_applied => a \notin D
        /\ (\E task \in queued : task.target = a[1]) => a \notin D
        /\ current_mode = "last" /\ a \in D => a[1] \in worked \cup Members \cup {Root}
    BY <1>2 DEF Counted
  <2>2. CASE a # e
    BY <1>1, <1>4, <1>5, <2>1, <2>2
  <2>3. CASE a = e
    <3>1. a[1] = f.target /\ a \in E
      BY <1>4, <1>7, <2>3
    <3>2. ~(a[1] \in Targets /\ task_count[a[1]] = count_applied)
      <4>1. \A k \in Nat : k >= count_busy => k # count_applied
        BY DEF count_busy, count_applied
      <4>2. a[1] \in Targets => task_count[a[1]] \in Nat
        BY <1>1, Constants DEF Types
      <4> QED
        BY <1>8, <3>1, <4>1, <4>2, Constants
    <3>3. ~(\E task \in queued : task.target = a[1])
      BY <1>1, <1>5, <3>1 DEF LocksInv
    <3>4. current_mode = "last" => a[1] \in worked \cup Members \cup {Root}
      <4>1. current_mode = "last" => ~(current_mode = "first")
        OBVIOUS
      <4> QED
        BY <1>1, <3>1, <4>1, DroppedSame DEF Sound, Stepwise
    <3> QED
      BY <1>1, <3>1, <3>2, <3>3, <3>4
  <2> QED
    BY <2>2, <2>3
<1>12. Counted(E)'
  <2>1. \A d \in Calls' : Holding(d)' => Fits(Frame(d), E)'
    BY <1>1, <1>10
  <2>2. result' = "executed" => \A p \in PrerequisitesOf(Root)' : <<Root, p>> \in E
    BY <1>1, <1>2, <1>4, <1>5 DEF Counted
  <2>3. current_mode' = current_mode
    BY <1>5 DEF Kept
  <2> QED
    BY <1>5, <1>11, <2>1, <2>2, <2>3 DEF Counted
<1>13. E \in SUBSET Edges
  BY <1>2, <1>4, <1>6
<1> QED
  BY <1>5, <1>9, <1>12, <1>13 DEF EdgesInv

\* The last dependent goes on to execute the target, and nobody did before.
LEMMA DropStarted ==
    ASSUME CountedInv, NEW c, NEW f, NEW g, NEW t, Dropped(c, f, g, t)
    PROVE  /\ StartedInv'
           /\ \A x \in Targets : x # t => (Started(x)' => Started(x))
           /\ current_mode = "last" /\ Started(t)' => ~Postpones(t)
<1>1. /\ Types /\ c \in Calls /\ f = Frame(c) /\ f.step = "start" /\ f.target \in Nodes /\ t \in Targets
      /\ f.next \in 1 .. Len(prerequisites[f.target]) /\ t = InOrder(f.target)[f.next]
      /\ g.target = f.target /\ Frame(c)' = g /\ Calls' = Calls /\ \A d \in Calls : d # c => Frame(d)' = Frame(d)
      /\ UNCHANGED <<fixed, task_count, target_count, state, queued, worked, result>>
      /\ StartedInv /\ IndInv /\ EdgesInv /\ CountTypes /\ current_mode' = current_mode
  BY DEF CountedInv, IndInv, StructInv, Dropped, fixed
<1>2. /\ dependents \in [Targets -> Nat] /\ dependents[t] \in Nat \ {0}
      /\ dependents' = [dependents EXCEPT ![t] = dependents[t] - 1]
  <2>1. PICK D \in SUBSET Edges : Exact(D) /\ Counted(D)
    BY <1>1 DEF EdgesInv
  <2> QED
    BY <1>1, <2>1, DroppedEdge DEF CountTypes, Dropped
<1>3. \A n : InOrder(n)' = InOrder(n)
  BY <1>1, DroppedSame
<1>4. \A d : (Prerequisite(Frame(d)))' = InOrder(Frame(d)'.target)[Frame(d)'.next]
  BY <1>3 DEF Prerequisite
<1>5. \/ Postpones(t) /\ g.step = "start"
      \/ ~Postpones(t) /\ g.step = "try" /\ g.next = f.next
  BY DEF Dropped
<1>6. ASSUME NEW x \in Targets, Started(x), x # t \/ ~Postpones(t) PROVE Started(x)'
  <2>1. ASSUME NEW d \in Calls, Frame(d).step = "try", Prerequisite(Frame(d)) = x PROVE Started(x)'
    <3>1. d # c /\ Frame(d)' = Frame(d)
      BY <1>1, <2>1
    <3> QED
      BY <1>1, <1>4, <2>1, <3>1 DEF Started, Prerequisite
  <2> QED
    BY <1>1, <1>6, <2>1 DEF Started
<1>7. ASSUME NEW x \in Targets, Started(x)', ~Started(x) PROVE x = t /\ g.step = "try"
  <2>1. PICK d \in Calls : Frame(d)'.step = "try" /\ (Prerequisite(Frame(d)))' = x
    BY <1>1, <1>7 DEF Started
  <2>2. d = c
    BY <1>1, <1>4, <1>7, <2>1 DEF Started, Prerequisite
  <2> QED
    BY <1>1, <1>4, <1>5, <2>1, <2>2
<1>8. g.step = "try" => Started(t)'
  BY <1>1, <1>4, <1>5 DEF Started
<1>9. current_mode = "last" /\ Started(t)' => ~Postpones(t) /\ dependents[t] = 1
  <2>1. current_mode = "last" => ~Started(t)
    BY <1>1, <1>2 DEF StartedInv
  <2> QED
    BY <1>1, <1>5, <1>7, <2>1 DEF Postpones
<1>10. ASSUME NEW x \in Targets, dependents'[x] = 0 PROVE Started(x)'
  <2>1. CASE x = t
    <3>1. dependents[t] = 1
      BY <1>2, <1>10, <2>1
    <3> QED
      BY <1>5, <1>8, <2>1, <3>1 DEF Postpones
  <2>2. CASE x # t
    <3>1. dependents[x] = 0
      BY <1>2, <1>10, <2>2
    <3> QED
      BY <1>1, <1>6, <2>2, <3>1 DEF StartedInv
  <2> QED
    BY <2>1, <2>2
<1>11. ASSUME current_mode = "last", NEW x \in Targets, Started(x)' PROVE dependents'[x] = 0
  <2>1. CASE x = t
    BY <1>2, <1>9, <1>11, <2>1
  <2>2. CASE x # t
    BY <1>1, <1>2, <1>7, <1>11, <2>2 DEF StartedInv
  <2> QED
    BY <2>1, <2>2
<1>12. StartedInv'
  BY <1>1, <1>10, <1>11 DEF StartedInv
<1> QED
  BY <1>7, <1>9, <1>12

\* Who executes the target in the last mode is going to look at it.
LEMMA DropLooks ==
    ASSUME CountedInv, NEW c, NEW f, NEW g, NEW t, Dropped(c, f, g, t)
    PROVE  LookInv'
<1>1. /\ Types /\ c \in Calls /\ f = Frame(c) /\ f.step = "start" /\ f.target \in Nodes /\ t \in Targets
      /\ f.next \in 1 .. Len(prerequisites[f.target]) /\ t = InOrder(f.target)[f.next]
      /\ g.target = f.target /\ Frame(c)' = g /\ Calls' = Calls /\ \A d \in Calls : d # c => Frame(d)' = Frame(d)
      /\ UNCHANGED <<fixed, task_count, target_count, state, queued, worked, result>>
      /\ LookInv /\ IndInv /\ current_mode' = current_mode /\ t \in PrerequisitesOf(f.target)
  BY DEF CountedInv, IndInv, StructInv, Dropped, fixed
<1>2. /\ \A n : DependentsOf(n)' = DependentsOf(n) /\ InOrder(n)' = InOrder(n)
      /\ \A n : (Executed(n)' <=> Executed(n)) /\ ExecutedState(n)' = ExecutedState(n)
      /\ Holding(c) /\ Holding(c)' /\ \A d \in Calls : Holding(d)' <=> Holding(d)
      /\ f.postponed \subseteq 1 .. (f.next - 1)
  BY <1>1, DroppedSame
<1>3. \/ Postpones(t) /\ g.postponed = f.postponed \cup {f.next}
      \/ ~Postpones(t) /\ g.postponed = f.postponed
  BY DEF Dropped
<1> SUFFICES ASSUME current_mode = "last", NEW x \in Targets, Started(x)' PROVE \E n \in DependentsOf(x) : Looks(n, x)'
  BY <1>1, <1>2 DEF LookInv
<1>4. CASE x # t
  <2>1. PICK n \in DependentsOf(x) : Looks(n, x)
    BY <1>1, <1>4, DropStarted DEF LookInv
  <2>2. ASSUME NEW d \in Calls, Holding(d), Frame(d).target = n, \A i \in Frame(d).postponed : InOrder(n)[i] # x
        PROVE  Looks(n, x)'
    <3>1. CASE d # c
      BY <1>1, <1>2, <2>2, <3>1 DEF Looks
    <3>2. CASE d = c
      <4>1. \A i \in g.postponed : InOrder(n)[i] # x
        BY <1>1, <1>3, <1>4, <2>2, <3>2
      <4> QED
        BY <1>1, <1>2, <2>2, <3>2, <4>1 DEF Looks
    <3> QED
      BY <3>1, <3>2
  <2>3. state' = state
    BY <1>1
  <2> QED
    BY <1>2, <2>1, <2>2, <2>3 DEF Looks
<1>5. CASE x = t
  <2>1. g.postponed = f.postponed
    BY <1>3, <1>5, DropStarted
  <2>2. ASSUME NEW i \in g.postponed PROVE InOrder(f.target)[i] # t
    <3>1. i \in 1 .. (f.next - 1) /\ Len(prerequisites[f.target]) \in Nat /\ f.next \in Nat
      BY <1>1, <1>2, <2>1, <2>2, Ordered
    <3>2. i \in 1 .. Len(prerequisites[f.target]) /\ i # f.next
      BY <1>1, <3>1
    <3> QED
      BY <1>1, <3>2, Ordered
  <2>3. Looks(f.target, t)'
    BY <1>1, <1>2, <2>2 DEF Looks
  <2> QED
    BY <1>1, <1>5, <2>3 DEF DependentsOf
<1> QED
  BY <1>4, <1>5

LEMMA DecrementCounted ==
    ASSUME CountedInv, NEW u \in Threads, ExecuteDecrement(u)
    PROVE  CountedInv'
<1>1. PICK c, f, g, t : Dropped(c, f, g, t)
  BY DecrementParts DEF CountedInv
<1>2. /\ Types /\ c \in Calls /\ f = Frame(c) /\ f.step = "start" /\ f.target \in Nodes /\ t \in Targets
      /\ g.target = f.target /\ g.parent = f.parent /\ g.step \in {"start", "try"}
      /\ Frame(c)' = g /\ Calls' = Calls /\ \A d \in Calls : d # c => Frame(d)' = Frame(d)
      /\ prerequisites' = prerequisites /\ depth' = depth /\ target_count' = target_count /\ state' = state
      /\ result' = result /\ dependents' = [dependents EXCEPT ![t] = dependents[t] - 1]
      /\ IndInv /\ EdgesInv /\ CountTypes /\ TargetCount /\ RootInv /\ ResultInv
  BY <1>1 DEF CountedInv, IndInv, StructInv, Dropped, fixed
<1>3. IndInv'
  BY <1>2, DecrementKeeps
<1>4. /\ Edges' = Edges /\ \A n : PrerequisitesOf(n)' = PrerequisitesOf(n) /\ InOrder(n)' = InOrder(n)
      /\ \A n : (Executed(n)' <=> Executed(n)) /\ ExecutedState(n)' = ExecutedState(n)
      /\ Holding(c) /\ Holding(c)' /\ \A d \in Calls : Holding(d)' <=> Holding(d)
  BY <1>1, <1>2, DroppedSame
<1>5. EdgesInv' /\ StartedInv' /\ LookInv'
  BY <1>1, <1>2, DropEdges, DropStarted, DropLooks
<1>6. CountTypes'
  <2>1. dependency_count' \in Nat
    <3>1. PICK D \in SUBSET Edges' : Exact(D)'
      BY <1>5 DEF EdgesInv
    <3>2. dependency_count' = Cardinality(Edges \ D)
      BY <1>4, <3>1 DEF Exact
    <3>3. IsFiniteSet(Nodes) /\ IsFiniteSet(Nodes \X Targets) /\ Edges \ D \subseteq Nodes \X Targets
      BY ExecuteAssumption, FS_AddElement, FS_Product DEF Nodes, Edges
    <3>4. IsFiniteSet(Edges \ D) /\ Cardinality(Edges \ D) \in Nat
      BY <3>3, FS_Subset, FS_CardinalityType
    <3> QED
      BY <3>2, <3>4
  <2>2. dependents' \in [Targets -> Nat]
    <3>1. PICK D \in SUBSET Edges : Exact(D) /\ Counted(D)
      BY <1>2 DEF EdgesInv
    <3>2. dependents[t] \in Nat \ {0} /\ dependents \in [Targets -> Nat]
      BY <1>1, <1>2, <3>1, DroppedEdge DEF CountTypes
    <3>3. dependents[t] - 1 \in Nat
      BY <3>2
    <3> QED
      BY <1>2, <3>2, <3>3
  <2> QED
    BY <1>2, <2>1, <2>2 DEF CountTypes
<1>7. TargetCount'
  BY <1>2, <1>4 DEF TargetCount
<1>8. RootInv'
  <2>1. ASSUME NEW d \in Calls, Frame(d)'.target = Root, Frame(d)'.step \in {"wait", "end"} PROVE Sated(Frame(d))'
    <3>1. Frame(d)' = Frame(d)
      BY <1>2, <2>1
    <3> QED
      BY <1>2, <1>4, <2>1, <3>1 DEF RootInv, Sated
  <2> QED
    BY <1>2, <1>4, <2>1 DEF RootInv
<1>9. ResultInv'
  <2>1. ASSUME NEW d \in Calls, Frame(d)'.step = "result" PROVE Answered(d)'
    <3>1. d # c /\ Frame(d)' = Frame(d) /\ Answered(d)
      BY <1>2, <2>1 DEF ResultInv
    <3>2. (Prerequisite(Frame(d)))' = Prerequisite(Frame(d))
      BY <1>4, <3>1 DEF Prerequisite
    <3>3. ASSUME NEW e \in Calls, Below(e) = d, Holding(e), Frame(e).target = Prerequisite(Frame(d)),
                 Frame(e).parent = Frame(e).target
          PROVE  Answered(d)'
      <4>1. Holding(e)' /\ Below(e)' = d
        BY <1>4, <3>3 DEF Below
      <4>2. Frame(e)'.target = Frame(e).target /\ Frame(e)'.parent = Frame(e).parent
        BY <1>2
      <4> QED
        BY <1>2, <3>2, <3>3, <4>1, <4>2 DEF Answered
    <3> QED
      BY <1>4, <3>1, <3>2, <3>3 DEF Answered
  <2> QED
    BY <1>2, <2>1 DEF ResultInv
<1> QED
  BY <1>3, <1>5, <1>6, <1>7, <1>8, <1>9 DEF CountedInv

-----------------------------------------------------------------------------
(***************************************************************************)
(* The invariant of the counts.                                            *)
(***************************************************************************)
LEMMA StutterCalm ==
    ASSUME UNCHANGED vars
    PROVE  Calm /\ TargetsLeft
<1>1. stack' = stack /\ UNCHANGED <<fixed, counts, state, queued, result>>
  BY DEF vars
<1> QED
  BY <1>1, SameCalls, StillData DEF Calm

LEMMA InitCounted == Init => CountedInv
<1> SUFFICES ASSUME Init PROVE CountedInv
  OBVIOUS
<1>1. Types /\ IndInv
  BY InitCalls, InitKeeps
<1>2. PICK c : Calls = {c} /\ Frame(c) = RootCall
  BY InitCalls
<1>3. /\ RootCall.target = Root /\ RootCall.next = 1 /\ RootCall.postponed = {} /\ RootCall.step = "match"
      /\ queued = {} /\ worked = {} /\ result = "running" /\ depth \in Depths
      /\ dependents = [t \in Targets |-> Cardinality(DependentsOf(t))]
      /\ dependency_count = Cardinality(Edges) /\ target_count = Cardinality(Targets \ (Noop \cup Members))
  BY DEF Init, RootCall, Edges
<1>4. \A t \in Targets : task_count[t] = count_applied /\ ~Executed(t)
  BY Constants DEF Init, Executed, count_applied, count_executed
<1>5. IsFiniteSet(Targets) /\ IsFiniteSet(Nodes) /\ IsFiniteSet(Nodes \X Targets)
  BY ExecuteAssumption, FS_AddElement, FS_Product DEF Nodes
<1>6. \A t \in Targets : IsFiniteSet(DependentsOf(t)) /\ Cardinality(DependentsOf(t)) \in Nat /\ DependentsOf(t) # {}
  <2> SUFFICES ASSUME NEW t \in Targets
               PROVE  IsFiniteSet(DependentsOf(t)) /\ Cardinality(DependentsOf(t)) \in Nat /\ DependentsOf(t) # {}
    OBVIOUS
  <2>1. DependentsOf(t) \subseteq Nodes
    BY DEF DependentsOf
  <2>2. IsFiniteSet(DependentsOf(t)) /\ Cardinality(DependentsOf(t)) \in Nat
    BY <1>5, <2>1, FS_Subset, FS_CardinalityType
  <2>3. PICK n \in Nodes : t \in Range(prerequisites[n])
    <3>1. prerequisites \in Graphs
      BY <1>1 DEF Types
    <3> QED
      BY <3>1, ExecuteAssumption
  <2>4. n \in DependentsOf(t)
    BY <2>3 DEF DependentsOf, PrerequisitesOf, Range
  <2> QED
    BY <2>2, <2>4
<1>7. CountTypes
  <2>1. Edges \subseteq Nodes \X Targets /\ Targets \ (Noop \cup Members) \subseteq Targets
    BY DEF Edges
  <2>2. dependency_count \in Nat /\ target_count \in Nat
    BY <1>3, <1>5, <2>1, FS_Subset, FS_CardinalityType
  <2>3. dependents \in [Targets -> Nat]
    BY <1>3, <1>6
  <2> QED
    BY <1>3, <2>2, <2>3 DEF CountTypes
<1>8. EdgesInv
  <2>1. Exact({})
    <3>1. \A t : Left(t, {}) = DependentsOf(t)
      BY DEF Left
    <3>2. Edges \ {} = Edges
      OBVIOUS
    <3> QED
      BY <1>3, <3>1, <3>2 DEF Exact
  <2>2. \A i : ~Sure(RootCall, i)
    BY <1>3 DEF Sure
  <2>3. Counted({})
    BY <1>2, <1>3, <1>4, <2>2 DEF Counted, Fits
  <2> QED
    BY <2>1, <2>3 DEF EdgesInv
<1>9. \A t \in Targets : ~Started(t)
  BY <1>2, <1>3, <1>4 DEF Started
<1>10. StartedInv
  <2>1. \A t \in Targets : dependents[t] # 0
    BY <1>3, <1>6, FS_EmptySet
  <2> QED
    BY <1>9, <2>1 DEF StartedInv
<1>11. LookInv /\ RootInv /\ ResultInv
  BY <1>2, <1>3, <1>9 DEF LookInv, RootInv, ResultInv
<1>12. TargetCount
  <2>1. {t \in Targets \ (Noop \cup Members) : ~Executed(t)} = Targets \ (Noop \cup Members)
    BY <1>4
  <2> QED
    BY <1>3, <2>1 DEF TargetCount
<1> QED
  BY <1>1, <1>7, <1>8, <1>10, <1>11, <1>12 DEF CountedInv

LEMMA StepCounted ==
    ASSUME CountedInv, NEW u \in Threads, Step(u)
    PROVE  CountedInv'
<1>1. IndInv /\ IndInv' /\ Kept
  BY StepKeeps DEF CountedInv
<1>2. CASE ExecuteDecrement(u)
  BY <1>2, DecrementCounted
<1>3. CASE ~ExecuteDecrement(u)
  <2>1. Calm /\ TargetsLeft
    BY <1>1, <1>3, NoopCalm, QueuedCalm, SyncCalm, ExecutedCalm, AllCalm, WaitDoneCalm, FinishCalm, WorkCalm, EndCalm,
       TaskDoneCalm, TaskStartCalm DEF Step
  <2> QED
    BY <1>1, <2>1, CalmKeeps
<1> QED
  BY <1>2, <1>3

LEMMA NextCounted == CountedInv /\ [Next]_vars => CountedInv'
<1> SUFFICES ASSUME CountedInv, [Next]_vars PROVE CountedInv'
  OBVIOUS
<1>1. IndInv /\ IndInv' /\ Kept
  BY NextKeeps DEF CountedInv
<1>2. ASSUME NEW u \in Threads, Step(u) PROVE CountedInv'
  BY <1>2, StepCounted
<1>3. CASE (\E u \in Threads : \E t \in Early : ExecuteDirect(u, t)) \/ Driver \/ UNCHANGED vars
  <2>1. Calm /\ TargetsLeft
    BY <1>1, <1>3, DirectCalm, BeginCalm, OperationCalm, StutterCalm DEF Driver
  <2> QED
    BY <1>1, <2>1, CalmKeeps
<1> QED
  BY <1>2, <1>3 DEF Next

LEMMA CountedInvariance == Spec => []CountedInv
<1>1. Init => CountedInv
  BY InitCounted
<1>2. CountedInv /\ [Next]_vars => CountedInv'
  BY NextCounted
<1> QED
  BY <1>1, <1>2, PTL DEF Spec

-----------------------------------------------------------------------------
(***************************************************************************)
(* What follows from the counts.                                           *)
(***************************************************************************)

\* The counts of what the code counts stay natural numbers: neither the count
\* of dependents of a target nor the two of the context wraps below zero,
\* however execute() is interleaved.
THEOREM TypeCorrect == Spec => []TypeOK
<1>1. CountedInv => TypeOK
  BY DEF CountedInv, IndInv, StructInv, Types, CountTypes, TypeOK
<1> QED
  BY <1>1, CountedInvariance, PTL

\* When execute() of the operation returns no thread is in a call and no task is
\* left in a queue: the waits of all the dependents have seen to it.
NothingLeft == result # "running" => Calls = {} /\ queued = {}

\* Whoever executes a target does so for a dependent that waits for it in
\* wait_guard, up to the driver, so nobody is left behind when execute() returns.
THEOREM NothingLeftCorrect == Spec => []NothingLeft
<1>1. IndInv => NothingLeft
  BY AllReturned DEF NothingLeft
<1> QED
  BY <1>1, Invariance, PTL

\* The edges to a target whose count is zero have been decremented.
LEMMA NoneLeft ==
    ASSUME Types, NEW D, Exact(D), NEW t \in Targets
    PROVE  dependents[t] = 0 <=> \A n \in DependentsOf(t) : <<n, t>> \in D
<1>1. IsFiniteSet(Nodes)
  BY ExecuteAssumption, FS_AddElement DEF Nodes
<1>2. Left(t, D) \subseteq Nodes
  BY DEF Left, DependentsOf
<1>3. dependents[t] = 0 <=> Left(t, D) = {}
  BY <1>1, <1>2, FS_Subset, FS_EmptySet DEF Exact
<1> QED
  BY <1>3 DEF Left

\* A target is not cleaned before whatever has been made from it: the count of
\* dependents lets only the last of them go on, and that one has done its work.
THEOREM CleanedInOrderCorrect == Spec => []CleanedInOrder
<1>1. ASSUME CountedInv PROVE CleanedInOrder
  <2> SUFFICES ASSUME current_mode = "last", NEW t \in worked, NEW d \in DependentsOf(t) \ {Root}
               PROVE  d \in worked \/ (d \in Members /\ DependentsOf(d) \ {Root} \subseteq worked)
    BY DEF CleanedInOrder
  <2>1. Types /\ StatesInv /\ StartedInv /\ IndInv
    BY <1>1 DEF CountedInv, IndInv, StructInv
  <2>2. PICK D \in SUBSET Edges : Exact(D) /\ Counted(D)
    BY <1>1 DEF CountedInv, EdgesInv
  <2>3. t \in Targets /\ d \in Targets /\ d \in Nodes
    BY <2>1, Constants DEF Types, DependentsOf
  <2>4. ASSUME NEW x \in Targets, Started(x), NEW n \in DependentsOf(x) PROVE <<n, x>> \in D
    <3>1. dependents[x] = 0
      BY <2>1, <2>4 DEF StartedInv
    <3> QED
      BY <2>1, <2>2, <2>4, <3>1, NoneLeft
  <2>5. ASSUME NEW x \in Targets, NEW n \in DependentsOf(x) \ {Root}, <<n, x>> \in D
        PROVE  (n \in worked \/ n \in Members) /\ Started(n)
    <3>1. PICK e : e = <<n, x>>
      OBVIOUS
    <3>2. e[1] = n /\ e \in Edges /\ e \in D
      BY <2>2, <2>5, <3>1
    <3>3. n \in Targets
      BY <2>5, Constants DEF DependentsOf
    <3>4. e[1] \in worked \cup Members \cup {Root} /\ ~(e[1] \in Targets /\ task_count[e[1]] = count_applied)
      BY <2>2, <3>2 DEF Counted
    <3> QED
      BY <2>5, <3>2, <3>3, <3>4 DEF Started
  <2>6. Started(t)
    <3>1. task_count[t] >= count_executed
      BY <2>1, <2>3 DEF StatesInv
    <3> QED
      BY <3>1 DEF Started, count_executed, count_applied
  <2>7. (d \in worked \/ d \in Members) /\ Started(d)
    BY <2>3, <2>4, <2>5, <2>6
  <2>8. ASSUME d \in Members, NEW n \in DependentsOf(d) \ {Root} PROVE n \in worked
    <3>1. n \in worked \/ n \in Members
      BY <2>3, <2>4, <2>5, <2>7, <2>8
    <3>2. n \notin Members
      <4> SUFFICES ASSUME n \in Members PROVE FALSE
        OBVIOUS
      <4>1. PrerequisitesOf(n) = {prerequisites[n][1]} /\ prerequisites[n][1] \notin Members
        BY <2>1, GroupOf
      <4> QED
        BY <2>8, <4>1 DEF DependentsOf
    <3> QED
      BY <3>1, <3>2
  <2> QED
    BY <2>7, <2>8
<1> QED
  BY <1>1, CountedInvariance, PTL

\* After a success nothing has failed all of whose dependents have succeeded.
LEMMA FailureSeen ==
    ASSUME CountedInv, result = "executed", NEW t \in Targets, Started(t), Executed(t), ExecutedState(t) = "failed",
           \A n \in DependentsOf(t) \ {Root} : Executed(n) /\ ExecutedState(n) # "failed"
    PROVE  FALSE
<1>1. /\ Types /\ StatesInv /\ PrerequisitesDone /\ IndInv /\ RootInv /\ LookInv /\ prerequisites \in Graphs
      /\ Calls = {} /\ current_mode \in {"first", "last"}
  BY ExecuteAssumption, AllReturned DEF CountedInv, IndInv, StructInv, Types
<1>2. Root \notin DependentsOf(t)
  BY <1>1 DEF RootInv, DependentsOf
<1>3. ASSUME NEW n \in DependentsOf(t)
      PROVE  /\ n \in Targets /\ n # Root /\ Executed(n) /\ state[n] # "failed"
             /\ ~(n \in Members /\ state[n] = "group") /\ t \in PrerequisitesOf(n)
  <2>1. n \in Targets /\ n # Root /\ t \in PrerequisitesOf(n) /\ Executed(n) /\ ExecutedState(n) # "failed"
    BY <1>2, Constants DEF DependentsOf
  <2>2. state[n] # "failed"
    BY <2>1 DEF ExecutedState
  <2>3. ASSUME n \in Members, state[n] = "group" PROVE FALSE
    <3>1. t = prerequisites[n][1] /\ t \notin Members
      BY <1>1, <2>1, <2>3, GroupOf
    <3>2. ExecutedState(n) = state[t] /\ ExecutedState(t) = state[t]
      BY <2>3, <3>1 DEF ExecutedState
    <3> QED
      BY <2>1, <3>2
  <2> QED
    BY <2>1, <2>2, <2>3
<1>4. CASE current_mode = "first"
  <2>1. PICK n \in Nodes : t \in Range(prerequisites[n])
    BY <1>1, ExecuteAssumption
  <2>2. n \in DependentsOf(t)
    BY <2>1 DEF DependentsOf, PrerequisitesOf, Range
  <2>3. n \notin Members /\ Passed(n, t, state[n] = "changed")
    BY <1>1, <1>3, <1>4, <2>2 DEF PrerequisitesDone
  <2> QED
    BY <2>3 DEF Passed
<1>5. CASE current_mode = "last"
  <2>1. PICK n \in DependentsOf(t) : Looks(n, t)
    BY <1>1, <1>5 DEF LookInv
  <2> QED
    BY <1>1, <1>3, <2>1 DEF Looks
<1> QED
  BY <1>1, <1>4, <1>5

\* An operation that has succeeded has executed every target: both counts are
\* back to zero and no failure has been lost on the way up to the driver, in
\* either mode, with or without keep_going and whoever has executed what.
THEOREM AllExecutedCorrect == Spec => []AllExecuted
<1>1. ASSUME CountedInv, result = "executed"
      PROVE  /\ target_count = 0 /\ dependency_count = 0
             /\ \A t \in Targets : Executed(t) /\ state[t] # "failed" /\ dependents[t] = 0
             /\ worked = Targets \ (Noop \cup Members)
  <2>1. /\ Types /\ StatesInv /\ LocksInv /\ IndInv /\ StartedInv /\ TargetCount /\ prerequisites \in Graphs
        /\ Calls = {} /\ queued = {}
    BY <1>1, AllReturned DEF CountedInv, IndInv, StructInv, Types
  <2>2. PICK D \in SUBSET Edges : Exact(D) /\ Counted(D)
    BY <1>1 DEF CountedInv, EdgesInv
  <2>3. ASSUME NEW t \in Targets, Started(t) PROVE Executed(t)
    <3>1. ~Held(t) /\ task_count[t] # count_applied /\ task_count[t] \in Nat
      BY <2>1, <2>3, Constants DEF Held, Started, Types
    <3>2. task_count[t] < count_busy
      <4>1. ~(task_count[t] >= count_busy)
        BY <2>1, <3>1 DEF LocksInv
      <4> QED
        BY <3>1, <4>1 DEF count_busy
    <3> QED
      BY <2>1, <3>1, <3>2 DEF LocksInv, Executed
  <2>4. PICK S : S = {t \in Targets : ~Executed(t) \/ ExecutedState(t) = "failed"}
    OBVIOUS
  <2>5. ASSUME NEW n \in Nodes, n \notin S, NEW t \in PrerequisitesOf(n) PROVE <<n, t>> \in D
    <3>1. CASE n = Root
      BY <1>1, <2>2, <2>5, <3>1 DEF Counted
    <3>2. CASE n # Root
      <4>1. PICK e : e = <<n, t>>
        OBVIOUS
      <4>2. n \in Targets /\ Executed(n) /\ ExecutedState(n) # "failed"
        BY <2>4, <2>5, <3>2, Constants
      <4>3. state[n] # "failed"
        BY <4>2 DEF ExecutedState
      <4>4. t \in Targets
        BY <2>1, <2>5, Ordered
      <4>5. e \in Edges /\ e[1] = n
        BY <2>5, <4>1, <4>4 DEF Edges
      <4> QED
        BY <2>2, <4>1, <4>2, <4>3, <4>5 DEF Counted
    <3> QED
      BY <3>1, <3>2
  <2>6. S = {}
    <3> SUFFICES ASSUME S # {} PROVE FALSE
      OBVIOUS
    <3>1. S \in (SUBSET Targets) \ {{}}
      BY <2>4
    <3>2. PICK t \in S : \A n \in S : t \notin Range(prerequisites[n])
      BY <2>1, <3>1, ExecuteAssumption
    <3>3. t \in Targets
      BY <2>4
    <3>4. ASSUME NEW n \in DependentsOf(t) PROVE n \in Nodes /\ n \notin S /\ t \in PrerequisitesOf(n)
      <4>1. n \in Nodes /\ t \in PrerequisitesOf(n)
        BY DEF DependentsOf
      <4>2. t \in Range(prerequisites[n])
        BY <4>1 DEF PrerequisitesOf, Range
      <4> QED
        BY <3>2, <4>1, <4>2
    <3>5. dependents[t] = 0
      BY <2>1, <2>2, <2>5, <3>3, <3>4, NoneLeft
    <3>6. Started(t) /\ Executed(t)
      BY <2>1, <2>3, <3>3, <3>5 DEF StartedInv
    <3>7. ExecutedState(t) = "failed"
      BY <2>4, <3>6
    <3>8. \A n \in DependentsOf(t) \ {Root} : Executed(n) /\ ExecutedState(n) # "failed"
      BY <2>4, <3>4, Constants
    <3> QED
      BY <1>1, <3>3, <3>6, <3>7, <3>8, FailureSeen
  <2>7. \A t \in Targets : Executed(t) /\ state[t] # "failed"
    BY <2>4, <2>6 DEF ExecutedState
  <2>8. Edges \ D = {}
    <3> SUFFICES ASSUME NEW e \in Edges PROVE e \in D
      OBVIOUS
    <3>1. e = <<e[1], e[2]>> /\ e[1] \in Nodes /\ e[2] \in PrerequisitesOf(e[1])
      BY DEF Edges
    <3> QED
      BY <2>5, <2>6, <3>1
  <2>9. dependency_count = 0
    BY <2>2, <2>8, FS_EmptySet DEF Exact
  <2>10. \A t \in Targets : dependents[t] = 0
    BY <2>1, <2>2, <2>5, <2>6, NoneLeft DEF DependentsOf
  <2>11. target_count = 0
    <3>1. {t \in Targets \ (Noop \cup Members) : ~Executed(t)} = {}
      BY <2>7
    <3> QED
      BY <2>1, <3>1, FS_EmptySet DEF TargetCount
  <2>12. worked = Targets \ (Noop \cup Members)
    BY <2>1, <2>7 DEF StatesInv, Types
  <2> QED
    BY <2>7, <2>9, <2>10, <2>11, <2>12
<1>2. CountedInv => AllExecuted
  BY <1>1 DEF AllExecuted
<1> QED
  BY <1>2, CountedInvariance, PTL
=============================================================================
