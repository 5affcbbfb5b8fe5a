---------------------------- MODULE MatchProofs ----------------------------
(***************************************************************************)
(* Proofs about module Match, for any number of threads, any targets and   *)
(* any dependency graph, cyclic ones included.                             *)
(*                                                                         *)
(* The inductive invariant says of every call where it is in its work      *)
(* (Sound), how it hangs together with the others (Placed), that a target  *)
(* is held at most once, that counts are exact, and that everything is in  *)
(* the end matched for the operation.  The counts of dependents come last, *)
(* over that invariant, with the set of dependencies that were counted.    *)
(***************************************************************************)
EXTENDS Match, FiniteSetTheorems, TLAPS

\* Calls: the call at c, the one that made it, and the one it makes.
Frame(c) == stack[c[1]][c[2]]
Below(c) == <<c[1], c[2] - 1>>
Above(c) == <<c[1], c[2] + 1>>
Holding(c) == Frame(c).step # "done"

(***************************************************************************)
(* What holds of every call by itself.                                     *)
(***************************************************************************)

\* The call looks at prerequisites that there are.
InRange(f) ==
    LET n == Len(prerequisites[f.target])
    IN  /\ f.next >= 1 /\ f.last <= n
        /\ f.step = "load" => f.next = 1
        /\ f.step \in {"load", "start"} => f.last = n /\ f.next <= n + 1
        /\ f.step = "wait" => f.next <= n + 1
        /\ f.step = "finish" => f.next <= f.last + 1
        /\ f.step = "lock" => More(f)
        /\ f.target # Root /\ ~f.bad /\ f.step = "wait" => f.next = n + 1
        /\ f.target # Root /\ f.step \in {"finish", "lock"} => f.last = n

\* There are tasks only between the first one and the end of the wait.
Settled(f) ==
    f.step \notin {"wait", "done"} /\ (f.step = "start" => f.next = 1) =>
        task_count[f.target] = StartCount(f.target)

\* Which steps there are for whom.
Stepwise(f) ==
    /\ f.target = Root => f.parent = Root /\ f.step \notin {"load", "done"}
    /\ f.step = "done" => f.parent # f.target
    /\ f.bad => f.step \in {"wait", "end", "done"} \/ (f.target = Root /\ f.step \in {"finish", "lock"})

\* The prerequisites that have been tried have been locked by someone.
Tried(f) ==
    /\ f.step \in {"start", "wait"} /\ ~f.bad =>
          \A i \in 1 .. f.next - 1 : task_count[prerequisites[f.target][i]] >= count_applied
    /\ f.target = Root /\ f.step \in {"finish", "lock"} =>
          \A i \in 1 .. f.last : task_count[prerequisites[f.target][i]] >= count_applied

\* The prerequisites that have been looked at for good are matched.
Looked(f) ==
    f.target # Root /\ ~f.bad =>
        /\ f.step \in {"finish", "lock"} =>
              \A i \in 1 .. f.next - 1 : Matched(prerequisites[f.target][i])
        /\ f.step = "end" => \A p \in PrerequisitesOf(f.target) : Matched(p)

Sound(f) == InRange(f) /\ Settled(f) /\ Stepwise(f) /\ Tried(f) /\ Looked(f)

FramesInv == \A c \in Calls : Sound(Frame(c))

(***************************************************************************)
(* How the calls and the tasks hang together.                              *)
(***************************************************************************)

\* There is a call of p that waits for its tasks, now or later.
Expects(p) == \E d \in Calls : Frame(d).target = p /\ Frame(d).step \in {"start", "wait"}

\* A call that is not a task is made by the one below it, for its prerequisite;
\* a task is taken in a wait, or by a thread that has nothing to do.
Placed(c) ==
    LET f == Frame(c)
        g == Frame(Below(c))
    IN  /\ f.target = Root <=> c = <<Main, 1>>
        /\ f.parent = f.target /\ f.target # Root =>
              c[2] > 1 /\ g.step \in {"start", "finish"} /\ More(g) /\ Prerequisite(g) = f.target
        /\ f.parent # f.target => Expects(f.parent) /\ (c[2] > 1 => g.step = "wait")

PlacesInv ==
    /\ \A c \in Calls : Placed(c)
    /\ \A task \in queued : Expects(task.parent)
    /\ result = "running" <=> <<Main, 1>> \in Calls

\* Who holds target t.
Held(t) == (\E c \in Calls : Holding(c) /\ Frame(c).target = t) \/ \E task \in queued : task.target = t

\* Target locks exclude each other.
LocksInv ==
    /\ \A c, d \in Calls : Holding(c) /\ Holding(d) /\ Frame(c).target = Frame(d).target => c = d
    /\ \A k, l \in queued : k.target = l.target => k = l
    /\ \A c \in Calls, k \in queued : Holding(c) => Frame(c).target # k.target
    /\ \A t \in Targets : Held(t) => task_count[t] >= count_busy
    /\ \A t \in Targets : ~fail /\ task_count[t] >= count_busy => Held(t)
    /\ \A t \in Targets : task_count[t] < count_busy => task_count[t] <= count_applied

\* The tasks of node n, in the queues and running.
TasksOf(n) == {task \in queued : task.parent = n}
CallsOf(n) == {c \in Calls : Frame(c).parent = n /\ Frame(c).target # n}

CountsInv ==
    \A n \in Nodes : /\ IsFiniteSet(TasksOf(n)) /\ IsFiniteSet(CallsOf(n))
                     /\ n = Root \/ task_count[n] >= count_busy =>
                           task_count[n] = StartCount(n) + Cardinality(TasksOf(n)) + Cardinality(CallsOf(n))

\* Target t is being matched for node p.
Up(t, p) ==
    \/ \E task \in queued : task.target = t /\ task.parent = p
    \/ \E c \in Calls : /\ Holding(c) /\ Frame(c).target = t /\ t # Root
                        /\ p = IF Frame(c).parent = t THEN Frame(Below(c)).target ELSE Frame(c).parent

\* In the end everything is matched for the operation: there are no targets
\* that are matched for nothing but each other.
RootedInv == \A S \in SUBSET Targets : S # {} => \E t \in S : \A p \in S : ~Up(t, p)

(***************************************************************************)
(* After a failed load.                                                    *)
(***************************************************************************)

\* The call fails, if only for a prerequisite in D.
DoomedCall(f, D) ==
    \/ f.bad
    \/ f.step \in {"wait", "lock"}
    \/ f.step = "start" /\ \E i \in 1 .. f.next : i <= f.last /\ prerequisites[f.target][i] \in D
    \/ f.step = "finish" /\ \E i \in f.next .. f.last : prerequisites[f.target][i] \in D

\* The call belongs to a task that its thread has taken while an exception was
\* in flight: a failed load does not stop it.
Excused(c) ==
    \E e \in Calls : e[1] = c[1] /\ e[2] < c[2] /\ Frame(e).step = "wait" /\ Frame(e).bad

\* Node n has failed or is going to.
Doomed(n, D) ==
    \/ n = Root /\ result = "failed"
    \/ n # Root /\ task_count[n] = count_applied /\ state[n] = "failed"
    \/ \E c \in Calls : Frame(c).target = n /\ Holding(c) /\ ~Excused(c) /\ DoomedCall(Frame(c), D)

\* The operation is doomed.
DoomInv == fail => \E D \in SUBSET Nodes : Root \in D /\ \A n \in D : Doomed(n, D)

\* Nothing is matched any more if we do not keep going: an innermost call that
\* is not going to fail by itself has a prerequisite that has failed.
StoppedCall(f) ==
    /\ f.step # "load"
    /\ f.step = "end" /\ f.target # Root => f.bad
    /\ f.step \in {"start", "finish"} =>
          \/ f.target = Root /\ f.step = "finish"
          \/ More(f) /\ task_count[Prerequisite(f)] = count_applied /\ state[Prerequisite(f)] = "failed"

Stopped(c) == Above(c) \in Calls \/ Excused(c) \/ StoppedCall(Frame(c))

StopInv == fail /\ ~keep_going => \A c \in Calls : Stopped(c)

IndInv ==
    /\ TypeOK /\ FramesInv /\ PlacesInv /\ LocksInv /\ CountsInv /\ PrerequisitesFirst /\ RootedInv
    /\ DoomInv /\ StopInv

-----------------------------------------------------------------------------
(***************************************************************************)
(* Counts and stacks.                                                      *)
(***************************************************************************)
LEMMA Counts ==
    ASSUME TypeOK
    PROVE  /\ count_base \in Nat /\ count_applied \in Nat /\ count_busy \in Nat
           /\ count_base < count_applied /\ count_executed = count_applied + 1 /\ count_busy = count_applied + 2
           /\ \A n \in Nodes : StartCount(n) \in Nat
           /\ StartCount(Root) = 0 /\ \A t \in Targets : StartCount(t) = count_busy
<1>1. current_on \in Nat /\ current_on >= 1
  BY MatchAssumption DEF TypeOK
<1>2. /\ count_base \in Nat /\ count_applied \in Nat /\ count_busy \in Nat
      /\ count_base < count_applied /\ count_executed = count_applied + 1 /\ count_busy = count_applied + 2
  BY <1>1 DEF count_base, count_applied, count_executed, count_busy
<1> QED
  BY <1>2, MatchAssumption DEF StartCount

LEMMA Pairs ==
    ASSUME NEW s \in [Threads -> Seq(Frames)], NEW C, C = UNION {{u} \X DOMAIN s[u] : u \in Threads}
    PROVE  /\ \A u \in Threads, i \in Nat : <<u, i>> \in C <=> i \in 1 .. Len(s[u])
           /\ \A c \in C : /\ c = <<c[1], c[2]>> /\ c[1] \in Threads /\ c[2] \in 1 .. Len(s[c[1]])
                           /\ c[2] \in Nat /\ s[c[1]][c[2]] \in Frames
<1>1. \A u \in Threads : DOMAIN s[u] = 1 .. Len(s[u]) /\ Len(s[u]) \in Nat
  OBVIOUS
<1>2. \A c : c \in C <=> \E u \in Threads : c \in {u} \X DOMAIN s[u]
  OBVIOUS
<1>3. ASSUME NEW c \in C
      PROVE  /\ c = <<c[1], c[2]>> /\ c[1] \in Threads /\ c[2] \in 1 .. Len(s[c[1]]) /\ c[2] \in Nat
             /\ s[c[1]][c[2]] \in Frames
  <2>1. PICK u \in Threads : c \in {u} \X DOMAIN s[u]
    BY <1>2
  <2>2. c = <<c[1], c[2]>> /\ c[1] = u /\ c[2] \in 1 .. Len(s[u])
    BY <1>1, <2>1
  <2>3. s[u] \in Seq(Frames)
    OBVIOUS
  <2>4. s[u][c[2]] \in Frames
    BY <2>2, <2>3
  <2> QED
    BY <1>1, <2>2, <2>4
<1>4. ASSUME NEW u \in Threads, NEW i \in Nat PROVE <<u, i>> \in C <=> i \in 1 .. Len(s[u])
  <2>1. i \in 1 .. Len(s[u]) => <<u, i>> \in {u} \X DOMAIN s[u]
    BY <1>1
  <2>2. <<u, i>> \in C => i \in 1 .. Len(s[u])
    BY <1>3
  <2> QED
    BY <1>2, <2>1, <2>2
<1> QED
  BY <1>3, <1>4

LEMMA InCalls ==
    ASSUME stack \in [Threads -> Seq(Frames)]
    PROVE  /\ \A u \in Threads, i \in Nat : <<u, i>> \in Calls <=> i \in 1 .. Len(stack[u])
           /\ \A c \in Calls : /\ c = <<c[1], c[2]>> /\ c[1] \in Threads /\ c[2] \in 1 .. Len(stack[c[1]])
                               /\ c[2] \in Nat /\ Frame(c) \in Frames
BY Pairs DEF Calls, Frame

\* c is the innermost call of thread u.
Innermost(u, c) == u \in Threads /\ Busy(u) /\ c = <<u, Len(stack[u])>>

LEMMA InnermostCall ==
    ASSUME stack \in [Threads -> Seq(Frames)], NEW u \in Threads, NEW c, Innermost(u, c)
    PROVE  /\ c \in Calls /\ Frame(c) = Top(u) /\ Frame(c) \in Frames /\ Above(c) \notin Calls
           /\ \A d \in Calls : Below(d) # c
           /\ c[1] = u /\ c[2] = Len(stack[u])
           /\ Excused(c) <=> Unwinding(u)
<1>1. stack[u] \in Seq(Frames) /\ Len(stack[u]) \in Nat /\ Len(stack[u]) >= 1
  BY DEF Innermost, Busy
<1>2. c \in Calls /\ c[1] = u /\ c[2] = Len(stack[u])
  BY <1>1, InCalls DEF Innermost
<1>3. Frame(c) = Top(u) /\ Frame(c) \in Frames
  BY <1>2, InCalls DEF Frame, Top
<1>4. Above(c) \notin Calls
  BY <1>1, <1>2, InCalls DEF Above
<1>5. ASSUME NEW d \in Calls, Below(d) = c PROVE FALSE
  <2>1. d[1] = u /\ d[2] - 1 = Len(stack[u])
    BY <1>2, <1>5 DEF Below
  <2>2. d[2] \in 1 .. Len(stack[u])
    BY <2>1, InCalls
  <2> QED
    BY <1>1, <2>1, <2>2
<1>6. ASSUME Excused(c) PROVE Unwinding(u)
  <2>1. PICK e \in Calls : e[1] = u /\ e[2] < Len(stack[u]) /\ Frame(e).step = "wait" /\ Frame(e).bad
    BY <1>2, <1>6 DEF Excused
  <2>2. e[2] \in 1 .. Len(stack[u]) - 1 /\ Frame(e) = stack[u][e[2]]
    BY <1>1, <2>1, InCalls DEF Frame
  <2> QED
    BY <2>1, <2>2 DEF Unwinding
<1>7. ASSUME Unwinding(u) PROVE Excused(c)
  <2>1. PICK i \in 1 .. Len(stack[u]) - 1 : stack[u][i].step = "wait" /\ stack[u][i].bad
    BY <1>7 DEF Unwinding
  <2>2. PICK e : e = <<u, i>>
    OBVIOUS
  <2>3. e \in Calls /\ e[1] = u /\ e[2] = i /\ Frame(e) = stack[u][i]
    BY <1>1, <2>2, InCalls DEF Frame
  <2> QED
    BY <1>1, <1>2, <2>1, <2>3 DEF Excused
<1> QED
  BY <1>2, <1>3, <1>4, <1>5, <1>6, <1>7

LEMMA MovedStack ==
    ASSUME stack \in [Threads -> Seq(Frames)], NEW u \in Threads, NEW c, Innermost(u, c),
           NEW g \in Frames, stack' = Moved(u, g)
    PROVE  /\ stack' \in [Threads -> Seq(Frames)] /\ Calls' = Calls
           /\ Frame(c)' = g /\ \A d \in Calls : d # c => Frame(d)' = Frame(d)
           /\ \A d \in Calls : Excused(d)' <=> Excused(d)
<1> DEFINE n == Len(stack[u])
           s == [stack[u] EXCEPT ![n] = g]
<1>1. stack[u] \in Seq(Frames) /\ n \in Nat /\ n >= 1 /\ c = <<u, n>>
  BY DEF Innermost, Busy
<1>2. stack' = [stack EXCEPT ![u] = s]
  BY DEF Moved
<1>3. s \in Seq(Frames) /\ Len(s) = n /\ s[n] = g /\ \A i \in 1 .. n : i # n => s[i] = stack[u][i]
  BY <1>1
<1> HIDE DEF s
<1>4. stack' \in [Threads -> Seq(Frames)] /\ stack'[u] = s /\ \A v \in Threads : v # u => stack'[v] = stack[v]
  BY <1>2, <1>3
<1>5. \A v \in Threads : DOMAIN stack'[v] = DOMAIN stack[v]
  <2>1. DOMAIN s = DOMAIN stack[u]
    BY <1>1, <1>3
  <2> QED
    BY <1>4, <2>1
<1>6. Calls' = Calls
  BY <1>5 DEF Calls
<1>7. Frame(c)' = g
  BY <1>1, <1>3, <1>4 DEF Frame
<1>8. ASSUME NEW d \in Calls, d # c PROVE Frame(d)' = Frame(d)
  <2>1. d = <<d[1], d[2]>> /\ d[1] \in Threads /\ d[2] \in 1 .. Len(stack[d[1]])
    BY InCalls
  <2>2. CASE d[1] = u
    BY <1>1, <1>3, <1>4, <1>8, <2>1, <2>2 DEF Frame
  <2>3. CASE d[1] # u
    BY <1>4, <2>1, <2>3 DEF Frame
  <2> QED
    BY <2>2, <2>3
<1>9. ASSUME NEW d \in Calls PROVE Excused(d)' <=> Excused(d)
  <2>1. ASSUME NEW e \in Calls, e[1] = d[1], e[2] < d[2] PROVE Frame(e)' = Frame(e)
    <3>1. e # c
      BY <1>1, <2>1, InCalls
    <3> QED
      BY <1>8, <3>1
  <2> QED
    BY <1>6, <2>1 DEF Excused
<1> QED
  BY <1>4, <1>6, <1>7, <1>8, <1>9

LEMMA CalledStack ==
    ASSUME stack \in [Threads -> Seq(Frames)], NEW u \in Threads, NEW c, c = <<u, Len(stack[u]) + 1>>,
           NEW g \in Frames, stack' = Called(u, g)
    PROVE  /\ stack' \in [Threads -> Seq(Frames)] /\ c \notin Calls /\ Calls' = Calls \cup {c}
           /\ Frame(c)' = g /\ \A d \in Calls : Frame(d)' = Frame(d)
           /\ \A d \in Calls : Below(d) # c
           /\ c[1] = u /\ c[2] = Len(stack[u]) + 1
           /\ \A d \in Calls : Excused(d)' <=> Excused(d)
           /\ \A d \in Calls : Excused(d) /\ d[1] = u => Excused(c)'
<1> DEFINE n == Len(stack[u])
           s == Append(stack[u], g)
<1>1. stack[u] \in Seq(Frames) /\ n \in Nat
  OBVIOUS
<1>2. stack' = [stack EXCEPT ![u] = s]
  BY DEF Called
<1>3. s \in Seq(Frames) /\ Len(s) = n + 1 /\ s[n + 1] = g /\ \A i \in 1 .. n : s[i] = stack[u][i]
  BY <1>1
<1> HIDE DEF s
<1>4. stack' \in [Threads -> Seq(Frames)] /\ stack'[u] = s /\ \A v \in Threads : v # u => stack'[v] = stack[v]
  BY <1>2, <1>3
<1>5. c \notin Calls /\ c[1] = u /\ c[2] = n + 1
  BY <1>1, InCalls
<1>6. Calls' = Calls \cup {c}
  <2>1. \A v \in Threads, i \in Nat : <<v, i>> \in Calls' <=> i \in 1 .. Len(stack'[v])
    BY <1>4, Pairs DEF Calls
  <2>2. \A d \in Calls' : d = <<d[1], d[2]>> /\ d[1] \in Threads /\ d[2] \in Nat
    BY <1>4, Pairs DEF Calls
  <2>3. ASSUME NEW v \in Threads, NEW i \in Nat
        PROVE  <<v, i>> \in Calls' <=> <<v, i>> \in Calls \/ <<v, i>> = c
    <3>1. <<v, i>> \in Calls <=> i \in 1 .. Len(stack[v])
      BY InCalls
    <3>2. <<v, i>> = c <=> v = u /\ i = n + 1
      BY <1>1
    <3>3. CASE v = u
      BY <1>1, <1>3, <1>4, <2>1, <3>1, <3>2, <3>3
    <3>4. CASE v # u
      BY <1>4, <2>1, <3>1, <3>2, <3>4
    <3> QED
      BY <3>3, <3>4
  <2>4. \A d \in Calls : d = <<d[1], d[2]>> /\ d[1] \in Threads /\ d[2] \in Nat
    BY InCalls
  <2> QED
    BY <1>1, <1>5, <2>2, <2>3, <2>4
<1>7. Frame(c)' = g
  BY <1>1, <1>3, <1>4, <1>5 DEF Frame
<1>8. ASSUME NEW d \in Calls PROVE Frame(d)' = Frame(d) /\ Below(d) # c
  <2>1. d = <<d[1], d[2]>> /\ d[1] \in Threads /\ d[2] \in 1 .. Len(stack[d[1]])
    BY InCalls
  <2>2. Frame(d)' = Frame(d)
    BY <1>1, <1>3, <1>4, <2>1 DEF Frame
  <2>3. Below(d) # c
    BY <1>1, <1>5, <2>1 DEF Below
  <2> QED
    BY <2>2, <2>3
<1>9. ASSUME NEW d \in Calls PROVE Excused(d)' <=> Excused(d)
  <2>1. ASSUME NEW e \in Calls', e[1] = d[1], e[2] < d[2] PROVE e \in Calls /\ Frame(e)' = Frame(e)
    <3>1. e # c
      BY <1>1, <1>5, <2>1, InCalls
    <3> QED
      BY <1>6, <1>8, <3>1
  <2> QED
    BY <1>6, <1>8, <2>1 DEF Excused
<1>10. ASSUME NEW d \in Calls, Excused(d), d[1] = u PROVE Excused(c)'
  <2>1. PICK e \in Calls : e[1] = d[1] /\ e[2] < d[2] /\ Frame(e).step = "wait" /\ Frame(e).bad
    BY <1>10 DEF Excused
  <2>2. e[2] < c[2] /\ e[1] = c[1] /\ e \in Calls' /\ Frame(e)' = Frame(e)
    BY <1>1, <1>5, <1>6, <1>8, <1>10, <2>1, InCalls
  <2> QED
    BY <2>1, <2>2 DEF Excused
<1> QED
  BY <1>4, <1>5, <1>6, <1>7, <1>8, <1>9, <1>10

LEMMA ReturnedStack ==
    ASSUME stack \in [Threads -> Seq(Frames)], NEW u \in Threads, NEW c, Innermost(u, c), stack' = Returned(u)
    PROVE  /\ stack' \in [Threads -> Seq(Frames)] /\ Calls' = Calls \ {c}
           /\ \A d \in Calls : d # c => Frame(d)' = Frame(d)
           /\ \A d \in Calls : Excused(d)' <=> Excused(d)
<1> DEFINE n == Len(stack[u])
           s == SubSeq(stack[u], 1, n - 1)
<1>1. stack[u] \in Seq(Frames) /\ n \in Nat /\ n >= 1 /\ c = <<u, n>>
  BY DEF Innermost, Busy
<1>2. stack' = [stack EXCEPT ![u] = s]
  BY DEF Returned
<1>3. s \in Seq(Frames) /\ Len(s) = n - 1 /\ \A i \in 1 .. n - 1 : s[i] = stack[u][i]
  BY <1>1
<1> HIDE DEF s
<1>4. stack' \in [Threads -> Seq(Frames)] /\ stack'[u] = s /\ \A v \in Threads : v # u => stack'[v] = stack[v]
  BY <1>2, <1>3
<1>5. Calls' = Calls \ {c}
  <2>1. \A v \in Threads, i \in Nat : <<v, i>> \in Calls' <=> i \in 1 .. Len(stack'[v])
    BY <1>4, Pairs DEF Calls
  <2>2. \A d \in Calls' : d = <<d[1], d[2]>> /\ d[1] \in Threads /\ d[2] \in Nat
    BY <1>4, Pairs DEF Calls
  <2>3. ASSUME NEW v \in Threads, NEW i \in Nat
        PROVE  <<v, i>> \in Calls' <=> <<v, i>> \in Calls /\ <<v, i>> # c
    <3>1. <<v, i>> \in Calls <=> i \in 1 .. Len(stack[v])
      BY InCalls
    <3>2. <<v, i>> = c <=> v = u /\ i = n
      BY <1>1
    <3>3. CASE v = u
      BY <1>1, <1>3, <1>4, <2>1, <3>1, <3>2, <3>3
    <3>4. CASE v # u
      BY <1>4, <2>1, <3>1, <3>2, <3>4
    <3> QED
      BY <3>3, <3>4
  <2>4. \A d \in Calls : d = <<d[1], d[2]>> /\ d[1] \in Threads /\ d[2] \in Nat
    BY InCalls
  <2> QED
    BY <1>1, <2>2, <2>3, <2>4
<1>6. ASSUME NEW d \in Calls, d # c PROVE Frame(d)' = Frame(d)
  <2>1. d = <<d[1], d[2]>> /\ d[1] \in Threads /\ d[2] \in 1 .. Len(stack[d[1]])
    BY InCalls
  <2>2. CASE d[1] = u
    <3>1. d[2] \in 1 .. n - 1
      BY <1>1, <1>6, <2>1, <2>2
    <3> QED
      BY <1>3, <1>4, <2>2, <3>1 DEF Frame
  <2>3. CASE d[1] # u
    BY <1>4, <2>1, <2>3 DEF Frame
  <2> QED
    BY <2>2, <2>3
<1>7. ASSUME NEW d \in Calls PROVE Excused(d)' <=> Excused(d)
  <2>1. ASSUME NEW e \in Calls, e[1] = d[1], e[2] < d[2] PROVE e \in Calls' /\ Frame(e)' = Frame(e)
    <3>1. e # c
      BY <1>1, <2>1, InCalls
    <3> QED
      BY <1>5, <1>6, <3>1
  <2> QED
    BY <1>5, <2>1 DEF Excused
<1> QED
  BY <1>4, <1>5, <1>6, <1>7

LEMMA BelowCall ==
    ASSUME NEW s \in [Threads -> Seq(Frames)], NEW C, C = UNION {{u} \X DOMAIN s[u] : u \in Threads},
           NEW c \in C, c[2] > 1
    PROVE  Below(c) \in C /\ Above(Below(c)) = c /\ Below(c) # c
<1>1. c = <<c[1], c[2]>> /\ c[1] \in Threads /\ c[2] \in 1 .. Len(s[c[1]]) /\ c[2] \in Nat /\ Len(s[c[1]]) \in Nat
  BY Pairs
<1>2. c[2] - 1 \in Nat /\ c[2] - 1 \in 1 .. Len(s[c[1]])
  BY <1>1
<1>3. Below(c) \in C
  BY <1>1, <1>2, Pairs DEF Below
<1> QED
  BY <1>1, <1>3 DEF Below, Above

LEMMA AboveExcused ==
    ASSUME stack \in [Threads -> Seq(Frames)], NEW d \in Calls, Frame(d).step # "wait"
    PROVE  Excused(Above(d)) <=> Excused(d)
<1>1. d = <<d[1], d[2]>> /\ d[2] \in Nat /\ Above(d)[1] = d[1] /\ Above(d)[2] = d[2] + 1
  BY InCalls DEF Above
<1>2. ASSUME NEW e \in Calls, e[1] = d[1], e[2] < d[2] + 1, Frame(e).step = "wait" PROVE e[2] < d[2]
  <2>1. e = <<e[1], e[2]>> /\ e[2] \in Nat
    BY InCalls
  <2> QED
    BY <1>1, <1>2, <2>1
<1>3. \A e \in Calls : e[2] \in Nat
  BY InCalls
<1> QED
  BY <1>1, <1>2, <1>3 DEF Excused

(***************************************************************************)
(* The parts of a call after each change of it.                            *)
(***************************************************************************)
LEMMA FrameTypes ==
    ASSUME TypeOK, NEW f \in Frames
    PROVE  /\ f.target \in Nodes /\ f.parent \in Nodes /\ f.step \in Steps /\ f.next \in Nat /\ f.last \in Nat
           /\ f.bad \in BOOLEAN /\ f.chain \subseteq Targets /\ task_count[f.target] \in Nat
           /\ prerequisites[f.target] \in Seq(Targets) /\ Len(prerequisites[f.target]) \in Nat
           /\ \A i \in 1 .. Len(prerequisites[f.target]) :
                 /\ prerequisites[f.target][i] \in Targets
                 /\ task_count[prerequisites[f.target][i]] \in Nat
<1>1. /\ f.target \in Nodes /\ f.parent \in Nodes /\ f.step \in Steps /\ f.next \in Nat /\ f.last \in Nat
      /\ f.bad \in BOOLEAN /\ f.chain \subseteq Targets
  BY DEF Frames
<1>2. prerequisites \in [Nodes -> Seq(Targets)]
  BY MatchAssumption DEF TypeOK
<1>3. prerequisites[f.target] \in Seq(Targets)
  BY <1>1, <1>2
<1>4. \A n \in Nodes : task_count[n] \in Nat
  BY DEF TypeOK
<1>5. \A i \in 1 .. Len(prerequisites[f.target]) : prerequisites[f.target][i] \in Targets
  BY <1>3
<1>6. Targets \subseteq Nodes
  BY DEF Nodes
<1> QED
  BY <1>1, <1>3, <1>4, <1>5, <1>6

LEMMA FrameMore ==
    ASSUME TypeOK, NEW f \in Frames, InRange(f), More(f)
    PROVE  /\ Prerequisite(f) \in Targets /\ Prerequisite(f) \in Nodes /\ Prerequisite(f) # Root
           /\ f.next \in 1 .. Len(prerequisites[f.target]) /\ Prerequisite(f) = prerequisites[f.target][f.next]
           /\ task_count[Prerequisite(f)] \in Nat
<1>1. f.next \in 1 .. Len(prerequisites[f.target])
  BY FrameTypes DEF InRange, More
<1> QED
  BY <1>1, FrameTypes, MatchAssumption DEF Prerequisite, Nodes

LEMMA GoToParts ==
    ASSUME NEW f \in Frames, NEW step \in Steps
    PROVE  LET g == GoTo(f, step)
           IN  /\ g \in Frames /\ g.target = f.target /\ g.parent = f.parent /\ g.chain = f.chain
               /\ g.step = step /\ g.next = f.next /\ g.last = f.last /\ g.bad = f.bad
BY DEF GoTo, Frames

LEMMA AdvanceParts ==
    ASSUME NEW f \in Frames
    PROVE  LET g == Advance(f)
           IN  /\ g \in Frames /\ g.target = f.target /\ g.parent = f.parent /\ g.chain = f.chain
               /\ g.step = f.step /\ g.next = f.next + 1 /\ g.last = f.last /\ g.bad = f.bad
BY DEF Advance, Frames

LEMMA FailedParts ==
    ASSUME NEW f \in Frames
    PROVE  LET g == Failed(f)
           IN  /\ g \in Frames /\ g.target = f.target /\ g.parent = f.parent /\ g.chain = f.chain
               /\ g.step = "end" /\ g.next = f.next /\ g.last = f.last /\ g.bad
BY DEF Failed, Frames, Steps

LEMMA BadParts ==
    ASSUME NEW f \in Frames, NEW b \in BOOLEAN
    PROVE  LET g == [f EXCEPT !.bad = b]
           IN  /\ g \in Frames /\ g.target = f.target /\ g.parent = f.parent /\ g.chain = f.chain
               /\ g.step = f.step /\ g.next = f.next /\ g.last = f.last /\ g.bad = b
BY DEF Frames

LEMMA WaitedParts ==
    ASSUME NEW f \in Frames, f.next >= 1
    PROVE  LET g == Waited(f)
           IN  /\ g \in Frames /\ g.target = f.target /\ g.parent = f.parent /\ g.chain = f.chain
               /\ f.bad => g.step = "end" /\ g.bad /\ g.next = f.next /\ g.last = f.last
               /\ ~f.bad => g.step = "finish" /\ ~g.bad /\ g.next = 1 /\ g.last = f.next - 1
<1>1. CASE f.bad
  BY <1>1, FailedParts DEF Waited
<1>2. CASE ~f.bad
  <2> DEFINE last == f.next - 1
             g == [f EXCEPT !.step = "finish", !.next = 1, !.last = last]
  <2>1. last \in Nat
    BY DEF Frames
  <2> HIDE DEF last
  <2>2. /\ g \in Frames /\ g.target = f.target /\ g.parent = f.parent /\ g.chain = f.chain
        /\ g.step = "finish" /\ g.bad = f.bad /\ g.next = 1 /\ g.last = last
    BY <2>1 DEF Frames, Steps
  <2>3. Waited(f) = g
    BY <1>2 DEF Waited, last
  <2> QED
    BY <1>2, <2>2, <2>3 DEF last
<1> QED
  BY <1>1, <1>2

LEMMA CallFrames ==
    ASSUME prerequisites \in Graphs, NEW t \in Nodes, NEW chain \in SUBSET Targets, NEW parent \in Nodes
    PROVE  LET g == Call(t, chain, parent)
           IN  /\ g \in Frames /\ g.target = t /\ g.parent = parent /\ g.chain = chain
               /\ g.next = 1 /\ g.last = Len(prerequisites[t]) /\ ~g.bad
               /\ g.step \in {"load", "start", "finish"} /\ (t = Root => g.step = "start")
<1>1. prerequisites \in [Nodes -> Seq(Targets)]
  BY MatchAssumption
<1>2. Len(prerequisites[t]) \in Nat
  BY <1>1
<1>3. Root \notin Loads /\ Root \notin Direct
  BY MatchAssumption
<1> DEFINE step == IF t \in Loads THEN "load" ELSE FirstStep(t)
<1>4. step \in {"load", "start", "finish"} /\ step \in Steps /\ (t = Root => step = "start")
  BY <1>3 DEF FirstStep, Steps
<1> HIDE DEF step
<1>5. Call(t, chain, parent) = [target |-> t, step |-> step, next |-> 1, last |-> Len(prerequisites[t]),
                                bad |-> FALSE, chain |-> chain, parent |-> parent]
  BY DEF Call, step
<1> QED
  BY <1>2, <1>4, <1>5 DEF Frames

LEMMA CallParts ==
    ASSUME TypeOK, NEW t \in Nodes, NEW chain \in SUBSET Targets, NEW parent \in Nodes
    PROVE  LET g == Call(t, chain, parent)
           IN  /\ g \in Frames /\ g.target = t /\ g.parent = parent /\ g.chain = chain
               /\ g.next = 1 /\ g.last = Len(prerequisites[t]) /\ ~g.bad
               /\ g.step \in {"load", "start", "finish"} /\ (t = Root => g.step = "start")
BY CallFrames DEF TypeOK

-----------------------------------------------------------------------------
(***************************************************************************)
(* What a step may change, and what then stays.                            *)
(***************************************************************************)

\* Within an operation, what is applied is final and what is locked does not
\* become free again before.
Final ==
    /\ prerequisites' = prerequisites /\ keep_going' = keep_going /\ current_on' = current_on
    /\ \A t \in Targets : task_count[t] >= count_applied => task_count'[t] >= count_applied
    /\ \A t \in Targets : task_count[t] = count_applied => task_count'[t] = task_count[t] /\ state'[t] = state[t]

LEMMA FinalCounts ==
    ASSUME Final
    PROVE  /\ count_applied' = count_applied /\ count_busy' = count_busy /\ count_base' = count_base
           /\ \A n : StartCount(n)' = StartCount(n)
           /\ \A n : PrerequisitesOf(n)' = PrerequisitesOf(n)
           /\ \A f : (More(f)' <=> More(f)) /\ Prerequisite(f)' = Prerequisite(f)
           /\ \A t \in Targets : Matched(t) => Matched(t)'
<1>1. /\ count_applied' = count_applied /\ count_busy' = count_busy /\ count_base' = count_base
      /\ \A n : StartCount(n)' = StartCount(n)
  BY DEF Final, count_applied, count_busy, count_base, StartCount
<1>2. \A n : PrerequisitesOf(n)' = PrerequisitesOf(n)
  BY DEF Final, PrerequisitesOf
<1>3. \A f : (More(f)' <=> More(f)) /\ Prerequisite(f)' = Prerequisite(f)
  BY DEF Final, More, Prerequisite
<1>4. \A t \in Targets : Matched(t) => Matched(t)'
  BY <1>1 DEF Final, Matched
<1> QED
  BY <1>1, <1>2, <1>3, <1>4

LEMMA SoundStays ==
    ASSUME TypeOK, Final, NEW f \in Frames, Sound(f), NEW d, Frame(d)' = f,
           \/ f.step \in {"done", "wait"} \/ (f.step = "start" /\ f.next # 1)
           \/ task_count'[f.target] = task_count[f.target]
    PROVE  Sound(Frame(d))'
<1>1. InRange(Frame(d))' /\ Stepwise(Frame(d))'
  BY DEF Sound, InRange, Stepwise, Final, More
<1>2. Settled(Frame(d))'
  BY FinalCounts DEF Sound, Settled
<1>3. Tried(Frame(d))'
  <2>1. \A i \in 1 .. Len(prerequisites[f.target]) : prerequisites[f.target][i] \in Targets
    BY FrameTypes
  <2>2. f.next \in Nat /\ f.last \in Nat /\ Len(prerequisites[f.target]) \in Nat
    BY FrameTypes
  <2>3. f.step \in {"start", "wait"} => f.next - 1 <= Len(prerequisites[f.target])
    BY <2>2 DEF Sound, InRange
  <2>4. f.last <= Len(prerequisites[f.target])
    BY DEF Sound, InRange
  <2>5. f.step \in {"start", "wait"} => \A i \in 1 .. f.next - 1 : prerequisites[f.target][i] \in Targets
    BY <2>1, <2>2, <2>3
  <2>6. \A i \in 1 .. f.last : prerequisites[f.target][i] \in Targets
    BY <2>1, <2>2, <2>4
  <2> QED
    BY <2>5, <2>6, FinalCounts DEF Sound, Tried, Final
<1>4. Looked(Frame(d))'
  <2>1. \A i \in 1 .. Len(prerequisites[f.target]) : prerequisites[f.target][i] \in Targets
    BY FrameTypes
  <2>2. PrerequisitesOf(f.target) \subseteq Targets
    BY <2>1, FrameTypes DEF PrerequisitesOf
  <2>3. ASSUME f.step \in {"finish", "lock"}, f.target # Root, ~f.bad, NEW i \in 1 .. f.next - 1
        PROVE  Matched(prerequisites[f.target][i])'
    <3>1. Matched(prerequisites[f.target][i])
      BY <2>3 DEF Sound, Looked
    <3>2. i \in 1 .. Len(prerequisites[f.target])
      BY <2>3, FrameTypes DEF Sound, InRange, More
    <3> QED
      BY <2>1, <3>1, <3>2, FinalCounts DEF Final
  <2>4. ASSUME f.step = "end", f.target # Root, ~f.bad, NEW p \in PrerequisitesOf(f.target)
        PROVE  Matched(p)'
    BY <2>2, <2>4, FinalCounts DEF Sound, Looked
  <2> QED
    BY <2>3, <2>4, FinalCounts DEF Looked, Final
<1> QED
  BY <1>1, <1>2, <1>3, <1>4 DEF Sound

\* The count of a node that is being matched says whether there are tasks.
LEMMA Occupied ==
    ASSUME TypeOK, CountsInv, NEW n \in Nodes, n = Root \/ task_count[n] >= count_busy
    PROVE  /\ task_count[n] >= StartCount(n)
           /\ task_count[n] = StartCount(n) => TasksOf(n) = {} /\ CallsOf(n) = {}
<1>1. /\ IsFiniteSet(TasksOf(n)) /\ IsFiniteSet(CallsOf(n))
      /\ task_count[n] = StartCount(n) + Cardinality(TasksOf(n)) + Cardinality(CallsOf(n))
  BY DEF CountsInv
<1>2. Cardinality(TasksOf(n)) \in Nat /\ Cardinality(CallsOf(n)) \in Nat
  BY <1>1, FS_CardinalityType
<1>3. /\ Cardinality(TasksOf(n)) = 0 => TasksOf(n) = {}
      /\ Cardinality(CallsOf(n)) = 0 => CallsOf(n) = {}
  BY <1>1, FS_EmptySet
<1>4. StartCount(n) \in Nat
  BY Counts
<1> QED
  BY <1>1, <1>2, <1>3, <1>4

\* A call in progress holds its target.
LEMMA HolderCount ==
    ASSUME TypeOK, LocksInv, NEW c \in Calls, Holding(c)
    PROVE  /\ Frame(c) \in Frames /\ Frame(c).target \in Nodes
           /\ Frame(c).target = Root \/ (Frame(c).target \in Targets /\ task_count[Frame(c).target] >= count_busy)
<1>1. Frame(c) \in Frames
  BY InCalls DEF TypeOK
<1>2. Frame(c).target \in Nodes
  BY <1>1 DEF Frames
<1> QED
  BY <1>1, <1>2 DEF LocksInv, Held, Nodes

\* Who is expected to wait is in progress.
LEMMA ExpectedCount ==
    ASSUME TypeOK, LocksInv, NEW p, Expects(p)
    PROVE  p \in Nodes /\ (p = Root \/ (p \in Targets /\ task_count[p] >= count_busy))
<1>1. PICK d \in Calls : Frame(d).target = p /\ Frame(d).step \in {"start", "wait"}
  BY DEF Expects
<1> QED
  BY <1>1, HolderCount DEF Holding

\* There are fewer to be matched for others than before.
LEMMA RootedStays ==
    ASSUME TypeOK, PlacesInv, RootedInv, stack' \in [Threads -> Seq(Frames)],
           Calls' \subseteq Calls, queued' \subseteq queued,
           \A d \in Calls' : /\ Frame(d)'.target = Frame(d).target /\ Frame(d)'.parent = Frame(d).parent
                             /\ Frame(d)'.step # "done" => Frame(d).step # "done"
    PROVE  RootedInv'
<1>1. ASSUME NEW t \in Targets, NEW p \in Targets, Up(t, p)' PROVE Up(t, p)
  <2>1. CASE \E task \in queued' : task.target = t /\ task.parent = p
    BY <2>1 DEF Up
  <2>2. ASSUME NEW c \in Calls', Holding(c)', Frame(c)'.target = t, t # Root,
               p = IF Frame(c)'.parent = t THEN Frame(Below(c))'.target ELSE Frame(c)'.parent
        PROVE  Up(t, p)
    <3>1. c \in Calls /\ Holding(c) /\ Frame(c).target = t /\ Frame(c)'.parent = Frame(c).parent
      BY <2>2 DEF Holding
    <3>2. ASSUME Frame(c).parent = t PROVE Frame(Below(c))'.target = Frame(Below(c)).target
      <4>1. c[2] > 1
        BY <2>2, <3>1, <3>2 DEF PlacesInv, Placed
      <4>2. Below(c) \in Calls'
        BY <4>1, BelowCall DEF Calls
      <4> QED
        BY <4>2
    <3> QED
      BY <2>2, <3>1, <3>2 DEF Up
  <2> QED
    BY <1>1, <2>1, <2>2 DEF Up
<1> QED
  BY <1>1 DEF RootedInv

\* A call stays where it is, among others.
LEMMA PlacedStays ==
    ASSUME NEW d, Placed(d), prerequisites' = prerequisites,
           Frame(d)'.target = Frame(d).target, Frame(d)'.parent = Frame(d).parent,
           d[2] > 1 => Frame(Below(d))' = Frame(Below(d)),
           \A p : p = Frame(d).parent /\ p # Frame(d).target => Expects(p)'
    PROVE  Placed(d)'
<1>1. Frame(d).parent # Frame(d).target =>
        \E e \in Calls' : Frame(e)'.target = Frame(d).parent /\ Frame(e)'.step \in {"start", "wait"}
  BY DEF Expects
<1>2. Frame(d)'.parent # Frame(d)'.target => Expects(Frame(d).parent)'
  BY <1>1 DEF Expects
<1> QED
  BY <1>2 DEF Placed, More, Prerequisite

\* A call moves on, or fails.
LEMMA MoveKeeps ==
    ASSUME IndInv, NEW u \in Threads, NEW c, Innermost(u, c), NEW g \in Frames, stack' = Moved(u, g),
           g.target = Frame(c).target, g.parent = Frame(c).parent,
           Frame(c).step # "done", g.step # "done", Sound(g),
           UNCHANGED <<build, current_on, task_count, state, queued, result>>,
           dependents' \in [Targets -> Nat], fail' \in BOOLEAN, fail => fail', DoomInv', StopInv'
    PROVE  IndInv'
<1>1. /\ TypeOK /\ FramesInv /\ PlacesInv /\ LocksInv /\ CountsInv /\ PrerequisitesFirst /\ RootedInv
      /\ stack \in [Threads -> Seq(Frames)]
  BY DEF IndInv, TypeOK
<1>2. /\ prerequisites' = prerequisites /\ keep_going' = keep_going /\ current_on' = current_on
      /\ task_count' = task_count /\ state' = state /\ queued' = queued /\ result' = result
  BY DEF build
<1>3. /\ c \in Calls /\ Frame(c) \in Frames /\ \A d \in Calls : Below(d) # c
  BY <1>1, InnermostCall
<1>4. /\ stack' \in [Threads -> Seq(Frames)] /\ Calls' = Calls
      /\ Frame(c)' = g /\ \A d \in Calls : d # c => Frame(d)' = Frame(d)
  BY <1>1, MovedStack
<1>5. Final
  BY <1>2 DEF Final
<1>6. TypeOK'
  BY <1>1, <1>2, <1>4 DEF TypeOK
<1>7. FramesInv'
  <2> SUFFICES ASSUME NEW d \in Calls PROVE Sound(Frame(d))'
    BY <1>4 DEF FramesInv
  <2>1. CASE d = c
    BY <1>1, <1>2, <1>4, <1>5, <2>1, SoundStays
  <2>2. CASE d # c
    <3>1. Frame(d) \in Frames /\ Sound(Frame(d)) /\ Frame(d)' = Frame(d)
      BY <1>1, <1>4, <2>2, InCalls DEF FramesInv
    <3> QED
      BY <1>1, <1>2, <1>5, <3>1, SoundStays
  <2> QED
    BY <2>1, <2>2
<1>8. \A d \in Calls : /\ Frame(d)'.target = Frame(d).target /\ Frame(d)'.parent = Frame(d).parent
                       /\ Frame(d)'.step # "done" <=> Frame(d).step # "done"
  BY <1>4
<1>9. ASSUME NEW p, Expects(p), TasksOf(p) # {} \/ CallsOf(p) # {} PROVE Expects(p)'
  <2>1. PICK d \in Calls : Frame(d).target = p /\ Frame(d).step \in {"start", "wait"}
    BY <1>9 DEF Expects
  <2>2. CASE d # c
    BY <1>4, <2>1, <2>2 DEF Expects
  <2>3. CASE d = c
    <3>1. p \in Nodes /\ (p = Root \/ task_count[p] >= count_busy)
      BY <1>1, <1>9, ExpectedCount
    <3>2. task_count[p] # StartCount(p)
      BY <1>1, <1>9, <3>1, Occupied
    <3>3. g.step \in {"start", "wait"}
      BY <2>1, <2>3, <3>2 DEF Sound, Settled
    <3> QED
      BY <1>3, <1>4, <2>1, <2>3, <3>3 DEF Expects
  <2> QED
    BY <2>2, <2>3
<1>10. ASSUME NEW d \in Calls PROVE Placed(d)'
  <2>1. Placed(d)
    BY <1>1 DEF PlacesInv
  <2>2. d[2] > 1 => Frame(Below(d))' = Frame(Below(d))
    <3>1. d[2] > 1 => Below(d) \in Calls /\ Below(d) # c
      BY <1>1, <1>3, BelowCall DEF Calls
    <3> QED
      BY <1>4, <3>1
  <2>3. Frame(d).parent # Frame(d).target => Expects(Frame(d).parent) /\ d \in CallsOf(Frame(d).parent)
    BY <2>1 DEF Placed, CallsOf
  <2>4. ASSUME NEW p, p = Frame(d).parent, p # Frame(d).target PROVE Expects(p)'
    BY <1>9, <2>3, <2>4
  <2> QED
    BY <1>2, <1>8, <2>1, <2>2, <2>4, PlacedStays
<1>11. PlacesInv'
  <2>1. ASSUME NEW task \in queued, NEW p, p = task.parent PROVE Expects(p)'
    <3>1. Expects(p) /\ task \in TasksOf(p)
      BY <1>1, <2>1 DEF PlacesInv, TasksOf
    <3> QED
      BY <1>9, <3>1
  <2>2. \A task \in queued : Expects(task.parent)'
    BY <2>1
  <2> QED
    BY <1>1, <1>2, <1>4, <1>10, <2>2 DEF PlacesInv
<1>12. LocksInv'
  <2>1. \A d \in Calls : Holding(d)' <=> Holding(d)
    BY <1>8 DEF Holding
  <2>2. \A t : Held(t)' <=> Held(t)
    BY <1>2, <1>4, <1>8, <2>1 DEF Held
  <2>3. count_busy' = count_busy /\ count_applied' = count_applied
    BY <1>5, FinalCounts
  <2> QED
    BY <1>1, <1>2, <1>4, <1>8, <2>1, <2>2, <2>3 DEF LocksInv
<1>13. CountsInv'
  <2>1. \A n : TasksOf(n)' = TasksOf(n) /\ CallsOf(n)' = CallsOf(n)
    BY <1>2, <1>4, <1>8 DEF TasksOf, CallsOf
  <2>2. count_busy' = count_busy /\ \A n : StartCount(n)' = StartCount(n)
    BY <1>5, FinalCounts
  <2> QED
    BY <1>1, <1>2, <2>1, <2>2 DEF CountsInv
<1>14. PrerequisitesFirst'
  <2>1. \A t : Matched(t)' <=> Matched(t)
    BY <1>2 DEF Matched, count_applied, count_base
  <2> QED
    BY <1>1, <1>5, <2>1, FinalCounts DEF PrerequisitesFirst
<1>15. RootedInv'
  BY <1>1, <1>2, <1>4, <1>8, RootedStays
<1> QED
  BY <1>6, <1>7, <1>11, <1>12, <1>13, <1>14, <1>15 DEF IndInv

\* And the consequences of a failed load.
LEMMA MoveOn ==
    ASSUME IndInv, NEW u \in Threads, NEW c, Innermost(u, c), NEW g \in Frames, stack' = Moved(u, g),
           g.target = Frame(c).target, g.parent = Frame(c).parent,
           Frame(c).step # "done", g.step # "done", Sound(g),
           UNCHANGED <<build, current_on, task_count, state, queued, fail, result>>,
           dependents' \in [Targets -> Nat],
           \A D \in SUBSET Nodes :
              fail /\ ~Excused(c) /\ (\A n \in D : Doomed(n, D)) /\ DoomedCall(Frame(c), D) => DoomedCall(g, D),
           fail /\ ~keep_going /\ ~Excused(c) /\ StoppedCall(Frame(c)) => StoppedCall(g)
    PROVE  IndInv'
<1>1. TypeOK /\ DoomInv /\ StopInv /\ stack \in [Threads -> Seq(Frames)]
  BY DEF IndInv, TypeOK
<1>2. /\ prerequisites' = prerequisites /\ keep_going' = keep_going /\ current_on' = current_on
      /\ task_count' = task_count /\ state' = state /\ queued' = queued /\ result' = result /\ fail' = fail
  BY DEF build
<1>3. c \in Calls /\ Frame(c) \in Frames /\ Above(c) \notin Calls
  BY <1>1, InnermostCall
<1>4. /\ Calls' = Calls /\ Frame(c)' = g /\ \A d \in Calls : d # c => Frame(d)' = Frame(d)
      /\ \A d \in Calls : Excused(d)' <=> Excused(d)
  BY <1>1, MovedStack
<1>5. count_applied' = count_applied
  BY <1>2 DEF count_applied, count_base
<1>6. DoomInv'
  <2> SUFFICES ASSUME fail PROVE \E D \in SUBSET Nodes : Root \in D /\ \A n \in D : Doomed(n, D)'
    BY <1>2 DEF DoomInv
  <2>1. PICK D \in SUBSET Nodes : Root \in D /\ \A n \in D : Doomed(n, D)
    BY <1>1 DEF DoomInv
  <2>2. ASSUME NEW n \in D PROVE Doomed(n, D)'
    <3>1. CASE n = Root /\ result = "failed"
      BY <1>2, <3>1 DEF Doomed
    <3>2. CASE n # Root /\ task_count[n] = count_applied /\ state[n] = "failed"
      BY <1>2, <1>5, <3>2 DEF Doomed
    <3>3. ASSUME NEW d \in Calls, Frame(d).target = n, Holding(d), ~Excused(d), DoomedCall(Frame(d), D)
          PROVE  Doomed(n, D)'
      <4>1. DoomedCall(Frame(d), D)' /\ Holding(d)' /\ Frame(d)'.target = n
        <5>1. CASE d = c
          <6>1. DoomedCall(g, D)
            BY <2>1, <3>3, <5>1
          <6> QED
            BY <1>2, <1>4, <3>3, <5>1, <6>1 DEF DoomedCall, Holding
        <5>2. CASE d # c
          BY <1>2, <1>4, <3>3, <5>2 DEF DoomedCall, Holding
        <5> QED
          BY <5>1, <5>2
      <4> QED
        BY <1>4, <3>3, <4>1 DEF Doomed
    <3> QED
      BY <2>1, <3>1, <3>2, <3>3 DEF Doomed
  <2> QED
    BY <2>1, <2>2
<1>7. StopInv'
  <2> SUFFICES ASSUME fail, ~keep_going, NEW d \in Calls PROVE Stopped(d)'
    BY <1>2, <1>4 DEF StopInv
  <2>1. Stopped(d)
    BY <1>1 DEF StopInv
  <2>2. CASE Excused(d)
    BY <1>4, <2>2 DEF Stopped
  <2>3. CASE d = c /\ ~Excused(d)
    <3>1. StoppedCall(g)
      BY <1>3, <2>1, <2>3 DEF Stopped
    <3>2. StoppedCall(Frame(c))'
      BY <1>2, <1>4, <1>5, <3>1 DEF StoppedCall, More, Prerequisite
    <3> QED
      BY <2>3, <3>2 DEF Stopped
  <2>4. CASE d # c /\ ~Excused(d)
    <3>1. StoppedCall(Frame(d)) => StoppedCall(Frame(d))'
      BY <1>2, <1>4, <1>5, <2>4 DEF StoppedCall, More, Prerequisite
    <3> QED
      BY <1>4, <2>1, <2>4, <3>1 DEF Stopped, Above
  <2> QED
    BY <2>2, <2>3, <2>4
<1>8. fail' \in BOOLEAN
  BY <1>1, <1>2 DEF TypeOK
<1>9. UNCHANGED <<build, current_on, task_count, state, queued, result>>
  OBVIOUS
<1> QED
  BY <1>2, <1>6, <1>7, <1>8, <1>9, MoveKeeps

-----------------------------------------------------------------------------
(***************************************************************************)
(* The steps of a call by itself.                                          *)
(***************************************************************************)

\* The innermost call of a thread.
LEMMA TopCall ==
    ASSUME IndInv, NEW u \in Threads, Busy(u)
    PROVE  \E c \in Calls :
              /\ Innermost(u, c) /\ Frame(c) = Top(u) /\ Frame(c) \in Frames
              /\ Sound(Frame(c)) /\ Placed(c) /\ Above(c) \notin Calls
              /\ Frame(c).step # "done" =>
                    /\ Holding(c)
                    /\ Frame(c).target = Root \/ (Frame(c).target \in Targets /\ task_count[Frame(c).target] >= count_busy)
                    /\ task_count[Frame(c).target] >= StartCount(Frame(c).target)
<1>1. TypeOK /\ FramesInv /\ PlacesInv /\ LocksInv /\ CountsInv /\ stack \in [Threads -> Seq(Frames)]
  BY DEF IndInv, TypeOK
<1>2. PICK c : Innermost(u, c)
  BY DEF Innermost
<1>3. c \in Calls /\ Frame(c) = Top(u) /\ Frame(c) \in Frames /\ Above(c) \notin Calls
  BY <1>1, <1>2, InnermostCall
<1>4. Sound(Frame(c)) /\ Placed(c)
  BY <1>1, <1>3 DEF FramesInv, PlacesInv
<1>5. ASSUME Frame(c).step # "done"
      PROVE  /\ Holding(c)
             /\ Frame(c).target = Root \/ (Frame(c).target \in Targets /\ task_count[Frame(c).target] >= count_busy)
             /\ task_count[Frame(c).target] >= StartCount(Frame(c).target)
  BY <1>1, <1>3, <1>5, HolderCount, Occupied DEF Holding
<1> QED
  BY <1>2, <1>3, <1>4, <1>5

\* The parts of a call that the next step depends on.
Begun(h) ==
    LET n == Len(prerequisites[h.target])
    IN  /\ h.next >= 1 /\ h.next <= n + 1 /\ h.last <= n
        /\ h.target # Root /\ ~h.bad => h.next = n + 1
        /\ h.target = Root => h.parent = Root
        /\ ~h.bad => \A i \in 1 .. h.next - 1 : task_count[prerequisites[h.target][i]] >= count_applied

LEMMA WaitedSound ==
    ASSUME TypeOK, NEW h \in Frames, Begun(h), task_count[h.target] = StartCount(h.target)
    PROVE  Sound(Waited(h))
<1> DEFINE g == Waited(h)
<1>1. /\ g \in Frames /\ g.target = h.target /\ g.parent = h.parent
      /\ h.bad => g.step = "end" /\ g.bad /\ g.next = h.next /\ g.last = h.last
      /\ ~h.bad => g.step = "finish" /\ ~g.bad /\ g.next = 1 /\ g.last = h.next - 1
  BY WaitedParts DEF Begun
<1>2. h.next \in Nat /\ h.last \in Nat /\ Len(prerequisites[h.target]) \in Nat
  BY FrameTypes
<1> HIDE DEF g
<1>3. InRange(g)
  BY <1>1, <1>2 DEF InRange, Begun, More
<1>4. Settled(g) /\ Stepwise(g)
  BY <1>1 DEF Settled, Stepwise, Begun
<1>5. Tried(g) /\ Looked(g)
  BY <1>1, <1>2 DEF Tried, Looked, Begun
<1> QED
  BY <1>3, <1>4, <1>5 DEF Sound, g

LEMMA AwaitSound ==
    ASSUME TypeOK, NEW h \in Frames, Begun(h), task_count[h.target] >= StartCount(h.target)
    PROVE  LET g == Await(h)
           IN  /\ g \in Frames /\ g.target = h.target /\ g.parent = h.parent /\ Sound(g)
               /\ g.step \in {"wait", "end", "finish"}
               /\ g.step = "end" => g.bad
               /\ h.bad => g.bad /\ g.step # "finish"
               /\ g.step = "finish" => g.next = 1 /\ g.last = h.next - 1
<1> DEFINE g == Await(h)
<1>1. CASE task_count[h.target] > StartCount(h.target)
  <2>1. g = GoTo(h, "wait")
    BY <1>1 DEF Await
  <2>2. /\ g \in Frames /\ g.target = h.target /\ g.parent = h.parent
        /\ g.step = "wait" /\ g.next = h.next /\ g.last = h.last /\ g.bad = h.bad
    BY <2>1, GoToParts DEF Steps
  <2>3. h.next \in Nat /\ h.last \in Nat /\ Len(prerequisites[h.target]) \in Nat
    BY FrameTypes
  <2> HIDE DEF g
  <2>4. InRange(g)
    BY <2>2, <2>3 DEF InRange, Begun, More
  <2>5. Settled(g) /\ Stepwise(g) /\ Tried(g) /\ Looked(g)
    BY <2>2 DEF Settled, Stepwise, Begun, Tried, Looked
  <2> QED
    BY <2>2, <2>4, <2>5 DEF Sound, g
<1>2. CASE ~(task_count[h.target] > StartCount(h.target))
  <2>1. g = Waited(h)
    BY <1>2 DEF Await
  <2>2. task_count[h.target] = StartCount(h.target)
    <3>1. task_count[h.target] \in Nat /\ StartCount(h.target) \in Nat
      BY FrameTypes, Counts
    <3> QED
      BY <1>2, <3>1
  <2>3. Sound(g)
    BY <2>1, <2>2, WaitedSound
  <2> QED
    BY <2>1, <2>3, WaitedParts DEF Begun
<1> QED
  BY <1>1, <1>2

\* Where the parts of a call at "start" lead to.
LEMMA StartFacts ==
    ASSUME TypeOK, NEW f \in Frames, Sound(f), f.step = "start"
    PROVE  /\ ~f.bad /\ f.next \in Nat /\ f.next >= 1 /\ f.last = Len(prerequisites[f.target]) /\ f.next <= f.last + 1
           /\ f.last \in Nat
           /\ f.target = Root => f.parent = Root
           /\ \A i \in 1 .. f.next - 1 : task_count[prerequisites[f.target][i]] >= count_applied
BY FrameTypes DEF Sound, InRange, Stepwise, Tried

LEMMA TryOutcome ==
    ASSUME TypeOK, LocksInv, NEW f, NEW t \in Targets
    PROVE  /\ Try(f, t) \in {"busy", "cycle"} => task_count[t] >= count_busy
           /\ Try(f, t) = "applied" => task_count[t] = count_applied
           /\ Try(f, t) = "locked" => task_count[t] < count_applied
<1>1. task_count[t] \in Nat
  BY DEF TypeOK, Nodes
<1>2. task_count[t] < count_busy => task_count[t] <= count_applied
  BY DEF LocksInv
<1>3. count_applied \in Nat /\ count_busy = count_applied + 2
  BY Counts
<1> QED
  BY <1>1, <1>2, <1>3 DEF Try

\* The call tries the next of its prerequisites, and this comes to outcome.
LEMMA Trying ==
    ASSUME IndInv, NEW u \in Threads, NEW outcome, Starting(u, outcome) \/ Finishing(u, outcome)
    PROVE  /\ Busy(u) /\ Top(u).step \in {"start", "finish"} /\ Prerequisite(Top(u)) \in Targets
           /\ Top(u).next \in 1 .. Len(prerequisites[Top(u).target]) /\ Top(u).next <= Top(u).last
           /\ Prerequisite(Top(u)) = prerequisites[Top(u).target][Top(u).next]
           /\ outcome \in {"busy", "cycle"} => task_count[Prerequisite(Top(u))] >= count_busy
           /\ outcome = "applied" => task_count[Prerequisite(Top(u))] = count_applied
           /\ outcome = "locked" => task_count[Prerequisite(Top(u))] < count_applied
<1>1. /\ Busy(u) /\ Top(u).step \in {"start", "finish"} /\ More(Top(u))
      /\ Try(Top(u), Prerequisite(Top(u))) = outcome
  BY DEF Starting, Finishing, At
<1>2. PICK c \in Calls : Frame(c) = Top(u) /\ Frame(c) \in Frames /\ Sound(Frame(c))
  BY <1>1, TopCall
<1>3. TypeOK /\ LocksInv
  BY DEF IndInv
<1>4. /\ Prerequisite(Top(u)) \in Targets /\ Top(u).next \in 1 .. Len(prerequisites[Top(u).target])
      /\ Prerequisite(Top(u)) = prerequisites[Top(u).target][Top(u).next]
  BY <1>1, <1>2, <1>3, FrameMore DEF Sound
<1> QED
  BY <1>1, <1>3, <1>4, TryOutcome DEF More

LEMMA TopFrame ==
    ASSUME IndInv, NEW u \in Threads, Busy(u), NEW f, f = Top(u)
    PROVE  /\ TypeOK /\ f \in Frames /\ Sound(f)
           /\ f.step # "done" =>
                 /\ f.target = Root \/ (f.target \in Targets /\ task_count[f.target] >= count_busy)
                 /\ task_count[f.target] >= StartCount(f.target)
BY TopCall DEF IndInv

LEMMA MoveTop ==
    ASSUME IndInv, NEW u \in Threads, Busy(u), NEW f, f = Top(u), NEW g \in Frames, stack' = Moved(u, g),
           g.target = f.target, g.parent = f.parent, f.step # "done", g.step # "done", Sound(g),
           UNCHANGED <<build, current_on, task_count, state, queued, fail, result>>,
           dependents' \in [Targets -> Nat],
           \A D \in SUBSET Nodes :
              fail /\ ~Unwinding(u) /\ (\A n \in D : Doomed(n, D)) /\ DoomedCall(f, D) => DoomedCall(g, D),
           fail /\ ~keep_going /\ ~Unwinding(u) /\ StoppedCall(f) => StoppedCall(g)
    PROVE  IndInv'
<1>1. PICK c \in Calls : Innermost(u, c) /\ Frame(c) = f
  BY TopCall
<1>2. Excused(c) <=> Unwinding(u)
  BY <1>1, InnermostCall DEF IndInv, TypeOK
<1> QED
  BY <1>1, <1>2, MoveOn

LEMMA StartMoves ==
    ASSUME IndInv, NEW u \in Threads, AsyncBusy(u) \/ AsyncCycle(u) \/ AsyncApplied(u) \/ AsyncAll(u)
    PROVE  IndInv'
<1>1. Top(u).step = "start" /\ Busy(u) /\ UNCHANGED <<build, current_on, task_count, state, queued, fail, result>>
  BY DEF AsyncBusy, AsyncCycle, AsyncApplied, AsyncAll, Starting, At
<1>2. PICK f : f = Top(u)
  OBVIOUS
<1>3. TypeOK /\ f \in Frames /\ Sound(f) /\ task_count[f.target] >= StartCount(f.target)
  BY <1>1, <1>2, TopFrame
<1>4. dependents' \in [Targets -> Nat] /\ count_applied \in Nat /\ count_busy = count_applied + 2
  BY <1>3, Counts DEF TypeOK, AsyncBusy, AsyncCycle, AsyncApplied, AsyncAll
<1>5. /\ ~f.bad /\ f.next \in Nat /\ f.next >= 1 /\ f.last = Len(prerequisites[f.target]) /\ f.last \in Nat
      /\ f.next <= f.last + 1
      /\ f.target = Root => f.parent = Root
      /\ \A i \in 1 .. f.next - 1 : task_count[prerequisites[f.target][i]] >= count_applied
  BY <1>1, <1>2, <1>3, StartFacts
<1>6. ASSUME NEW g, g = Advance(f), stack' = Moved(u, g), f.next <= f.last,
             task_count[prerequisites[f.target][f.next]] >= count_applied,
             fail /\ ~keep_going => ~StoppedCall(f)
      PROVE  IndInv'
  <2>1. /\ g \in Frames /\ g.target = f.target /\ g.parent = f.parent
        /\ g.step = "start" /\ g.next = f.next + 1 /\ g.last = f.last /\ g.bad = f.bad
    BY <1>1, <1>2, <1>3, <1>6, AdvanceParts
  <2>2. \A i \in 1 .. g.next - 1 : task_count[prerequisites[g.target][i]] >= count_applied
    BY <1>5, <1>6, <2>1
  <2>3. Sound(g)
    BY <1>5, <1>6, <2>1, <2>2 DEF Sound, InRange, Settled, Stepwise, Tried, Looked, More
  <2>4. \A D : DoomedCall(f, D) => DoomedCall(g, D)
    BY <1>1, <1>2, <1>5, <2>1 DEF DoomedCall
  <2> QED
    BY <1>1, <1>2, <1>4, <1>6, <2>1, <2>3, <2>4, MoveTop
<1>7. ASSUME NEW h \in Frames, Begun(h), h.target = f.target, h.parent = f.parent, stack' = Moved(u, Await(h)),
             h.bad \/ \A i \in 1 .. f.next : i <= f.last => i <= h.next - 1,
             h.bad \/ f.target = Root \/ ~StoppedCall(f)
      PROVE  IndInv'
  <2>1. PICK g : g = Await(h)
    OBVIOUS
  <2>2. /\ g \in Frames /\ g.target = h.target /\ g.parent = h.parent /\ Sound(g)
        /\ g.step \in {"wait", "end", "finish"}
        /\ g.step = "end" => g.bad
        /\ h.bad => g.bad /\ g.step # "finish"
        /\ g.step = "finish" => g.next = 1 /\ g.last = h.next - 1
    BY <1>3, <1>7, <2>1, AwaitSound
  <2>3. h.next \in Nat
    BY <1>3, FrameTypes
  <2>4. \A D : DoomedCall(f, D) => DoomedCall(g, D)
    <3> SUFFICES ASSUME NEW D, DoomedCall(f, D), g.step = "finish", ~h.bad PROVE DoomedCall(g, D)
      BY <2>2 DEF DoomedCall
    <3>1. PICK i \in 1 .. f.next : i <= f.last /\ prerequisites[f.target][i] \in D
      BY <1>1, <1>2, <1>5 DEF DoomedCall
    <3>2. i \in g.next .. g.last
      BY <1>5, <1>7, <2>2, <2>3, <3>1
    <3> QED
      BY <1>7, <2>2, <3>1, <3>2 DEF DoomedCall
  <2>5. StoppedCall(f) => StoppedCall(g)
    BY <1>7, <2>2 DEF StoppedCall
  <2> QED
    BY <1>1, <1>2, <1>4, <1>7, <2>1, <2>2, <2>4, <2>5, MoveTop
<1>8. ASSUME stack' = Moved(u, Thrown(f)) PROVE IndInv'
  <2>1. PICK h : h = [f EXCEPT !.bad = TRUE]
    OBVIOUS
  <2>2. /\ h \in Frames /\ h.target = f.target /\ h.parent = f.parent /\ h.next = f.next /\ h.last = f.last /\ h.bad
    BY <1>3, <2>1, BadParts
  <2>3. Begun(h)
    BY <1>5, <2>2 DEF Begun
  <2>4. stack' = Moved(u, Await(h))
    BY <1>8, <2>1 DEF Thrown
  <2> QED
    BY <1>7, <2>2, <2>3, <2>4
<1>9. CASE AsyncBusy(u)
  <2>1. /\ f.next <= f.last /\ Prerequisite(f) = prerequisites[f.target][f.next]
        /\ task_count[Prerequisite(f)] >= count_busy /\ task_count[Prerequisite(f)] \in Nat
    BY <1>2, <1>3, <1>9, Trying DEF AsyncBusy, TypeOK, Nodes
  <2>2. ~StoppedCall(f)
    BY <1>1, <1>2, <1>4, <2>1 DEF StoppedCall
  <2>3. stack' = Moved(u, Advance(f))
    BY <1>2, <1>9 DEF AsyncBusy
  <2> QED
    BY <1>4, <1>6, <2>1, <2>2, <2>3
<1>10. CASE AsyncCycle(u)
  BY <1>2, <1>8, <1>10 DEF AsyncCycle
<1>11. CASE AsyncApplied(u)
  <2>1. /\ f.next <= f.last /\ Prerequisite(f) = prerequisites[f.target][f.next]
        /\ task_count[Prerequisite(f)] = count_applied
    BY <1>2, <1>3, <1>11, Trying DEF AsyncApplied
  <2> DEFINE failed == state[Prerequisite(f)] = "failed" /\ ~keep_going
  <2>2. stack' = Moved(u, IF ~failed THEN Advance(f) ELSE IF f.target = Root THEN Await(Advance(f)) ELSE Thrown(f))
    BY <1>2, <1>11 DEF AsyncApplied
  <2>3. CASE ~failed
    <3>1. stack' = Moved(u, Advance(f))
      BY <2>2, <2>3
    <3>2. ~keep_going => ~StoppedCall(f)
      BY <1>1, <1>2, <2>3 DEF StoppedCall
    <3> QED
      BY <1>4, <1>6, <2>1, <3>1, <3>2
  <2>4. CASE failed /\ f.target = Root
    <3>1. PICK h : h = Advance(f)
      OBVIOUS
    <3>2. /\ h \in Frames /\ h.target = f.target /\ h.parent = f.parent
          /\ h.next = f.next + 1 /\ h.last = f.last /\ h.bad = f.bad
      BY <1>3, <3>1, AdvanceParts
    <3>3. ASSUME NEW i \in 1 .. h.next - 1 PROVE task_count[prerequisites[h.target][i]] >= count_applied
      <4>1. i = f.next \/ i \in 1 .. f.next - 1
        BY <1>5, <3>2
      <4>2. CASE i = f.next
        BY <1>4, <2>1, <3>2, <4>2
      <4>3. CASE i \in 1 .. f.next - 1
        BY <1>5, <3>2, <4>3
      <4> QED
        BY <4>1, <4>2, <4>3
    <3>4. Begun(h)
      BY <1>5, <2>1, <2>4, <3>2, <3>3 DEF Begun
    <3>5. stack' = Moved(u, Await(h))
      BY <2>2, <2>4, <3>1
    <3>6. \A i \in 1 .. f.next : i <= f.last => i <= h.next - 1
      BY <1>5, <3>2
    <3> QED
      BY <1>7, <2>4, <3>2, <3>4, <3>5, <3>6
  <2>5. CASE failed /\ f.target # Root
    <3>1. stack' = Moved(u, Thrown(f))
      BY <2>2, <2>5
    <3> QED
      BY <1>8, <3>1
  <2> QED
    BY <2>3, <2>4, <2>5
<1>12. CASE AsyncAll(u)
  <2>1. ~More(f) /\ stack' = Moved(u, Await(f))
    BY <1>2, <1>12 DEF AsyncAll
  <2>2. f.next = f.last + 1
    BY <1>5, <2>1 DEF More
  <2>3. Begun(f)
    BY <1>5, <2>2 DEF Begun
  <2>4. ~StoppedCall(f)
    BY <1>1, <1>2, <2>1 DEF StoppedCall
  <2>5. \A i \in 1 .. f.next : i <= f.last => i <= f.next - 1
    BY <1>5, <2>2
  <2> QED
    BY <1>3, <1>7, <2>1, <2>3, <2>4, <2>5
<1> QED
  BY <1>9, <1>10, <1>11, <1>12

LEMMA FailedSound ==
    ASSUME TypeOK, NEW f \in Frames, Sound(f), task_count[f.target] = StartCount(f.target)
    PROVE  Sound(Failed(f))
<1>1. PICK g : g = Failed(f)
  OBVIOUS
<1>2. /\ g.target = f.target /\ g.parent = f.parent /\ g.step = "end" /\ g.next = f.next /\ g.last = f.last /\ g.bad
  BY <1>1, FailedParts
<1>3. Sound(g)
  BY <1>2 DEF Sound, InRange, Settled, Stepwise, Tried, Looked
<1> QED
  BY <1>1, <1>3

\* The call fails.
LEMMA FailTop ==
    ASSUME IndInv, NEW u \in Threads, Busy(u), NEW f, f = Top(u), stack' = Moved(u, Failed(f)),
           f.step # "done", task_count[f.target] = StartCount(f.target),
           UNCHANGED <<build, current_on, task_count, state, queued, fail, result>>,
           dependents' \in [Targets -> Nat]
    PROVE  IndInv'
<1>1. TypeOK /\ f \in Frames /\ Sound(f)
  BY TopFrame
<1>2. PICK g : g = Failed(f)
  OBVIOUS
<1>3. g \in Frames /\ g.target = f.target /\ g.parent = f.parent /\ g.step = "end" /\ g.bad
  BY <1>1, <1>2, FailedParts
<1>4. Sound(g)
  BY <1>1, <1>2, FailedSound
<1>5. StoppedCall(g) /\ \A D : DoomedCall(g, D)
  BY <1>3 DEF StoppedCall, DoomedCall
<1> QED
  BY <1>2, <1>3, <1>4, <1>5, MoveTop

LEMMA WaitDoneKeeps == ASSUME IndInv, NEW u \in Threads, WaitDone(u) PROVE IndInv'
<1>1. /\ Busy(u) /\ Top(u).step = "wait" /\ UNCHANGED <<build, current_on, task_count, state, queued, fail, result>>
      /\ dependents' = dependents
  BY DEF WaitDone, At
<1>2. PICK f : f = Top(u)
  OBVIOUS
<1>3. TypeOK /\ f \in Frames /\ Sound(f) /\ task_count[f.target] >= StartCount(f.target)
  BY <1>1, <1>2, TopFrame
<1>4. task_count[f.target] = StartCount(f.target)
  <2>1. task_count[f.target] <= StartCount(f.target)
    BY <1>2 DEF WaitDone
  <2>2. task_count[f.target] \in Nat /\ StartCount(f.target) \in Nat
    BY <1>3, FrameTypes, Counts
  <2> QED
    BY <1>3, <2>1, <2>2
<1>5. f.bad \in BOOLEAN /\ RelockFails(u) \in BOOLEAN /\ (f.bad \/ RelockFails(u)) \in BOOLEAN
  BY <1>3, FrameTypes DEF TypeOK, RelockFails, Unwinding
<1>6. PICK h : h = [f EXCEPT !.bad = f.bad \/ RelockFails(u)]
  OBVIOUS
<1>7. /\ h \in Frames /\ h.target = f.target /\ h.parent = f.parent /\ h.next = f.next /\ h.last = f.last
      /\ h.bad = (f.bad \/ RelockFails(u))
  BY <1>3, <1>5, <1>6, BadParts
<1>8. Begun(h)
  BY <1>1, <1>2, <1>3, <1>7 DEF Begun, Sound, InRange, Stepwise, Tried
<1>9. PICK g : g = Waited(h)
  OBVIOUS
<1>10. Sound(g)
  BY <1>3, <1>4, <1>7, <1>8, <1>9, WaitedSound
<1>11. /\ g \in Frames /\ g.target = f.target /\ g.parent = f.parent /\ g.step # "done"
       /\ h.bad => g.step = "end" /\ g.bad
  BY <1>7, <1>8, <1>9, WaitedParts DEF Begun
<1>12. fail /\ ~Unwinding(u) => StoppedCall(g) /\ \A D : DoomedCall(g, D)
  BY <1>7, <1>11 DEF StoppedCall, DoomedCall, RelockFails
<1>13. stack' = Moved(u, g)
  <2>1. [f EXCEPT !.bad = @ \/ RelockFails(u)] = h
    BY <1>6
  <2> QED
    BY <1>2, <1>9, <2>1 DEF WaitDone
<1>14. dependents' \in [Targets -> Nat]
  BY <1>1, <1>3 DEF TypeOK
<1> QED
  BY <1>1, <1>2, <1>10, <1>11, <1>12, <1>13, <1>14, MoveTop

LEMMA FinishMoves ==
    ASSUME IndInv, NEW u \in Threads,
           MatchApplied(u) \/ MatchCycle(u) \/ MatchBusy(u) \/ LockWaited(u) \/ MatchAll(u)
    PROVE  IndInv'
<1>1. /\ Top(u).step \in {"finish", "lock"} /\ Busy(u)
      /\ UNCHANGED <<build, current_on, task_count, state, queued, fail, result>>
  BY DEF MatchApplied, MatchCycle, MatchBusy, LockWaited, MatchAll, Finishing, At
<1>2. PICK f : f = Top(u)
  OBVIOUS
<1>3. TypeOK /\ f \in Frames /\ Sound(f)
  BY <1>1, <1>2, TopFrame
<1>4. /\ f.next \in Nat /\ f.last \in Nat /\ Len(prerequisites[f.target]) \in Nat /\ f.bad \in BOOLEAN
      /\ f.next >= 1 /\ f.last <= Len(prerequisites[f.target]) /\ f.next <= f.last + 1
      /\ f.target # Root => ~f.bad /\ f.last = Len(prerequisites[f.target])
      /\ task_count[f.target] = StartCount(f.target)
  BY <1>1, <1>2, <1>3, FrameTypes DEF Sound, InRange, Settled, Stepwise, More
<1>5. dependents' \in [Targets -> Nat]
  <2>1. dependents \in [Targets -> Nat]
    BY <1>3 DEF TypeOK
  <2>2. CASE MatchApplied(u)
    <3>1. PICK t : t = Prerequisite(f) /\ t \in Targets
      BY <1>2, <2>2, Trying DEF MatchApplied
    <3>2. dependents' = [dependents EXCEPT ![t] = IF state[t] = "failed" THEN @ ELSE @ + 1]
      BY <1>2, <2>2, <3>1 DEF MatchApplied
    <3>3. dependents' \in {dependents, [dependents EXCEPT ![t] = dependents[t] + 1]}
      BY <2>1, <3>1, <3>2
    <3> QED
      BY <2>1, <3>1, <3>3
  <2>3. CASE dependents' = dependents
    BY <2>1, <2>3
  <2> QED
    BY <2>2, <2>3 DEF MatchCycle, MatchBusy, LockWaited, MatchAll
<1>6. CASE MatchApplied(u)
  <2>1. /\ f.next <= f.last /\ Prerequisite(f) = prerequisites[f.target][f.next] /\ Prerequisite(f) \in Targets
        /\ task_count[Prerequisite(f)] = count_applied /\ f.step = "finish"
    BY <1>2, <1>6, Trying DEF MatchApplied, Finishing, At
  <2> DEFINE failed == state[Prerequisite(f)] = "failed"
  <2>2. stack' = Moved(u, IF failed /\ f.target # Root THEN Failed(f) ELSE [Advance(f) EXCEPT !.bad = @ \/ failed])
    BY <1>2, <1>6 DEF MatchApplied
  <2>3. CASE failed /\ f.target # Root
    <3>1. stack' = Moved(u, Failed(f))
      BY <2>2, <2>3
    <3> QED
      BY <1>1, <1>2, <1>4, <1>5, <3>1, FailTop
  <2>4. CASE ~failed \/ f.target = Root
    <3>1. PICK h : h = Advance(f)
      OBVIOUS
    <3>2. /\ h \in Frames /\ h.target = f.target /\ h.parent = f.parent /\ h.step = "finish"
          /\ h.next = f.next + 1 /\ h.last = f.last /\ h.bad = f.bad
      BY <1>3, <2>1, <3>1, AdvanceParts
    <3>3. PICK g : g = [h EXCEPT !.bad = f.bad \/ failed]
      OBVIOUS
    <3>4. (f.bad \/ failed) \in BOOLEAN
      OBVIOUS
    <3>5. /\ g \in Frames /\ g.target = f.target /\ g.parent = f.parent /\ g.step = "finish"
          /\ g.next = f.next + 1 /\ g.last = f.last /\ g.bad = (f.bad \/ failed)
      BY <3>2, <3>3, <3>4, BadParts
    <3>6. stack' = Moved(u, g)
      <4>1. [Advance(f) EXCEPT !.bad = @ \/ failed] = g
        BY <3>1, <3>2, <3>3
      <4> QED
        BY <2>2, <2>4, <4>1
    <3>7. f.target # Root => ~g.bad /\ \A i \in 1 .. g.next - 1 : Matched(prerequisites[f.target][i])
      <4> SUFFICES ASSUME f.target # Root PROVE ~g.bad /\ \A i \in 1 .. g.next - 1 : Matched(prerequisites[f.target][i])
        OBVIOUS
      <4>1. ~g.bad /\ Matched(prerequisites[f.target][f.next])
        BY <1>4, <2>1, <2>4, <3>5 DEF Matched
      <4>2. \A i \in 1 .. f.next - 1 : Matched(prerequisites[f.target][i])
        BY <1>3, <1>4, <2>1 DEF Sound, Looked
      <4> QED
        BY <1>4, <3>5, <4>1, <4>2
    <3>8. Sound(g)
      BY <1>3, <1>4, <2>1, <3>5, <3>7 DEF Sound, InRange, Settled, Stepwise, Tried, Looked, More
    <3>9. ASSUME NEW D \in SUBSET Nodes, \A n \in D : Doomed(n, D), DoomedCall(f, D) PROVE DoomedCall(g, D)
      <4>1. CASE f.bad
        BY <3>5, <4>1 DEF DoomedCall
      <4>2. CASE ~f.bad
        <5>1. PICK i \in f.next .. f.last : prerequisites[f.target][i] \in D
          BY <2>1, <3>9, <4>2 DEF DoomedCall
        <5>2. CASE i = f.next
          <6>1. Doomed(Prerequisite(f), D) /\ Prerequisite(f) # Root
            BY <2>1, <3>9, <5>1, <5>2, MatchAssumption
          <6>2. \A e \in Calls : Frame(e).target = Prerequisite(f) => ~Holding(e)
            BY <1>3, <2>1, <6>1, HolderCount, Counts DEF IndInv
          <6>3. failed
            BY <6>1, <6>2 DEF Doomed
          <6> QED
            BY <3>5, <6>3 DEF DoomedCall
        <5>3. CASE i # f.next
          <6>1. i \in g.next .. g.last
            BY <1>4, <3>5, <5>1, <5>3
          <6> QED
            BY <3>5, <5>1, <6>1 DEF DoomedCall
        <5> QED
          BY <5>2, <5>3
      <4> QED
        BY <4>1, <4>2
    <3>10. StoppedCall(f) => StoppedCall(g)
      BY <2>1, <2>4, <3>5 DEF StoppedCall
    <3> QED
      BY <1>1, <1>2, <1>5, <3>5, <3>6, <3>8, <3>9, <3>10, MoveTop
  <2> QED
    BY <2>3, <2>4
<1>7. CASE MatchCycle(u)
  BY <1>1, <1>2, <1>4, <1>5, <1>7, FailTop DEF MatchCycle
<1>8. ASSUME NEW step \in {"lock", "finish", "end"}, stack' = Moved(u, GoTo(f, step)),
             Sound(GoTo(f, step)),
             \A D : fail /\ ~Unwinding(u) /\ DoomedCall(f, D) => DoomedCall(GoTo(f, step), D),
             fail /\ ~Unwinding(u) /\ StoppedCall(f) => StoppedCall(GoTo(f, step))
      PROVE  IndInv'
  <2>1. PICK g : g = GoTo(f, step)
    OBVIOUS
  <2>2. g \in Frames /\ g.target = f.target /\ g.parent = f.parent /\ g.step # "done"
    BY <1>3, <1>8, <2>1, GoToParts DEF Steps
  <2> QED
    BY <1>1, <1>2, <1>5, <1>8, <2>1, <2>2, MoveTop
<1>9. CASE MatchBusy(u)
  <2>1. f.step = "finish" /\ More(f) /\ stack' = Moved(u, GoTo(f, "lock"))
    BY <1>2, <1>9 DEF MatchBusy, Finishing, At, LockWait
  <2>2. PICK g : g = GoTo(f, "lock")
    OBVIOUS
  <2>3. /\ g.target = f.target /\ g.parent = f.parent /\ g.step = "lock" /\ g.next = f.next /\ g.last = f.last
        /\ g.bad = f.bad
    BY <1>3, <2>2, GoToParts DEF Steps
  <2>4. Sound(g)
    BY <1>3, <2>1, <2>3 DEF Sound, InRange, Settled, Stepwise, Tried, Looked, More
  <2>5. StoppedCall(g) /\ \A D : DoomedCall(g, D)
    BY <2>3 DEF StoppedCall, DoomedCall
  <2> QED
    BY <1>8, <2>1, <2>2, <2>4, <2>5
<1>10. CASE LockWaited(u)
  <2>1. f.step = "lock" /\ stack' = Moved(u, IF RelockFails(u) THEN Failed(f) ELSE GoTo(f, "finish"))
    BY <1>2, <1>10 DEF LockWaited, At
  <2>2. CASE RelockFails(u)
    <3>1. stack' = Moved(u, Failed(f))
      BY <2>1, <2>2
    <3> QED
      BY <1>1, <1>2, <1>4, <1>5, <3>1, FailTop
  <2>3. CASE ~RelockFails(u)
    <3>1. PICK g : g = GoTo(f, "finish")
      OBVIOUS
    <3>2. /\ g.target = f.target /\ g.parent = f.parent /\ g.step = "finish" /\ g.next = f.next /\ g.last = f.last
          /\ g.bad = f.bad
      BY <1>3, <3>1, GoToParts DEF Steps
    <3>3. Sound(g)
      BY <1>3, <1>4, <2>1, <3>2 DEF Sound, InRange, Settled, Stepwise, Tried, Looked, More
    <3> QED
      BY <1>8, <2>1, <2>3, <3>1, <3>3 DEF RelockFails
  <2> QED
    BY <2>2, <2>3
<1>11. CASE MatchAll(u)
  <2>1. f.step = "finish" /\ ~More(f) /\ stack' = Moved(u, GoTo(f, "end"))
    BY <1>2, <1>11 DEF MatchAll, At
  <2>2. PICK g : g = GoTo(f, "end")
    OBVIOUS
  <2>3. /\ g.target = f.target /\ g.parent = f.parent /\ g.step = "end" /\ g.next = f.next /\ g.last = f.last
        /\ g.bad = f.bad
    BY <1>3, <2>2, GoToParts DEF Steps
  <2>4. f.next = f.last + 1
    BY <1>4, <2>1 DEF More
  <2>5. f.target # Root /\ ~f.bad => \A p \in PrerequisitesOf(f.target) : Matched(p)
    <3> SUFFICES ASSUME f.target # Root, ~f.bad, NEW i \in DOMAIN prerequisites[f.target]
                 PROVE  Matched(prerequisites[f.target][i])
      BY DEF PrerequisitesOf
    <3>1. i \in 1 .. f.next - 1
      <4>1. i \in 1 .. Len(prerequisites[f.target])
        BY <1>3, FrameTypes
      <4> QED
        BY <1>4, <2>4, <4>1
    <3> QED
      BY <1>3, <2>1, <3>1 DEF Sound, Looked
  <2>6. Sound(g)
    BY <1>3, <1>4, <2>1, <2>3, <2>5 DEF Sound, InRange, Settled, Stepwise, Tried, Looked, More
  <2>7. \A D : DoomedCall(f, D) => DoomedCall(g, D)
    BY <1>4, <2>1, <2>3, <2>4 DEF DoomedCall
  <2>8. StoppedCall(f) => StoppedCall(g)
    BY <2>1, <2>3 DEF StoppedCall
  <2> QED
    BY <1>8, <2>1, <2>2, <2>6, <2>7, <2>8
<1> QED
  BY <1>6, <1>7, <1>9, <1>10, <1>11

LEMMA RuleFailsKeeps == ASSUME IndInv, NEW u \in Threads, RuleFails(u) PROVE IndInv'
<1>1. /\ Busy(u) /\ UNCHANGED <<build, current_on, task_count, state, queued, fail, result>>
      /\ dependents' = dependents
  BY DEF RuleFails
<1>2. PICK f : f = Top(u)
  OBVIOUS
<1>3. f.step = "end" \/ (f.step \in {"start", "finish"} /\ f.next = 1)
  BY <1>2 DEF RuleFails, FirstStep
<1>4. TypeOK /\ f \in Frames /\ Sound(f)
  BY <1>1, <1>2, TopFrame
<1>5. task_count[f.target] = StartCount(f.target)
  BY <1>3, <1>4 DEF Sound, Settled
<1>6. dependents' \in [Targets -> Nat]
  BY <1>1, <1>4 DEF TypeOK
<1>7. stack' = Moved(u, Failed(f))
  BY <1>2 DEF RuleFails
<1> QED
  BY <1>1, <1>2, <1>3, <1>5, <1>6, <1>7, FailTop

\* All calls and tasks are there for the operation.
LEMMA NothingWithoutRoot ==
    ASSUME TypeOK, FramesInv, PlacesInv, RootedInv, <<Main, 1>> \notin Calls
    PROVE  Calls = {} /\ queued = {}
<1> DEFINE S == {t \in Targets : Held(t)}
<1>1. stack \in [Threads -> Seq(Frames)] /\ queued \subseteq Tasks
  BY DEF TypeOK
<1>2. ASSUME NEW c \in Calls, Holding(c) PROVE Frame(c).target \in S
  <2>1. Frame(c).target \in Nodes /\ Placed(c)
    BY <1>1, InCalls DEF Frames, PlacesInv
  <2>2. Frame(c).target \in Targets
    BY <2>1 DEF Placed, Nodes
  <2> QED
    BY <1>2, <2>2 DEF Held
<1>3. ASSUME NEW p, Expects(p) PROVE p \in S
  BY <1>2, <1>3 DEF Expects, Holding
<1>4. ASSUME NEW t \in S PROVE \E p \in S : Up(t, p)
  <2>1. CASE \E task \in queued : task.target = t
    <3>1. PICK task \in queued : task.target = t
      BY <2>1
    <3>2. Expects(task.parent)
      BY DEF PlacesInv
    <3> QED
      BY <1>3, <3>1, <3>2 DEF Up
  <2>2. CASE \E c \in Calls : Holding(c) /\ Frame(c).target = t
    <3>1. PICK c \in Calls : Holding(c) /\ Frame(c).target = t
      BY <2>2
    <3>2. Placed(c) /\ t # Root
      BY MatchAssumption DEF PlacesInv
    <3>3. CASE Frame(c).parent = t
      <4>1. c[2] > 1 /\ Frame(Below(c)).step \in {"start", "finish"}
        BY <3>1, <3>2, <3>3 DEF Placed
      <4>2. Below(c) \in Calls /\ Holding(Below(c))
        BY <1>1, <4>1, BelowCall DEF Calls, Holding
      <4> QED
        BY <1>2, <3>1, <3>2, <3>3, <4>2 DEF Up
    <3>4. CASE Frame(c).parent # t
      <4>1. Expects(Frame(c).parent)
        BY <3>1, <3>2, <3>4 DEF Placed
      <4> QED
        BY <1>3, <3>1, <3>2, <3>4, <4>1 DEF Up
    <3> QED
      BY <3>3, <3>4
  <2> QED
    BY <2>1, <2>2 DEF Held
<1>5. S = {}
  BY <1>4 DEF RootedInv
<1>6. queued = {}
  <2> SUFFICES ASSUME NEW task \in queued PROVE FALSE
    OBVIOUS
  <2>1. task.target \in Targets
    BY <1>1 DEF Tasks
  <2> QED
    BY <1>5, <2>1 DEF Held
<1>7. ASSUME NEW c \in Calls PROVE FALSE
  <2>1. ~Holding(c)
    BY <1>2, <1>5, <1>7
  <2>2. Placed(c) /\ Sound(Frame(c))
    BY DEF PlacesInv, FramesInv
  <2>3. Frame(c).parent # Frame(c).target
    BY <2>1, <2>2 DEF Sound, Stepwise, Holding
  <2>4. Expects(Frame(c).parent)
    BY <2>2, <2>3 DEF Placed
  <2> QED
    BY <1>3, <1>5, <2>4
<1> QED
  BY <1>6, <1>7

LEMMA LoadKeeps == ASSUME IndInv, NEW u \in Threads, Load(u) PROVE IndInv'
<1>1. /\ Busy(u) /\ Top(u).step = "load" /\ UNCHANGED <<build, current_on, task_count, state, queued, result>>
      /\ dependents' = dependents /\ \A v \in Threads \ {u} : ~InMatch(v)
  BY DEF Load, At
<1>2. PICK f : f = Top(u)
  OBVIOUS
<1>3. TypeOK /\ f \in Frames /\ Sound(f)
  BY <1>1, <1>2, TopFrame
<1>4. task_count[f.target] = StartCount(f.target) /\ f.target # Root
  BY <1>1, <1>2, <1>3 DEF Sound, Settled, Stepwise
<1>5. dependents' \in [Targets -> Nat]
  BY <1>1, <1>3 DEF TypeOK
<1>6. ASSUME ~fail, stack' = Moved(u, GoTo(f, FirstStep(f.target)))
      PROVE  \E g \in Frames : /\ stack' = Moved(u, g) /\ g.target = f.target /\ g.parent = f.parent
                              /\ g.step # "done" /\ Sound(g)
  <2>1. PICK g : g = GoTo(f, FirstStep(f.target))
    OBVIOUS
  <2>2. /\ g \in Frames /\ g.target = f.target /\ g.parent = f.parent /\ g.step \in {"start", "finish"}
        /\ g.next = f.next /\ g.last = f.last /\ g.bad = f.bad
    BY <1>3, <2>1, GoToParts DEF Steps, FirstStep
  <2>3. f.next = 1 /\ f.last = Len(prerequisites[f.target]) /\ ~f.bad /\ f.last \in Nat
    BY <1>1, <1>2, <1>3, FrameTypes DEF Sound, InRange, Stepwise
  <2>4. Sound(g)
    BY <1>4, <2>2, <2>3 DEF Sound, InRange, Settled, Stepwise, Tried, Looked, More
  <2> QED
    BY <1>6, <2>1, <2>2, <2>4
<1>7. ASSUME stack' = Moved(u, Failed(f))
      PROVE  \E g \in Frames : /\ stack' = Moved(u, g) /\ g.target = f.target /\ g.parent = f.parent
                              /\ g.step = "end" /\ g.bad /\ Sound(g)
  <2>1. PICK g : g = Failed(f)
    OBVIOUS
  <2> QED
    BY <1>3, <1>4, <1>7, <2>1, FailedParts, FailedSound
\* The mutex is marked as failed.
<1>8. ASSUME NEW g \in Frames, stack' = Moved(u, g), g.target = f.target, g.parent = f.parent,
             g.step # "done", Sound(g), Unwinding(u) \/ (g.step = "end" /\ g.bad), fail' = TRUE
      PROVE  IndInv'
  <2>1. /\ TypeOK /\ FramesInv /\ PlacesInv /\ RootedInv /\ stack \in [Threads -> Seq(Frames)]
    BY DEF IndInv, TypeOK
  <2>2. PICK c \in Calls : Innermost(u, c) /\ Frame(c) = f
    BY <1>1, <1>2, TopCall
  <2>3. Excused(c) <=> Unwinding(u)
    BY <2>1, <2>2, InnermostCall
  <2>5. /\ Calls' = Calls /\ Frame(c)' = g /\ \A d \in Calls : d # c => Frame(d)' = Frame(d)
        /\ \A d \in Calls : Excused(d)' <=> Excused(d)
    BY <1>8, <2>1, <2>2, MovedStack
  <2>6. prerequisites' = prerequisites
    BY <1>1 DEF build
  \* All other calls wait, or are waited for.
  <2>7. ASSUME NEW d \in Calls, d # c, Above(d) \notin Calls PROVE Frame(d).step \in {"wait", "lock", "done"}
    <3>1. d = <<d[1], d[2]>> /\ d[1] \in Threads /\ d[2] \in 1 .. Len(stack[d[1]]) /\ d[2] \in Nat
      BY <2>1, InCalls
    <3>2. d[2] = Len(stack[d[1]])
      <4>1. Len(stack[d[1]]) \in Nat
        BY <2>1, <3>1
      <4>2. d[2] + 1 \notin 1 .. Len(stack[d[1]])
        BY <2>1, <2>7, <3>1, InCalls DEF Above
      <4> QED
        BY <3>1, <4>1, <4>2
    <3>3. d[1] # u
      BY <2>2, <2>7, <3>1, <3>2 DEF Innermost
    <3>4. Busy(d[1]) /\ Top(d[1]) = Frame(d)
      <4>1. stack[d[1]] # <<>>
        BY <3>1
      <4> QED
        BY <3>2, <4>1 DEF Busy, Top, Frame
    <3> QED
      BY <1>1, <3>1, <3>3, <3>4 DEF InMatch
  <2>8. ASSUME NEW d \in Calls, Above(d) \in Calls
        PROVE  /\ Frame(d).step \in {"start", "finish", "wait"}
               /\ Frame(d).step # "wait" =>
                     /\ More(Frame(d)) /\ Prerequisite(Frame(d)) = Frame(Above(d)).target
                     /\ Holding(Above(d))
    <3>1. d = <<d[1], d[2]>> /\ d[2] \in Nat /\ d[2] >= 1
      BY <2>1, InCalls
    <3>2. Below(Above(d)) = d /\ Above(d)[2] > 1
      BY <3>1 DEF Below, Above
    <3>3. Placed(Above(d)) /\ Sound(Frame(Above(d)))
      BY <2>1, <2>8 DEF PlacesInv, FramesInv
    <3>4. Frame(Above(d)).target # Root
      <4>1. Above(d) # <<Main, 1>>
        BY <3>1 DEF Above
      <4> QED
        BY <3>3, <4>1 DEF Placed
    <3> QED
      BY <3>2, <3>3, <3>4 DEF Placed, Sound, Stepwise, Holding
  <2>9. DoomInv'
    <3>1. PICK D : D = {n \in Nodes : \E d \in Calls : Frame(d).target = n /\ Holding(d) /\ ~Excused(d)}
      OBVIOUS
    <3>2. Root \in D
      <4>1. <<Main, 1>> \in Calls
        BY <2>1, <2>2, NothingWithoutRoot
      <4>2. Frame(<<Main, 1>>).target = Root /\ Frame(<<Main, 1>>).step # "done"
        BY <2>1, <4>1 DEF PlacesInv, FramesInv, Placed, Sound, Stepwise
      <4>3. ~Excused(<<Main, 1>>)
        <5>1. \A e \in Calls : e[2] \in Nat /\ e[2] >= 1
          BY <2>1, InCalls
        <5> QED
          BY <5>1 DEF Excused
      <4> QED
        BY <3>1, <4>1, <4>2, <4>3 DEF Nodes, Holding
    <3>3. ASSUME NEW d \in Calls, Holding(d), ~Excused(d)
          PROVE  DoomedCall(Frame(d), D)' /\ Holding(d)' /\ Frame(d)'.target = Frame(d).target
      <4>1. CASE d = c
        BY <1>8, <2>2, <2>3, <2>5, <3>3, <4>1 DEF DoomedCall, Holding
      <4>2. CASE d # c /\ Frame(d).step \in {"wait", "lock"}
        BY <2>5, <4>2 DEF DoomedCall, Holding
      <4>3. CASE d # c /\ Frame(d).step \notin {"wait", "lock"}
        <5>1. Above(d) \in Calls
          BY <2>7, <3>3, <4>3 DEF Holding
        <5>2. /\ Frame(d).step \in {"start", "finish"} /\ More(Frame(d))
              /\ Prerequisite(Frame(d)) = Frame(Above(d)).target /\ Holding(Above(d))
          BY <2>8, <4>3, <5>1
        <5>3. Frame(d) \in Frames /\ Sound(Frame(d)) /\ Frame(Above(d)) \in Frames
          BY <2>1, <5>1, InCalls DEF FramesInv
        <5>4. Prerequisite(Frame(d)) \in D
          <6>1. ~Excused(Above(d))
            BY <2>1, <3>3, <4>3, AboveExcused
          <6> QED
            BY <3>1, <5>1, <5>2, <5>3, <6>1 DEF Frames
        <5>5. PICK h : h = Frame(d)
          OBVIOUS
        <5>6. /\ h.next \in Nat /\ h.last \in Nat /\ h.next >= 1 /\ h.next <= h.last
              /\ prerequisites[h.target][h.next] \in D
          BY <2>1, <5>2, <5>3, <5>4, <5>5, FrameTypes DEF More, Prerequisite, Sound, InRange
        <5>7. DoomedCall(h, D)
          BY <5>2, <5>5, <5>6 DEF DoomedCall
        <5>8. Frame(d)' = h
          BY <2>5, <4>3, <5>5
        <5> QED
          BY <2>6, <3>3, <5>5, <5>7, <5>8 DEF DoomedCall, Holding
      <4> QED
        BY <4>1, <4>2, <4>3
    <3>4. \A n \in D : Doomed(n, D)'
      BY <2>5, <3>1, <3>3 DEF Doomed
    <3>5. D \in SUBSET Nodes
      BY <3>1
    <3> QED
      BY <3>2, <3>4, <3>5 DEF DoomInv
  <2>10. StopInv'
    <3> SUFFICES ASSUME NEW d \in Calls PROVE Stopped(d)'
      BY <2>5 DEF StopInv
    <3>1. CASE d = c
      BY <1>8, <2>3, <2>5, <3>1 DEF Stopped, StoppedCall
    <3>2. CASE d # c /\ Above(d) \in Calls
      BY <2>5, <3>2 DEF Stopped, Above
    <3>3. CASE d # c /\ Above(d) \notin Calls
      BY <2>5, <2>7, <3>3 DEF Stopped, StoppedCall
    <3> QED
      BY <3>1, <3>2, <3>3
  <2>11. Frame(c).step # "done" /\ fail' \in BOOLEAN
    BY <1>1, <1>2, <1>8, <2>2
  <2> QED
    BY <1>1, <1>5, <1>8, <2>2, <2>9, <2>10, <2>11, MoveKeeps
\* It is not, or was already.
<1>9. ASSUME NEW g \in Frames, stack' = Moved(u, g), g.target = f.target, g.parent = f.parent,
             g.step # "done", Sound(g), fail' = fail, ~fail
      PROVE  IndInv'
  <2>1. UNCHANGED <<build, current_on, task_count, state, queued, fail, result>>
    BY <1>1, <1>9
  <2> QED
    BY <1>1, <1>2, <1>5, <1>9, <2>1, MoveTop
<1>10. CASE ~fail /\ fail' = Unwinding(u) /\ stack' = Moved(u, GoTo(f, FirstStep(f.target)))
  <2>1. fail' = TRUE \/ fail' = fail
    BY <1>3, <1>10 DEF TypeOK, Unwinding
  <2> QED
    BY <1>6, <1>8, <1>9, <1>10, <2>1
<1>11. CASE fail' = TRUE /\ stack' = Moved(u, Failed(f))
  BY <1>7, <1>8, <1>11
<1> QED
  BY <1>2, <1>10, <1>11 DEF Load


-----------------------------------------------------------------------------
(***************************************************************************)
(* What the steps with more than one party leave as it is.                 *)
(***************************************************************************)

\* Nothing is matched for a target that nobody holds.
LEMMA NothingFor ==
    ASSUME IndInv, NEW t \in Targets, task_count[t] < count_busy
    PROVE  TasksOf(t) = {} /\ CallsOf(t) = {} /\ (\A q : ~Up(q, t)) /\ ~Held(t) /\ ~Expects(t)
<1>1. TypeOK /\ FramesInv /\ PlacesInv /\ LocksInv /\ stack \in [Threads -> Seq(Frames)]
  BY DEF IndInv, TypeOK
<1>2. task_count[t] \in Nat /\ count_busy \in Nat /\ t # Root
  BY <1>1, Counts, MatchAssumption DEF TypeOK, Nodes
<1>3. ~Held(t)
  BY <1>1, <1>2 DEF LocksInv
<1>4. ~Expects(t)
  BY <1>1, <1>2, ExpectedCount
<1>5. TasksOf(t) = {}
  BY <1>1, <1>4 DEF PlacesInv, TasksOf
<1>6. CallsOf(t) = {}
  BY <1>1, <1>4 DEF PlacesInv, Placed, CallsOf
<1>7. ASSUME NEW q, Up(q, t) PROVE FALSE
  <2>1. CASE \E task \in queued : task.target = q /\ task.parent = t
    BY <1>5, <2>1 DEF TasksOf
  <2>2. ASSUME NEW c \in Calls, Holding(c), Frame(c).target = q, q # Root,
               t = IF Frame(c).parent = q THEN Frame(Below(c)).target ELSE Frame(c).parent
        PROVE  FALSE
    <3>1. CASE Frame(c).parent = q
      <4>1. c[2] > 1 /\ Frame(Below(c)).step \in {"start", "finish"} /\ t = Frame(Below(c)).target
        BY <1>1, <2>2, <3>1 DEF PlacesInv, Placed
      <4>2. Below(c) \in Calls /\ Holding(Below(c))
        BY <1>1, <4>1, BelowCall DEF Calls, Holding
      <4> QED
        BY <1>3, <4>1, <4>2 DEF Held
    <3>2. CASE Frame(c).parent # q
      BY <1>6, <2>2, <3>2 DEF CallsOf
    <3> QED
      BY <3>1, <3>2
  <2> QED
    BY <1>7, <2>1, <2>2 DEF Up
<1> QED
  BY <1>3, <1>4, <1>5, <1>6, <1>7

\* A target comes to be matched for a call.
LEMMA RootedAdds ==
    ASSUME RootedInv, NEW a \in Targets,
           \A t, p \in Targets : Up(t, p)' => Up(t, p) \/ t = a,
           \A t \in Targets : ~Up(t, a)'
    PROVE  RootedInv'
<1> SUFFICES ASSUME NEW S \in SUBSET Targets, S # {} PROVE \E t \in S : \A p \in S : ~Up(t, p)'
  BY DEF RootedInv
<1>1. CASE S \ {a} = {}
  BY <1>1
<1>2. CASE S \ {a} # {}
  <2>1. S \ {a} \in SUBSET Targets
    OBVIOUS
  <2>2. PICK t \in S \ {a} : \A p \in S \ {a} : ~Up(t, p)
    BY <1>2, <2>1 DEF RootedInv
  <2> QED
    BY <2>2
<1> QED
  BY <1>1, <1>2

LEMMA PrerequisitesStay ==
    ASSUME TypeOK, Final, PrerequisitesFirst,
           \A t \in Targets : Matched(t)' => Matched(t) \/ \A p \in PrerequisitesOf(t) : Matched(p)
    PROVE  PrerequisitesFirst'
<1>1. \A t \in Targets : PrerequisitesOf(t) \subseteq Targets
  <2>1. prerequisites \in [Nodes -> Seq(Targets)]
    BY MatchAssumption DEF TypeOK
  <2> QED
    BY <2>1 DEF PrerequisitesOf, Nodes
<1> QED
  BY <1>1, FinalCounts DEF PrerequisitesFirst

\* A call is made, or changed, or returns: the others stay where they are.
LEMMA OthersPlaced ==
    ASSUME TypeOK, PlacesInv, prerequisites' = prerequisites, NEW c,
           \A d \in Calls : Below(d) # c /\ (d # c => d \in Calls' /\ Frame(d)' = Frame(d)),
           c \in Calls /\ Frame(c).step \in {"start", "wait"} =>
              c \in Calls' /\ Frame(c)'.step \in {"start", "wait"} /\ Frame(c)'.target = Frame(c).target
    PROVE  /\ \A p : Expects(p) => Expects(p)'
           /\ \A d \in Calls : d # c => Placed(d)'
           /\ \A d \in Calls : d[2] > 1 => Below(d) \in Calls /\ Below(d) \in Calls' /\ Frame(Below(d))' = Frame(Below(d))
           /\ \A task \in queued : Expects(task.parent)'
<1>1. ASSUME NEW p, Expects(p) PROVE Expects(p)'
  <2>1. PICK d \in Calls : Frame(d).target = p /\ Frame(d).step \in {"start", "wait"}
    BY <1>1 DEF Expects
  <2>2. d \in Calls' /\ Frame(d)'.target = p /\ Frame(d)'.step \in {"start", "wait"}
    BY <2>1
  <2> QED
    BY <2>2 DEF Expects
<1>2. ASSUME NEW d \in Calls, d[2] > 1 PROVE Below(d) \in Calls /\ Below(d) \in Calls' /\ Frame(Below(d))' = Frame(Below(d))
  BY <1>2, BelowCall DEF Calls, TypeOK
<1>3. ASSUME NEW d \in Calls, d # c PROVE Placed(d)'
  <2>1. Placed(d) /\ Frame(d)' = Frame(d)
    BY <1>3 DEF PlacesInv
  <2>2. ASSUME NEW p, p = Frame(d).parent, p # Frame(d).target PROVE Expects(p)'
    BY <1>1, <2>1, <2>2 DEF Placed
  <2> QED
    BY <1>2, <2>1, <2>2, PlacedStays
<1>4. ASSUME NEW task \in queued PROVE Expects(task.parent)'
  <2>1. Expects(task.parent)
    BY DEF PlacesInv
  <2>2. PICK p : p = task.parent
    OBVIOUS
  <2>3. Expects(p)'
    BY <1>1, <2>1, <2>2
  <2> QED
    BY <2>2, <2>3
<1> QED
  BY <1>1, <1>2, <1>3, <1>4

LEMMA DoomStays ==
    ASSUME TypeOK, DoomInv, Final, fail' = fail, result = "failed" => result' = "failed",
           \A d \in Calls : Excused(d)' <=> Excused(d),
           \A D \in SUBSET Nodes, n \in Nodes, d \in Calls :
              fail /\ Frame(d).target = n /\ Holding(d) /\ ~Excused(d) /\ DoomedCall(Frame(d), D) =>
                 \/ d \in Calls' /\ Frame(d)' = Frame(d)
                 \/ Doomed(n, D)'
    PROVE  DoomInv'
<1> SUFFICES ASSUME fail PROVE \E D \in SUBSET Nodes : Root \in D /\ \A n \in D : Doomed(n, D)'
  BY DEF DoomInv
<1>1. PICK D \in SUBSET Nodes : Root \in D /\ \A n \in D : Doomed(n, D)
  BY DEF DoomInv
<1>2. ASSUME NEW n \in D PROVE Doomed(n, D)'
  <2>1. CASE n = Root /\ result = "failed"
    BY <2>1 DEF Doomed
  <2>2. CASE n # Root /\ task_count[n] = count_applied /\ state[n] = "failed"
    <3>1. n \in Targets
      BY <2>2 DEF Nodes
    <3>2. task_count'[n] = count_applied' /\ state'[n] = "failed"
      BY <2>2, <3>1, FinalCounts DEF Final
    <3> QED
      BY <2>2, <3>2 DEF Doomed
  <2>3. ASSUME NEW d \in Calls, Frame(d).target = n, Holding(d), ~Excused(d), DoomedCall(Frame(d), D)
        PROVE  Doomed(n, D)'
    <3>1. CASE d \in Calls' /\ Frame(d)' = Frame(d)
      <4>1. DoomedCall(Frame(d), D)' /\ Holding(d)' /\ Frame(d)'.target = n
        BY <2>3, <3>1 DEF DoomedCall, Holding, Final
      <4> QED
        BY <2>3, <3>1, <4>1 DEF Doomed
    <3> QED
      BY <2>3, <3>1
  <2> QED
    BY <1>1, <2>1, <2>2, <2>3 DEF Doomed
<1> QED
  BY <1>1, <1>2

LEMMA StopStays ==
    ASSUME TypeOK, FramesInv, StopInv, Final, fail' = fail,
           \A d \in Calls : Excused(d)' <=> Excused(d),
           fail /\ ~keep_going => \A d \in Calls' :
              \/ Stopped(d)'
              \/ d \in Calls /\ Frame(d)' = Frame(d) /\ (Above(d) \in Calls => Above(d) \in Calls')
    PROVE  StopInv'
<1> SUFFICES ASSUME fail, ~keep_going, NEW d \in Calls', d \in Calls, Frame(d)' = Frame(d),
                    Above(d) \in Calls => Above(d) \in Calls'
             PROVE  Stopped(d)'
  BY DEF StopInv, Final
<1>1. Stopped(d)
  BY DEF StopInv
<1>2. CASE Above(d) \in Calls \/ Excused(d)
  BY <1>2 DEF Stopped, Above
<1>3. CASE StoppedCall(Frame(d))
  <2>1. PICK f : f = Frame(d)
    OBVIOUS
  <2>2. f \in Frames /\ Sound(f)
    BY <2>1, InCalls DEF FramesInv, TypeOK
  <2>3. More(f) => Prerequisite(f) \in Targets
    BY <2>2, FrameMore DEF Sound
  <2>4. StoppedCall(Frame(d))'
    BY <1>3, <2>1, <2>3, FinalCounts DEF StoppedCall, Final
  <2> QED
    BY <2>4 DEF Stopped
<1> QED
  BY <1>1, <1>2, <1>3 DEF Stopped

-----------------------------------------------------------------------------
(***************************************************************************)
(* A target is locked.                                                     *)
(***************************************************************************)

\* What the lock changes by itself.
LEMMA Locking ==
    ASSUME IndInv, NEW u \in Threads, Starting(u, "locked") \/ Finishing(u, "locked")
    PROVE  \E c \in Calls, t \in Targets :
              /\ Innermost(u, c) /\ Frame(c) = Top(u) /\ Frame(c) \in Frames /\ Sound(Frame(c)) /\ Above(c) \notin Calls
              /\ Holding(c) /\ Frame(c).target \in Nodes
              /\ Frame(c).target = Root \/ (Frame(c).target \in Targets /\ task_count[Frame(c).target] >= count_busy)
              /\ t = Prerequisite(Frame(c)) /\ t = prerequisites[Frame(c).target][Frame(c).next]
              /\ t # Frame(c).target /\ t # Root /\ t \in Nodes
              /\ task_count[t] \in Nat /\ task_count[t] < count_applied /\ Reset(t) \in [Targets -> Nat]
              /\ Frame(c).step \in {"start", "finish"} /\ More(Frame(c))
              /\ Frame(c).next \in 1 .. Len(prerequisites[Frame(c).target]) /\ Frame(c).next <= Frame(c).last
              /\ fail /\ ~keep_going => Excused(c)
<1>1. /\ Busy(u) /\ Top(u).step \in {"start", "finish"} /\ Prerequisite(Top(u)) \in Targets
      /\ Top(u).next \in 1 .. Len(prerequisites[Top(u).target]) /\ Top(u).next <= Top(u).last
      /\ Prerequisite(Top(u)) = prerequisites[Top(u).target][Top(u).next]
      /\ task_count[Prerequisite(Top(u))] < count_applied
  BY Trying
<1>2. PICK c \in Calls :
              /\ Innermost(u, c) /\ Frame(c) = Top(u) /\ Frame(c) \in Frames
              /\ Sound(Frame(c)) /\ Placed(c) /\ Above(c) \notin Calls
              /\ Frame(c).step # "done" =>
                    /\ Holding(c)
                    /\ Frame(c).target = Root \/ (Frame(c).target \in Targets /\ task_count[Frame(c).target] >= count_busy)
  BY <1>1, TopCall
<1>3. PICK t \in Targets : t = Prerequisite(Top(u))
  BY <1>1
<1>4. TypeOK /\ StopInv
  BY DEF IndInv
<1>5. PICK f : f = Frame(c)
  OBVIOUS
<1>6. t \in Nodes /\ t # Root /\ task_count[t] \in Nat /\ f.target \in Nodes
  BY <1>2, <1>4, <1>5, MatchAssumption, FrameTypes DEF TypeOK, Nodes
<1>7. t # f.target
  BY <1>1, <1>2, <1>3, <1>4, <1>5, <1>6, Counts
<1>8. Reset(t) \in [Targets -> Nat]
  BY <1>4 DEF Reset, TypeOK
<1>9. ASSUME fail, ~keep_going, ~Excused(c) PROVE FALSE
  <2>1. StoppedCall(f)
    BY <1>2, <1>4, <1>5, <1>9 DEF StopInv, Stopped
  <2>2. f.target = Root /\ f.step = "finish"
    BY <1>1, <1>2, <1>3, <1>4, <1>5, <1>6, <2>1, Counts DEF StoppedCall
  <2>3. \A i \in 1 .. f.last : task_count[prerequisites[f.target][i]] >= count_applied
    BY <1>2, <1>5, <2>2 DEF Sound, Tried
  <2>4. f.next \in 1 .. f.last /\ t = prerequisites[f.target][f.next] /\ task_count[t] < count_applied
    BY <1>1, <1>2, <1>3, <1>4, <1>5, FrameTypes
  <2>5. task_count[t] >= count_applied /\ count_applied \in Nat
    BY <1>4, <2>3, <2>4, Counts
  <2> QED
    BY <1>6, <2>4, <2>5
<1>10. More(f)
  BY <1>1, <1>2, <1>5 DEF More
<1> QED
  BY <1>1, <1>2, <1>3, <1>5, <1>6, <1>7, <1>8, <1>9, <1>10

LEMMA AsyncQueuedKeeps == ASSUME IndInv, NEW u \in Threads, AsyncQueued(u) PROVE IndInv'
<1>1. /\ TypeOK /\ FramesInv /\ PlacesInv /\ LocksInv /\ CountsInv /\ PrerequisitesFirst /\ RootedInv
      /\ DoomInv /\ StopInv /\ stack \in [Threads -> Seq(Frames)]
  BY DEF IndInv, TypeOK
<1>2. PICK c \in Calls, t \in Targets :
              /\ Innermost(u, c) /\ Frame(c) = Top(u) /\ Frame(c) \in Frames /\ Sound(Frame(c)) /\ Above(c) \notin Calls
              /\ Holding(c) /\ Frame(c).target \in Nodes
              /\ Frame(c).target = Root \/ (Frame(c).target \in Targets /\ task_count[Frame(c).target] >= count_busy)
              /\ t = Prerequisite(Frame(c)) /\ t = prerequisites[Frame(c).target][Frame(c).next]
              /\ t # Frame(c).target /\ t # Root /\ t \in Nodes
              /\ task_count[t] \in Nat /\ task_count[t] < count_applied /\ Reset(t) \in [Targets -> Nat]
              /\ Frame(c).step \in {"start", "finish"} /\ More(Frame(c))
              /\ Frame(c).next \in 1 .. Len(prerequisites[Frame(c).target]) /\ Frame(c).next <= Frame(c).last
              /\ fail /\ ~keep_going => Excused(c)
  BY Locking DEF AsyncQueued
<1>3. PICK f : f = Frame(c)
  OBVIOUS
<1>4. PICK n : n = f.target
  OBVIOUS
<1>5. PICK task : task = [target |-> t, parent |-> n, chain |-> f.chain, owner |-> u]
  OBVIOUS
<1>6. PICK g : g = Advance(f)
  OBVIOUS
<1>7. f.step = "start" /\ Starting(u, "locked")
  BY <1>2, <1>3 DEF AsyncQueued, Starting, At
<1>8. /\ dependents' = Reset(t) /\ task_count' = TaskAdded(t, n) /\ queued' = queued \cup {task} /\ stack' = Moved(u, g)
      /\ prerequisites' = prerequisites /\ keep_going' = keep_going /\ current_on' = current_on /\ state' = state
      /\ fail' = fail /\ result' = result
  BY <1>2, <1>3, <1>4, <1>5, <1>6 DEF AsyncQueued, build
<1>9. task \in Tasks /\ task.target = t /\ task.parent = n /\ n \in Nodes
  BY <1>1, <1>2, <1>3, <1>4, <1>5, FrameTypes DEF Tasks
<1>10. /\ g \in Frames /\ g.target = n /\ g.parent = f.parent /\ g.step = "start" /\ g.next = f.next + 1
       /\ g.last = f.last /\ g.bad = f.bad
  BY <1>2, <1>3, <1>4, <1>6, <1>7, AdvanceParts
<1>11. /\ stack' \in [Threads -> Seq(Frames)] /\ Calls' = Calls
       /\ Frame(c)' = g /\ (\A d \in Calls : d # c => Frame(d)' = Frame(d))
       /\ \A d \in Calls : Excused(d)' <=> Excused(d)
  BY <1>1, <1>2, <1>8, <1>10, MovedStack
<1>12. /\ task_count' \in [Nodes -> Nat] /\ task_count'[t] = count_busy /\ task_count'[n] = task_count[n] + 1
       /\ \A m \in Nodes : m # t /\ m # n => task_count'[m] = task_count[m]
  <2>1. task_count \in [Nodes -> Nat] /\ count_busy \in Nat
    BY <1>1, Counts DEF TypeOK
  <2>2. t # n /\ t \in Nodes /\ n \in Nodes
    BY <1>2, <1>3, <1>4, <1>9
  <2>3. task_count' = [task_count EXCEPT ![t] = count_busy, ![n] = @ + 1]
    BY <1>8 DEF TaskAdded
  <2> QED
    BY ONLY <2>1, <2>2, <2>3
<1>13. /\ count_applied \in Nat /\ count_busy = count_applied + 2 /\ Targets \subseteq Nodes
       /\ \A m \in Nodes : task_count[m] \in Nat
  BY <1>1, Counts DEF TypeOK, Nodes
<1>14. n \in Targets => task_count[n] >= count_busy
  BY <1>2, <1>3, <1>4, MatchAssumption
<1>15. Final
  <2>1. ASSUME NEW m \in Targets
        PROVE  /\ task_count[m] >= count_applied => task_count'[m] >= count_applied
               /\ task_count[m] = count_applied => task_count'[m] = task_count[m] /\ state'[m] = state[m]
    <3>1. task_count[m] \in Nat /\ task_count'[m] \in Nat /\ state' = state /\ task_count[t] < count_applied
      BY <1>2, <1>8, <1>12, <1>13
    <3>2. CASE m = t
      BY <1>12, <1>13, <3>1, <3>2
    <3>3. CASE m = n
      BY <1>12, <1>13, <1>14, <3>1, <3>3
    <3>4. CASE m # t /\ m # n
      BY <1>12, <1>13, <3>1, <3>4
    <3> QED
      BY <3>2, <3>3, <3>4
  <2> QED
    BY <1>8, <2>1 DEF Final
<1>16. /\ count_busy' = count_busy /\ count_applied' = count_applied /\ \A m : StartCount(m)' = StartCount(m)
  BY <1>15, FinalCounts
<1>17. TasksOf(t) = {} /\ CallsOf(t) = {} /\ (\A q : ~Up(q, t)) /\ ~Held(t) /\ ~Expects(t)
  BY <1>2, <1>13, NothingFor
<1>18. TypeOK'
  BY <1>1, <1>2, <1>8, <1>9, <1>11, <1>12 DEF TypeOK
<1>19. FramesInv'
  <2>1. ~f.bad /\ f.next \in Nat /\ f.next >= 1 /\ f.last \in Nat /\ f.last = Len(prerequisites[n])
        /\ (f.target = Root => f.parent = Root)
        /\ \A i \in 1 .. f.next - 1 : task_count[prerequisites[n][i]] >= count_applied
    BY <1>1, <1>2, <1>3, <1>4, <1>7, StartFacts
  <2>2. InRange(g)' /\ Stepwise(g)' /\ Settled(g)' /\ Looked(g)'
    BY <1>2, <1>3, <1>4, <1>8, <1>10, <2>1 DEF InRange, Stepwise, Settled, Looked, More
  <2>3. Tried(g)'
    <3>1. ASSUME NEW i \in 1 .. g.next - 1 PROVE task_count'[prerequisites[n][i]] >= count_applied
      <4>1. CASE i = f.next
        BY <1>2, <1>3, <1>4, <1>12, <1>13, <4>1
      <4>2. CASE i # f.next
        <5>1. i \in 1 .. f.next - 1 /\ i \in 1 .. Len(prerequisites[n])
          BY <1>2, <1>3, <1>4, <1>10, <2>1, <4>2
        <5>2. prerequisites[n][i] \in Targets
          BY <1>1, <1>2, <1>3, <1>4, <5>1, FrameTypes
        <5> QED
          BY <1>15, <2>1, <5>1, <5>2 DEF Final
      <4> QED
        BY <4>1, <4>2
    <3> QED
      BY <1>8, <1>10, <1>16, <3>1 DEF Tried
  <2>4. Sound(Frame(c))'
    BY <1>11, <2>2, <2>3 DEF Sound, InRange, Stepwise, Settled, Looked, Tried
  <2>5. ASSUME NEW d \in Calls, d # c PROVE Sound(Frame(d))'
    <3>1. PICK h : h = Frame(d)
      OBVIOUS
    <3>2. h \in Frames /\ Sound(h) /\ Frame(d)' = h
      BY <1>1, <1>11, <2>5, <3>1, InCalls DEF FramesInv
    <3>3. h.step = "done" \/ (h.target # n /\ h.target # t)
      BY <1>1, <1>2, <1>3, <1>4, <1>17, <2>5, <3>1 DEF LocksInv, Held, Holding
    <3>4. h.target \in Nodes
      BY <3>2 DEF Frames
    <3>5. h.step = "done" \/ task_count'[h.target] = task_count[h.target]
      BY <1>12, <3>3, <3>4
    <3> QED
      BY <1>1, <1>15, <3>2, <3>5, SoundStays
  <2> QED
    BY <1>11, <2>4, <2>5 DEF FramesInv
<1>20. PlacesInv'
  <2>1. \A d \in Calls : Below(d) # c /\ (d # c => d \in Calls' /\ Frame(d)' = Frame(d))
    BY <1>1, <1>2, <1>11, InnermostCall
  <2>2. c \in Calls' /\ Frame(c)'.step \in {"start", "wait"} /\ Frame(c)'.target = Frame(c).target
    BY <1>3, <1>4, <1>10, <1>11
  <2>3. /\ \A p : Expects(p) => Expects(p)'
        /\ \A d \in Calls : d # c => Placed(d)'
        /\ \A d \in Calls : d[2] > 1 => Below(d) \in Calls /\ Below(d) \in Calls' /\ Frame(Below(d))' = Frame(Below(d))
        /\ \A k \in queued : Expects(k.parent)'
    BY <1>1, <1>8, <2>1, <2>2, OthersPlaced
  <2>4. Placed(c)'
    <3>1. Placed(c) /\ Frame(c)'.target = Frame(c).target /\ Frame(c)'.parent = Frame(c).parent
      BY <1>1, <1>3, <1>4, <1>10, <1>11 DEF PlacesInv
    <3>2. ASSUME NEW p, p = Frame(c).parent, p # Frame(c).target PROVE Expects(p)'
      BY <2>3, <3>1, <3>2 DEF Placed
    <3> QED
      BY <1>8, <2>3, <3>1, <3>2, PlacedStays
  <2>5. Expects(n)'
    BY <1>10, <1>11, <2>2 DEF Expects
  <2>6. \A k \in queued' : Expects(k.parent)'
    BY <1>8, <1>9, <2>3, <2>5
  <2> QED
    BY <1>1, <1>8, <1>11, <2>3, <2>4, <2>6 DEF PlacesInv
<1>21. \A d \in Calls : /\ Frame(d)'.target = Frame(d).target /\ Frame(d)'.parent = Frame(d).parent
                        /\ Holding(d)' <=> Holding(d)
  BY <1>2, <1>3, <1>4, <1>10, <1>11 DEF Holding
<1>22. LocksInv'
  <2>1. \A q : Held(q)' <=> Held(q) \/ q = t
    BY <1>8, <1>9, <1>11, <1>21 DEF Held
  <2>2. \A k \in queued : k.target # t
    BY <1>17 DEF Held
  <2>3. \A d \in Calls : Holding(d) => Frame(d).target # t
    BY <1>17 DEF Held
  <2>4. \A x, y \in Calls : Holding(x)' /\ Holding(y)' /\ Frame(x)'.target = Frame(y)'.target => x = y
    BY <1>1, <1>21 DEF LocksInv
  <2>5. \A k, l \in queued' : k.target = l.target => k = l
    BY <1>1, <1>8, <1>9, <2>2 DEF LocksInv
  <2>6. \A x \in Calls, k \in queued' : Holding(x)' => Frame(x)'.target # k.target
    BY <1>1, <1>8, <1>9, <1>21, <2>3 DEF LocksInv
  <2>7. ASSUME NEW q \in Targets
        PROVE  /\ Held(q)' => task_count'[q] >= count_busy
               /\ ~fail /\ task_count'[q] >= count_busy => Held(q)'
               /\ task_count'[q] < count_busy => task_count'[q] <= count_applied
    <3>1. CASE q = t
      BY <1>12, <1>13, <2>1, <3>1
    <3>2. CASE q = n
      <4>1. Held(n) /\ task_count[n] \in Nat /\ task_count[n] >= count_busy /\ task_count'[n] = task_count[n] + 1
        BY <1>2, <1>3, <1>4, <1>9, <1>12, <1>13, <1>14, <3>2 DEF Held
      <4> QED
        BY <1>13, <2>1, <3>2, <4>1
    <3>3. CASE q # t /\ q # n
      <4>1. task_count'[q] = task_count[q] /\ (Held(q)' <=> Held(q))
        BY <1>12, <1>13, <2>1, <3>3
      <4> QED
        BY <1>1, <2>1, <3>3, <4>1 DEF LocksInv
    <3> QED
      BY <3>1, <3>2, <3>3
  <2> QED
    BY <1>8, <1>11, <1>16, <2>4, <2>5, <2>6, <2>7 DEF LocksInv
<1>23. CountsInv'
  <2>1. \A m : CallsOf(m)' = CallsOf(m)
    BY <1>11, <1>21 DEF CallsOf
  <2>2. \A m : m # n => TasksOf(m)' = TasksOf(m)
    BY <1>8, <1>9 DEF TasksOf
  <2>3. TasksOf(n)' = TasksOf(n) \cup {task}
    BY <1>8, <1>9 DEF TasksOf
  <2>4. task \notin TasksOf(n)
    BY <1>9, <1>17 DEF TasksOf, Held
  <2>5. /\ IsFiniteSet(TasksOf(n)) /\ IsFiniteSet(CallsOf(n))
        /\ task_count[n] = StartCount(n) + Cardinality(TasksOf(n)) + Cardinality(CallsOf(n))
    BY <1>1, <1>2, <1>3, <1>4, <1>9 DEF CountsInv
  <2>6. IsFiniteSet(TasksOf(n) \cup {task}) /\ Cardinality(TasksOf(n) \cup {task}) = Cardinality(TasksOf(n)) + 1
    BY <2>4, <2>5, FS_AddElement
  <2>7. Cardinality(TasksOf(n)) \in Nat /\ Cardinality(CallsOf(n)) \in Nat /\ StartCount(n) \in Nat
    BY <1>1, <1>9, <2>5, FS_CardinalityType, Counts
  <2> SUFFICES ASSUME NEW m \in Nodes
               PROVE  /\ IsFiniteSet(TasksOf(m)') /\ IsFiniteSet(CallsOf(m)')
                      /\ m = Root \/ task_count'[m] >= count_busy =>
                            task_count'[m] = StartCount(m) + Cardinality(TasksOf(m)') + Cardinality(CallsOf(m)')
    BY <1>16 DEF CountsInv
  <2>8. CASE m = n
    <3>1. /\ TasksOf(m)' = TasksOf(n) \cup {task} /\ CallsOf(m)' = CallsOf(n)
          /\ task_count'[m] = task_count[n] + 1 /\ StartCount(m) = StartCount(n)
      BY <1>12, <2>1, <2>3, <2>8
    <3> QED
      BY <2>5, <2>6, <2>7, <3>1
  <2>9. CASE m = t
    <3>1. m # n /\ TasksOf(m)' = {} /\ CallsOf(m)' = {} /\ StartCount(m) = count_busy
      BY <1>1, <1>2, <1>3, <1>4, <1>17, <2>1, <2>2, <2>9, Counts
    <3>2. IsFiniteSet({}) /\ Cardinality({}) = 0
      BY FS_EmptySet
    <3> QED
      BY <1>12, <1>13, <2>9, <3>1, <3>2
  <2>10. CASE m # n /\ m # t
    BY <1>1, <1>12, <2>1, <2>2, <2>10 DEF CountsInv
  <2> QED
    BY <2>8, <2>9, <2>10
<1>24. PrerequisitesFirst'
  <2>1. ASSUME NEW m \in Targets, Matched(m)' PROVE Matched(m)
    <3>1. task_count'[m] = count_applied /\ state[m] # "failed" /\ task_count[n] \in Nat
      BY <1>8, <1>9, <1>13, <1>16, <2>1 DEF Matched
    <3>2. m # t /\ m # n
      BY <1>12, <1>13, <1>14, <3>1
    <3> QED
      BY <1>12, <1>13, <3>1, <3>2 DEF Matched
  <2> QED
    BY <1>1, <1>15, <2>1, PrerequisitesStay
<1>25. RootedInv'
  <2>1. \A d \in Calls : d[2] > 1 => Frame(Below(d))'.target = Frame(Below(d)).target
    BY <1>1, <1>21, BelowCall DEF Calls
  <2>2. ASSUME NEW q \in Targets, NEW p \in Targets, Up(q, p)' PROVE (Up(q, p) \/ q = t) /\ p # t
    <3>1. CASE \E k \in queued' : k.target = q /\ k.parent = p
      <4>1. PICK k \in queued' : k.target = q /\ k.parent = p
        BY <3>1
      <4>2. CASE k = task
        BY <1>2, <1>3, <1>4, <1>9, <4>1, <4>2
      <4>3. CASE k \in queued
        BY <1>17, <4>1, <4>3 DEF Up
      <4> QED
        BY <1>8, <4>2, <4>3
    <3>2. ASSUME NEW d \in Calls', Holding(d)', Frame(d)'.target = q, q # Root,
                 p = IF Frame(d)'.parent = q THEN Frame(Below(d))'.target ELSE Frame(d)'.parent
          PROVE  Up(q, p)
      <4>1. d \in Calls /\ Holding(d) /\ Frame(d).target = q /\ Frame(d)'.parent = Frame(d).parent
        BY <1>11, <1>21, <3>2
      <4>2. Frame(d).parent = q => Frame(Below(d))'.target = Frame(Below(d)).target
        BY <1>1, <2>1, <3>2, <4>1 DEF PlacesInv, Placed
      <4> QED
        BY <3>2, <4>1, <4>2 DEF Up
    <3> QED
      BY <1>17, <2>2, <3>1, <3>2 DEF Up
  <2> QED
    BY <1>1, <2>2, RootedAdds
<1>26. DoomInv'
  <2>1. ASSUME NEW D, DoomedCall(f, D) PROVE DoomedCall(g, D)
    BY <1>1, <1>2, <1>3, <1>4, <1>7, <1>10, <2>1, FrameTypes DEF DoomedCall
  <2>2. ASSUME NEW D \in SUBSET Nodes, NEW m \in Nodes, NEW d \in Calls,
               Frame(d).target = m, Holding(d), ~Excused(d), DoomedCall(Frame(d), D)
        PROVE  (d \in Calls' /\ Frame(d)' = Frame(d)) \/ Doomed(m, D)'
    <3>1. CASE d # c
      BY <1>11, <3>1
    <3>2. CASE d = c
      <4>1. DoomedCall(Frame(c), D)' /\ Holding(c)' /\ Frame(c)'.target = m /\ c \in Calls' /\ ~Excused(c)'
        BY <1>3, <1>8, <1>11, <1>21, <2>1, <2>2, <3>2 DEF DoomedCall
      <4> QED
        BY <4>1 DEF Doomed
    <3> QED
      BY <3>1, <3>2
  <2> QED
    BY <1>1, <1>8, <1>11, <1>15, <2>2, DoomStays
<1>27. StopInv'
  <2>1. ASSUME fail, ~keep_going, NEW d \in Calls'
        PROVE  Stopped(d)' \/ (d \in Calls /\ Frame(d)' = Frame(d) /\ (Above(d) \in Calls => Above(d) \in Calls'))
    <3>1. CASE d = c
      BY <1>2, <1>11, <2>1, <3>1 DEF Stopped
    <3>2. CASE d # c
      BY <1>11, <3>2
    <3> QED
      BY <3>1, <3>2
  <2> QED
    BY <1>1, <1>8, <1>11, <1>15, <2>1, StopStays
<1> QED
  BY <1>18, <1>19, <1>20, <1>22, <1>23, <1>24, <1>25, <1>26, <1>27 DEF IndInv

LEMMA CallKeeps == ASSUME IndInv, NEW u \in Threads, AsyncSync(u) \/ MatchLocked(u) PROVE IndInv'
<1>1. /\ TypeOK /\ FramesInv /\ PlacesInv /\ LocksInv /\ CountsInv /\ PrerequisitesFirst /\ RootedInv
      /\ DoomInv /\ StopInv /\ stack \in [Threads -> Seq(Frames)]
  BY DEF IndInv, TypeOK
<1>2. PICK b \in Calls, t \in Targets :
              /\ Innermost(u, b) /\ Frame(b) = Top(u) /\ Frame(b) \in Frames /\ Sound(Frame(b)) /\ Above(b) \notin Calls
              /\ Holding(b) /\ Frame(b).target \in Nodes
              /\ Frame(b).target = Root \/ (Frame(b).target \in Targets /\ task_count[Frame(b).target] >= count_busy)
              /\ t = Prerequisite(Frame(b)) /\ t = prerequisites[Frame(b).target][Frame(b).next]
              /\ t # Frame(b).target /\ t # Root /\ t \in Nodes
              /\ task_count[t] \in Nat /\ task_count[t] < count_applied /\ Reset(t) \in [Targets -> Nat]
              /\ Frame(b).step \in {"start", "finish"} /\ More(Frame(b))
              /\ Frame(b).next \in 1 .. Len(prerequisites[Frame(b).target]) /\ Frame(b).next <= Frame(b).last
              /\ fail /\ ~keep_going => Excused(b)
  BY Locking DEF AsyncSync, MatchLocked
<1>3. PICK g : g = Call(t, Frame(b).chain \cup {t}, t)
  OBVIOUS
<1>4. /\ dependents' = Reset(t) /\ task_count' = [task_count EXCEPT ![t] = count_busy] /\ stack' = Called(u, g)
      /\ prerequisites' = prerequisites /\ keep_going' = keep_going /\ current_on' = current_on /\ state' = state
      /\ queued' = queued /\ fail' = fail /\ result' = result
  BY <1>2, <1>3 DEF AsyncSync, MatchLocked, build
<1>5. /\ g \in Frames /\ g.target = t /\ g.parent = t /\ g.next = 1 /\ g.last = Len(prerequisites[t]) /\ ~g.bad
      /\ g.step \in {"load", "start", "finish"}
  <2>1. PICK chain \in SUBSET Targets : chain = Frame(b).chain \cup {t}
    BY <1>1, <1>2, FrameTypes
  <2>2. TypeOK /\ t \in Nodes /\ g = Call(t, chain, t)
    BY <1>1, <1>2, <1>3, <2>1
  <2> QED
    BY <2>2, CallParts
<1>6. PICK c : c = <<u, Len(stack[u]) + 1>>
  OBVIOUS
<1>7. /\ stack' \in [Threads -> Seq(Frames)] /\ c \notin Calls /\ Calls' = Calls \cup {c}
      /\ Frame(c)' = g /\ (\A d \in Calls : Frame(d)' = Frame(d))
      /\ (\A d \in Calls : Below(d) # c) /\ c[1] = u /\ c[2] = Len(stack[u]) + 1
      /\ (\A d \in Calls : Excused(d)' <=> Excused(d))
      /\ (\A d \in Calls : Excused(d) /\ d[1] = u => Excused(c)')
  BY <1>1, <1>4, <1>5, <1>6, CalledStack
<1>8. Below(c) = b /\ c[2] > 1
  <2>1. Len(stack[u]) \in Nat /\ Len(stack[u]) >= 1 /\ b = <<u, Len(stack[u])>>
    BY <1>1, <1>2 DEF Innermost, Busy
  <2> QED
    BY <1>7, <2>1 DEF Below
<1>9. /\ task_count' \in [Nodes -> Nat] /\ task_count'[t] = count_busy
      /\ \A m \in Nodes : m # t => task_count'[m] = task_count[m]
  <2>1. task_count \in [Nodes -> Nat] /\ count_busy \in Nat
    BY <1>1, Counts DEF TypeOK
  <2>2. t \in Nodes /\ task_count' = [task_count EXCEPT ![t] = count_busy]
    BY <1>2, <1>4
  <2> QED
    BY ONLY <2>1, <2>2
<1>10. /\ count_applied \in Nat /\ count_busy = count_applied + 2 /\ Targets \subseteq Nodes
       /\ \A m \in Nodes : task_count[m] \in Nat
  BY <1>1, Counts DEF TypeOK, Nodes
<1>11. Final
  <2>1. ASSUME NEW m \in Targets
        PROVE  /\ task_count[m] >= count_applied => task_count'[m] >= count_applied
               /\ task_count[m] = count_applied => task_count'[m] = task_count[m] /\ state'[m] = state[m]
    <3>1. task_count[m] \in Nat /\ state' = state /\ task_count[t] < count_applied
      BY <1>2, <1>4, <1>10
    <3>2. CASE m = t
      BY <1>9, <1>10, <3>1, <3>2
    <3>3. CASE m # t
      BY <1>9, <1>10, <3>1, <3>3
    <3> QED
      BY <3>2, <3>3
  <2> QED
    BY <1>4, <2>1 DEF Final
<1>12. /\ count_busy' = count_busy /\ count_applied' = count_applied /\ \A m : StartCount(m)' = StartCount(m)
  BY <1>11, FinalCounts
<1>13. TasksOf(t) = {} /\ CallsOf(t) = {} /\ (\A q : ~Up(q, t)) /\ ~Held(t) /\ ~Expects(t)
  BY <1>2, <1>10, NothingFor
<1>14. TypeOK'
  BY <1>1, <1>2, <1>4, <1>7, <1>9 DEF TypeOK
<1>15. FramesInv'
  <2>1. Sound(Frame(c))'
    <3>1. g.last \in Nat /\ StartCount(t) = count_busy
      BY <1>1, <1>5, Counts, FrameTypes
    <3>2. InRange(g)'
      BY <1>4, <1>5, <3>1 DEF InRange
    <3>3. Stepwise(g)' /\ Settled(g)'
      <4>1. task_count'[t] = StartCount(t)'
        BY <1>9, <1>12, <3>1
      <4>2. Settled(g)'
        BY <1>5, <4>1 DEF Settled
      <4>3. t # Root
        BY <1>2
      <4>4. Stepwise(g)'
        BY <1>5, <4>3 DEF Stepwise
      <4> QED
        BY <4>2, <4>4
    <3>4. Tried(g)' /\ Looked(g)'
      <4>1. t # Root
        BY <1>2
      <4>2. 1 .. g.next - 1 = {}
        BY <1>5
      <4>3. Tried(g)'
        BY <1>5, <4>1, <4>2 DEF Tried
      <4>4. Looked(g)'
        BY <1>5, <4>1, <4>2 DEF Looked
      <4> QED
        BY <4>3, <4>4
    <3>5. Frame(c)' = g
      BY <1>7
    <3> QED
      BY <3>5, <3>2, <3>3, <3>4 DEF Sound, InRange, Stepwise, Settled, Looked, Tried
  <2>2. ASSUME NEW d \in Calls PROVE Sound(Frame(d))'
    <3>1. PICK h : h = Frame(d)
      OBVIOUS
    <3>2. h \in Frames /\ Sound(h) /\ Frame(d)' = h
      BY <1>1, <1>7, <3>1, InCalls DEF FramesInv
    <3>3. h.step = "done" \/ h.target # t
      BY <1>13, <3>1 DEF Held, Holding
    <3>4. h.step = "done" \/ task_count'[h.target] = task_count[h.target]
      BY <1>9, <3>2, <3>3 DEF Frames
    <3> QED
      BY <1>1, <1>11, <3>2, <3>4, SoundStays
  <2> QED
    BY <1>7, <2>1, <2>2 DEF FramesInv
<1>16. /\ \A p : Expects(p) => Expects(p)'
       /\ \A d \in Calls : d # c => Placed(d)'
       /\ \A d \in Calls : d[2] > 1 => Below(d) \in Calls /\ Below(d) \in Calls' /\ Frame(Below(d))' = Frame(Below(d))
       /\ \A k \in queued : Expects(k.parent)'
  <2>1. \A d \in Calls : Below(d) # c /\ (d # c => d \in Calls' /\ Frame(d)' = Frame(d))
    BY <1>7
  <2> QED
    BY <1>1, <1>4, <1>7, <2>1, OthersPlaced
<1>17. PlacesInv'
  <2>1. Placed(c)'
    <3>1. Frame(Below(c))' = Frame(b)
      BY <1>7, <1>8
    <3>2. c # <<Main, 1>>
      BY <1>8
    <3> QED
      BY <1>2, <1>4, <1>5, <1>7, <1>8, <3>1, <3>2 DEF Placed, More, Prerequisite
  <2>2. <<Main, 1>> \in Calls' <=> <<Main, 1>> \in Calls
    BY <1>7, <1>8
  <2> QED
    BY <1>1, <1>4, <1>7, <1>16, <2>1, <2>2 DEF PlacesInv
<1>18. /\ \A d \in Calls : Holding(d)' <=> Holding(d)
       /\ Holding(c)'
  BY <1>5, <1>7 DEF Holding
<1>19. LocksInv'
  <2>1. \A q : Held(q)' <=> Held(q) \/ q = t
    BY <1>4, <1>5, <1>7, <1>18 DEF Held
  <2>2. \A k \in queued : k.target # t
    BY <1>13 DEF Held
  <2>3. \A d \in Calls : Holding(d) => Frame(d).target # t
    BY <1>13 DEF Held
  <2>4. \A x, y \in Calls' : Holding(x)' /\ Holding(y)' /\ Frame(x)'.target = Frame(y)'.target => x = y
    BY <1>1, <1>5, <1>7, <1>18, <2>3 DEF LocksInv
  <2>5. \A x \in Calls', k \in queued : Holding(x)' => Frame(x)'.target # k.target
    BY <1>1, <1>5, <1>7, <1>18, <2>2 DEF LocksInv
  <2>6. ASSUME NEW q \in Targets
        PROVE  /\ Held(q)' => task_count'[q] >= count_busy
               /\ ~fail /\ task_count'[q] >= count_busy => Held(q)'
               /\ task_count'[q] < count_busy => task_count'[q] <= count_applied
    <3>1. CASE q = t
      BY <1>9, <1>10, <2>1, <3>1
    <3>2. CASE q # t
      <4>1. task_count'[q] = task_count[q] /\ (Held(q)' <=> Held(q))
        BY <1>9, <1>10, <2>1, <3>2
      <4> QED
        BY <1>1, <4>1 DEF LocksInv
    <3> QED
      BY <3>1, <3>2
  <2>7. \A k, l \in queued : k.target = l.target => k = l
    BY <1>1 DEF LocksInv
  <2> QED
    BY <1>4, <1>12, <2>4, <2>5, <2>6, <2>7 DEF LocksInv
<1>20. CountsInv'
  <2>1. \A m : CallsOf(m)' = CallsOf(m) /\ TasksOf(m)' = TasksOf(m)
    BY <1>4, <1>5, <1>7 DEF CallsOf, TasksOf
  <2> SUFFICES ASSUME NEW m \in Nodes
               PROVE  /\ IsFiniteSet(TasksOf(m)') /\ IsFiniteSet(CallsOf(m)')
                      /\ m = Root \/ task_count'[m] >= count_busy =>
                            task_count'[m] = StartCount(m) + Cardinality(TasksOf(m)') + Cardinality(CallsOf(m)')
    BY <1>12 DEF CountsInv
  <2>2. CASE m = t
    <3>1. TasksOf(m)' = {} /\ CallsOf(m)' = {} /\ StartCount(m) = count_busy
      BY <1>1, <1>13, <2>1, <2>2, Counts
    <3>2. IsFiniteSet({}) /\ Cardinality({}) = 0
      BY FS_EmptySet
    <3> QED
      BY <1>9, <1>10, <2>2, <3>1, <3>2
  <2>3. CASE m # t
    BY <1>1, <1>9, <2>1, <2>3 DEF CountsInv
  <2> QED
    BY <2>2, <2>3
<1>21. PrerequisitesFirst'
  <2>1. ASSUME NEW m \in Targets, Matched(m)' PROVE Matched(m)
    <3>1. task_count'[m] = count_applied /\ state[m] # "failed"
      BY <1>4, <1>12, <2>1 DEF Matched
    <3>2. m # t
      BY <1>9, <1>10, <3>1
    <3> QED
      BY <1>9, <1>10, <3>1, <3>2 DEF Matched
  <2> QED
    BY <1>1, <1>11, <2>1, PrerequisitesStay
<1>22. RootedInv'
  <2>1. ASSUME NEW q \in Targets, NEW p \in Targets, Up(q, p)' PROVE (Up(q, p) \/ q = t) /\ p # t
    <3>1. CASE \E k \in queued' : k.target = q /\ k.parent = p
      BY <1>4, <1>13, <3>1 DEF Up
    <3>2. ASSUME NEW d \in Calls', Holding(d)', Frame(d)'.target = q, q # Root,
                 p = IF Frame(d)'.parent = q THEN Frame(Below(d))'.target ELSE Frame(d)'.parent
          PROVE  (Up(q, p) \/ q = t) /\ p # t
      <4>1. CASE d = c
        <5>1. q = t /\ Frame(d)'.parent = t /\ Frame(Below(d))' = Frame(b)
          BY <1>5, <1>7, <1>8, <3>2, <4>1
        <5> QED
          BY <1>2, <3>2, <5>1
      <4>2. CASE d # c
        <5>1. d \in Calls /\ Holding(d) /\ Frame(d)' = Frame(d)
          BY <1>7, <1>18, <3>2, <4>2
        <5>2. Frame(d).parent = q => Frame(Below(d))' = Frame(Below(d))
          BY <1>1, <1>16, <3>2, <5>1 DEF PlacesInv, Placed
        <5>3. Up(q, p)
          BY <3>2, <5>1, <5>2 DEF Up
        <5> QED
          BY <1>13, <5>3
      <4> QED
        BY <4>1, <4>2
    <3> QED
      BY <2>1, <3>1, <3>2 DEF Up
  <2> QED
    BY <1>1, <2>1, RootedAdds
<1>23. DoomInv'
  BY <1>1, <1>4, <1>7, <1>11, DoomStays
<1>24. StopInv'
  <2>1. ASSUME fail, ~keep_going, NEW d \in Calls'
        PROVE  Stopped(d)' \/ (d \in Calls /\ Frame(d)' = Frame(d) /\ (Above(d) \in Calls => Above(d) \in Calls'))
    <3>1. CASE d = c
      <4>1. b[1] = u
        BY <1>1, <1>2, InnermostCall
      <4> QED
        BY <1>2, <1>7, <2>1, <3>1, <4>1 DEF Stopped
    <3>2. CASE d # c
      BY <1>7, <3>2
    <3> QED
      BY <3>1, <3>2
  <2> QED
    BY <1>1, <1>4, <1>7, <1>11, <2>1, StopStays
<1> QED
  BY <1>14, <1>15, <1>17, <1>19, <1>20, <1>21, <1>22, <1>23, <1>24 DEF IndInv

-----------------------------------------------------------------------------
(***************************************************************************)
(* The tasks.                                                              *)
(***************************************************************************)
LEMMA TaskStartKeeps ==
    ASSUME IndInv, NEW u \in Threads, NEW task \in queued, TaskStart(u, task)
    PROVE  IndInv'
<1>1. /\ TypeOK /\ FramesInv /\ PlacesInv /\ LocksInv /\ CountsInv /\ PrerequisitesFirst /\ RootedInv
      /\ DoomInv /\ StopInv /\ stack \in [Threads -> Seq(Frames)] /\ queued \subseteq Tasks
  BY DEF IndInv, TypeOK
<1>2. PICK t : t = task.target
  OBVIOUS
<1>3. PICK p : p = task.parent
  OBVIOUS
<1>4. t \in Targets /\ t \in Nodes /\ t # Root /\ p \in Nodes /\ task.chain \cup {t} \in SUBSET Targets
  BY <1>1, <1>2, <1>3, MatchAssumption DEF Tasks, Nodes
<1>5. PICK g : g = Call(t, task.chain \cup {t}, p)
  OBVIOUS
<1>6. /\ queued' = queued \ {task} /\ stack' = Called(u, g) /\ task_count' = task_count /\ dependents' = dependents
      /\ prerequisites' = prerequisites /\ keep_going' = keep_going /\ current_on' = current_on /\ state' = state
      /\ fail' = fail /\ result' = result /\ ~fail /\ MayTake(u, task)
  BY <1>2, <1>3, <1>5 DEF TaskStart, build
<1>7. /\ g \in Frames /\ g.target = t /\ g.parent = p /\ g.next = 1 /\ g.last = Len(prerequisites[t]) /\ ~g.bad
      /\ g.step \in {"load", "start", "finish"}
  BY <1>1, <1>4, <1>5, CallParts
<1>8. PICK c : c = <<u, Len(stack[u]) + 1>>
  OBVIOUS
<1>9. /\ stack' \in [Threads -> Seq(Frames)] /\ c \notin Calls /\ Calls' = Calls \cup {c}
      /\ Frame(c)' = g /\ (\A d \in Calls : Frame(d)' = Frame(d))
      /\ (\A d \in Calls : Below(d) # c) /\ c[1] = u /\ c[2] = Len(stack[u]) + 1
  BY <1>1, <1>6, <1>7, <1>8, CalledStack
<1>10. Expects(p) /\ t # p
  <2>1. Expects(p)
    BY <1>1, <1>3 DEF PlacesInv
  <2>2. PICK d \in Calls : Frame(d).target = p /\ Frame(d).step \in {"start", "wait"}
    BY <2>1 DEF Expects
  <2> QED
    BY <1>1, <1>2, <2>1, <2>2 DEF LocksInv, Holding
<1>11. c # <<Main, 1>> /\ (c[2] > 1 => Below(c) \in Calls /\ Frame(Below(c)).step = "wait")
  <2>1. CASE FirstIdle(u)
    <3>1. u # Main /\ Len(stack[u]) = 0
      BY <2>1, MatchAssumption DEF FirstIdle, Busy
    <3> QED
      BY <1>9, <3>1
  <2>2. CASE At(u, "wait")
    <3>1. Len(stack[u]) \in Nat /\ Len(stack[u]) >= 1
      BY <1>1, <2>2 DEF At, Busy
    <3>2. Innermost(u, Below(c))
      BY <1>9, <2>2, <3>1 DEF Innermost, At, Below
    <3>3. Below(c) \in Calls /\ Frame(Below(c)) = Top(u)
      BY <1>1, <3>2, InnermostCall
    <3> QED
      BY <1>9, <2>2, <3>1, <3>3 DEF At
  <2> QED
    BY <1>6, <2>1, <2>2 DEF MayTake
<1>12. Final
  BY <1>6 DEF Final
<1>13. count_busy' = count_busy /\ count_applied' = count_applied /\ \A m : StartCount(m)' = StartCount(m)
  BY <1>12, FinalCounts
<1>14. TypeOK'
  BY <1>1, <1>6, <1>9 DEF TypeOK
<1>15. FramesInv'
  <2>1. Sound(Frame(c))'
    <3>1. g.last \in Nat
      BY <1>1, <1>7, FrameTypes
    <3>2. InRange(g)'
      BY <1>6, <1>7, <3>1 DEF InRange
    <3>3. task_count[t] = StartCount(t)
      <4>1. task_count[t] >= count_busy
        BY <1>1, <1>2, <1>4 DEF LocksInv, Held
      <4>2. ~Expects(t)
        BY <1>1, <1>2 DEF LocksInv, Expects, Holding
      <4>3. TasksOf(t) = {} /\ CallsOf(t) = {}
        BY <1>1, <4>2 DEF PlacesInv, Placed, TasksOf, CallsOf
      <4>4. task_count[t] = StartCount(t) + Cardinality({}) + Cardinality({})
        BY <1>1, <1>4, <4>1, <4>3 DEF CountsInv
      <4>5. StartCount(t) \in Nat /\ Cardinality({}) = 0
        BY <1>1, <1>4, Counts, FS_EmptySet
      <4> QED
        BY <4>4, <4>5
    <3>4. Stepwise(g)' /\ Settled(g)'
      BY <1>4, <1>6, <1>7, <1>13, <3>3 DEF Stepwise, Settled
    <3>5. Tried(g)' /\ Looked(g)'
      BY <1>4, <1>7 DEF Looked, Tried
    <3> QED
      BY <1>9, <3>2, <3>4, <3>5 DEF Sound, InRange, Stepwise, Settled, Looked, Tried
  <2>2. ASSUME NEW d \in Calls PROVE Sound(Frame(d))'
    <3>1. PICK h : h = Frame(d)
      OBVIOUS
    <3>2. h \in Frames /\ Sound(h) /\ Frame(d)' = h
      BY <1>1, <1>9, <3>1, InCalls DEF FramesInv
    <3> QED
      BY <1>1, <1>6, <1>12, <3>2, SoundStays
  <2> QED
    BY <1>9, <2>1, <2>2 DEF FramesInv
<1>16. /\ \A q : Expects(q) => Expects(q)'
       /\ \A d \in Calls : d # c => Placed(d)'
       /\ \A d \in Calls : d[2] > 1 => Below(d) \in Calls /\ Below(d) \in Calls' /\ Frame(Below(d))' = Frame(Below(d))
       /\ \A k \in queued : Expects(k.parent)'
  <2>1. \A d \in Calls : Below(d) # c /\ (d # c => d \in Calls' /\ Frame(d)' = Frame(d))
    BY <1>9
  <2> QED
    BY <1>1, <1>6, <1>9, <2>1, OthersPlaced
<1>17. PlacesInv'
  <2>1. Placed(c)'
    <3>1. c[2] > 1 => Frame(Below(c))'.step = "wait"
      BY <1>9, <1>11
    <3>2. Expects(p)'
      BY <1>10, <1>16
    <3>3. \E e \in Calls' : Frame(e)'.target = Frame(c)'.parent /\ Frame(e)'.step \in {"start", "wait"}
      BY <1>7, <1>9, <3>2 DEF Expects
    <3> QED
      BY <1>4, <1>7, <1>9, <1>10, <1>11, <3>1, <3>3 DEF Placed, Expects
  <2>2. <<Main, 1>> \in Calls' <=> <<Main, 1>> \in Calls
    BY <1>9, <1>11
  <2> QED
    BY <1>1, <1>6, <1>9, <1>16, <2>1, <2>2 DEF PlacesInv
<1>18. /\ \A d \in Calls : Holding(d)' <=> Holding(d)
       /\ Holding(c)'
  BY <1>7, <1>9 DEF Holding
<1>19. LocksInv'
  <2>1. \A k \in queued \ {task} : k.target # t
    BY <1>1, <1>2 DEF LocksInv
  <2>2. \A d \in Calls : Holding(d) => Frame(d).target # t
    BY <1>1, <1>2 DEF LocksInv
  <2>3. ASSUME NEW q PROVE Held(q)' <=> Held(q)
    <3>1. CASE q = t
      BY <1>2, <1>7, <1>9, <1>18, <3>1 DEF Held
    <3>2. CASE q # t
      BY <1>2, <1>6, <1>7, <1>9, <1>18, <3>2 DEF Held
    <3> QED
      BY <3>1, <3>2
  <2>4. \A x, y \in Calls' : Holding(x)' /\ Holding(y)' /\ Frame(x)'.target = Frame(y)'.target => x = y
    BY <1>1, <1>7, <1>9, <1>18, <2>2 DEF LocksInv
  <2>5. \A x \in Calls', k \in queued' : Holding(x)' => Frame(x)'.target # k.target
    BY <1>1, <1>6, <1>7, <1>9, <1>18, <2>1 DEF LocksInv
  <2>6. \A k, l \in queued' : k.target = l.target => k = l
    BY <1>1, <1>6 DEF LocksInv
  <2>7. \A q \in Targets : /\ Held(q)' => task_count[q] >= count_busy
                           /\ ~fail /\ task_count[q] >= count_busy => Held(q)'
                           /\ task_count[q] < count_busy => task_count[q] <= count_applied
    BY <1>1, <2>3 DEF LocksInv
  <2> QED
    BY <1>6, <1>13, <2>4, <2>5, <2>6, <2>7 DEF LocksInv
<1>20. CountsInv'
  <2>1. \A m : m # p => CallsOf(m)' = CallsOf(m) /\ TasksOf(m)' = TasksOf(m)
    BY <1>3, <1>6, <1>7, <1>9 DEF CallsOf, TasksOf
  <2>2. CallsOf(p)' = CallsOf(p) \cup {c} /\ TasksOf(p)' = TasksOf(p) \ {task}
    BY <1>3, <1>6, <1>7, <1>9, <1>10 DEF CallsOf, TasksOf
  <2>3. c \notin CallsOf(p) /\ task \in TasksOf(p)
    BY <1>3, <1>9 DEF CallsOf, TasksOf
  <2>4. p = Root \/ task_count[p] >= count_busy
    BY <1>1, <1>10, ExpectedCount
  <2>5. /\ IsFiniteSet(TasksOf(p)) /\ IsFiniteSet(CallsOf(p))
        /\ task_count[p] = StartCount(p) + Cardinality(TasksOf(p)) + Cardinality(CallsOf(p))
    BY <1>1, <1>4, <2>4 DEF CountsInv
  <2>6. IsFiniteSet(CallsOf(p) \cup {c}) /\ Cardinality(CallsOf(p) \cup {c}) = Cardinality(CallsOf(p)) + 1
    BY <2>3, <2>5, FS_AddElement
  <2>7. IsFiniteSet(TasksOf(p) \ {task}) /\ Cardinality(TasksOf(p) \ {task}) = Cardinality(TasksOf(p)) - 1
    BY <2>3, <2>5, FS_RemoveElement
  <2>8. Cardinality(TasksOf(p)) \in Nat /\ Cardinality(CallsOf(p)) \in Nat /\ StartCount(p) \in Nat
    BY <1>1, <1>4, <2>5, FS_CardinalityType, Counts
  <2> SUFFICES ASSUME NEW m \in Nodes
               PROVE  /\ IsFiniteSet(TasksOf(m)') /\ IsFiniteSet(CallsOf(m)')
                      /\ m = Root \/ task_count[m] >= count_busy =>
                            task_count[m] = StartCount(m) + Cardinality(TasksOf(m)') + Cardinality(CallsOf(m)')
    BY <1>6, <1>13 DEF CountsInv
  <2>9. CASE m = p
    <3>1. TasksOf(m)' = TasksOf(p) \ {task} /\ CallsOf(m)' = CallsOf(p) \cup {c}
      BY <2>2, <2>9
    <3> QED
      BY <2>5, <2>6, <2>7, <2>8, <2>9, <3>1
  <2>10. CASE m # p
    BY <1>1, <2>1, <2>10 DEF CountsInv
  <2> QED
    BY <2>9, <2>10
<1>21. PrerequisitesFirst'
  BY <1>1, <1>6, <1>12, <1>13, PrerequisitesStay DEF Matched
<1>22. RootedInv'
  <2>1. ASSUME NEW q \in Targets, NEW r \in Targets, Up(q, r)' PROVE Up(q, r)
    <3>1. CASE \E k \in queued' : k.target = q /\ k.parent = r
      BY <1>6, <3>1 DEF Up
    <3>2. ASSUME NEW d \in Calls', Holding(d)', Frame(d)'.target = q, q # Root,
                 r = IF Frame(d)'.parent = q THEN Frame(Below(d))'.target ELSE Frame(d)'.parent
          PROVE  Up(q, r)
      <4>1. CASE d = c
        <5>1. q = t /\ r = p
          BY <1>7, <1>9, <1>10, <3>2, <4>1
        <5> QED
          BY <1>2, <1>3, <5>1 DEF Up
      <4>2. CASE d # c
        <5>1. d \in Calls /\ Holding(d) /\ Frame(d)' = Frame(d)
          BY <1>9, <1>18, <3>2, <4>2
        <5>2. Frame(d).parent = q => Frame(Below(d))' = Frame(Below(d))
          BY <1>1, <1>16, <3>2, <5>1 DEF PlacesInv, Placed
        <5> QED
          BY <3>2, <5>1, <5>2 DEF Up
      <4> QED
        BY <4>1, <4>2
    <3> QED
      BY <2>1, <3>1, <3>2 DEF Up
  <2> QED
    BY <1>1, <2>1 DEF RootedInv
<1>23. DoomInv' /\ StopInv'
  BY <1>6 DEF DoomInv, StopInv
<1> QED
  BY <1>14, <1>15, <1>17, <1>19, <1>20, <1>21, <1>22, <1>23 DEF IndInv

\* A task of p is over.
LEMMA TaskOver ==
    ASSUME IndInv, NEW p, Expects(p), TasksOf(p) # {} \/ CallsOf(p) # {},
           task_count' = [task_count EXCEPT ![p] = @ - 1],
           UNCHANGED <<build, current_on, state>>
    PROVE  /\ p \in Nodes /\ (p = Root \/ task_count[p] >= count_busy)
           /\ task_count' \in [Nodes -> Nat] /\ task_count'[p] = task_count[p] - 1
           /\ \A m \in Nodes : m # p => task_count'[m] = task_count[m]
           /\ p \in Targets => task_count'[p] >= count_busy
           /\ Final /\ PrerequisitesFirst'
           /\ count_busy' = count_busy /\ count_applied' = count_applied /\ \A m : StartCount(m)' = StartCount(m)
           /\ \A d \in Calls : Frame(d)' = Frame(d) => Sound(Frame(d))'
           /\ \A t \in Targets : /\ task_count'[t] >= count_busy <=> task_count[t] >= count_busy
                                 /\ task_count'[t] < count_busy => task_count'[t] = task_count[t]
<1>1. TypeOK /\ FramesInv /\ LocksInv /\ CountsInv /\ PrerequisitesFirst /\ stack \in [Threads -> Seq(Frames)]
  BY DEF IndInv, TypeOK
<1>2. p \in Nodes /\ (p = Root \/ (p \in Targets /\ task_count[p] >= count_busy))
  BY <1>1, ExpectedCount
<1>3. /\ count_applied \in Nat /\ count_busy = count_applied + 2 /\ Targets \subseteq Nodes /\ StartCount(p) \in Nat
      /\ p \in Targets => StartCount(p) = count_busy
      /\ task_count \in [Nodes -> Nat] /\ \A m \in Nodes : task_count[m] \in Nat
  BY <1>1, <1>2, Counts DEF TypeOK, Nodes
<1>4. task_count[p] > StartCount(p)
  <2>1. task_count[p] >= StartCount(p) /\ task_count[p] # StartCount(p)
    BY <1>1, <1>2, Occupied
  <2> QED
    BY <1>2, <1>3, <2>1
<1>5. /\ task_count' \in [Nodes -> Nat] /\ task_count'[p] = task_count[p] - 1
      /\ \A m \in Nodes : m # p => task_count'[m] = task_count[m]
  <2>1. task_count[p] - 1 \in Nat
    BY <1>2, <1>3, <1>4
  <2> QED
    BY <1>2, <1>3, <2>1
<1>6. p \in Targets => task_count'[p] >= count_busy
  BY <1>2, <1>3, <1>4, <1>5
<1>7. ASSUME NEW t \in Targets
      PROVE  /\ task_count'[t] >= count_busy <=> task_count[t] >= count_busy
             /\ task_count'[t] < count_busy => task_count'[t] = task_count[t]
  <2>1. t \in Nodes /\ task_count[t] \in Nat /\ task_count'[t] \in Nat /\ t # Root
    BY <1>3, <1>5, MatchAssumption
  <2>2. CASE t = p
    BY <1>2, <1>3, <1>6, <2>1, <2>2
  <2>3. CASE t # p
    BY <1>5, <2>1, <2>3
  <2> QED
    BY <2>2, <2>3
<1>8. prerequisites' = prerequisites /\ keep_going' = keep_going /\ current_on' = current_on /\ state' = state
  BY DEF build
<1>9. Final
  <2>1. ASSUME NEW t \in Targets
        PROVE  /\ task_count[t] >= count_applied => task_count'[t] >= count_applied
               /\ task_count[t] = count_applied => task_count'[t] = task_count[t] /\ state'[t] = state[t]
    <3>1. t \in Nodes /\ task_count[t] \in Nat /\ task_count'[t] \in Nat
      BY <1>3, <1>5
    <3> QED
      BY <1>3, <1>7, <1>8, <3>1
  <2> QED
    BY <1>8, <2>1 DEF Final
<1>10. count_busy' = count_busy /\ count_applied' = count_applied /\ \A m : StartCount(m)' = StartCount(m)
  BY <1>9, FinalCounts
<1>11. PrerequisitesFirst'
  <2>1. ASSUME NEW t \in Targets, Matched(t)' PROVE Matched(t)
    <3>1. task_count'[t] = count_applied /\ state[t] # "failed"
      BY <1>8, <1>10, <2>1 DEF Matched
    <3>2. task_count'[t] < count_busy
      BY <1>3, <3>1
    <3> QED
      BY <1>7, <3>1, <3>2 DEF Matched
  <2> QED
    BY <1>1, <1>9, <2>1, PrerequisitesStay
<1>12. ASSUME NEW d \in Calls, Frame(d)' = Frame(d) PROVE Sound(Frame(d))'
  <2>1. PICK h : h = Frame(d)
    OBVIOUS
  <2>2. h \in Frames /\ Sound(h) /\ Frame(d)' = h /\ h.target \in Nodes
    BY <1>1, <1>12, <2>1, InCalls DEF FramesInv, Frames
  <2>3. CASE h.target # p
    BY <1>1, <1>5, <1>9, <2>2, <2>3, SoundStays
  <2>4. CASE h.step = "done"
    BY <1>1, <1>9, <2>2, <2>4, SoundStays
  <2>5. CASE h.target = p /\ h.step # "done"
    <3>1. PICK e \in Calls : Frame(e).target = p /\ Frame(e).step \in {"start", "wait"}
      BY DEF Expects
    <3>2. e = d
      BY <1>1, <2>1, <2>5, <3>1 DEF LocksInv, Holding
    <3>3. h.step = "wait" \/ (h.step = "start" /\ h.next # 1)
      BY <1>2, <1>3, <1>4, <2>1, <2>2, <2>5, <3>1, <3>2 DEF Sound, Settled
    <3> QED
      BY <1>1, <1>9, <2>2, <3>3, SoundStays
  <2> QED
    BY <2>3, <2>4, <2>5
<1> QED
  BY <1>2, <1>5, <1>6, <1>7, <1>9, <1>10, <1>11, <1>12

LEMMA TaskFailsKeeps ==
    ASSUME IndInv, NEW u \in Threads, NEW task \in queued, TaskFails(u, task)
    PROVE  IndInv'
<1>1. /\ TypeOK /\ FramesInv /\ PlacesInv /\ LocksInv /\ CountsInv /\ PrerequisitesFirst /\ RootedInv
      /\ DoomInv /\ StopInv /\ stack \in [Threads -> Seq(Frames)] /\ queued \subseteq Tasks
  BY DEF IndInv, TypeOK
<1>2. PICK p : p = task.parent
  OBVIOUS
<1>3. /\ queued' = queued \ {task} /\ stack' = stack /\ task_count' = [task_count EXCEPT ![p] = @ - 1]
      /\ dependents' = dependents /\ UNCHANGED <<build, current_on, state>>
      /\ prerequisites' = prerequisites /\ keep_going' = keep_going /\ current_on' = current_on /\ state' = state
      /\ fail' = fail /\ result' = result /\ fail
  BY <1>2 DEF TaskFails, build
<1>4. Expects(p) /\ task \in TasksOf(p)
  BY <1>1, <1>2 DEF PlacesInv, TasksOf
<1>5. /\ p \in Nodes /\ (p = Root \/ task_count[p] >= count_busy)
      /\ task_count' \in [Nodes -> Nat] /\ task_count'[p] = task_count[p] - 1
      /\ \A m \in Nodes : m # p => task_count'[m] = task_count[m]
      /\ p \in Targets => task_count'[p] >= count_busy
      /\ Final /\ PrerequisitesFirst'
      /\ count_busy' = count_busy /\ count_applied' = count_applied /\ \A m : StartCount(m)' = StartCount(m)
      /\ \A d \in Calls : Frame(d)' = Frame(d) => Sound(Frame(d))'
      /\ \A t \in Targets : /\ task_count'[t] >= count_busy <=> task_count[t] >= count_busy
                            /\ task_count'[t] < count_busy => task_count'[t] = task_count[t]
  BY <1>3, <1>4, TaskOver
<1>6. Calls' = Calls /\ (\A d : Frame(d)' = Frame(d)) /\ \A d : Excused(d)' <=> Excused(d)
  BY <1>3 DEF Calls, Frame, Excused
<1>7. TypeOK'
  BY <1>1, <1>3, <1>5 DEF TypeOK
<1>8. FramesInv'
  BY <1>5, <1>6 DEF FramesInv
<1>9. PlacesInv'
  <2>1. \A q : Expects(q)' <=> Expects(q)
    BY <1>6 DEF Expects
  <2>2. \A d \in Calls : Placed(d)'
    BY <1>1, <1>3, <1>6 DEF PlacesInv, Placed, Expects, More, Prerequisite
  <2> QED
    BY <1>1, <1>3, <1>6, <2>1, <2>2 DEF PlacesInv
<1>10. LocksInv'
  <2>1. \A d : Holding(d)' <=> Holding(d)
    BY <1>6 DEF Holding
  <2>2. \A t : Held(t)' => Held(t)
    BY <1>3, <1>6, <2>1 DEF Held
  <2> QED
    BY <1>1, <1>3, <1>5, <1>6, <2>1, <2>2 DEF LocksInv
<1>11. CountsInv'
  <2>1. \A m : CallsOf(m)' = CallsOf(m) /\ (m # p => TasksOf(m)' = TasksOf(m))
    BY <1>2, <1>3, <1>6 DEF CallsOf, TasksOf
  <2>2. TasksOf(p)' = TasksOf(p) \ {task}
    BY <1>2, <1>3 DEF TasksOf
  <2>3. /\ IsFiniteSet(TasksOf(p)) /\ IsFiniteSet(CallsOf(p))
        /\ task_count[p] = StartCount(p) + Cardinality(TasksOf(p)) + Cardinality(CallsOf(p))
    BY <1>1, <1>5 DEF CountsInv
  <2>4. IsFiniteSet(TasksOf(p) \ {task}) /\ Cardinality(TasksOf(p) \ {task}) = Cardinality(TasksOf(p)) - 1
    BY <1>4, <2>3, FS_RemoveElement
  <2>5. Cardinality(TasksOf(p)) \in Nat /\ Cardinality(CallsOf(p)) \in Nat /\ StartCount(p) \in Nat
    BY <1>1, <1>5, <2>3, FS_CardinalityType, Counts
  <2> SUFFICES ASSUME NEW m \in Nodes
               PROVE  /\ IsFiniteSet(TasksOf(m)') /\ IsFiniteSet(CallsOf(m)')
                      /\ m = Root \/ task_count'[m] >= count_busy =>
                            task_count'[m] = StartCount(m) + Cardinality(TasksOf(m)') + Cardinality(CallsOf(m)')
    BY <1>5 DEF CountsInv
  <2>6. CASE m = p
    <3>1. TasksOf(m)' = TasksOf(p) \ {task} /\ CallsOf(m)' = CallsOf(p) /\ task_count'[m] = task_count[p] - 1
      BY <1>5, <2>1, <2>2, <2>6
    <3> QED
      BY <2>3, <2>4, <2>5, <2>6, <3>1
  <2>7. CASE m # p
    BY <1>1, <1>5, <2>1, <2>7 DEF CountsInv
  <2> QED
    BY <2>6, <2>7
<1>12. RootedInv'
  BY <1>1, <1>3, <1>6, RootedStays
<1>13. DoomInv'
  BY <1>1, <1>3, <1>5, <1>6, DoomStays
<1>14. StopInv'
  BY <1>1, <1>3, <1>5, <1>6, StopStays
<1> QED
  BY <1>5, <1>7, <1>8, <1>9, <1>10, <1>11, <1>12, <1>13, <1>14 DEF IndInv

LEMMA TaskDoneKeeps == ASSUME IndInv, NEW u \in Threads, TaskDone(u) PROVE IndInv'
<1>1. /\ TypeOK /\ FramesInv /\ PlacesInv /\ LocksInv /\ CountsInv /\ PrerequisitesFirst /\ RootedInv
      /\ DoomInv /\ StopInv /\ stack \in [Threads -> Seq(Frames)]
  BY DEF IndInv, TypeOK
<1>2. PICK c \in Calls : Innermost(u, c) /\ Frame(c) = Top(u) /\ Sound(Frame(c)) /\ Placed(c) /\ Above(c) \notin Calls
  BY TopCall DEF TaskDone, At
<1>3. PICK p : p = Frame(c).parent
  OBVIOUS
<1>4. /\ stack' = Returned(u) /\ task_count' = [task_count EXCEPT ![p] = @ - 1]
      /\ dependents' = dependents /\ UNCHANGED <<build, current_on, state>>
      /\ prerequisites' = prerequisites /\ keep_going' = keep_going /\ current_on' = current_on /\ state' = state
      /\ queued' = queued /\ fail' = fail /\ result' = result /\ Frame(c).step = "done"
  BY <1>2, <1>3 DEF TaskDone, build, At
<1>5. Frame(c).target # p /\ Frame(c).target # Root /\ ~Holding(c)
  BY <1>2, <1>3, <1>4 DEF Sound, Stepwise, Holding
<1>6. Expects(p) /\ c \in CallsOf(p) /\ (c[2] > 1 => Frame(Below(c)).step = "wait") /\ c # <<Main, 1>>
  BY <1>2, <1>3, <1>5 DEF Placed, CallsOf
<1>7. /\ p \in Nodes /\ (p = Root \/ task_count[p] >= count_busy)
      /\ task_count' \in [Nodes -> Nat] /\ task_count'[p] = task_count[p] - 1
      /\ \A m \in Nodes : m # p => task_count'[m] = task_count[m]
      /\ p \in Targets => task_count'[p] >= count_busy
      /\ Final /\ PrerequisitesFirst'
      /\ count_busy' = count_busy /\ count_applied' = count_applied /\ \A m : StartCount(m)' = StartCount(m)
      /\ \A d \in Calls : Frame(d)' = Frame(d) => Sound(Frame(d))'
      /\ \A t \in Targets : /\ task_count'[t] >= count_busy <=> task_count[t] >= count_busy
                            /\ task_count'[t] < count_busy => task_count'[t] = task_count[t]
  BY <1>4, <1>6, TaskOver
<1>8. /\ stack' \in [Threads -> Seq(Frames)] /\ Calls' = Calls \ {c} /\ (\A d \in Calls : d # c => Frame(d)' = Frame(d))
      /\ \A d \in Calls : Excused(d)' <=> Excused(d)
  BY <1>1, <1>2, <1>4, ReturnedStack
<1>9. TypeOK'
  BY <1>1, <1>4, <1>7, <1>8 DEF TypeOK
<1>10. FramesInv'
  BY <1>7, <1>8 DEF FramesInv
<1>11. \A d \in Calls : Below(d) # c
  BY <1>1, <1>2, InnermostCall
<1>12. PlacesInv'
  <2>1. \A d \in Calls : Below(d) # c /\ (d # c => d \in Calls' /\ Frame(d)' = Frame(d))
    BY <1>8, <1>11
  <2>2. /\ \A d \in Calls : d # c => Placed(d)'
        /\ \A k \in queued : Expects(k.parent)'
    BY <1>1, <1>4, <2>1, OthersPlaced
  <2> QED
    BY <1>1, <1>4, <1>6, <1>8, <2>2 DEF PlacesInv
<1>13. LocksInv'
  <2>1. \A d \in Calls' : d \in Calls /\ (Holding(d)' <=> Holding(d)) /\ Frame(d)' = Frame(d)
    BY <1>8 DEF Holding
  <2>2. \A t : Held(t)' <=> Held(t)
    BY <1>4, <1>5, <1>8, <2>1 DEF Held
  <2> QED
    BY <1>1, <1>4, <1>7, <2>1, <2>2 DEF LocksInv
<1>14. CountsInv'
  <2>1. \A m : TasksOf(m)' = TasksOf(m) /\ (m # p => CallsOf(m)' = CallsOf(m))
    BY <1>3, <1>4, <1>8 DEF CallsOf, TasksOf
  <2>2. CallsOf(p)' = CallsOf(p) \ {c}
    BY <1>8 DEF CallsOf
  <2>3. /\ IsFiniteSet(TasksOf(p)) /\ IsFiniteSet(CallsOf(p))
        /\ task_count[p] = StartCount(p) + Cardinality(TasksOf(p)) + Cardinality(CallsOf(p))
    BY <1>1, <1>7 DEF CountsInv
  <2>4. IsFiniteSet(CallsOf(p) \ {c}) /\ Cardinality(CallsOf(p) \ {c}) = Cardinality(CallsOf(p)) - 1
    BY <1>6, <2>3, FS_RemoveElement
  <2>5. Cardinality(TasksOf(p)) \in Nat /\ Cardinality(CallsOf(p)) \in Nat /\ StartCount(p) \in Nat
    BY <1>1, <1>7, <2>3, FS_CardinalityType, Counts
  <2> SUFFICES ASSUME NEW m \in Nodes
               PROVE  /\ IsFiniteSet(TasksOf(m)') /\ IsFiniteSet(CallsOf(m)')
                      /\ m = Root \/ task_count'[m] >= count_busy =>
                            task_count'[m] = StartCount(m) + Cardinality(TasksOf(m)') + Cardinality(CallsOf(m)')
    BY <1>7 DEF CountsInv
  <2>6. CASE m = p
    <3>1. TasksOf(m)' = TasksOf(p) /\ CallsOf(m)' = CallsOf(p) \ {c} /\ task_count'[m] = task_count[p] - 1
      BY <1>7, <2>1, <2>2, <2>6
    <3> QED
      BY <2>3, <2>4, <2>5, <2>6, <3>1
  <2>7. CASE m # p
    BY <1>1, <1>7, <2>1, <2>7 DEF CountsInv
  <2> QED
    BY <2>6, <2>7
<1>15. RootedInv'
  BY <1>1, <1>4, <1>8, RootedStays
<1>16. DoomInv'
  <2>1. \A d \in Calls : Holding(d) => d \in Calls' /\ Frame(d)' = Frame(d)
    BY <1>5, <1>8
  <2> QED
    BY <1>1, <1>4, <1>7, <1>8, <2>1, DoomStays
<1>17. StopInv'
  <2>1. ASSUME NEW d \in Calls'
        PROVE  Stopped(d)' \/ (d \in Calls /\ Frame(d)' = Frame(d) /\ (Above(d) \in Calls => Above(d) \in Calls'))
    <3>1. CASE Above(d) # c
      BY <1>8, <3>1
    <3>2. CASE Above(d) = c
      <4>1. d = <<d[1], d[2]>> /\ d[2] \in Nat /\ d[2] >= 1
        BY <1>1, <1>8, InCalls
      <4>2. Below(c) = d /\ c[2] > 1
        BY <3>2, <4>1 DEF Below, Above
      <4>3. Frame(d)'.step = "wait"
        BY <1>6, <1>8, <4>2
      <4> QED
        BY <4>3 DEF Stopped, StoppedCall
    <3> QED
      BY <3>1, <3>2
  <2> QED
    BY <1>1, <1>4, <1>7, <1>8, <2>1, StopStays
<1> QED
  BY <1>7, <1>9, <1>10, <1>12, <1>13, <1>14, <1>15, <1>16, <1>17 DEF IndInv

-----------------------------------------------------------------------------
(***************************************************************************)
(* The end of a call, of the operation, and the next one.                  *)
(***************************************************************************)
LEMMA EndKeeps == ASSUME IndInv, NEW u \in Threads, End(u) PROVE IndInv'
<1>1. /\ TypeOK /\ FramesInv /\ PlacesInv /\ LocksInv /\ CountsInv /\ PrerequisitesFirst /\ RootedInv
      /\ DoomInv /\ StopInv /\ stack \in [Threads -> Seq(Frames)]
  BY DEF IndInv, TypeOK
<1>2. PICK c \in Calls :
              /\ Innermost(u, c) /\ Frame(c) = Top(u) /\ Frame(c) \in Frames /\ Sound(Frame(c)) /\ Placed(c)
              /\ Above(c) \notin Calls
              /\ Frame(c).step # "done" =>
                    /\ Holding(c)
                    /\ Frame(c).target = Root \/ (Frame(c).target \in Targets /\ task_count[Frame(c).target] >= count_busy)
  BY TopCall DEF End, At
<1>3. PICK f : f = Frame(c)
  OBVIOUS
<1>4. PICK t : t = f.target
  OBVIOUS
<1>5. f.step = "end" /\ t # Root
  BY <1>2, <1>3, <1>4 DEF End, At
<1>6. /\ task_count' = [task_count EXCEPT ![t] = count_applied]
      /\ stack' = IF f.parent = t THEN Returned(u) ELSE Moved(u, GoTo(f, "done"))
      /\ prerequisites' = prerequisites /\ keep_going' = keep_going /\ current_on' = current_on
      /\ dependents' = dependents /\ queued' = queued /\ fail' = fail /\ result' = result
  BY <1>2, <1>3, <1>4 DEF End, EndCount, build
<1>7. PICK s \in IF f.bad THEN {"failed"} ELSE {"unknown", "unchanged"} : state' = [state EXCEPT ![t] = s]
  BY <1>2, <1>3, <1>4 DEF End
<1>8. /\ t \in Targets /\ t \in Nodes /\ task_count[t] >= count_busy /\ Holding(c) /\ f.bad \in BOOLEAN /\ f \in Frames
      /\ Sound(f)
  BY <1>1, <1>2, <1>3, <1>4, <1>5, FrameTypes DEF Nodes
<1>9. /\ count_applied \in Nat /\ count_busy = count_applied + 2 /\ Targets \subseteq Nodes
      /\ task_count \in [Nodes -> Nat] /\ \A m \in Nodes : task_count[m] \in Nat
  BY <1>1, Counts DEF TypeOK, Nodes
<1>10. /\ task_count' \in [Nodes -> Nat] /\ task_count'[t] = count_applied
       /\ \A m \in Nodes : m # t => task_count'[m] = task_count[m]
  BY <1>6, <1>8, <1>9
<1>11. /\ state' \in [Targets -> {"unknown", "unchanged", "failed"}] /\ state'[t] = s
       /\ \A m \in Targets : m # t => state'[m] = state[m]
       /\ s = "failed" <=> f.bad
  BY <1>1, <1>7, <1>8 DEF TypeOK
<1>12. Final
  <2>1. ASSUME NEW m \in Targets
        PROVE  /\ task_count[m] >= count_applied => task_count'[m] >= count_applied
               /\ task_count[m] = count_applied => task_count'[m] = task_count[m] /\ state'[m] = state[m]
    <3>1. task_count[m] \in Nat /\ m \in Nodes
      BY <1>9
    <3>2. CASE m = t
      BY <1>8, <1>9, <1>10, <3>1, <3>2
    <3>3. CASE m # t
      BY <1>9, <1>10, <1>11, <3>1, <3>3
    <3> QED
      BY <3>2, <3>3
  <2> QED
    BY <1>6, <2>1 DEF Final
<1>13. count_busy' = count_busy /\ count_applied' = count_applied /\ \A m : StartCount(m)' = StartCount(m)
  BY <1>12, FinalCounts
\* The stack: the call is gone, or done.
<1>14. /\ stack' \in [Threads -> Seq(Frames)] /\ (\A d \in Calls : d # c => d \in Calls' /\ Frame(d)' = Frame(d))
       /\ Calls' \subseteq Calls /\ \A d \in Calls : Excused(d)' <=> Excused(d)
       /\ f.parent = t => c \notin Calls'
       /\ f.parent # t => /\ c \in Calls' /\ Frame(c)' = GoTo(f, "done")
  <2>1. CASE f.parent = t
    <3>1. stack' = Returned(u)
      BY <1>6, <2>1
    <3> QED
      BY <1>1, <1>2, <2>1, <3>1, ReturnedStack
  <2>2. CASE f.parent # t
    <3>1. stack' = Moved(u, GoTo(f, "done"))
      BY <1>6, <2>2
    <3>2. GoTo(f, "done") \in Frames
      BY <1>8, GoToParts DEF Steps
    <3> QED
      BY <1>1, <1>2, <2>2, <3>1, <3>2, MovedStack
  <2> QED
    BY <2>1, <2>2
<1>15. c \in Calls' => /\ f.parent # t /\ Frame(c)' \in Frames /\ Frame(c)'.target = t /\ Frame(c)'.parent = f.parent
                       /\ Frame(c)'.step = "done" /\ Frame(c)'.next = f.next /\ Frame(c)'.last = f.last
                       /\ Frame(c)'.bad = f.bad
  <2>1. PICK g : g = GoTo(f, "done")
    OBVIOUS
  <2>2. /\ g \in Frames /\ g.target = f.target /\ g.parent = f.parent
        /\ g.step = "done" /\ g.next = f.next /\ g.last = f.last /\ g.bad = f.bad
    BY <1>8, <2>1, GoToParts DEF Steps
  <2> QED
    BY <1>4, <1>14, <2>1, <2>2
<1>16. \A d \in Calls : Below(d) # c
  BY <1>1, <1>2, InnermostCall
<1>17. TypeOK'
  BY <1>1, <1>6, <1>10, <1>11, <1>14 DEF TypeOK
<1>18. FramesInv'
  <2>1. ASSUME NEW d \in Calls', d # c PROVE Sound(Frame(d))'
    <3>1. PICK h : h = Frame(d)
      OBVIOUS
    <3>2. h \in Frames /\ Sound(h) /\ Frame(d)' = h /\ d \in Calls
      BY <1>1, <1>14, <2>1, <3>1, InCalls DEF FramesInv
    <3>3. h.step = "done" \/ h.target # t
      BY <1>1, <1>2, <1>3, <1>4, <1>8, <2>1, <3>1, <3>2 DEF LocksInv, Holding
    <3>4. h.step = "done" \/ task_count'[h.target] = task_count[h.target]
      BY <1>10, <3>2, <3>3 DEF Frames
    <3> QED
      BY <1>1, <1>12, <3>2, <3>4, SoundStays
  <2>2. c \in Calls' => Sound(Frame(c))'
    <3> SUFFICES ASSUME c \in Calls' PROVE Sound(Frame(c))'
      OBVIOUS
    <3>1. f.next >= 1 /\ f.last <= Len(prerequisites[t])
      BY <1>4, <1>8 DEF Sound, InRange
    <3>2. InRange(Frame(c))' /\ Settled(Frame(c))'
      BY <1>6, <1>15, <3>1 DEF InRange, Settled
    <3>3. Stepwise(Frame(c))' /\ Tried(Frame(c))' /\ Looked(Frame(c))'
      BY <1>5, <1>15 DEF Stepwise, Tried, Looked
    <3> QED
      BY <3>2, <3>3 DEF Sound
  <2> QED
    BY <2>1, <2>2 DEF FramesInv
<1>19. /\ \A q : Expects(q) => Expects(q)'
       /\ \A d \in Calls : d # c => Placed(d)'
       /\ \A d \in Calls : d[2] > 1 => Below(d) \in Calls /\ Below(d) \in Calls' /\ Frame(Below(d))' = Frame(Below(d))
       /\ \A k \in queued : Expects(k.parent)'
  <2>1. \A d \in Calls : Below(d) # c /\ (d # c => d \in Calls' /\ Frame(d)' = Frame(d))
    BY <1>14, <1>16
  <2> QED
    BY <1>1, <1>3, <1>5, <1>6, <2>1, OthersPlaced
<1>20. PlacesInv'
  <2>1. c \in Calls' => Placed(c)'
    <3> SUFFICES ASSUME c \in Calls' PROVE Placed(c)'
      OBVIOUS
    <3>1. ASSUME NEW q, q = Frame(c).parent, q # Frame(c).target PROVE Expects(q)'
      BY <1>2, <1>19, <3>1 DEF Placed
    <3> QED
      BY <1>2, <1>3, <1>4, <1>6, <1>15, <1>19, <3>1, PlacedStays
  <2>2. c # <<Main, 1>>
    BY <1>2, <1>3, <1>4, <1>5 DEF Placed
  <2>3. <<Main, 1>> \in Calls' <=> <<Main, 1>> \in Calls
    BY <1>14, <2>2
  <2>4. \A d \in Calls' : Placed(d)'
    BY <1>14, <1>19, <2>1
  <2> QED
    BY <1>1, <1>6, <1>19, <2>3, <2>4 DEF PlacesInv
<1>21. \A d \in Calls' : Holding(d)' <=> Holding(d) /\ d # c
  BY <1>14, <1>15 DEF Holding
<1>22. LocksInv'
  <2>1. \A q : Held(q)' <=> Held(q) /\ q # t
    <3>1. \A k \in queued : k.target # t
      BY <1>1, <1>2, <1>3, <1>4, <1>8 DEF LocksInv
    <3>2. \A d \in Calls : Holding(d) /\ Frame(d).target = t => d = c
      BY <1>1, <1>2, <1>3, <1>4, <1>8 DEF LocksInv
    <3>3. ASSUME NEW q, Held(q)' PROVE Held(q) /\ q # t
      BY <1>6, <1>14, <1>21, <3>1, <3>2, <3>3 DEF Held
    <3>4. ASSUME NEW q, Held(q), q # t PROVE Held(q)'
      <4>1. CASE \E k \in queued : k.target = q
        BY <1>6, <4>1 DEF Held
      <4>2. CASE \E d \in Calls : Holding(d) /\ Frame(d).target = q
        BY <1>3, <1>4, <1>14, <1>21, <3>4, <4>2 DEF Held
      <4> QED
        BY <3>4, <4>1, <4>2 DEF Held
    <3> QED
      BY <3>3, <3>4
  <2>2. \A x, y \in Calls' : Holding(x)' /\ Holding(y)' /\ Frame(x)'.target = Frame(y)'.target => x = y
    BY <1>1, <1>14, <1>21 DEF LocksInv
  <2>3. \A x \in Calls', k \in queued : Holding(x)' => Frame(x)'.target # k.target
    BY <1>1, <1>14, <1>21 DEF LocksInv
  <2>4. ASSUME NEW q \in Targets
        PROVE  /\ Held(q)' => task_count'[q] >= count_busy
               /\ ~fail /\ task_count'[q] >= count_busy => Held(q)'
               /\ task_count'[q] < count_busy => task_count'[q] <= count_applied
    <3>1. CASE q = t
      BY <1>9, <1>10, <2>1, <3>1
    <3>2. CASE q # t
      <4>1. task_count'[q] = task_count[q] /\ (Held(q)' <=> Held(q))
        BY <1>9, <1>10, <2>1, <3>2
      <4> QED
        BY <1>1, <4>1 DEF LocksInv
    <3> QED
      BY <3>1, <3>2
  <2>5. \A k, l \in queued : k.target = l.target => k = l
    BY <1>1 DEF LocksInv
  <2> QED
    BY <1>6, <1>13, <2>2, <2>3, <2>4, <2>5 DEF LocksInv
<1>23. CountsInv'
  <2>1. ASSUME NEW m PROVE CallsOf(m)' = CallsOf(m) /\ TasksOf(m)' = TasksOf(m)
    <3>1. TasksOf(m)' = TasksOf(m)
      BY <1>6 DEF TasksOf
    <3>2. \A d \in Calls : d # c => (d \in CallsOf(m)' <=> d \in CallsOf(m))
      BY <1>14 DEF CallsOf
    <3>3. c \in CallsOf(m)' <=> c \in CallsOf(m)
      BY <1>2, <1>3, <1>4, <1>14, <1>15 DEF CallsOf
    <3>4. CallsOf(m)' \subseteq Calls /\ CallsOf(m) \subseteq Calls
      BY <1>14 DEF CallsOf
    <3> QED
      BY <3>1, <3>2, <3>3, <3>4
  <2> SUFFICES ASSUME NEW m \in Nodes
               PROVE  /\ IsFiniteSet(TasksOf(m)') /\ IsFiniteSet(CallsOf(m)')
                      /\ m = Root \/ task_count'[m] >= count_busy =>
                            task_count'[m] = StartCount(m) + Cardinality(TasksOf(m)') + Cardinality(CallsOf(m)')
    BY <1>13 DEF CountsInv
  <2>2. CASE m = t
    BY <1>1, <1>5, <1>9, <1>10, <2>1, <2>2 DEF CountsInv
  <2>3. CASE m # t
    BY <1>1, <1>10, <2>1, <2>3 DEF CountsInv
  <2> QED
    BY <2>2, <2>3
<1>24. PrerequisitesFirst'
  <2>1. ASSUME NEW m \in Targets, Matched(m)' PROVE Matched(m) \/ \A p \in PrerequisitesOf(m) : Matched(p)
    <3>1. CASE m = t
      BY <1>4, <1>5, <1>8, <1>11, <2>1, <3>1 DEF Matched, Sound, Looked
    <3>2. CASE m # t
      BY <1>9, <1>10, <1>11, <1>13, <2>1, <3>2 DEF Matched
    <3> QED
      BY <3>1, <3>2
  <2> QED
    BY <1>1, <1>12, <2>1, PrerequisitesStay
<1>25. RootedInv'
  <2>1. \A d \in Calls' : /\ Frame(d)'.target = Frame(d).target /\ Frame(d)'.parent = Frame(d).parent
                          /\ Frame(d)'.step # "done" => Frame(d).step # "done"
    BY <1>3, <1>4, <1>14, <1>15
  <2> QED
    BY <1>1, <1>6, <1>14, <2>1, RootedStays
<1>26. DoomInv'
  <2>1. ASSUME NEW D \in SUBSET Nodes, NEW m \in Nodes, NEW d \in Calls,
               Frame(d).target = m, Holding(d), DoomedCall(Frame(d), D)
        PROVE  (d \in Calls' /\ Frame(d)' = Frame(d)) \/ Doomed(m, D)'
    <3>1. CASE d # c
      BY <1>14, <3>1
    <3>2. CASE d = c
      <4>1. f.bad /\ m = t
        BY <1>3, <1>4, <1>5, <2>1, <3>2 DEF DoomedCall
      <4> QED
        BY <1>5, <1>10, <1>11, <1>13, <4>1 DEF Doomed
    <3> QED
      BY <3>1, <3>2
  <2> QED
    BY <1>1, <1>6, <1>12, <1>14, <2>1, DoomStays
<1>27. StopInv'
  <2>1. ASSUME fail, ~keep_going, NEW d \in Calls'
        PROVE  Stopped(d)' \/ (d \in Calls /\ Frame(d)' = Frame(d) /\ (Above(d) \in Calls => Above(d) \in Calls'))
    <3>1. f.bad \/ Excused(c)
      BY <1>1, <1>2, <1>3, <1>4, <1>5, <2>1 DEF StopInv, Stopped, StoppedCall
    <3>2. CASE d = c
      BY <1>15, <3>2 DEF Stopped, StoppedCall
    <3>3. CASE d # c /\ (Above(d) # c \/ c \in Calls')
      BY <1>14, <3>3
    <3>4. CASE Above(d) = c /\ c \notin Calls'
      <4>1. d = <<d[1], d[2]>> /\ d[2] \in Nat /\ d[2] >= 1 /\ d # c
        BY <1>1, <1>14, <3>4, InCalls
      <4>2. Below(c) = d /\ c[2] > 1
        BY <3>4, <4>1 DEF Below, Above
      <4>3. f.parent = t
        BY <1>14, <3>4
      <4>4. PICK g : g = Frame(d)
        OBVIOUS
      <4>5. g.step \in {"start", "finish"} /\ More(g) /\ Prerequisite(g) = t /\ Frame(d)' = g
        BY <1>2, <1>3, <1>4, <1>5, <1>14, <4>1, <4>2, <4>3, <4>4 DEF Placed
      <4>6. More(g)' /\ Prerequisite(g)' = t
        BY <1>12, <4>5, FinalCounts
      <4>7. CASE f.bad
        <5>1. StoppedCall(Frame(d))'
          BY <1>10, <1>11, <1>13, <4>5, <4>6, <4>7 DEF StoppedCall, More, Prerequisite
        <5> QED
          BY <5>1 DEF Stopped
      <4>8. CASE Excused(c)
        <5>1. Excused(d)
          BY <1>1, <1>14, <3>4, <4>4, <4>5, <4>8, AboveExcused
        <5> QED
          BY <1>14, <5>1 DEF Stopped
      <4> QED
        BY <3>1, <4>7, <4>8
    <3> QED
      BY <3>2, <3>3, <3>4
  <2> QED
    BY <1>1, <1>6, <1>12, <1>14, <2>1, StopStays
<1> QED
  BY <1>17, <1>18, <1>20, <1>22, <1>23, <1>24, <1>25, <1>26, <1>27 DEF IndInv

LEMMA OperationMatchedKeeps == ASSUME IndInv, NEW u \in Threads, OperationMatched(u) PROVE IndInv'
<1>1. /\ TypeOK /\ FramesInv /\ PlacesInv /\ LocksInv /\ CountsInv /\ PrerequisitesFirst /\ RootedInv
      /\ DoomInv /\ StopInv /\ stack \in [Threads -> Seq(Frames)]
  BY DEF IndInv, TypeOK
<1>2. PICK c \in Calls : Innermost(u, c) /\ Frame(c) = Top(u) /\ Frame(c) \in Frames /\ Sound(Frame(c)) /\ Placed(c)
  BY TopCall DEF OperationMatched, At
<1>3. Frame(c).step = "end" /\ Frame(c).target = Root /\ c = <<Main, 1>> /\ Frame(c).parent = Root
  BY <1>2 DEF OperationMatched, At, Placed, Sound, Stepwise
<1>4. /\ stack' = Returned(u) /\ task_count' = task_count /\ queued' = queued
      /\ dependents' = dependents /\ prerequisites' = prerequisites /\ keep_going' = keep_going
      /\ current_on' = current_on /\ state' = state /\ fail' = fail
      /\ result' = IF Frame(c).bad THEN "failed" ELSE "matched"
  BY <1>2 DEF OperationMatched, build
<1>5. /\ stack' \in [Threads -> Seq(Frames)] /\ Calls' = Calls \ {c} /\ (\A d \in Calls : d # c => Frame(d)' = Frame(d))
      /\ \A d \in Calls : Excused(d)' <=> Excused(d)
  BY <1>1, <1>2, <1>4, ReturnedStack
<1>6. Final
  BY <1>4 DEF Final
<1>7. count_busy' = count_busy /\ count_applied' = count_applied /\ \A m : StartCount(m)' = StartCount(m)
  BY <1>6, FinalCounts
<1>8. result = "running" /\ result' \in {"failed", "matched"}
  BY <1>1, <1>2, <1>3, <1>4 DEF PlacesInv
<1>9. TypeOK'
  BY <1>1, <1>4, <1>5, <1>8 DEF TypeOK
<1>10. FramesInv'
  <2> SUFFICES ASSUME NEW d \in Calls' PROVE Sound(Frame(d))'
    BY DEF FramesInv
  <2>1. PICK h : h = Frame(d)
    OBVIOUS
  <2>2. h \in Frames /\ Sound(h) /\ Frame(d)' = h
    BY <1>1, <1>5, <2>1, InCalls DEF FramesInv
  <2> QED
    BY <1>1, <1>4, <1>6, <2>2, SoundStays
<1>11. \A d \in Calls : Below(d) # c
  BY <1>1, <1>2, InnermostCall
<1>12. PlacesInv'
  <2>1. \A d \in Calls : Below(d) # c /\ (d # c => d \in Calls' /\ Frame(d)' = Frame(d))
    BY <1>5, <1>11
  <2>2. /\ \A d \in Calls : d # c => Placed(d)'
        /\ \A k \in queued : Expects(k.parent)'
    BY <1>1, <1>3, <1>4, <2>1, OthersPlaced
  <2> QED
    BY <1>3, <1>4, <1>5, <1>8, <2>2 DEF PlacesInv
<1>13. LocksInv'
  <2>1. \A d \in Calls' : d \in Calls /\ (Holding(d)' <=> Holding(d)) /\ Frame(d)' = Frame(d)
    BY <1>5 DEF Holding
  <2>2. \A t \in Targets : Held(t)' <=> Held(t)
    BY <1>3, <1>4, <1>5, <2>1, MatchAssumption DEF Held
  <2> QED
    BY <1>1, <1>4, <1>7, <2>1, <2>2 DEF LocksInv
<1>14. CountsInv'
  <2>1. \A m : TasksOf(m)' = TasksOf(m) /\ CallsOf(m)' = CallsOf(m)
    BY <1>3, <1>4, <1>5 DEF CallsOf, TasksOf
  <2> QED
    BY <1>1, <1>4, <1>7, <2>1 DEF CountsInv
<1>15. PrerequisitesFirst'
  BY <1>1, <1>4, <1>6, <1>7, PrerequisitesStay DEF Matched
<1>16. RootedInv'
  BY <1>1, <1>4, <1>5, RootedStays
<1>17. DoomInv'
  <2>1. ASSUME NEW D \in SUBSET Nodes, NEW m \in Nodes, NEW d \in Calls,
               Frame(d).target = m, Holding(d), DoomedCall(Frame(d), D)
        PROVE  (d \in Calls' /\ Frame(d)' = Frame(d)) \/ Doomed(m, D)'
    <3>1. CASE d # c
      BY <1>5, <3>1
    <3>2. CASE d = c
      <4>1. Frame(c).bad /\ m = Root
        BY <1>3, <2>1, <3>2 DEF DoomedCall
      <4> QED
        BY <1>4, <4>1 DEF Doomed
    <3> QED
      BY <3>1, <3>2
  <2> QED
    BY <1>1, <1>4, <1>5, <1>6, <1>8, <2>1, DoomStays
<1>18. StopInv'
  <2>1. ASSUME NEW d \in Calls' PROVE d \in Calls /\ Frame(d)' = Frame(d) /\ (Above(d) \in Calls => Above(d) \in Calls')
    <3>1. d = <<d[1], d[2]>> /\ d[2] \in Nat /\ d[2] >= 1 /\ d \in Calls
      BY <1>1, <1>5, InCalls
    <3>2. Above(d) # c
      BY <1>3, <3>1 DEF Above
    <3> QED
      BY <1>5, <3>1, <3>2
  <2> QED
    BY <1>1, <1>4, <1>5, <1>6, <2>1, StopStays
<1> QED
  BY <1>9, <1>10, <1>12, <1>13, <1>14, <1>15, <1>16, <1>17, <1>18 DEF IndInv

\* An operation begins.
Fresh ==
    /\ TypeOK /\ Calls = {<<Main, 1>>} /\ Frame(<<Main, 1>>) = Call(Root, {}, Root)
    /\ queued = {} /\ ~fail /\ result = "running"
    /\ task_count[Root] = 0 /\ \A t \in Targets : task_count[t] < count_applied

LEMMA FreshKeeps == Fresh => IndInv
<1> SUFFICES ASSUME Fresh PROVE IndInv
  OBVIOUS
<1>1. /\ TypeOK /\ Calls = {<<Main, 1>>} /\ Frame(<<Main, 1>>) = Call(Root, {}, Root)
      /\ queued = {} /\ ~fail /\ result = "running"
      /\ task_count[Root] = 0 /\ \A t \in Targets : task_count[t] < count_applied
  BY DEF Fresh
<1>2. PICK c : c = <<Main, 1>>
  OBVIOUS
<1>3. PICK g : g = Frame(c)
  OBVIOUS
<1>4. Calls = {c} /\ c[1] = Main /\ c[2] = 1
  BY <1>1, <1>2
<1>5. /\ g \in Frames /\ g.target = Root /\ g.parent = Root /\ g.next = 1 /\ g.last = Len(prerequisites[Root])
      /\ ~g.bad /\ g.step = "start"
  <2>1. Root \in Nodes /\ {} \in SUBSET Targets
    BY DEF Nodes
  <2> QED
    BY <1>1, <1>2, <1>3, <2>1, CallParts
<1>6. g.last \in Nat /\ StartCount(Root) = 0
  BY <1>1, <1>5, FrameTypes, Counts
<1>7. /\ count_applied \in Nat /\ count_busy = count_applied + 2 /\ \A t \in Targets : task_count[t] \in Nat
  BY <1>1, Counts DEF TypeOK, Nodes
<1>8. FramesInv
  <2>1. InRange(g)
    BY <1>5, <1>6 DEF InRange
  <2>2. Stepwise(g) /\ Settled(g) /\ Tried(g) /\ Looked(g)
    BY <1>1, <1>5, <1>6 DEF Stepwise, Settled, Tried, Looked
  <2> QED
    BY <1>3, <1>4, <2>1, <2>2 DEF FramesInv, Sound
<1>9. PlacesInv
  BY <1>1, <1>2, <1>3, <1>4, <1>5 DEF PlacesInv, Placed
<1>10. ASSUME NEW t \in Targets PROVE ~Held(t) /\ task_count[t] < count_busy /\ task_count[t] <= count_applied
  BY <1>1, <1>3, <1>4, <1>5, <1>7, MatchAssumption DEF Held
<1>11. LocksInv
  BY <1>1, <1>4, <1>7, <1>10 DEF LocksInv
<1>12. CountsInv
  <2>1. \A n : TasksOf(n) = {} /\ CallsOf(n) = {}
    BY <1>1, <1>3, <1>4, <1>5 DEF TasksOf, CallsOf
  <2>2. IsFiniteSet({}) /\ Cardinality({}) = 0
    BY FS_EmptySet
  <2>3. \A n \in Nodes : n = Root \/ task_count[n] < count_busy
    BY <1>10 DEF Nodes
  <2> QED
    BY <1>1, <1>6, <1>7, <2>1, <2>2, <2>3 DEF CountsInv, Nodes
<1>13. PrerequisitesFirst
  BY <1>1, <1>7 DEF PrerequisitesFirst, Matched
<1>14. RootedInv
  <2>1. \A t \in Targets : \A p : ~Up(t, p)
    BY <1>1, <1>3, <1>4, <1>5, MatchAssumption DEF Up
  <2> QED
    BY <2>1 DEF RootedInv
<1>15. DoomInv /\ StopInv
  BY <1>1 DEF DoomInv, StopInv
<1> QED
  BY <1>1, <1>8, <1>9, <1>11, <1>12, <1>13, <1>14, <1>15 DEF IndInv

LEMMA FreshNext == Fresh' => IndInv'
BY FreshKeeps, PTL

LEMMA InitFresh == Init => Fresh
<1> SUFFICES ASSUME Init PROVE Fresh
  OBVIOUS
<1>1. PICK g : g = Call(Root, {}, Root)
  OBVIOUS
<1>2. /\ prerequisites \in Graphs /\ keep_going \in KeepGoings /\ current_on = 1
      /\ task_count = [n \in Nodes |-> 0] /\ state = [t \in Targets |-> "unknown"]
      /\ dependents = [t \in Targets |-> 0]
      /\ stack = [u \in Threads |-> IF u = Main THEN <<g>> ELSE <<>>]
      /\ queued = {} /\ fail = FALSE /\ result = "running"
  BY <1>1 DEF Init
<1>3. Root \in Nodes /\ {} \in SUBSET Targets /\ Targets \subseteq Nodes /\ Main \in Threads
  BY DEF Nodes, Threads
<1>4. g \in Frames
  BY <1>1, <1>2, <1>3, CallFrames
<1>5. <<g>> \in Seq(Frames) /\ <<>> \in Seq(Frames)
  BY <1>4
<1>6. stack \in [Threads -> Seq(Frames)]
  BY <1>2, <1>5
<1>7. TypeOK
  <2>1. 1 \in 1 .. MaxOperations
    BY MatchAssumption
  <2> QED
    BY <1>2, <1>6, <2>1 DEF TypeOK
<1>8. stack[Main] = <<g>> /\ Len(stack[Main]) = 1 /\ \A u \in Threads : u # Main => Len(stack[u]) = 0
  BY <1>2, <1>3
<1>9. Calls = {<<Main, 1>>}
  <2>1. \A d \in Calls : d = <<Main, 1>>
    BY <1>6, <1>8, InCalls
  <2>2. <<Main, 1>> \in Calls
    BY <1>3, <1>6, <1>8, InCalls
  <2> QED
    BY <2>1, <2>2
<1>10. Frame(<<Main, 1>>) = g
  BY <1>8 DEF Frame
<1>11. \A t \in Targets : task_count[t] < count_applied
  BY <1>2, <1>3 DEF count_applied, count_base
<1> QED
  BY <1>1, <1>2, <1>3, <1>7, <1>9, <1>10, <1>11 DEF Fresh

LEMMA InitKeeps == Init => IndInv
BY InitFresh, FreshKeeps

LEMMA NextOperationFresh == ASSUME IndInv, NextOperation PROVE Fresh'
<1>1. /\ TypeOK /\ FramesInv /\ PlacesInv /\ LocksInv /\ CountsInv /\ RootedInv
      /\ DoomInv /\ stack \in [Threads -> Seq(Frames)]
  BY DEF IndInv, TypeOK
<1>2. PICK g : g = Call(Root, {}, Root)
  OBVIOUS
<1>3. PICK executed \in {{}, Targets} :
         /\ task_count' = [n \in Nodes |-> IF n \in executed /\ task_count[n] = count_applied
                                             THEN count_executed ELSE task_count[n]]
         /\ dependents' = [t \in Targets |-> IF t \in executed THEN 0 ELSE dependents[t]]
  BY DEF NextOperation
<1>4. /\ result = "matched" /\ current_on < MaxOperations /\ current_on' = current_on + 1
      /\ stack' = Called(Main, g) /\ result' = "running"
      /\ prerequisites' = prerequisites /\ keep_going' = keep_going
      /\ state' = state /\ queued' = queued /\ fail' = fail
  BY <1>2 DEF NextOperation, build
<1>5. Calls = {} /\ queued = {}
  BY <1>1, <1>4, NothingWithoutRoot DEF PlacesInv
<1>6. ~fail
  <2> SUFFICES ASSUME fail PROVE FALSE
    OBVIOUS
  <2>1. PICK D \in SUBSET Nodes : Root \in D /\ \A n \in D : Doomed(n, D)
    BY <1>1 DEF DoomInv
  <2>2. Doomed(Root, D)
    BY <2>1
  <2> QED
    BY <1>4, <1>5, <2>2 DEF Doomed
<1>7. /\ Root \in Nodes /\ {} \in SUBSET Targets /\ Targets \subseteq Nodes /\ Main \in Threads /\ Root \notin Targets
      /\ executed \subseteq Targets
  BY <1>3, MatchAssumption DEF Nodes, Threads
<1>8. g \in Frames
  BY <1>1, <1>2, <1>7, CallParts
<1>9. Len(stack[Main]) = 0
  <2>1. Len(stack[Main]) \in Nat /\ <<Main, 1>> \notin Calls
    BY <1>1, <1>5, <1>7
  <2>2. 1 \notin 1 .. Len(stack[Main])
    BY <1>1, <1>7, <2>1, InCalls
  <2> QED
    BY <2>1, <2>2
<1>10. /\ stack' \in [Threads -> Seq(Frames)] /\ Calls' = {<<Main, 1>>} /\ Frame(<<Main, 1>>)' = g
  <2>1. PICK c : c = <<Main, Len(stack[Main]) + 1>>
    OBVIOUS
  <2>2. c = <<Main, 1>>
    BY <1>9, <2>1
  <2>3. stack' \in [Threads -> Seq(Frames)] /\ Calls' = Calls \cup {c} /\ Frame(c)' = g
    BY <1>1, <1>4, <1>7, <1>8, <2>1, CalledStack
  <2> QED
    BY <1>5, <2>2, <2>3
<1>11. Frame(<<Main, 1>>)' = Call(Root, {}, Root)'
  BY <1>2, <1>4, <1>10 DEF Call
<1>12. /\ count_applied \in Nat /\ count_executed = count_applied + 1 /\ count_busy = count_applied + 2
       /\ task_count \in [Nodes -> Nat] /\ \A n \in Nodes : task_count[n] \in Nat
  BY <1>1, Counts DEF TypeOK
<1>13. count_applied' = count_applied + 5
  <2>1. current_on \in Nat /\ current_on >= 1
    BY <1>1 DEF TypeOK
  <2> QED
    BY <1>4, <2>1 DEF count_applied, count_base
<1>14. task_count[Root] = 0
  <2>1. TasksOf(Root) = {} /\ CallsOf(Root) = {}
    BY <1>5 DEF TasksOf, CallsOf
  <2>2. Cardinality({}) = 0 /\ StartCount(Root) = 0
    BY <1>1, FS_EmptySet, Counts
  <2>3. task_count[Root] = StartCount(Root) + Cardinality(TasksOf(Root)) + Cardinality(CallsOf(Root))
    BY <1>1, <1>7 DEF CountsInv
  <2> QED
    BY <2>1, <2>2, <2>3
<1>15. \A t \in Targets : task_count[t] <= count_applied
  <2>1. \A t \in Targets : ~Held(t)
    BY <1>5 DEF Held
  <2> QED
    BY <1>1, <1>6, <1>7, <1>12, <2>1 DEF LocksInv
<1>16. task_count' \in [Nodes -> Nat] /\ task_count'[Root] = 0 /\ \A t \in Targets : task_count'[t] < count_applied'
  <2>1. count_executed \in Nat
    BY <1>12
  <2>2. task_count' \in [Nodes -> Nat]
    BY <1>3, <1>12, <2>1
  <2>3. task_count'[Root] = 0
    BY <1>3, <1>7, <1>14
  <2>4. ASSUME NEW t \in Targets PROVE task_count'[t] < count_applied'
    <3>1. task_count'[t] \in {count_executed, task_count[t]} /\ task_count[t] \in Nat /\ task_count[t] <= count_applied
      BY <1>3, <1>7, <1>12, <1>15
    <3> QED
      BY <1>12, <1>13, <3>1
  <2> QED
    BY <2>2, <2>3, <2>4
<1>17. TypeOK'
  <2>1. dependents' \in [Targets -> Nat]
    BY <1>1, <1>3 DEF TypeOK
  <2>2. current_on' \in 1 .. MaxOperations
    BY <1>1, <1>4, MatchAssumption DEF TypeOK
  <2> QED
    BY <1>1, <1>4, <1>10, <1>16, <2>1, <2>2 DEF TypeOK
<1> QED
  BY <1>4, <1>5, <1>6, <1>10, <1>11, <1>16, <1>17 DEF Fresh

LEMMA StutterKeeps == ASSUME IndInv, UNCHANGED vars PROVE IndInv'
<1>1. /\ prerequisites' = prerequisites /\ keep_going' = keep_going /\ current_on' = current_on
      /\ task_count' = task_count /\ state' = state /\ dependents' = dependents /\ stack' = stack
      /\ queued' = queued /\ fail' = fail /\ result' = result
  BY DEF vars, build
<1>2. Calls' = Calls /\ \A d : Frame(d)' = Frame(d) /\ (Holding(d)' <=> Holding(d)) /\ (Excused(d)' <=> Excused(d))
  BY <1>1 DEF Calls, Frame, Holding, Excused
<1>3. /\ count_busy' = count_busy /\ count_applied' = count_applied /\ (\A n : StartCount(n)' = StartCount(n))
      /\ \A t : Matched(t)' <=> Matched(t)
  BY <1>1 DEF count_busy, count_applied, count_base, StartCount, Matched
<1>4. TypeOK' /\ PrerequisitesFirst'
  BY <1>1, <1>3 DEF IndInv, TypeOK, PrerequisitesFirst, PrerequisitesOf
<1>5. FramesInv'
  <2> SUFFICES ASSUME NEW d \in Calls PROVE Sound(Frame(d))'
    BY <1>2 DEF FramesInv
  <2>1. Frame(d) \in Frames /\ Sound(Frame(d)) /\ TypeOK
    BY InCalls DEF IndInv, FramesInv, TypeOK
  <2>2. Final
    BY <1>1 DEF Final
  <2>3. Frame(d)' = Frame(d) /\ task_count'[Frame(d).target] = task_count[Frame(d).target]
    BY <1>1, <1>2
  <2> QED
    BY <2>1, <2>2, <2>3, SoundStays
<1>6. PlacesInv'
  BY <1>1, <1>2 DEF IndInv, PlacesInv, Placed, Expects, More, Prerequisite
<1>7. LocksInv'
  BY <1>1, <1>2, <1>3 DEF IndInv, LocksInv, Held
<1>8. CountsInv'
  BY <1>1, <1>2, <1>3 DEF IndInv, CountsInv, TasksOf, CallsOf
<1>9. RootedInv'
  <2>1. stack' \in [Threads -> Seq(Frames)]
    BY <1>1 DEF IndInv, TypeOK
  <2> QED
    BY <1>1, <1>2, <2>1, RootedStays DEF IndInv
<1>10. DoomInv'
  BY <1>1, <1>2, <1>3 DEF IndInv, DoomInv, Doomed, DoomedCall
<1>11. StopInv'
  BY <1>1, <1>2, <1>3 DEF IndInv, StopInv, Stopped, StoppedCall, More, Prerequisite, Above
<1> QED
  BY <1>4, <1>5, <1>6, <1>7, <1>8, <1>9, <1>10, <1>11 DEF IndInv

LEMMA StepKeeps == ASSUME IndInv, NEW u \in Threads, Step(u) PROVE IndInv'
<1>1. CASE AsyncQueued(u)
  BY <1>1, AsyncQueuedKeeps
<1>2. CASE AsyncSync(u) \/ MatchLocked(u)
  BY <1>2, CallKeeps
<1>3. CASE AsyncBusy(u) \/ AsyncCycle(u) \/ AsyncApplied(u) \/ AsyncAll(u)
  BY <1>3, StartMoves
<1>4. CASE WaitDone(u)
  BY <1>4, WaitDoneKeeps
<1>5. CASE MatchApplied(u) \/ MatchCycle(u) \/ MatchBusy(u) \/ LockWaited(u) \/ MatchAll(u)
  BY <1>5, FinishMoves
<1>6. CASE RuleFails(u)
  BY <1>6, RuleFailsKeeps
<1>7. CASE Load(u)
  BY <1>7, LoadKeeps
<1>8. CASE End(u)
  BY <1>8, EndKeeps
<1>9. CASE TaskDone(u)
  BY <1>9, TaskDoneKeeps
<1>10. CASE OperationMatched(u)
  BY <1>10, OperationMatchedKeeps
<1>11. CASE \E task \in queued : TaskStart(u, task) \/ TaskFails(u, task)
  BY <1>11, TaskStartKeeps, TaskFailsKeeps
<1> QED
  BY <1>1, <1>2, <1>3, <1>4, <1>5, <1>6, <1>7, <1>8, <1>9, <1>10, <1>11 DEF Step

LEMMA NextKeeps == IndInv /\ [Next]_vars => IndInv'
BY StepKeeps, NextOperationFresh, FreshNext, StutterKeeps DEF Next, BuildDone

LEMMA Invariance == Spec => []IndInv
BY InitKeeps, NextKeeps, PTL DEF Spec

-----------------------------------------------------------------------------
(***************************************************************************)
(* What a single step may do to what has been matched.                     *)
(***************************************************************************)
LEMMA StepEffect ==
    ASSUME IndInv, NEW u \in Threads, Step(u)
    PROVE  /\ prerequisites' = prerequisites /\ current_on' = current_on /\ (fail => fail')
           /\ \A t \in Targets :
                 /\ task_count[t] = count_applied => task_count'[t] = task_count[t] /\ state'[t] = state[t]
                 /\ fail /\ ~keep_going /\ Matched(t)' =>
                       Matched(t) \/ (Unwinding(u) /\ At(u, "end") /\ Top(u).target = t)
                 /\ Matched(t)' => Matched(t) \/ \A p \in PrerequisitesOf(t) : Matched(p)
<1> DEFINE Effect ==
             \A t \in Targets :
                 /\ task_count[t] = count_applied => task_count'[t] = task_count[t] /\ state'[t] = state[t]
                 /\ fail /\ ~keep_going /\ Matched(t)' =>
                       Matched(t) \/ (Unwinding(u) /\ At(u, "end") /\ Top(u).target = t)
                 /\ Matched(t)' => Matched(t) \/ \A p \in PrerequisitesOf(t) : Matched(p)
<1>1. prerequisites' = prerequisites /\ current_on' = current_on
  BY DEF build, Step, AsyncQueued, AsyncSync, AsyncBusy, AsyncCycle, AsyncApplied, AsyncAll, WaitDone, MatchLocked,
         MatchApplied, MatchCycle, MatchBusy, LockWaited, MatchAll, RuleFails, Load, End, TaskStart, TaskFails,
         TaskDone, OperationMatched
<1>2. fail => fail'
  BY DEF Step, AsyncQueued, AsyncSync, AsyncBusy, AsyncCycle, AsyncApplied, AsyncAll, WaitDone, MatchLocked,
         MatchApplied, MatchCycle, MatchBusy, LockWaited, MatchAll, RuleFails, Load, End, TaskStart, TaskFails,
         TaskDone, OperationMatched
<1>3. /\ TypeOK /\ PlacesInv /\ FramesInv /\ StopInv /\ count_applied' = count_applied
      /\ count_applied \in Nat /\ count_busy \in Nat /\ count_busy = count_applied + 2
      /\ \A t \in Targets : t \in Nodes /\ task_count[t] \in Nat
      /\ task_count \in [Nodes -> Nat] /\ state \in [Targets -> {"unknown", "unchanged", "failed"}]
  BY <1>1, Counts DEF IndInv, TypeOK, Nodes, count_applied, count_base
<1>4. ASSUME task_count' = task_count, state' = state PROVE Effect
  BY <1>3, <1>4 DEF Matched
<1>5. ASSUME AsyncQueued(u) \/ AsyncSync(u) \/ MatchLocked(u) PROVE Effect
  <2>1. PICK c \in Calls, t \in Targets :
              /\ Frame(c) = Top(u) /\ Frame(c).target \in Nodes
              /\ Frame(c).target = Root \/ (Frame(c).target \in Targets /\ task_count[Frame(c).target] >= count_busy)
              /\ t = Prerequisite(Frame(c))
              /\ t # Frame(c).target /\ t # Root /\ t \in Nodes
              /\ task_count[t] \in Nat /\ task_count[t] < count_applied
    BY <1>5, Locking DEF AsyncQueued, AsyncSync, MatchLocked
  <2>2. /\ state' = state
        /\ \/ task_count' = TaskAdded(t, Frame(c).target)
           \/ task_count' = [task_count EXCEPT ![t] = count_busy]
    BY <1>5, <2>1 DEF AsyncQueued, AsyncSync, MatchLocked
  <2>3. ASSUME NEW q \in Targets, task_count[q] = count_applied PROVE task_count'[q] = task_count[q]
    <3>1. q # t /\ q # Frame(c).target
      BY <1>3, <2>1, <2>3, MatchAssumption
    <3> QED
      BY <1>3, <2>2, <3>1 DEF TaskAdded
  <2>4. ASSUME NEW q \in Targets, Matched(q)' PROVE Matched(q)
    <3>1. PICK n : n = Frame(c).target
      OBVIOUS
    <3>2. task_count'[q] = count_applied /\ state[q] # "failed" /\ task_count[n] \in Nat
      BY <1>3, <2>1, <2>2, <2>4, <3>1 DEF Matched
    <3>3. CASE q = t
      <4>1. task_count'[t] = count_busy
        BY <1>3, <2>1, <2>2 DEF TaskAdded
      <4> QED
        BY <1>3, <3>2, <3>3, <4>1
    <3>4. CASE q = n /\ q # t
      <4>1. task_count[n] >= count_busy
        BY <2>1, <3>1, <3>4, MatchAssumption
      <4>2. task_count'[n] \in {task_count[n], task_count[n] + 1}
        BY <1>3, <2>1, <2>2, <3>1 DEF TaskAdded
      <4> QED
        BY <1>3, <3>2, <3>4, <4>1, <4>2
    <3>5. CASE q # t /\ q # n
      <4>1. task_count'[q] = task_count[q]
        BY <1>3, <2>2, <3>1, <3>5 DEF TaskAdded
      <4> QED
        BY <3>2, <4>1 DEF Matched
    <3> QED
      BY <3>3, <3>4, <3>5
  <2> QED
    BY <2>1, <2>2, <2>3, <2>4
<1>6. ASSUME TaskDone(u) \/ \E task \in queued : TaskFails(u, task) PROVE Effect
  <2>1. \E p : /\ Expects(p) /\ (TasksOf(p) # {} \/ CallsOf(p) # {})
               /\ task_count' = [task_count EXCEPT ![p] = @ - 1] /\ UNCHANGED <<build, current_on, state>>
    <3>1. CASE TaskDone(u)
      <4>1. PICK c \in Calls : Frame(c) = Top(u) /\ Sound(Frame(c)) /\ Placed(c)
        BY <3>1, TopCall DEF TaskDone, At
      <4>2. Frame(c).parent # Frame(c).target
        BY <3>1, <4>1 DEF TaskDone, At, Sound, Stepwise
      <4>3. Expects(Frame(c).parent) /\ c \in CallsOf(Frame(c).parent)
        BY <4>1, <4>2 DEF Placed, CallsOf
      <4> QED
        BY <3>1, <4>1, <4>3 DEF TaskDone
    <3>2. CASE \E task \in queued : TaskFails(u, task)
      <4>1. PICK task \in queued : TaskFails(u, task)
        BY <3>2
      <4>2. Expects(task.parent) /\ task \in TasksOf(task.parent)
        BY <1>3 DEF PlacesInv, TasksOf
      <4> QED
        BY <4>1, <4>2 DEF TaskFails
    <3> QED
      BY <1>6, <3>1, <3>2
  <2>2. PICK p : /\ Expects(p) /\ (TasksOf(p) # {} \/ CallsOf(p) # {})
                 /\ task_count' = [task_count EXCEPT ![p] = @ - 1] /\ UNCHANGED <<build, current_on, state>>
    BY <2>1
  <2>3. /\ Final /\ task_count' \in [Nodes -> Nat]
        /\ \A t \in Targets : task_count'[t] < count_busy => task_count'[t] = task_count[t]
    BY <2>2, TaskOver
  <2>4. ASSUME NEW t \in Targets, Matched(t)' PROVE Matched(t)
    <3>1. task_count'[t] = count_applied /\ state[t] # "failed"
      BY <1>3, <2>2, <2>4 DEF Matched
    <3>2. task_count'[t] < count_busy
      BY <1>3, <3>1
    <3> QED
      BY <2>3, <3>1, <3>2 DEF Matched
  <2> QED
    BY <2>3, <2>4 DEF Final
<1>7. ASSUME End(u) PROVE Effect
  <2>1. PICK c \in Calls :
              /\ Innermost(u, c) /\ Frame(c) = Top(u) /\ Frame(c) \in Frames /\ Above(c) \notin Calls /\ Sound(Frame(c))
              /\ Frame(c).step # "done" =>
                    Frame(c).target = Root \/ (Frame(c).target \in Targets /\ task_count[Frame(c).target] >= count_busy)
    BY <1>7, TopCall DEF End, At
  <2>2. PICK f : f = Frame(c)
    OBVIOUS
  <2>3. PICK t : t = f.target
    OBVIOUS
  <2>4. f.step = "end" /\ t # Root /\ t \in Targets /\ task_count[t] >= count_busy
    BY <1>7, <2>1, <2>2, <2>3 DEF End, At
  <2>5. PICK s \in IF f.bad THEN {"failed"} ELSE {"unknown", "unchanged"} : state' = [state EXCEPT ![t] = s]
    BY <1>7, <2>1, <2>2, <2>3 DEF End
  <2>6. task_count' = [task_count EXCEPT ![t] = count_applied]
    BY <1>7, <2>1, <2>2, <2>3 DEF End, EndCount
  <2>7. ASSUME NEW q \in Targets, q # t PROVE task_count'[q] = task_count[q] /\ state'[q] = state[q]
    BY <1>3, <2>5, <2>6, <2>7
  <2>8. task_count[t] # count_applied
    BY <1>3, <2>4
  <2>9. ASSUME fail, ~keep_going, ~Unwinding(u) PROVE ~Matched(t)'
    <3>1. ~Excused(c)
      BY <1>3, <2>1, <2>9, InnermostCall DEF TypeOK
    <3>2. f.bad
      BY <1>3, <2>1, <2>2, <2>3, <2>4, <2>9, <3>1 DEF StopInv, Stopped, StoppedCall
    <3> QED
      BY <1>3, <2>4, <2>5, <3>2 DEF Matched
  <2>10. Matched(t)' => \A p \in PrerequisitesOf(t) : Matched(p)
    <3>1. Matched(t)' => ~f.bad
      BY <1>3, <2>4, <2>5 DEF Matched
    <3> QED
      BY <2>1, <2>2, <2>3, <2>4, <3>1 DEF Sound, Looked
  <2>11. At(u, "end") /\ Top(u).target = t
    BY <1>7, <2>1, <2>2, <2>3 DEF End
  <2> QED
    BY <1>3, <2>7, <2>8, <2>9, <2>10, <2>11 DEF Matched
<1>8. Effect
  BY <1>4, <1>5, <1>6, <1>7
     DEF Step, AsyncBusy, AsyncCycle, AsyncApplied, AsyncAll, WaitDone,
         MatchApplied, MatchCycle, MatchBusy, LockWaited, MatchAll, RuleFails, Load, TaskStart, OperationMatched
<1> QED
  BY <1>1, <1>2, <1>8

\* After a failed load the operation does not pass for matched.
FailureReported == fail => result # "matched"

LEMMA FailureIsResult == IndInv => FailureReported
<1> USE DEF FailureReported
<1> SUFFICES ASSUME IndInv, fail, result = "matched" PROVE FALSE
  OBVIOUS
<1>1. /\ TypeOK /\ FramesInv /\ PlacesInv /\ RootedInv /\ DoomInv
  BY DEF IndInv
<1>2. Calls = {}
  BY <1>1, NothingWithoutRoot DEF PlacesInv
<1>3. PICK D \in SUBSET Nodes : Root \in D /\ \A n \in D : Doomed(n, D)
  BY <1>1 DEF DoomInv
<1>4. Doomed(Root, D)
  BY <1>3
<1> QED
  BY <1>2, <1>4 DEF Doomed

LEMMA FailureIsNextResult == IndInv' => FailureReported'
BY FailureIsResult, PTL

LEMMA AcyclicStep == IndInv /\ NoCycleMatched /\ [Next]_vars => NoCycleMatched'
<1> SUFFICES ASSUME IndInv, NoCycleMatched, [Next]_vars,
                    NEW S, S \subseteq {t \in Targets : Matched(t)'}, S # {},
                    \A t \in S : PrerequisitesOf(t)' \cap S # {}
             PROVE  FALSE
  BY DEF NoCycleMatched, CyclicIn
<1>1. TypeOK /\ PrerequisitesFirst
  BY DEF IndInv
<1>2. CASE NextOperation
  <2>1. \A t \in Targets : task_count'[t] < count_applied' /\ count_applied' \in Nat
    <3>1. Fresh'
      BY <1>2, NextOperationFresh
    <3>2. TypeOK' /\ \A t \in Targets : task_count'[t] < count_applied'
      BY <3>1 DEF Fresh
    <3>3. PICK k : k = current_on'
      OBVIOUS
    <3>4. k \in Nat /\ k >= 1
      BY <3>2, <3>3, MatchAssumption DEF TypeOK
    <3>5. count_applied' = 5 * (k - 1) + 4
      BY <3>3 DEF count_applied, count_base
    <3>6. 5 * (k - 1) + 4 \in Nat
      BY <3>4
    <3> QED
      BY <3>2, <3>5, <3>6
  <2> QED
    BY <2>1 DEF Matched
<1>3. CASE ~NextOperation
  <2>1. /\ prerequisites' = prerequisites
        /\ \A t \in Targets : Matched(t)' => Matched(t) \/ \A p \in PrerequisitesOf(t) : Matched(p)
    <3>1. CASE \E u \in Threads : Step(u)
      BY <3>1, StepEffect
    <3>2. CASE UNCHANGED vars
      BY <3>2 DEF vars, build, Matched, count_applied, count_base
    <3> QED
      BY <1>3, <3>1, <3>2 DEF Next, BuildDone
  <2>2. \A t \in S : PrerequisitesOf(t) \cap S # {}
    BY <2>1 DEF PrerequisitesOf
  \* Those that were matched before are a cycle already.
  <2>3. PICK T : T = {t \in S : Matched(t)}
    OBVIOUS
  <2>4. ASSUME NEW t \in S PROVE PrerequisitesOf(t) \cap T # {}
    <3>1. \A p \in PrerequisitesOf(t) : Matched(p)
      BY <1>1, <2>1 DEF PrerequisitesFirst
    <3> QED
      BY <2>2, <2>3, <3>1
  <2>5. T # {}
    BY <2>3, <2>4
  <2>6. T \in SUBSET {t \in Targets : Matched(t)} /\ \A t \in T : PrerequisitesOf(t) \cap T # {}
    BY <2>3, <2>4
  <2> QED
    BY <2>5, <2>6 DEF NoCycleMatched, CyclicIn
<1> QED
  BY <1>2, <1>3

-----------------------------------------------------------------------------
(***************************************************************************)
(* The theorems.                                                           *)
(***************************************************************************)

\* Counts, states, calls and tasks are always what they should be.
THEOREM TypeCorrect == Spec => []TypeOK
<1>1. IndInv => TypeOK
  BY DEF IndInv
<1> QED
  BY <1>1, Invariance, PTL

\* target_lock excludes: a target is held by one call or one queued task at
\* most, and exactly while its count says so (algorithm.cxx, lock_impl()), but
\* for the tasks that have been dropped after a failed load.
THEOREM LocksExclude == Spec => []LocksInv
<1>1. IndInv => LocksInv
  BY DEF IndInv
<1> QED
  BY <1>1, Invariance, PTL

\* The count of a locked target, and of the operation, is exactly the number
\* of its unfinished tasks on top of the start count (wait_guard).
THEOREM TasksCountedCorrect == Spec => []TasksCounted
<1>1. IndInv => TasksCounted
  BY DEF IndInv, CountsInv, TasksCounted, TasksOf, CallsOf, Frame
<1> QED
  BY <1>1, Invariance, PTL

\* A target is applied only on top of prerequisites that are.
THEOREM PrerequisitesFirstCorrect == Spec => []PrerequisitesFirst
<1>1. IndInv => PrerequisitesFirst
  BY DEF IndInv
<1> QED
  BY <1>1, Invariance, PTL

\* No dependency cycle is ever matched successfully: match() of a member waits
\* for the others to be applied, and dependency_cycle() or the wait is the end.
THEOREM NoCycleMatchedCorrect == Spec => []NoCycleMatched
<1>1. Init => NoCycleMatched
  BY DEF Init, NoCycleMatched, CyclicIn, Matched, count_applied, count_base, Nodes
<1> QED
  BY <1>1, AcyclicStep, Invariance, PTL DEF Spec

\* match() returns only when nothing of it is left behind: no call, no task.
THEOREM NothingLeft == Spec => [](result # "running" => Calls = {} /\ queued = {})
<1>1. IndInv => (result # "running" => Calls = {} /\ queued = {})
  BY NothingWithoutRoot DEF IndInv, PlacesInv
<1> QED
  BY <1>1, Invariance, PTL

\* What is applied, or failed, is final until the next operation begins.
THEOREM AppliedFinalCorrect == Spec => AppliedFinal
<1>1. IndInv /\ [Next]_vars =>
        [\A t \in Targets : task_count[t] = count_applied /\ current_on' = current_on
            => task_count'[t] = task_count[t] /\ state'[t] = state[t]]_vars
  <2> SUFFICES ASSUME IndInv, Next, NEW t \in Targets, task_count[t] = count_applied, current_on' = current_on
               PROVE  task_count'[t] = task_count[t] /\ state'[t] = state[t]
    OBVIOUS
  <2>1. ~NextOperation
    BY DEF NextOperation, IndInv, TypeOK
  <2>2. CASE \E u \in Threads : Step(u)
    BY <2>2, StepEffect
  <2>3. CASE BuildDone
    BY <2>3 DEF BuildDone, vars
  <2> QED
    BY <2>1, <2>2, <2>3 DEF Next
<1> QED
  BY <1>1, Invariance, PTL DEF Spec, AppliedFinal

\* After a failed load no target is matched any more, unless we keep going or the
\* thread is already failing, and the operation does not pass for matched
\* (run_phase_mutex::fail_, ~phase_unlock).
THEOREM NothingAfterFailureCorrect == Spec => NothingAfterFailure
<1>1. IndInv /\ IndInv' /\ [Next]_vars =>
        [fail /\ ~keep_going =>
            /\ result' # "matched"
            /\ \A t \in Targets : Matched(t)' /\ ~Matched(t) =>
                  \E u \in Threads : Unwinding(u) /\ At(u, "end") /\ Top(u).target = t]_vars
  <2> SUFFICES ASSUME IndInv, IndInv', Next, fail, ~keep_going, vars' # vars
               PROVE  /\ result' # "matched"
                      /\ \A t \in Targets : Matched(t)' /\ ~Matched(t) =>
                            \E u \in Threads : Unwinding(u) /\ At(u, "end") /\ Top(u).target = t
    OBVIOUS
  <2>1. ~NextOperation
    BY FailureIsResult DEF NextOperation, FailureReported
  <2>2. PICK u \in Threads : Step(u)
    BY <2>1 DEF Next, BuildDone
  <2> QED
    BY <2>2, StepEffect, FailureIsNextResult DEF FailureReported
<1> QED
  BY <1>1, Invariance, PTL DEF Spec, NothingAfterFailure

-----------------------------------------------------------------------------
(***************************************************************************)
(* The counts of dependents.                                               *)
(***************************************************************************)

\* Target t has failed, or is still being matched.
Broken(t) == task_count[t] = count_applied /\ state[t] = "failed"
Due(t) == Held(t) \/ Broken(t)

\* The call is past prerequisite i.
Past(f, i) == f.step = "end" \/ (f.step \in {"finish", "lock"} /\ i < f.next)

\* The call is going to look at the outcome of t.
Asks(f, t) ==
    \/ f.step = "start" /\ \E i \in 1 .. f.last : i <= f.next /\ prerequisites[f.target][i] = t
    \/ f.step = "wait" /\ \E i \in 1 .. f.next - 1 : prerequisites[f.target][i] = t
    \/ f.step \in {"finish", "lock"} /\ \E i \in f.next .. f.last : prerequisites[f.target][i] = t

\* Node p has failed, or fails if t does.
Answers(p, t) ==
    \/ p = Root /\ result = "failed"
    \/ p # Root /\ Broken(p)
    \/ \E c \in Calls : Holding(c) /\ Frame(c).target = p /\ (Frame(c).bad \/ Asks(Frame(c), t))

\* A failure is answered for: there are no targets that are being matched, or
\* have failed, for nothing but each other.
AnswerInv ==
    \A S \in SUBSET Targets :
        S # {} /\ (\A t \in S : Due(t)) => \E t \in S : \E p \in Nodes \ S : Answers(p, t)

\* The driver looks at all the prerequisites, or comes to a failed one.
Sated(f) ==
    LET n == Len(prerequisites[Root])
    IN  f.target = Root /\ ~f.bad =>
            /\ f.step = "wait" =>
                  f.next = n + 1 \/ \E i \in 1 .. f.next - 1 : Broken(prerequisites[Root][i])
            /\ f.step \in {"finish", "lock"} =>
                  f.last = n \/ \E i \in f.next .. f.last : Broken(prerequisites[Root][i])

RootInv == \A c \in Calls : Sated(Frame(c))

\* Dependency e may have been counted, and must have been.
MayCount(e) ==
    \/ e[1] = Root /\ result # "running"
    \/ e[1] \in Targets /\ task_count[e[1]] = count_applied
    \/ \E c \in Calls : Holding(c) /\ Frame(c).target = e[1] /\ Past(Frame(c), e[2])

MustCount(e) ==
    \/ e[1] = Root /\ result = "matched"
    \/ e[1] \in Targets /\ Matched(e[1])
    \/ \E c \in Calls : Holding(c) /\ Frame(c).target = e[1] /\ ~Frame(c).bad /\ Past(Frame(c), e[2])

\* The dependencies in D that are on t.
On(t, D) == {e \in D : prerequisites[e[1]][e[2]] = t}

\* D are the dependencies that have been counted.  A target that has not been
\* locked yet still has the count of the operation before.
Counted(D) ==
    /\ IsFiniteSet(D)
    /\ \A e \in D : Matched(prerequisites[e[1]][e[2]]) /\ MayCount(e)
    /\ \A e \in Edges : MustCount(e) => e \in D
    /\ \A t \in Targets : task_count[t] > count_base => dependents[t] = Cardinality(On(t, D))

EdgesInv == \E D \in SUBSET Edges : Counted(D)

CountedInv == IndInv /\ AnswerInv /\ RootInv /\ EdgesInv

\* Call f has gone on as g: it counts, and asks for, no less ...
Onward(f, g) ==
    /\ g \in Frames /\ g.target = f.target /\ g.step # "done"
    /\ f.bad => g.bad
    /\ \A i \in Nat : Past(f, i) => Past(g, i)
    /\ \A t \in Targets : Asks(f, t) /\ ~Matched(t) => g.bad \/ Asks(g, t)
    /\ Sated(f) => Sated(g)

\* ... and, but for a prerequisite that it has just looked at, counts no more.
Level(f, g) == \A i \in 1 .. Len(prerequisites[f.target]) : ~g.bad /\ Past(g, i) => Past(f, i)

\* A call that stays as it is.
LEMMA OnwardSame == ASSUME NEW f \in Frames, f.step # "done" PROVE Onward(f, f) /\ Level(f, f)
BY DEF Onward, Level

\* A call that fails for good.
LEMMA OnwardFailed ==
    ASSUME NEW f \in Frames, f.step # "done"
    PROVE  Onward(f, Failed(f)) /\ Level(f, Failed(f))
<1>1. PICK g : g = Failed(f)
  OBVIOUS
<1>2. g \in Frames /\ g.target = f.target /\ g.step = "end" /\ g.bad
  BY <1>1, FailedParts
<1>3. Onward(f, g) /\ Level(f, g)
  BY <1>2 DEF Onward, Level, Past, Sated
<1> QED
  BY <1>1, <1>3

\* A call that has started one more prerequisite.
LEMMA OnwardAdvance ==
    ASSUME TypeOK, NEW f \in Frames, f.step = "start"
    PROVE  Onward(f, Advance(f)) /\ Level(f, Advance(f))
<1>1. PICK g : g = Advance(f)
  OBVIOUS
<1>2. g \in Frames /\ g.target = f.target /\ g.step = f.step /\ g.next = f.next + 1 /\ g.last = f.last /\ g.bad = f.bad
  BY <1>1, AdvanceParts
<1>3. f.next \in Nat /\ f.last \in Nat
  BY FrameTypes
<1>4. \A t \in Targets : Asks(f, t) => Asks(g, t)
  BY <1>2, <1>3 DEF Asks
<1>5. Onward(f, g) /\ Level(f, g)
  BY <1>2, <1>4 DEF Onward, Level, Past, Sated
<1> QED
  BY <1>1, <1>5

\* Call h is f at the end of its loop, with what it has found there.
Stops(f, h) ==
    /\ h \in Frames /\ h.target = f.target /\ h.next >= 1 /\ (f.bad => h.bad)
    /\ h.bad \/ \A t \in Targets : Asks(f, t) /\ ~Matched(t) => \E i \in 1 .. h.next - 1 : prerequisites[h.target][i] = t
    /\ \/ h.bad \/ h.target # Root
       \/ h.next = Len(prerequisites[Root]) + 1
       \/ \E i \in 1 .. h.next - 1 : Broken(prerequisites[Root][i])

\* The tasks of a call are done.
LEMMA OnwardWaited ==
    ASSUME TypeOK, NEW f \in Frames, f.step \in {"start", "wait"}, NEW h, Stops(f, h)
    PROVE  Onward(f, Waited(h)) /\ Level(f, Waited(h))
<1>1. PICK g : g = Waited(h)
  OBVIOUS
<1>2. /\ g \in Frames /\ g.target = h.target
      /\ h.bad => g.step = "end" /\ g.bad
      /\ ~h.bad => g.step = "finish" /\ ~g.bad /\ g.next = 1 /\ g.last = h.next - 1
      /\ h.next \in Nat /\ h.next >= 1
  BY <1>1, WaitedParts, FrameTypes DEF Stops
<1>3. CASE h.bad
  <2>1. Onward(f, g) /\ Level(f, g)
    BY <1>2, <1>3 DEF Onward, Level, Past, Sated, Stops
  <2> QED
    BY <1>1, <2>1
<1>4. CASE ~h.bad
  <2>1. ~f.bad
    BY <1>4 DEF Stops
  <2>2. \A i \in Nat : ~Past(f, i)
    BY DEF Past
  <2>3. \A i \in Nat : i >= 1 => ~Past(g, i)
    BY <1>2, <1>4 DEF Past
  <2>4. Len(prerequisites[f.target]) \in Nat
    BY FrameTypes
  <2>5. Level(f, g)
    BY <2>3, <2>4 DEF Level
  <2>6. ASSUME NEW t \in Targets, Asks(f, t), ~Matched(t) PROVE Asks(g, t)
    BY <1>2, <1>4, <2>6 DEF Asks, Stops
  <2>7. Sated(g)
    <3> SUFFICES ASSUME g.target = Root PROVE Sated(g)
      BY DEF Sated
    <3>1. h.next = Len(prerequisites[Root]) + 1 \/ \E i \in 1 .. h.next - 1 : Broken(prerequisites[Root][i])
      BY <1>2, <1>4 DEF Stops
    <3>2. CASE h.next = Len(prerequisites[Root]) + 1
      <4>1. Len(prerequisites[Root]) \in Nat
        BY <1>2, <2>4 DEF Stops
      <4>2. g.last = Len(prerequisites[Root])
        <5>1. PICK n \in Nat : n = Len(prerequisites[Root])
          BY <4>1
        <5>2. g.last = h.next - 1 /\ h.next = n + 1
          BY <1>2, <1>4, <3>2, <5>1
        <5> QED
          BY <5>1, <5>2
      <4> QED
        BY <1>2, <1>4, <4>2 DEF Sated
    <3>3. CASE \E i \in 1 .. h.next - 1 : Broken(prerequisites[Root][i])
      BY <1>2, <1>4, <3>3 DEF Sated
    <3> QED
      BY <3>1, <3>2, <3>3
  <2>8. Onward(f, g)
    BY <1>2, <1>4, <2>1, <2>2, <2>6, <2>7 DEF Onward, Stops
  <2> QED
    BY <1>1, <2>5, <2>8
<1> QED
  BY <1>3, <1>4

\* A call comes to wait for its tasks, if there are any.
LEMMA OnwardAwait ==
    ASSUME TypeOK, NEW f \in Frames, f.step = "start", NEW h, Stops(f, h)
    PROVE  Onward(f, Await(h)) /\ Level(f, Await(h))
<1>1. CASE task_count[h.target] > StartCount(h.target)
  <2>1. PICK g : g = GoTo(h, "wait")
    OBVIOUS
  <2>2. Await(h) = g
    BY <1>1, <2>1 DEF Await
  <2>3. /\ g \in Frames /\ g.target = h.target /\ g.step = "wait" /\ g.next = h.next /\ g.bad = h.bad
    BY <2>1, GoToParts DEF Steps, Stops
  <2>4. \A i : ~Past(f, i) /\ ~Past(g, i)
    BY <2>3 DEF Past
  <2>5. ASSUME NEW t \in Targets, Asks(f, t), ~Matched(t) PROVE g.bad \/ Asks(g, t)
    BY <2>3, <2>5 DEF Asks, Stops
  <2>6. Sated(g)
    BY <2>3 DEF Sated, Stops
  <2> QED
    BY <2>2, <2>3, <2>4, <2>5, <2>6 DEF Onward, Level, Stops
<1>2. CASE ~(task_count[h.target] > StartCount(h.target))
  <2>1. Await(h) = Waited(h)
    BY <1>2 DEF Await
  <2> QED
    BY <2>1, OnwardWaited
<1> QED
  BY <1>1, <1>2

\* A call that only goes to another step.
LEMMA OnwardGoTo ==
    ASSUME TypeOK, NEW f \in Frames, Sound(f), Sated(f), NEW step,
           \/ f.step = "load" /\ step \in {"start", "finish"}
           \/ f.step \in {"finish", "lock"} /\ step \in {"finish", "lock"}
           \/ f.step = "finish" /\ step = "end" /\ ~More(f)
    PROVE  Onward(f, GoTo(f, step)) /\ Level(f, GoTo(f, step))
<1>1. PICK g : g = GoTo(f, step)
  OBVIOUS
<1>2. g \in Frames /\ g.target = f.target /\ g.step = step /\ g.next = f.next /\ g.last = f.last /\ g.bad = f.bad
  BY <1>1, GoToParts DEF Steps
<1>3. f.next \in Nat /\ f.last \in Nat /\ Len(prerequisites[f.target]) \in Nat
  BY FrameTypes
<1>4. CASE f.step = "load" /\ step \in {"start", "finish"}
  <2>1. f.target # Root /\ f.next = 1
    BY <1>4 DEF Sound, Stepwise, InRange
  <2>2. \A i \in 1 .. Len(prerequisites[f.target]) : ~Past(g, i)
    BY <1>2, <1>3, <1>4, <2>1 DEF Past
  <2>3. \A i, t : ~Past(f, i) /\ ~Asks(f, t)
    BY <1>4 DEF Past, Asks
  <2>4. step # "done" /\ Sated(g)
    BY <1>2, <1>4, <2>1 DEF Sated
  <2> QED
    BY <1>1, <1>2, <2>2, <2>3, <2>4 DEF Onward, Level
<1>5. CASE f.step \in {"finish", "lock"} /\ step \in {"finish", "lock"}
  <2>1. \A i : Past(f, i) <=> Past(g, i)
    BY <1>2, <1>5 DEF Past
  <2>2. \A t : Asks(f, t) => Asks(g, t)
    BY <1>2, <1>5 DEF Asks
  <2>3. Sated(g)
    BY <1>2, <1>5 DEF Sated
  <2> QED
    BY <1>1, <1>2, <1>5, <2>1, <2>2, <2>3 DEF Onward, Level
<1>6. CASE f.step = "finish" /\ step = "end" /\ ~More(f)
  <2>1. f.next > f.last
    BY <1>3, <1>6 DEF More
  <2>2. \A t : ~Asks(f, t)
    BY <1>3, <1>6, <2>1 DEF Asks
  <2>3. \A i : Past(g, i)
    BY <1>2, <1>6 DEF Past
  <2>4. ~f.bad => f.last = Len(prerequisites[f.target])
    <3>1. f.target # Root => f.last = Len(prerequisites[f.target])
      BY <1>6 DEF Sound, InRange
    <3>2. f.target = Root /\ ~f.bad => f.last = Len(prerequisites[f.target])
      BY <1>3, <1>6, <2>1 DEF Sated
    <3> QED
      BY <3>1, <3>2
  <2>5. Level(f, g)
    BY <1>2, <1>3, <1>6, <2>1, <2>4 DEF Level, Past
  <2>6. Sated(g) /\ g.step # "done"
    BY <1>2, <1>6 DEF Sated
  <2> QED
    BY <1>1, <1>2, <2>2, <2>3, <2>5, <2>6 DEF Onward
<1> QED
  BY <1>4, <1>5, <1>6

\* The steps that only change the innermost call.
Moves(u) ==
    \/ AsyncQueued(u) \/ AsyncBusy(u) \/ AsyncCycle(u) \/ AsyncApplied(u) \/ AsyncAll(u) \/ WaitDone(u)
    \/ MatchCycle(u) \/ MatchBusy(u) \/ LockWaited(u) \/ MatchAll(u) \/ RuleFails(u) \/ Load(u)

\* They all let the call go on, and count nothing.
LEMMA MovesOn ==
    ASSUME IndInv, RootInv, NEW u \in Threads, NEW f, f = Top(u), Moves(u)
    PROVE  /\ Busy(u) /\ f \in Frames /\ f.step # "done"
           /\ \E g : stack' = Moved(u, g) /\ Onward(f, g) /\ Level(f, g)
<1> DEFINE Goal == \E g : stack' = Moved(u, g) /\ Onward(f, g) /\ Level(f, g)
<1>1. Busy(u)
  BY DEF Moves, AsyncQueued, AsyncBusy, AsyncCycle, AsyncApplied, AsyncAll, WaitDone, MatchCycle, MatchBusy,
         LockWaited, MatchAll, RuleFails, Load, Starting, Finishing, At
<1>2. TypeOK /\ f \in Frames /\ Sound(f) /\ Sated(f)
  BY <1>1, TopCall DEF RootInv, IndInv
<1>3. /\ f.next \in Nat /\ f.last \in Nat /\ f.next >= 1 /\ Len(prerequisites[f.target]) \in Nat
  BY <1>2, FrameTypes DEF Sound, InRange
<1>4. ASSUME f.step # "done", stack' = Moved(u, Failed(f)) PROVE Goal
  BY <1>2, <1>4, OnwardFailed
<1>5. ASSUME f.step = "start", stack' = Moved(u, Advance(f)) PROVE Goal
  BY <1>2, <1>5, OnwardAdvance
<1>6. ASSUME NEW h, f.step = "start", Stops(f, h), stack' = Moved(u, Await(h)) PROVE Goal
  BY <1>2, <1>6, OnwardAwait
<1>7. ASSUME f.step = "start", stack' = Moved(u, Thrown(f)) PROVE Goal
  <2>1. PICK h : h = [f EXCEPT !.bad = TRUE]
    OBVIOUS
  <2>2. h \in Frames /\ h.target = f.target /\ h.next = f.next /\ h.bad
    BY <1>2, <2>1, BadParts
  <2>3. Stops(f, h)
    BY <1>3, <2>2 DEF Stops
  <2> QED
    BY <1>6, <1>7, <2>1, <2>3 DEF Thrown
<1>8. ASSUME NEW step,
             \/ f.step = "load" /\ step \in {"start", "finish"}
             \/ f.step \in {"finish", "lock"} /\ step \in {"finish", "lock"}
             \/ f.step = "finish" /\ step = "end" /\ ~More(f),
             stack' = Moved(u, GoTo(f, step))
      PROVE  Goal
  BY <1>2, <1>8, OnwardGoTo
<1>9. CASE AsyncQueued(u) \/ AsyncBusy(u)
  <2>1. f.step = "start" /\ stack' = Moved(u, Advance(f))
    BY <1>9 DEF AsyncQueued, AsyncBusy, Starting, At
  <2> QED
    BY <1>1, <1>2, <1>5, <2>1
<1>10. CASE AsyncCycle(u)
  <2>1. f.step = "start" /\ stack' = Moved(u, Thrown(f))
    BY <1>10 DEF AsyncCycle, Starting, At
  <2> QED
    BY <1>1, <1>2, <1>7, <2>1
<1>11. CASE AsyncApplied(u)
  <2>1. /\ f.step = "start" /\ f.next <= f.last /\ Prerequisite(f) = prerequisites[f.target][f.next]
        /\ task_count[Prerequisite(f)] = count_applied
    BY <1>11, Trying DEF AsyncApplied, Starting, At
  <2> DEFINE failed == state[Prerequisite(f)] = "failed" /\ ~keep_going
  <2>2. stack' = Moved(u, IF ~failed THEN Advance(f) ELSE IF f.target = Root THEN Await(Advance(f)) ELSE Thrown(f))
    BY <1>11 DEF AsyncApplied
  <2>3. CASE ~failed
    BY <1>1, <1>2, <1>5, <2>1, <2>2, <2>3
  <2>4. CASE failed /\ f.target = Root
    <3>1. PICK h : h = Advance(f)
      OBVIOUS
    <3>2. /\ h \in Frames /\ h.target = f.target /\ h.next = f.next + 1 /\ h.bad = f.bad
      BY <1>2, <3>1, AdvanceParts
    <3>3. Broken(prerequisites[Root][f.next])
      BY <2>1, <2>4 DEF Broken
    <3>4. f.next \in 1 .. h.next - 1
      BY <1>3, <3>2
    <3>5. ASSUME NEW t \in Targets, Asks(f, t) PROVE \E i \in 1 .. h.next - 1 : prerequisites[h.target][i] = t
      <4>1. PICK i \in 1 .. f.last : i <= f.next /\ prerequisites[f.target][i] = t
        BY <2>1, <3>5 DEF Asks
      <4>2. i \in 1 .. h.next - 1
        BY <1>3, <3>2, <4>1
      <4> QED
        BY <3>2, <4>1, <4>2
    <3>6. Stops(f, h)
      BY <1>3, <3>2, <3>3, <3>4, <3>5 DEF Stops
    <3>7. stack' = Moved(u, Await(h))
      BY <2>2, <2>4, <3>1
    <3> QED
      BY <1>1, <1>2, <1>6, <2>1, <3>6, <3>7
  <2>5. CASE failed /\ f.target # Root
    BY <1>1, <1>2, <1>7, <2>1, <2>2, <2>5
  <2> QED
    BY <2>3, <2>4, <2>5
<1>12. CASE AsyncAll(u)
  <2>1. f.step = "start" /\ ~More(f) /\ stack' = Moved(u, Await(f))
    BY <1>12 DEF AsyncAll, At
  <2>2. /\ ~f.bad /\ f.last = Len(prerequisites[f.target]) /\ f.next = f.last + 1
    <3>1. ~f.bad /\ f.last = Len(prerequisites[f.target]) /\ f.next <= f.last + 1
      BY <1>2, <2>1, StartFacts
    <3> QED
      BY <1>3, <2>1, <3>1 DEF More
  <2>3. ASSUME NEW t \in Targets, Asks(f, t) PROVE \E i \in 1 .. f.next - 1 : prerequisites[f.target][i] = t
    <3>1. PICK i \in 1 .. f.last : prerequisites[f.target][i] = t
      BY <2>1, <2>3 DEF Asks
    <3>2. i \in 1 .. f.next - 1
      BY <1>3, <2>2, <3>1
    <3> QED
      BY <3>1, <3>2
  <2>4. Stops(f, f)
    BY <1>2, <1>3, <2>2, <2>3 DEF Stops
  <2> QED
    BY <1>1, <1>2, <1>6, <2>1, <2>4
<1>13. CASE WaitDone(u)
  <2>1. PICK h : h = [f EXCEPT !.bad = @ \/ RelockFails(u)]
    OBVIOUS
  <2>2. f.step = "wait" /\ stack' = Moved(u, Waited(h))
    BY <1>13, <2>1 DEF WaitDone, At
  <2>3. h \in Frames /\ h.target = f.target /\ h.next = f.next /\ (f.bad => h.bad)
    <3>1. f.bad \in BOOLEAN /\ RelockFails(u) \in BOOLEAN
      BY <1>2, FrameTypes DEF RelockFails, Unwinding, TypeOK
    <3>2. h = [f EXCEPT !.bad = f.bad \/ RelockFails(u)]
      BY <2>1
    <3>3. PICK b \in BOOLEAN : b = (f.bad \/ RelockFails(u))
      BY <3>1
    <3> QED
      BY <1>2, <3>2, <3>3, BadParts
  <2>4. \A t : Asks(f, t) => \E i \in 1 .. h.next - 1 : prerequisites[h.target][i] = t
    BY <2>2, <2>3 DEF Asks
  <2>5. f.target = Root /\ ~f.bad => \/ h.next = Len(prerequisites[Root]) + 1
                                     \/ \E i \in 1 .. h.next - 1 : Broken(prerequisites[Root][i])
    BY <1>2, <2>2, <2>3 DEF Sated
  <2>6. Stops(f, h)
    BY <1>3, <2>3, <2>4, <2>5 DEF Stops
  <2> QED
    BY <1>1, <1>2, <2>2, <2>6, OnwardWaited
<1>14. CASE MatchCycle(u)
  BY <1>1, <1>2, <1>4, <1>14 DEF MatchCycle, Finishing, At
<1>15. CASE MatchBusy(u)
  BY <1>1, <1>2, <1>8, <1>15 DEF MatchBusy, Finishing, At, LockWait
<1>16. CASE LockWaited(u)
  BY <1>1, <1>2, <1>4, <1>8, <1>16 DEF LockWaited, At
<1>17. CASE MatchAll(u)
  BY <1>1, <1>2, <1>8, <1>17 DEF MatchAll, At
<1>18. CASE RuleFails(u)
  <2>1. f.step # "done" /\ stack' = Moved(u, Failed(f))
    BY <1>18 DEF RuleFails, FirstStep
  <2> QED
    BY <1>1, <1>2, <1>4, <2>1
<1>19. CASE Load(u)
  BY <1>1, <1>2, <1>4, <1>8, <1>19 DEF Load, At, FirstStep
<1> QED
  BY <1>9, <1>10, <1>11, <1>12, <1>13, <1>14, <1>15, <1>16, <1>17, <1>18, <1>19 DEF Moves

\* A prerequisite is looked at for good, and counted.
Looks(u, f, g) ==
    /\ MatchApplied(u) /\ f = Top(u) /\ state[prerequisites[f.target][f.next]] # "failed"
    /\ \A i \in Nat : Past(g, i) => Past(f, i) \/ i = f.next

\* MatchApplied() lets the call go on, and counts a prerequisite unless it has failed.
LEMMA MatchAppliedOn ==
    ASSUME IndInv, RootInv, NEW u \in Threads, NEW f, f = Top(u), MatchApplied(u)
    PROVE  /\ Busy(u) /\ f \in Frames /\ f.step = "finish" /\ f.next \in 1 .. Len(prerequisites[f.target])
           /\ task_count[prerequisites[f.target][f.next]] = count_applied
           /\ \E g : /\ stack' = Moved(u, g) /\ Onward(f, g)
                     /\ IF state[prerequisites[f.target][f.next]] = "failed"
                        THEN Level(f, g)
                        ELSE Past(g, f.next) /\ Looks(u, f, g)
<1>1. Busy(u) /\ f.step = "finish"
  BY DEF MatchApplied, Finishing, At
<1>2. TypeOK /\ f \in Frames /\ Sound(f) /\ Sated(f)
  BY <1>1, TopCall DEF RootInv, IndInv
<1>3. f.next \in Nat /\ f.last \in Nat /\ f.bad \in BOOLEAN /\ Len(prerequisites[f.target]) \in Nat
  BY <1>2, FrameTypes
<1>4. PICK t : t = prerequisites[f.target][f.next]
  OBVIOUS
<1>5. /\ f.next \in 1 .. Len(prerequisites[f.target]) /\ t = Prerequisite(f) /\ t \in Targets
      /\ task_count[t] = count_applied
  BY <1>4, Trying DEF MatchApplied
<1>6. stack' = Moved(u, IF state[t] = "failed" /\ f.target # Root THEN Failed(f)
                        ELSE [Advance(f) EXCEPT !.bad = @ \/ state[t] = "failed"])
  BY <1>5 DEF MatchApplied
<1>7. CASE state[t] = "failed" /\ f.target # Root
  <2>1. stack' = Moved(u, Failed(f)) /\ Level(f, Failed(f))
    BY <1>1, <1>2, <1>6, <1>7, OnwardFailed
  <2> QED
    BY <1>1, <1>2, <1>4, <1>5, <1>7, <2>1, OnwardFailed
<1>8. CASE ~(state[t] = "failed" /\ f.target # Root)
  <2>1. PICK h : h = Advance(f)
    OBVIOUS
  <2>2. /\ h \in Frames /\ h.target = f.target /\ h.step = f.step /\ h.next = f.next + 1 /\ h.last = f.last
        /\ h.bad = f.bad
    BY <1>2, <2>1, AdvanceParts
  <2>3. PICK b \in BOOLEAN : b = (f.bad \/ state[t] = "failed")
    BY <1>3
  <2>4. PICK g : g = [h EXCEPT !.bad = b]
    OBVIOUS
  <2>5. /\ g \in Frames /\ g.target = f.target /\ g.step = "finish" /\ g.next = f.next + 1 /\ g.last = f.last
        /\ g.bad = b
    BY <1>1, <2>2, <2>4, BadParts
  <2>6. stack' = Moved(u, g)
    BY <1>6, <1>8, <2>1, <2>2, <2>3, <2>4
  <2>7. \A i \in Nat : Past(f, i) => Past(g, i)
    BY <1>1, <1>3, <2>5 DEF Past
  <2>8. ASSUME NEW q \in Targets, Asks(f, q), ~Matched(q) PROVE g.bad \/ Asks(g, q)
    <3>1. PICK i \in f.next .. f.last : prerequisites[f.target][i] = q
      BY <1>1, <2>8 DEF Asks
    <3>2. CASE i = f.next
      BY <1>4, <1>5, <2>3, <2>5, <2>8, <3>1, <3>2 DEF Matched
    <3>3. CASE i # f.next
      <4>1. i \in g.next .. g.last
        BY <1>3, <2>5, <3>1, <3>3
      <4> QED
        BY <2>5, <3>1, <4>1 DEF Asks
    <3> QED
      BY <3>2, <3>3
  <2>9. Sated(g)
    <3> SUFFICES ASSUME f.target = Root, ~g.bad
                 PROVE  g.last = Len(prerequisites[Root]) \/ \E i \in g.next .. g.last : Broken(prerequisites[Root][i])
      BY <2>5 DEF Sated
    <3>1. ~f.bad /\ state[t] # "failed"
      BY <2>3, <2>5
    <3>2. f.last = Len(prerequisites[Root]) \/ \E i \in f.next .. f.last : Broken(prerequisites[Root][i])
      BY <1>1, <1>2, <3>1 DEF Sated
    <3>3. ASSUME NEW i \in f.next .. f.last, Broken(prerequisites[Root][i]) PROVE i \in g.next .. g.last
      <4>1. i # f.next
        BY <1>4, <3>1, <3>3 DEF Broken
      <4> QED
        BY <1>3, <2>5, <3>3, <4>1
    <3> QED
      BY <2>5, <3>2, <3>3
  <2>10. Onward(f, g)
    BY <2>3, <2>5, <2>7, <2>8, <2>9 DEF Onward
  <2>11. IF state[t] = "failed" THEN Level(f, g) ELSE Past(g, f.next) /\ Looks(u, f, g)
    <3>1. CASE state[t] = "failed"
      BY <2>3, <2>5, <3>1 DEF Level
    <3>2. CASE state[t] # "failed"
      <4>1. Past(g, f.next) /\ \A i \in Nat : Past(g, i) => Past(f, i) \/ i = f.next
        BY <1>1, <1>3, <2>5 DEF Past
      <4> QED
        BY <1>4, <3>2, <4>1 DEF Looks
    <3> QED
      BY <3>1, <3>2
  <2> QED
    BY <1>1, <1>2, <1>4, <1>5, <2>6, <2>10, <2>11
<1> QED
  BY <1>7, <1>8

\* What becomes of a call: it goes on, or is over.
Over(c) ==
    /\ Frame(c).step = "end"
    /\ IF Frame(c).target = Root
       THEN result' = IF Frame(c).bad THEN "failed" ELSE "matched"
       ELSE task_count'[Frame(c).target] = count_applied /\ (state'[Frame(c).target] = "failed" <=> Frame(c).bad)

OldCalls == \A c \in Calls : Holding(c) => (c \in Calls' /\ Onward(Frame(c), Frame(c)')) \/ Over(c)

\* Where a call comes from: it has gone on, or begins.
Begins(u, g) ==
    /\ g \in Frames /\ g.target \in Targets /\ g.step \in {"load", "start", "finish"} /\ g.next = 1
    /\ \/ \E task \in queued : task.target = g.target
       \/ (AsyncSync(u) \/ MatchLocked(u)) /\ g.target = Prerequisite(Top(u))

NewCalls(u) ==
    \A c \in Calls' : Frame(c)'.step # "done" =>
        \/ /\ c \in Calls /\ Holding(c) /\ Onward(Frame(c), Frame(c)')
           /\ Level(Frame(c), Frame(c)') \/ Looks(u, Frame(c), Frame(c)')
        \/ Begins(u, Frame(c)')

\* Every step does so, with all the calls.
LEMMA StepCalls == ASSUME IndInv, RootInv, NEW u \in Threads, Step(u) PROVE OldCalls /\ NewCalls(u)
<1>1. TypeOK /\ stack \in [Threads -> Seq(Frames)] /\ \A c \in Calls : Frame(c) \in Frames
  BY InCalls DEF IndInv, TypeOK
<1>2. ASSUME NEW d \in Calls, Holding(d), d \in Calls', Frame(d)' = Frame(d)
      PROVE  Onward(Frame(d), Frame(d)') /\ Level(Frame(d), Frame(d)')
  <2>1. PICK f : f = Frame(d)
    OBVIOUS
  <2>2. Onward(f, f) /\ Level(f, f)
    BY <1>1, <1>2, <2>1, OnwardSame DEF Holding
  <2> QED
    BY <1>2, <2>1, <2>2
<1>3. ASSUME Moves(u) \/ MatchApplied(u) PROVE OldCalls /\ NewCalls(u)
  <2>1. PICK f : f = Top(u)
    OBVIOUS
  <2>2. PICK g : Busy(u) /\ stack' = Moved(u, g) /\ Onward(f, g) /\ (Level(f, g) \/ Looks(u, f, g))
    BY <1>3, <2>1, MovesOn, MatchAppliedOn
  <2>3. f.step # "done"
    BY <1>3, <2>1, MovesOn, MatchAppliedOn
  <2>4. PICK c \in Calls : Innermost(u, c) /\ Frame(c) = f
    BY <2>1, <2>2, TopCall
  <2>5. Calls' = Calls /\ Frame(c)' = g /\ \A d \in Calls : d # c => Frame(d)' = Frame(d)
    BY <1>1, <2>2, <2>4, MovedStack DEF Onward
  <2>6. Onward(Frame(c), Frame(c)') /\ (Level(Frame(c), Frame(c)') \/ Looks(u, Frame(c), Frame(c)')) /\ Holding(c)
    BY <2>2, <2>3, <2>4, <2>5 DEF Holding
  <2>7. ASSUME NEW d \in Calls, d # c, Holding(d) PROVE Onward(Frame(d), Frame(d)') /\ Level(Frame(d), Frame(d)')
    BY <1>2, <2>5, <2>7
  <2>8. OldCalls
    BY <2>5, <2>6, <2>7 DEF OldCalls
  <2>9. NewCalls(u)
    <3> SUFFICES ASSUME NEW d \in Calls', Frame(d)'.step # "done"
                 PROVE  /\ d \in Calls /\ Holding(d) /\ Onward(Frame(d), Frame(d)')
                        /\ Level(Frame(d), Frame(d)') \/ Looks(u, Frame(d), Frame(d)')
      BY DEF NewCalls
    <3>1. CASE d = c
      BY <2>6, <3>1
    <3>2. CASE d # c
      BY <2>5, <2>7, <3>2 DEF Holding
    <3> QED
      BY <3>1, <3>2
  <2> QED
    BY <2>8, <2>9
<1>4. ASSUME NEW g, stack' = Called(u, g), Begins(u, g) PROVE OldCalls /\ NewCalls(u)
  <2>1. PICK c : c = <<u, Len(stack[u]) + 1>>
    OBVIOUS
  <2>2. /\ Calls' = Calls \cup {c} /\ Frame(c)' = g /\ \A d \in Calls : Frame(d)' = Frame(d)
    BY <1>1, <1>4, <2>1, CalledStack DEF Begins
  <2>3. ASSUME NEW d \in Calls, Holding(d)
        PROVE  d \in Calls' /\ Onward(Frame(d), Frame(d)') /\ Level(Frame(d), Frame(d)')
    BY <1>2, <2>2, <2>3
  <2>4. OldCalls
    BY <2>3 DEF OldCalls
  <2>5. \A d \in Calls' : d = c \/ (d \in Calls /\ (Frame(d)'.step # "done" => Holding(d)))
    BY <2>2 DEF Holding
  <2>6. Begins(u, Frame(c)')
    BY <1>4, <2>2
  <2>7. NewCalls(u)
    BY <2>3, <2>5, <2>6 DEF NewCalls
  <2> QED
    BY <2>4, <2>7
<1>5. ASSUME NEW c \in Calls, Calls' \subseteq Calls, \A d \in Calls : d # c => d \in Calls' /\ Frame(d)' = Frame(d),
             Over(c) \/ ~Holding(c), c \in Calls' => Frame(c)'.step = "done"
      PROVE  OldCalls /\ NewCalls(u)
  <2>1. ASSUME NEW d \in Calls, d # c, Holding(d)
        PROVE  d \in Calls' /\ Onward(Frame(d), Frame(d)') /\ Level(Frame(d), Frame(d)')
    BY <1>2, <1>5, <2>1
  <2>2. OldCalls
    BY <1>5, <2>1 DEF OldCalls
  <2>3. NewCalls(u)
    BY <1>5, <2>1 DEF NewCalls, Holding
  <2> QED
    BY <2>2, <2>3
<1>6. CASE AsyncSync(u) \/ MatchLocked(u)
  <2>1. PICK t \in Targets : t = Prerequisite(Top(u)) /\ t \in Nodes
    BY <1>6, Locking DEF AsyncSync, MatchLocked
  <2>2. PICK f : f = Top(u)
    OBVIOUS
  <2>3. f \in Frames
    BY <1>6, <2>2, TopFrame DEF AsyncSync, MatchLocked, Starting, Finishing, At
  <2>4. PICK chain \in SUBSET Targets : chain = f.chain \cup {t}
    BY <1>1, <2>3, FrameTypes
  <2>5. PICK g : g = Call(t, chain, t)
    OBVIOUS
  <2>6. Begins(u, g)
    BY <1>1, <1>6, <2>1, <2>5, CallParts DEF Begins
  <2>7. stack' = Called(u, g)
    BY <1>6, <2>1, <2>2, <2>4, <2>5 DEF AsyncSync, MatchLocked
  <2> QED
    BY <1>4, <2>6, <2>7
<1>7. ASSUME NEW task \in queued, TaskStart(u, task) PROVE OldCalls /\ NewCalls(u)
  <2>1. /\ task.target \in Targets /\ task.target \in Nodes /\ task.parent \in Nodes /\ task.chain \subseteq Targets
    BY <1>1 DEF TypeOK, Tasks, Nodes
  <2>2. PICK chain \in SUBSET Targets : chain = task.chain \cup {task.target}
    BY <2>1
  <2>3. PICK g : g = Call(task.target, chain, task.parent)
    OBVIOUS
  <2>4. Begins(u, g)
    BY <1>1, <2>1, <2>3, CallParts DEF Begins
  <2>5. stack' = Called(u, g)
    BY <1>7, <2>2, <2>3 DEF TaskStart
  <2> QED
    BY <1>4, <2>4, <2>5
<1>8. ASSUME NEW task \in queued, TaskFails(u, task) PROVE OldCalls /\ NewCalls(u)
  <2>1. Calls' = Calls /\ \A d \in Calls : Frame(d)' = Frame(d)
    BY <1>8 DEF TaskFails, Calls, Frame
  <2>2. ASSUME NEW d \in Calls, Holding(d)
        PROVE  d \in Calls' /\ Onward(Frame(d), Frame(d)') /\ Level(Frame(d), Frame(d)')
    BY <1>2, <2>1, <2>2
  <2>3. OldCalls
    BY <2>2 DEF OldCalls
  <2>4. NewCalls(u)
    BY <2>1, <2>2 DEF NewCalls, Holding
  <2> QED
    BY <2>3, <2>4
<1>9. CASE End(u)
  <2>1. PICK c \in Calls :
              /\ Innermost(u, c) /\ Frame(c) = Top(u) /\ Frame(c) \in Frames
              /\ Frame(c).step # "done" => Frame(c).target = Root \/ Frame(c).target \in Targets
    BY <1>9, TopCall DEF End, At
  <2>2. PICK f : f = Frame(c)
    OBVIOUS
  <2>3. PICK t : t = f.target
    OBVIOUS
  <2>4. f.step = "end" /\ t # Root /\ t \in Targets /\ f \in Frames
    BY <1>9, <2>1, <2>2, <2>3 DEF End, At
  <2>5. /\ task_count' = [task_count EXCEPT ![t] = count_applied]
        /\ stack' = IF f.parent = t THEN Returned(u) ELSE Moved(u, GoTo(f, "done"))
    BY <1>9, <2>1, <2>2, <2>3 DEF End, EndCount
  <2>6. PICK s \in IF f.bad THEN {"failed"} ELSE {"unknown", "unchanged"} : state' = [state EXCEPT ![t] = s]
    BY <1>9, <2>1, <2>2, <2>3 DEF End
  <2>7. task_count'[t] = count_applied
    <3>1. task_count \in [Nodes -> Nat] /\ t \in Nodes
      BY <1>1, <2>4 DEF TypeOK, Nodes
    <3> QED
      BY <2>5, <3>1
  <2>8. state'[t] = "failed" <=> f.bad
    <3>1. state'[t] = s
      BY <1>1, <2>4, <2>6 DEF TypeOK
    <3> QED
      BY <2>6, <3>1
  <2>9. Over(c)
    BY <2>2, <2>3, <2>4, <2>7, <2>8 DEF Over
  <2>10. CASE f.parent = t
    <3>1. Calls' = Calls \ {c} /\ \A d \in Calls : d # c => Frame(d)' = Frame(d)
      BY <1>1, <2>1, <2>5, <2>10, ReturnedStack
    <3> QED
      BY <1>5, <2>9, <3>1
  <2>11. CASE f.parent # t
    <3>1. PICK g : g = GoTo(f, "done")
      OBVIOUS
    <3>2. g \in Frames /\ g.step = "done"
      BY <2>4, <3>1, GoToParts DEF Steps
    <3>3. Calls' = Calls /\ Frame(c)' = g /\ \A d \in Calls : d # c => Frame(d)' = Frame(d)
      BY <1>1, <2>1, <2>5, <2>11, <3>1, <3>2, MovedStack
    <3> QED
      BY <1>5, <2>9, <3>2, <3>3
  <2> QED
    BY <2>10, <2>11
<1>10. CASE TaskDone(u) \/ OperationMatched(u)
  <2>1. PICK c \in Calls : Innermost(u, c) /\ Frame(c) = Top(u)
    BY <1>10, TopCall DEF TaskDone, OperationMatched, At
  <2>2. stack' = Returned(u)
    BY <1>10 DEF TaskDone, OperationMatched
  <2>3. Calls' = Calls \ {c} /\ \A d \in Calls : d # c => Frame(d)' = Frame(d)
    BY <1>1, <2>1, <2>2, ReturnedStack
  <2>4. Over(c) \/ ~Holding(c)
    BY <1>10, <2>1 DEF TaskDone, OperationMatched, At, Over, Holding
  <2> QED
    BY <1>5, <2>3, <2>4
<1> QED
  BY <1>3, <1>6, <1>7, <1>8, <1>9, <1>10 DEF Step, Moves

\* A target is locked: the call that does so is going to look at it.
LocksTarget(u) == AsyncQueued(u) \/ AsyncSync(u) \/ MatchLocked(u)

Locked(t) ==
    /\ ~Due(t)
    /\ \E c \in Calls' : /\ Frame(c)'.step # "done" /\ Frame(c)'.target \in Nodes \ {t}
                         /\ Asks(Frame(c)', t)

\* The counts of the target that is locked and of the node whose task it becomes.
LEMMA TargetLocked ==
    ASSUME IndInv, NEW u \in Threads, LocksTarget(u)
    PROVE  LET t == Prerequisite(Top(u))
           IN  /\ t \in Targets /\ Locked(t) /\ task_count[t] < count_applied /\ dependents' = Reset(t)
               /\ \E n \in Nodes : /\ n # t /\ (n = Root \/ (n \in Targets /\ task_count[n] >= count_busy))
                                   /\ \/ task_count' = [task_count EXCEPT ![t] = count_busy, ![n] = @ + 1]
                                      \/ task_count' = [task_count EXCEPT ![t] = count_busy]
<1>1. TypeOK /\ stack \in [Threads -> Seq(Frames)] /\ count_applied \in Nat /\ count_busy = count_applied + 2
  BY Counts DEF IndInv, TypeOK
<1>2. PICK c \in Calls, t \in Targets :
              /\ Innermost(u, c) /\ Frame(c) = Top(u) /\ Frame(c) \in Frames
              /\ Holding(c) /\ Frame(c).target \in Nodes
              /\ Frame(c).target = Root \/ (Frame(c).target \in Targets /\ task_count[Frame(c).target] >= count_busy)
              /\ t = Prerequisite(Frame(c)) /\ t = prerequisites[Frame(c).target][Frame(c).next]
              /\ t # Frame(c).target /\ t # Root /\ t \in Nodes
              /\ task_count[t] \in Nat /\ task_count[t] < count_applied
              /\ Frame(c).step \in {"start", "finish"} /\ More(Frame(c))
              /\ Frame(c).next \in 1 .. Len(prerequisites[Frame(c).target]) /\ Frame(c).next <= Frame(c).last
  BY Locking DEF LocksTarget, AsyncQueued, AsyncSync, MatchLocked
<1>3. PICK f : f = Frame(c)
  OBVIOUS
<1>4. /\ f \in Frames /\ f.next \in Nat /\ f.last \in Nat /\ f.next >= 1 /\ f.next <= f.last
      /\ prerequisites[f.target][f.next] = t
  BY <1>1, <1>2, <1>3, FrameTypes
<1>5. /\ t = Prerequisite(Top(u)) /\ prerequisites' = prerequisites
      /\ dependents' = Reset(t)
      /\ \/ task_count' = TaskAdded(t, f.target)
         \/ task_count' = [task_count EXCEPT ![t] = count_busy]
  BY <1>2, <1>3 DEF LocksTarget, AsyncQueued, AsyncSync, MatchLocked, build
<1>6. ~Due(t)
  <2>1. ~Held(t)
    BY <1>1, <1>2, NothingFor
  <2> QED
    BY <1>1, <1>2, <2>1 DEF Due, Broken
<1>7. c \in Calls' /\ Frame(c)'.step # "done" /\ Frame(c)'.target = f.target /\ Asks(Frame(c)', t)
  <2>1. CASE AsyncQueued(u)
    <3>1. PICK g : g = Advance(f)
      OBVIOUS
    <3>2. /\ g \in Frames /\ g.target = f.target /\ g.step = "start" /\ g.next = f.next + 1 /\ g.last = f.last
      BY <1>2, <1>3, <1>4, <2>1, <3>1, AdvanceParts DEF AsyncQueued, Starting, At
    <3>3. stack' = Moved(u, g)
      BY <1>2, <1>3, <2>1, <3>1 DEF AsyncQueued
    <3>4. Calls' = Calls /\ Frame(c)' = g
      BY <1>1, <1>2, <3>2, <3>3, MovedStack
    <3>5. f.next \in 1 .. g.last /\ f.next <= g.next
      BY <1>4, <3>2
    <3>6. Asks(g, t)
      BY <1>4, <3>2, <3>5 DEF Asks
    <3> QED
      BY <3>2, <3>4, <3>6
  <2>2. CASE AsyncSync(u) \/ MatchLocked(u)
    <3>1. PICK chain \in SUBSET Targets : chain = f.chain \cup {t}
      BY <1>1, <1>4, FrameTypes
    <3>2. PICK g : g = Call(t, chain, t)
      OBVIOUS
    <3>3. g \in Frames
      BY <1>1, <1>2, <3>2, CallParts
    <3>4. stack' = Called(u, g)
      BY <1>2, <1>3, <2>2, <3>1, <3>2 DEF AsyncSync, MatchLocked
    <3>5. c \in Calls' /\ Frame(c)' = f
      <4>1. PICK d : d = <<u, Len(stack[u]) + 1>>
        OBVIOUS
      <4> QED
        BY <1>1, <1>2, <1>3, <3>3, <3>4, <4>1, CalledStack
    <3>6. Asks(f, t)
      <4>1. f.next \in 1 .. f.last /\ f.next <= f.next /\ f.next \in f.next .. f.last
        BY <1>4
      <4> QED
        BY <1>2, <1>3, <1>4, <4>1 DEF Asks
    <3> QED
      BY <1>2, <1>3, <3>5, <3>6
  <2> QED
    BY <2>1, <2>2 DEF LocksTarget
<1>8. Locked(t)
  BY <1>2, <1>3, <1>6, <1>7 DEF Locked
<1> QED
  BY <1>2, <1>3, <1>5, <1>8 DEF TaskAdded

\* What a step does to the counts of targets.
CountEffects(u) ==
    \A t \in Targets :
        /\ Matched(t)' =>
              Matched(t) \/ \E c \in Calls : Holding(c) /\ Frame(c).target = t /\ Frame(c).step = "end" /\ ~Frame(c).bad
        /\ Broken(t)' => Due(t)
        /\ task_count'[t] > count_base =>
              \/ task_count[t] > count_base /\ (dependents'[t] = dependents[t] \/ MatchApplied(u))
              \/ dependents'[t] = 0 /\ ~Matched(t)

\* Every step has these effects.
LEMMA StepCounts == ASSUME IndInv, NEW u \in Threads, Step(u) PROVE CountEffects(u)
<1>1. /\ TypeOK /\ PlacesInv /\ count_applied' = count_applied /\ count_base \in Nat
      /\ count_applied \in Nat /\ count_busy \in Nat /\ count_busy = count_applied + 2 /\ count_base < count_applied
      /\ \A t \in Targets : t \in Nodes /\ task_count[t] \in Nat
      /\ task_count \in [Nodes -> Nat] /\ state \in [Targets -> {"unknown", "unchanged", "failed"}]
      /\ dependents \in [Targets -> Nat]
  <2>1. current_on' = current_on
    BY StepEffect
  <2> QED
    BY <2>1, Counts DEF IndInv, TypeOK, Nodes, count_applied, count_base
<1>2. ASSUME task_count' = task_count, state' = state, dependents' = dependents \/ MatchApplied(u)
      PROVE  CountEffects(u)
  BY <1>1, <1>2 DEF CountEffects, Matched, Broken, Due
<1>3. CASE LocksTarget(u)
  <2>1. PICK t : t = Prerequisite(Top(u))
    OBVIOUS
  <2>2. /\ t \in Targets /\ task_count[t] < count_applied /\ dependents' = Reset(t)
        /\ \E n \in Nodes : /\ n # t /\ (n = Root \/ (n \in Targets /\ task_count[n] >= count_busy))
                            /\ \/ task_count' = [task_count EXCEPT ![t] = count_busy, ![n] = @ + 1]
                               \/ task_count' = [task_count EXCEPT ![t] = count_busy]
    BY <1>3, <2>1, TargetLocked
  <2>3. PICK n \in Nodes :
              /\ n # t /\ (n = Root \/ (n \in Targets /\ task_count[n] >= count_busy))
              /\ \/ task_count' = [task_count EXCEPT ![t] = count_busy, ![n] = @ + 1]
                 \/ task_count' = [task_count EXCEPT ![t] = count_busy]
    BY <2>2
  <2>4. state' = state
    BY <1>3 DEF LocksTarget, AsyncQueued, AsyncSync, MatchLocked
  <2>5. /\ task_count'[t] = count_busy
        /\ \A q \in Targets : q # t => \/ task_count'[q] = task_count[q]
                                       \/ task_count[q] >= count_busy /\ task_count'[q] = task_count[q] + 1
    <3>1. task_count'[t] = count_busy /\ \A q \in Targets : q # t /\ q # n => task_count'[q] = task_count[q]
      BY <1>1, <2>2, <2>3
    <3>2. n \in Targets => task_count[n] >= count_busy
      BY <2>3, MatchAssumption
    <3>3. task_count'[n] \in {task_count[n], task_count[n] + 1}
      BY <1>1, <2>2, <2>3
    <3> QED
      BY <3>1, <3>2, <3>3
  <2>6. \A q \in Targets : q # t => dependents'[q] = dependents[q]
    BY <1>1, <2>2 DEF Reset
  <2>7. (task_count[t] > count_base /\ dependents'[t] = dependents[t]) \/ (dependents'[t] = 0 /\ ~Matched(t))
    BY <1>1, <2>2 DEF Reset, Matched
  <2>8. ASSUME NEW q \in Targets, task_count'[q] = count_applied PROVE task_count[q] = count_applied
    <3>1. task_count[q] \in Nat
      BY <1>1
    <3> QED
      BY <1>1, <2>5, <2>8, <3>1
  <2>9. ASSUME NEW q \in Targets, q # t, task_count'[q] > count_base PROVE task_count[q] > count_base
    <3>1. task_count[q] \in Nat
      BY <1>1
    <3> QED
      BY <1>1, <2>5, <2>9, <3>1
  <2> QED
    BY <1>1, <2>4, <2>6, <2>7, <2>8, <2>9 DEF CountEffects, Matched, Broken, Due
<1>4. ASSUME NEW p, Expects(p), TasksOf(p) # {} \/ CallsOf(p) # {}, task_count' = [task_count EXCEPT ![p] = @ - 1],
             UNCHANGED <<build, current_on, state, dependents>>
      PROVE  CountEffects(u)
  <2>1. \A t \in Targets : /\ task_count'[t] >= count_busy <=> task_count[t] >= count_busy
                           /\ task_count'[t] < count_busy => task_count'[t] = task_count[t]
    BY <1>4, TaskOver
  <2>2. task_count' \in [Nodes -> Nat]
    BY <1>4, TaskOver
  <2>3. ASSUME NEW q \in Targets, task_count'[q] = count_applied PROVE task_count[q] = count_applied
    BY <1>1, <2>1, <2>3
  <2>4. ASSUME NEW q \in Targets, task_count'[q] > count_base PROVE task_count[q] > count_base
    <3>1. task_count'[q] \in Nat /\ task_count[q] \in Nat
      BY <1>1, <2>2
    <3> QED
      BY <1>1, <2>1, <2>4, <3>1
  <2> QED
    BY <1>1, <1>4, <2>3, <2>4 DEF CountEffects, Matched, Broken, Due
<1>5. CASE TaskDone(u)
  <2>1. PICK c \in Calls : Frame(c) = Top(u) /\ Sound(Frame(c)) /\ Placed(c)
    BY <1>5, TopCall DEF TaskDone, At
  <2>2. Frame(c).parent # Frame(c).target
    BY <1>5, <2>1 DEF TaskDone, At, Sound, Stepwise
  <2>3. Expects(Frame(c).parent) /\ c \in CallsOf(Frame(c).parent)
    BY <2>1, <2>2 DEF Placed, CallsOf
  <2>4. PICK p : p = Frame(c).parent
    OBVIOUS
  <2> QED
    BY <1>4, <1>5, <2>1, <2>3, <2>4 DEF TaskDone
<1>6. CASE \E task \in queued : TaskFails(u, task)
  <2>1. PICK task \in queued : TaskFails(u, task)
    BY <1>6
  <2>2. Expects(task.parent) /\ task \in TasksOf(task.parent)
    BY <1>1 DEF PlacesInv, TasksOf
  <2> QED
    BY <1>4, <2>1, <2>2 DEF TaskFails
<1>7. CASE End(u)
  <2>1. PICK c \in Calls :
              /\ Frame(c) = Top(u) /\ Frame(c) \in Frames
              /\ Frame(c).step # "done" =>
                    Frame(c).target = Root \/ (Frame(c).target \in Targets /\ task_count[Frame(c).target] >= count_busy)
    BY <1>7, TopCall DEF End, At
  <2>2. PICK f : f = Frame(c)
    OBVIOUS
  <2>3. PICK t : t = f.target
    OBVIOUS
  <2>4. f.step = "end" /\ t # Root /\ t \in Targets /\ task_count[t] >= count_busy /\ Holding(c)
    BY <1>7, <2>1, <2>2, <2>3 DEF End, At, Holding
  <2>5. PICK s \in IF f.bad THEN {"failed"} ELSE {"unknown", "unchanged"} : state' = [state EXCEPT ![t] = s]
    BY <1>7, <2>1, <2>2, <2>3 DEF End
  <2>6. task_count' = [task_count EXCEPT ![t] = count_applied] /\ dependents' = dependents
    BY <1>7, <2>1, <2>2, <2>3 DEF End, EndCount
  <2>7. ASSUME NEW q \in Targets, q # t PROVE task_count'[q] = task_count[q] /\ state'[q] = state[q]
    BY <1>1, <2>5, <2>6, <2>7
  <2>8. task_count[t] > count_base
    BY <1>1, <2>4
  <2>9. Matched(t)' => ~f.bad
    BY <1>1, <2>4, <2>5 DEF Matched
  <2>10. Due(t)
    BY <2>2, <2>3, <2>4 DEF Due, Held
  <2>11. Matched(t)' => \E d \in Calls : Holding(d) /\ Frame(d).target = t /\ Frame(d).step = "end" /\ ~Frame(d).bad
    BY <2>2, <2>3, <2>4, <2>9
  <2> QED
    BY <1>1, <2>6, <2>7, <2>8, <2>10, <2>11 DEF CountEffects, Matched, Broken, Due
<1> QED
  BY <1>2, <1>3, <1>5, <1>6, <1>7
     DEF Step, LocksTarget, AsyncBusy, AsyncCycle, AsyncApplied, AsyncAll, WaitDone,
         MatchApplied, MatchCycle, MatchBusy, LockWaited, MatchAll, RuleFails, Load, TaskStart, OperationMatched

\* What a step does to targets and their counts.
Effects(u) ==
    /\ prerequisites' = prerequisites /\ count_base' = count_base /\ count_applied' = count_applied
    /\ result' = result \/ \E c \in Calls : Holding(c) /\ Frame(c).target = Root /\ Over(c)
    /\ \A t \in Targets :
          /\ Matched(t) => Matched(t)'
          /\ Broken(t) => Broken(t)'
          /\ task_count[t] = count_applied => task_count'[t] = count_applied
          /\ Matched(t)' =>
                Matched(t) \/ \E c \in Calls : /\ Holding(c) /\ Frame(c).target = t
                                               /\ Frame(c).step = "end" /\ ~Frame(c).bad
          /\ task_count'[t] > count_base =>
                \/ task_count[t] > count_base /\ (dependents'[t] = dependents[t] \/ MatchApplied(u))
                \/ dependents'[t] = 0 /\ ~Matched(t)
    /\ \E a : \A t \in Targets : Due(t)' => Due(t) \/ (t = a /\ Locked(t))

\* Every step has these effects, too.
LEMMA StepEffects == ASSUME IndInv, RootInv, NEW u \in Threads, Step(u) PROVE Effects(u)
<1>1. /\ prerequisites' = prerequisites /\ current_on' = current_on
      /\ \A t \in Targets : task_count[t] = count_applied => task_count'[t] = task_count[t] /\ state'[t] = state[t]
  BY StepEffect
<1>2. count_base' = count_base /\ count_applied' = count_applied
  BY <1>1 DEF count_base, count_applied
<1>3. CountEffects(u) /\ NewCalls(u)
  BY StepCounts, StepCalls
<1>4. result' = result \/ \E c \in Calls : Holding(c) /\ Frame(c).target = Root /\ Over(c)
  <2>1. CASE OperationMatched(u)
    <3>1. PICK c \in Calls : Frame(c) = Top(u)
      BY <2>1, TopCall DEF OperationMatched, At
    <3>2. Frame(c).step = "end" /\ Frame(c).target = Root /\ result' = IF Frame(c).bad THEN "failed" ELSE "matched"
      BY <2>1, <3>1 DEF OperationMatched, At
    <3> QED
      BY <3>2 DEF Over, Holding
  <2>2. CASE ~OperationMatched(u)
    BY <2>2 DEF Step, AsyncQueued, AsyncSync, AsyncBusy, AsyncCycle, AsyncApplied, AsyncAll, WaitDone, MatchLocked,
         MatchApplied, MatchCycle, MatchBusy, LockWaited, MatchAll, RuleFails, Load, End, TaskStart, TaskFails, TaskDone
  <2> QED
    BY <2>1, <2>2
<1>5. ASSUME NEW k \in queued' PROVE k \in queued \/ (AsyncQueued(u) /\ k.target = Prerequisite(Top(u)))
  <2>1. queued' \subseteq queued \/ AsyncQueued(u)
    BY DEF Step, AsyncSync, AsyncBusy, AsyncCycle, AsyncApplied, AsyncAll, WaitDone, MatchLocked,
         MatchApplied, MatchCycle, MatchBusy, LockWaited, MatchAll, RuleFails, Load, End, TaskStart, TaskFails, TaskDone,
         OperationMatched
  <2>2. AsyncQueued(u) => k \in queued \/ k.target = Prerequisite(Top(u))
    BY <1>5 DEF AsyncQueued
  <2> QED
    BY <1>5, <2>1, <2>2
<1>6. ASSUME NEW t \in Targets, Held(t)' PROVE Held(t) \/ (LocksTarget(u) /\ t = Prerequisite(Top(u)))
  <2>1. CASE \E c \in Calls' : Frame(c)'.step # "done" /\ Frame(c)'.target = t
    <3>1. PICK c \in Calls' : Frame(c)'.step # "done" /\ Frame(c)'.target = t
      BY <2>1
    <3>2. CASE c \in Calls /\ Holding(c) /\ Onward(Frame(c), Frame(c)')
      BY <3>1, <3>2 DEF Onward, Held
    <3>3. CASE Begins(u, Frame(c)')
      BY <3>1, <3>3 DEF Begins, Held, LocksTarget
    <3> QED
      BY <1>3, <3>1, <3>2, <3>3 DEF NewCalls
  <2>2. CASE \E k \in queued' : k.target = t
    BY <1>5, <2>2 DEF Held, LocksTarget
  <2> QED
    BY <1>6, <2>1, <2>2 DEF Held, Holding
<1>7. \E a : \A t \in Targets : Due(t)' => Due(t) \/ (t = a /\ Locked(t))
  <2>1. PICK a : a = Prerequisite(Top(u))
    OBVIOUS
  <2>2. ASSUME NEW t \in Targets, Due(t)' PROVE Due(t) \/ (t = a /\ Locked(t))
    <3>1. Broken(t)' => Due(t)
      BY <1>3 DEF CountEffects
    <3>2. LocksTarget(u) /\ t = a => Locked(t)
      BY <2>1, TargetLocked
    <3> QED
      BY <1>6, <2>1, <2>2, <3>1, <3>2 DEF Due
  <2> QED
    BY <2>2
<1> QED
  BY <1>1, <1>2, <1>3, <1>4, <1>7 DEF Effects, CountEffects, Matched, Broken

\* The driver still looks at everything.
LEMMA RootStays == ASSUME IndInv, RootInv, NEW u \in Threads, Step(u) PROVE RootInv'
<1>1. NewCalls(u) /\ Effects(u)
  BY StepCalls, StepEffects
<1>2. TypeOK' /\ TypeOK /\ stack' \in [Threads -> Seq(Frames)]
  BY StepKeeps DEF IndInv, TypeOK
<1>3. \A i \in 1 .. Len(prerequisites[Root]) : prerequisites[Root][i] \in Targets
  BY <1>2, MatchAssumption DEF TypeOK, Nodes
<1>4. ASSUME NEW c \in Calls' PROVE Sated(Frame(c))'
  <2>1. PICK g : g = Frame(c)'
    OBVIOUS
  <2>2. Sated(g)
    <3>1. CASE g.step = "done"
      BY <3>1 DEF Sated
    <3>2. CASE c \in Calls /\ Onward(Frame(c), Frame(c)')
      BY <2>1, <3>2 DEF Onward, RootInv
    <3>3. CASE Begins(u, g)
      BY <3>3, MatchAssumption DEF Begins, Sated
    <3> QED
      BY <1>1, <2>1, <3>1, <3>2, <3>3 DEF NewCalls
  <2>3. Sound(g)' /\ g \in Frames
    BY <1>2, <2>1, StepKeeps, Pairs DEF IndInv, FramesInv, Frame, Calls
  <2>4. ASSUME g.target = Root, ~g.bad, g.step = "wait"
        PROVE  \/ g.next = Len(prerequisites[Root]) + 1
               \/ \E i \in 1 .. g.next - 1 : Broken(prerequisites[Root][i])'
    <3>1. g.next = Len(prerequisites[Root]) + 1 \/ \E i \in 1 .. g.next - 1 : Broken(prerequisites[Root][i])
      BY <2>2, <2>4 DEF Sated
    <3>2. g.next <= Len(prerequisites[Root]) + 1 /\ g.next \in Nat /\ Len(prerequisites[Root]) \in Nat
      BY <1>1, <1>2, <2>3, <2>4, FrameTypes DEF Effects, Sound, InRange
    <3>3. ASSUME NEW i \in 1 .. g.next - 1, Broken(prerequisites[Root][i]) PROVE Broken(prerequisites[Root][i])'
      BY <1>1, <1>3, <3>2, <3>3 DEF Effects, Broken
    <3> QED
      BY <3>1, <3>3
  <2>5. ASSUME g.target = Root, ~g.bad, g.step \in {"finish", "lock"}
        PROVE  g.last = Len(prerequisites[Root]) \/ \E i \in g.next .. g.last : Broken(prerequisites[Root][i])'
    <3>1. g.last = Len(prerequisites[Root]) \/ \E i \in g.next .. g.last : Broken(prerequisites[Root][i])
      BY <2>2, <2>5 DEF Sated
    <3>2. /\ g.next >= 1 /\ g.last <= Len(prerequisites[Root]) /\ g.next \in Nat /\ g.last \in Nat
          /\ Len(prerequisites[Root]) \in Nat
      BY <1>1, <1>2, <2>3, <2>5, FrameTypes DEF Effects, Sound, InRange
    <3>3. ASSUME NEW i \in g.next .. g.last, Broken(prerequisites[Root][i]) PROVE Broken(prerequisites[Root][i])'
      BY <1>1, <1>3, <3>2, <3>3 DEF Effects, Broken
    <3> QED
      BY <3>1, <3>3
  <2> QED
    BY <1>1, <2>1, <2>4, <2>5 DEF Sated, Effects
<1> QED
  BY <1>4 DEF RootInv

\* Who answers for a target goes on to.
LEMMA AnswersStay ==
    ASSUME IndInv, RootInv, NEW u \in Threads, Step(u), NEW p \in Nodes, NEW t \in Targets, Answers(p, t), Due(t)
    PROVE  Answers(p, t)'
<1>1. OldCalls /\ Effects(u) /\ TypeOK /\ PlacesInv /\ LocksInv
  BY StepCalls, StepEffects DEF IndInv
<1>2. ~Matched(t)
  <2>1. Held(t) => task_count[t] >= count_busy
    BY <1>1 DEF LocksInv
  <2>2. count_applied \in Nat /\ count_busy = count_applied + 2
    BY <1>1, Counts
  <2> QED
    BY <2>1, <2>2 DEF Due, Broken, Matched
<1>3. CASE p = Root /\ result = "failed"
  <2>1. ASSUME NEW c \in Calls, Frame(c).target = Root PROVE FALSE
    <3>1. c = <<Main, 1>>
      BY <1>1, <2>1 DEF PlacesInv, Placed
    <3> QED
      BY <1>1, <1>3, <3>1 DEF PlacesInv
  <2>2. result' = result
    BY <1>1, <2>1 DEF Effects
  <2> QED
    BY <1>3, <2>2 DEF Answers
<1>4. CASE p # Root /\ Broken(p)
  <2>1. p \in Targets
    BY <1>4 DEF Nodes
  <2>2. Broken(p)'
    BY <1>1, <1>4, <2>1 DEF Effects
  <2> QED
    BY <1>4, <2>2 DEF Answers
<1>5. CASE \E c \in Calls : Holding(c) /\ Frame(c).target = p /\ (Frame(c).bad \/ Asks(Frame(c), t))
  <2>1. PICK c \in Calls : Holding(c) /\ Frame(c).target = p /\ (Frame(c).bad \/ Asks(Frame(c), t))
    BY <1>5
  <2>2. CASE c \in Calls' /\ Onward(Frame(c), Frame(c)')
    <3>1. PICK g : g = Frame(c)'
      OBVIOUS
    <3>2. g.target = p /\ g.step # "done" /\ (g.bad \/ Asks(g, t))
      BY <1>2, <2>1, <2>2, <3>1 DEF Onward
    <3>3. Asks(g, t)' <=> Asks(g, t)
      BY <1>1 DEF Asks, Effects
    <3> QED
      BY <2>2, <3>1, <3>2, <3>3 DEF Answers, Holding, Asks
  <2>3. CASE Over(c)
    <3>1. Frame(c).bad
      BY <2>1, <2>3 DEF Over, Asks
    <3>2. CASE p = Root
      BY <2>1, <2>3, <3>1, <3>2 DEF Over, Answers
    <3>3. CASE p # Root
      BY <1>1, <2>1, <2>3, <3>1, <3>3 DEF Over, Answers, Broken, Effects
    <3> QED
      BY <3>2, <3>3
  <2> QED
    BY <1>1, <2>1, <2>2, <2>3 DEF OldCalls
<1> QED
  BY <1>3, <1>4, <1>5 DEF Answers

\* A failure is still answered for: whoever locks a target is going to look at it.
LEMMA AnswersKeep == ASSUME IndInv, RootInv, AnswerInv, NEW u \in Threads, Step(u) PROVE AnswerInv'
<1>1. Effects(u)
  BY StepEffects
<1>2. PICK a : \A t \in Targets : Due(t)' => Due(t) \/ (t = a /\ Locked(t))
  BY <1>1 DEF Effects
<1> SUFFICES ASSUME NEW S \in SUBSET Targets, S # {}, \A t \in S : Due(t)'
             PROVE  \E t \in S : \E p \in Nodes \ S : Answers(p, t)'
  BY DEF AnswerInv
<1>3. \A t \in S : Due(t) \/ (t = a /\ Locked(t))
  BY <1>2
<1>4. PICK R \in SUBSET Targets : R = {t \in S : Due(t)}
  OBVIOUS
<1>5. CASE R = {}
  <2>1. S = {a} /\ Locked(a)
    BY <1>3, <1>4, <1>5
  <2>2. PICK c \in Calls' : Frame(c)'.step # "done" /\ Frame(c)'.target \in Nodes \ {a} /\ Asks(Frame(c)', a)
    BY <2>1 DEF Locked
  <2>3. Asks(Frame(c), a)'
    BY <1>1, <2>2 DEF Asks, Effects
  <2>4. PICK p \in Nodes \ {a} : p = Frame(c)'.target
    BY <2>2
  <2>5. Answers(p, a)'
    BY <2>2, <2>3, <2>4 DEF Answers, Holding
  <2> QED
    BY <2>1, <2>5
<1>6. CASE R # {}
  <2>1. PICK t \in R, p \in Nodes \ R : Answers(p, t)
    BY <1>4, <1>6 DEF AnswerInv
  <2>2. t \in S /\ Due(t)
    BY <1>4
  <2>3. p \notin S
    <3> SUFFICES ASSUME p \in S PROVE FALSE
      OBVIOUS
    <3>1. p \in Targets /\ p # Root /\ ~Due(p)
      BY <1>4, MatchAssumption
    <3> QED
      BY <2>1, <3>1 DEF Answers, Due, Held
  <2>4. Answers(p, t)'
    BY <2>1, <2>2, AnswersStay
  <2> QED
    BY <2>2, <2>3, <2>4
<1> QED
  BY <1>5, <1>6

\* A dependency is a node and an index of its prerequisites.
LEMMA EdgeParts ==
    ASSUME TypeOK, NEW e \in Edges
    PROVE  /\ e = <<e[1], e[2]>> /\ e[1] \in Nodes /\ e[2] \in 1 .. Len(prerequisites[e[1]]) /\ e[2] \in Nat /\ e[2] >= 1
           /\ prerequisites[e[1]][e[2]] \in Targets
<1>1. prerequisites \in [Nodes -> Seq(Targets)]
  BY MatchAssumption DEF TypeOK
<1>2. PICK n \in Nodes : e \in {n} \X DOMAIN prerequisites[n]
  BY DEF Edges
<1>3. prerequisites[n] \in Seq(Targets)
  BY <1>1, <1>2
<1>4. e = <<e[1], e[2]>> /\ e[1] = n /\ e[2] \in 1 .. Len(prerequisites[n])
  BY <1>2, <1>3
<1>5. Len(prerequisites[n]) \in Nat /\ prerequisites[n][e[2]] \in Targets
  BY <1>3, <1>4
<1> QED
  BY <1>4, <1>5

\* What may have been counted stays so.
LEMMA MayStays ==
    ASSUME IndInv, RootInv, NEW u \in Threads, Step(u), NEW e \in Edges, MayCount(e)
    PROVE  MayCount(e)'
<1>1. OldCalls /\ Effects(u) /\ TypeOK /\ PlacesInv /\ e[1] \in Nodes /\ e[2] \in Nat
  BY StepCalls, StepEffects, EdgeParts DEF IndInv
<1>2. CASE e[1] = Root /\ result # "running"
  <2>1. ASSUME NEW c \in Calls, Frame(c).target = Root PROVE FALSE
    <3>1. c = <<Main, 1>>
      BY <1>1, <2>1 DEF PlacesInv, Placed
    <3> QED
      BY <1>1, <1>2, <3>1 DEF PlacesInv
  <2>2. result' = result
    BY <1>1, <2>1 DEF Effects
  <2> QED
    BY <1>2, <2>2 DEF MayCount
<1>3. CASE e[1] \in Targets /\ task_count[e[1]] = count_applied
  BY <1>1, <1>3 DEF MayCount, Effects
<1>4. CASE \E c \in Calls : Holding(c) /\ Frame(c).target = e[1] /\ Past(Frame(c), e[2])
  <2>1. PICK c \in Calls : Holding(c) /\ Frame(c).target = e[1] /\ Past(Frame(c), e[2])
    BY <1>4
  <2>2. CASE c \in Calls' /\ Onward(Frame(c), Frame(c)')
    <3>1. Frame(c)'.target = e[1] /\ Frame(c)'.step # "done" /\ Past(Frame(c)', e[2])
      BY <1>1, <2>1, <2>2 DEF Onward
    <3> QED
      BY <2>2, <3>1 DEF MayCount, Holding, Past
  <2>3. CASE Over(c)
    <3>1. CASE e[1] = Root
      BY <2>1, <2>3, <3>1 DEF Over, MayCount
    <3>2. CASE e[1] # Root
      BY <1>1, <2>1, <2>3, <3>2 DEF Over, MayCount, Effects, Nodes
    <3> QED
      BY <3>1, <3>2
  <2> QED
    BY <1>1, <2>1, <2>2, <2>3 DEF OldCalls
<1> QED
  BY <1>2, <1>3, <1>4 DEF MayCount

\* What must have been counted had to before, but for what MatchApplied() counts.
LEMMA MustBefore ==
    ASSUME IndInv, RootInv, NEW u \in Threads, Step(u), NEW e \in Edges, MustCount(e)'
    PROVE  \/ MustCount(e)
           \/ /\ MatchApplied(u) /\ e = <<Top(u).target, Top(u).next>>
              /\ state[prerequisites[Top(u).target][Top(u).next]] # "failed"
<1>1. NewCalls(u) /\ Effects(u) /\ TypeOK
  BY StepCalls, StepEffects DEF IndInv
<1>2. /\ e = <<e[1], e[2]>> /\ e[1] \in Nodes /\ e[2] \in 1 .. Len(prerequisites[e[1]]) /\ e[2] \in Nat /\ e[2] >= 1
  BY <1>1, EdgeParts
<1>3. CASE e[1] = Root /\ result' = "matched"
  <2>1. CASE result' = result
    BY <1>3, <2>1 DEF MustCount
  <2>2. CASE \E c \in Calls : Holding(c) /\ Frame(c).target = Root /\ Over(c)
    BY <1>3, <2>2 DEF MustCount, Over, Past
  <2> QED
    BY <1>1, <2>1, <2>2 DEF Effects
<1>4. CASE e[1] \in Targets /\ Matched(e[1])'
  <2>1. \/ Matched(e[1])
        \/ \E c \in Calls : Holding(c) /\ Frame(c).target = e[1] /\ Frame(c).step = "end" /\ ~Frame(c).bad
    BY <1>1, <1>4 DEF Effects
  <2> QED
    BY <1>4, <2>1 DEF MustCount, Past
<1>5. CASE \E c \in Calls' : Frame(c)'.step # "done" /\ Frame(c)'.target = e[1] /\ ~Frame(c)'.bad /\ Past(Frame(c)', e[2])
  <2>1. PICK c \in Calls' : Frame(c)'.step # "done" /\ Frame(c)'.target = e[1] /\ ~Frame(c)'.bad /\ Past(Frame(c)', e[2])
    BY <1>5
  <2>2. CASE c \in Calls /\ Holding(c) /\ Onward(Frame(c), Frame(c)') /\ Level(Frame(c), Frame(c)')
    <3>1. Frame(c).target = e[1] /\ ~Frame(c).bad /\ Past(Frame(c), e[2])
      BY <1>2, <2>1, <2>2 DEF Onward, Level
    <3> QED
      BY <2>2, <3>1 DEF MustCount
  <2>3. CASE /\ c \in Calls /\ Holding(c) /\ Onward(Frame(c), Frame(c)')
             /\ Looks(u, Frame(c), Frame(c)') /\ ~Past(Frame(c), e[2])
    <3>1. Frame(c).target = e[1] /\ e[2] = Frame(c).next /\ Frame(c) = Top(u)
      BY <1>2, <2>1, <2>3 DEF Onward, Looks
    <3> QED
      BY <1>2, <2>3, <3>1 DEF Looks
  <2>4. CASE c \in Calls /\ Holding(c) /\ Onward(Frame(c), Frame(c)') /\ Past(Frame(c), e[2])
    <3>1. Frame(c).target = e[1] /\ ~Frame(c).bad
      BY <2>1, <2>4 DEF Onward
    <3> QED
      BY <2>4, <3>1 DEF MustCount
  <2>5. CASE Begins(u, Frame(c)')
    BY <1>2, <2>1, <2>5 DEF Begins, Past
  <2> QED
    BY <1>1, <2>1, <2>2, <2>3, <2>4, <2>5 DEF NewCalls
<1>6. CASE \E c \in Calls' : Holding(c)' /\ Frame(c)'.target = e[1] /\ ~Frame(c)'.bad /\ Past(Frame(c), e[2])'
  BY <1>5, <1>6 DEF Holding, Past
<1> QED
  BY <1>3, <1>4, <1>6 DEF MustCount

\* A step that counts nothing.
LEMMA CountsStay ==
    ASSUME IndInv, RootInv, NEW u \in Threads, Step(u), NEW D \in SUBSET Edges, Counted(D),
           ~MatchApplied(u) \/ (dependents' = dependents /\ \A e \in Edges : MustCount(e)' => MustCount(e))
    PROVE  D \in SUBSET Edges' /\ Counted(D)'
<1>1. Effects(u) /\ TypeOK /\ prerequisites' = prerequisites
  BY StepEffects DEF IndInv, Effects
<1>2. Edges' = Edges /\ \A t : On(t, D)' = On(t, D)
  BY <1>1 DEF Edges, On
<1>3. IsFiniteSet(D)
  BY DEF Counted
<1>4. ASSUME NEW e \in D PROVE Matched(prerequisites[e[1]][e[2]])' /\ MayCount(e)'
  <2>1. Matched(prerequisites[e[1]][e[2]]) /\ MayCount(e) /\ prerequisites[e[1]][e[2]] \in Targets
    BY <1>1, <1>4, EdgeParts DEF Counted
  <2>2. PICK t \in Targets : t = prerequisites[e[1]][e[2]]
    BY <2>1
  <2>3. Matched(t)'
    BY <1>1, <2>1, <2>2 DEF Effects
  <2> QED
    BY <1>1, <1>4, <2>1, <2>2, <2>3, MayStays DEF Matched
<1>5. ASSUME NEW e \in Edges, MustCount(e)' PROVE e \in D
  BY <1>5, MustBefore DEF Counted
<1>6. ASSUME NEW t \in Targets, task_count'[t] > count_base PROVE dependents'[t] = Cardinality(On(t, D))
  <2>1. CASE task_count[t] > count_base /\ dependents'[t] = dependents[t]
    BY <2>1 DEF Counted
  <2>2. CASE dependents'[t] = 0 /\ ~Matched(t)
    <3>1. On(t, D) = {}
      BY <2>2 DEF On, Counted
    <3> QED
      BY <2>2, <3>1, FS_EmptySet
  <2> QED
    BY <1>1, <1>6, <2>1, <2>2 DEF Effects
<1> QED
  BY <1>1, <1>2, <1>3, <1>4, <1>5, <1>6 DEF Counted, Effects

\* A step that counts one more dependency, which has not been counted yet.
LEMMA MatchAppliedCounts ==
    ASSUME IndInv, RootInv, NEW u \in Threads, Step(u), MatchApplied(u), NEW D \in SUBSET Edges, Counted(D)
    PROVE  \E E \in SUBSET Edges' : Counted(E)'
<1>1. PICK f : f = Top(u)
  OBVIOUS
<1>2. /\ Effects(u) /\ TypeOK /\ PlacesInv /\ LocksInv /\ stack \in [Threads -> Seq(Frames)]
      /\ count_base \in Nat /\ count_applied \in Nat /\ count_base < count_applied /\ count_busy = count_applied + 2
  BY StepEffects, Counts DEF IndInv, TypeOK
<1>3. /\ Busy(u) /\ f \in Frames /\ f.step = "finish" /\ f.next \in 1 .. Len(prerequisites[f.target])
      /\ task_count[prerequisites[f.target][f.next]] = count_applied
      /\ \E g : /\ stack' = Moved(u, g) /\ Onward(f, g)
                /\ IF state[prerequisites[f.target][f.next]] = "failed"
                   THEN Level(f, g)
                   ELSE Past(g, f.next) /\ Looks(u, f, g)
  BY <1>1, MatchAppliedOn
<1>4. PICK t : t = prerequisites[f.target][f.next]
  OBVIOUS
<1>5. PICK g : /\ stack' = Moved(u, g) /\ Onward(f, g)
               /\ IF state[t] = "failed" THEN Level(f, g) ELSE Past(g, f.next) /\ Looks(u, f, g)
  BY <1>3, <1>4
<1>6. /\ f.target \in Nodes /\ f.next \in Nat /\ Len(prerequisites[f.target]) \in Nat
      /\ prerequisites[f.target] \in Seq(Targets) /\ t \in Targets
  BY <1>2, <1>3, <1>4, FrameTypes
<1>7. dependents' = [dependents EXCEPT ![t] = IF state[t] = "failed" THEN @ ELSE @ + 1] /\ t = Prerequisite(f)
      /\ task_count' = task_count /\ state' = state
  BY <1>1, <1>4 DEF MatchApplied, Prerequisite
<1>8. PICK e : e = <<f.target, f.next>>
  OBVIOUS
<1>9. e \in Edges /\ e[1] = f.target /\ e[2] = f.next
  BY <1>3, <1>6, <1>8 DEF Edges
<1>10. CASE state[t] = "failed"
  <2>1. dependents' = dependents
    BY <1>2, <1>6, <1>7, <1>10 DEF TypeOK
  <2>2. ASSUME NEW x \in Edges, MustCount(x)' PROVE MustCount(x)
    BY <1>1, <1>4, <1>10, <2>2, MustBefore
  <2> QED
    BY <2>1, <2>2, CountsStay
<1>11. CASE state[t] # "failed"
  <2>1. PICK c \in Calls : Innermost(u, c) /\ Frame(c) = f /\ Holding(c) /\ (f.target = Root \/ task_count[f.target] >= count_busy)
    BY <1>1, <1>3, TopCall
  <2>2. g \in Frames /\ g.target = f.target /\ g.step # "done" /\ Past(g, f.next)
    BY <1>5, <1>11 DEF Onward
  <2>3. Calls' = Calls /\ Frame(c)' = g
    BY <1>2, <1>5, <2>1, <2>2, MovedStack
  <2>4. ~Past(f, f.next)
    BY <1>3, <1>6 DEF Past
  <2>5. e \notin D
    <3> SUFFICES ASSUME MayCount(e) PROVE FALSE
      BY DEF Counted
    <3>1. CASE e[1] = Root /\ result # "running"
      <4>1. c = <<Main, 1>>
        BY <1>2, <1>9, <2>1, <3>1 DEF PlacesInv, Placed
      <4> QED
        BY <1>2, <3>1, <4>1 DEF PlacesInv
    <3>2. CASE e[1] \in Targets /\ task_count[e[1]] = count_applied
      BY <1>2, <1>9, <2>1, <3>2, MatchAssumption
    <3>3. CASE \E d \in Calls : Holding(d) /\ Frame(d).target = e[1] /\ Past(Frame(d), e[2])
      <4>1. PICK d \in Calls : Holding(d) /\ Frame(d).target = e[1] /\ Past(Frame(d), e[2])
        BY <3>3
      <4>2. d = c
        BY <1>2, <1>9, <2>1, <4>1 DEF LocksInv
      <4> QED
        BY <1>9, <2>1, <2>4, <4>1, <4>2
    <3> QED
      BY <3>1, <3>2, <3>3 DEF MayCount
  <2>6. PICK E \in SUBSET Edges : E = D \cup {e}
    BY <1>9
  <2>7. IsFiniteSet(D) /\ IsFiniteSet(E)
    BY <2>6, FS_AddElement DEF Counted
  <2>8. Edges' = Edges /\ \A q : On(q, E)' = On(q, E)
    BY <1>2 DEF Effects, Edges, On
  <2>9. MayCount(e)'
    <3>1. Frame(c)'.target = e[1] /\ Frame(c)'.step # "done" /\ Past(Frame(c)', e[2])
      BY <1>9, <2>2, <2>3
    <3> QED
      BY <2>3, <3>1 DEF MayCount, Holding, Past
  <2>10. Matched(t)'
    BY <1>2, <1>3, <1>4, <1>7, <1>11 DEF Matched, Effects
  <2>11. ASSUME NEW x \in E PROVE Matched(prerequisites[x[1]][x[2]])' /\ MayCount(x)'
    <3>1. CASE x = e
      BY <1>2, <1>4, <1>9, <2>9, <2>10, <3>1 DEF Matched, Effects
    <3>2. CASE x \in D
      <4>1. Matched(prerequisites[x[1]][x[2]]) /\ MayCount(x) /\ prerequisites[x[1]][x[2]] \in Targets
        BY <1>2, <3>2, EdgeParts DEF Counted
      <4>2. PICK q \in Targets : q = prerequisites[x[1]][x[2]]
        BY <4>1
      <4>3. Matched(q)'
        BY <1>2, <4>1, <4>2 DEF Effects
      <4>4. MayCount(x)'
        BY <3>2, <4>1, MayStays
      <4> QED
        BY <1>2, <4>2, <4>3, <4>4 DEF Matched, Effects
    <3> QED
      BY <2>6, <3>1, <3>2
  <2>12. ASSUME NEW x \in Edges, MustCount(x)' PROVE x \in E
    <3>1. MustCount(x) \/ x = e
      BY <1>1, <1>8, <2>12, MustBefore
    <3> QED
      BY <2>6, <3>1 DEF Counted
  <2>13. ASSUME NEW q \in Targets, task_count[q] > count_base PROVE dependents'[q] = Cardinality(On(q, E))
    <3>1. dependents[q] = Cardinality(On(q, D)) /\ dependents[q] \in Nat
      BY <1>2, <2>13 DEF Counted, TypeOK
    <3>2. CASE q = t
      <4>1. On(q, E) = On(q, D) \cup {e} /\ e \notin On(q, D)
        BY <1>4, <1>9, <2>5, <2>6, <3>2 DEF On
      <4>2. IsFiniteSet(On(q, D))
        BY <2>7, FS_Subset DEF On
      <4>3. Cardinality(On(q, E)) = Cardinality(On(q, D)) + 1
        BY <4>1, <4>2, FS_AddElement
      <4>4. dependents'[q] = dependents[q] + 1
        BY <1>2, <1>7, <1>11, <3>2 DEF TypeOK
      <4> QED
        BY <3>1, <4>3, <4>4
    <3>3. CASE q # t
      <4>1. On(q, E) = On(q, D)
        BY <1>4, <1>9, <2>6, <3>3 DEF On
      <4>2. dependents'[q] = dependents[q]
        BY <1>2, <1>7, <3>3 DEF TypeOK
      <4> QED
        BY <3>1, <4>1, <4>2
    <3> QED
      BY <3>2, <3>3
  <2>14. Counted(E)'
    BY <1>2, <1>7, <2>7, <2>8, <2>11, <2>12, <2>13 DEF Counted, Effects
  <2> QED
    BY <2>8, <2>14
<1> QED
  BY <1>10, <1>11

\* In both cases there is still such a set.
LEMMA EdgesKeep == ASSUME IndInv, RootInv, EdgesInv, NEW u \in Threads, Step(u) PROVE EdgesInv'
<1>1. PICK D \in SUBSET Edges : Counted(D)
  BY DEF EdgesInv
<1>2. CASE MatchApplied(u)
  BY <1>1, <1>2, MatchAppliedCounts DEF EdgesInv
<1>3. CASE ~MatchApplied(u)
  BY <1>1, <1>3, CountsStay DEF EdgesInv
<1> QED
  BY <1>2, <1>3

-----------------------------------------------------------------------------
(***************************************************************************)
(* At the beginning of an operation nothing has been counted.              *)
(***************************************************************************)
Uncounted == Fresh /\ \A t \in Targets : task_count[t] <= count_base

\* There the empty set will do.
LEMMA UncountedKeeps == Uncounted => AnswerInv /\ RootInv /\ EdgesInv
<1> SUFFICES ASSUME Uncounted PROVE AnswerInv /\ RootInv /\ EdgesInv
  OBVIOUS
<1>1. PICK g : g = Call(Root, {}, Root)
  OBVIOUS
<1>2. /\ TypeOK /\ Calls = {<<Main, 1>>} /\ Frame(<<Main, 1>>) = g /\ queued = {} /\ result = "running"
      /\ count_base \in Nat /\ count_applied \in Nat /\ count_base < count_applied
      /\ \A t \in Targets : task_count[t] <= count_base /\ task_count[t] \in Nat
  BY <1>1, Counts DEF Uncounted, Fresh, TypeOK, Nodes
<1>3. g.target = Root /\ g.step = "start"
  BY <1>1, <1>2, CallParts DEF Nodes
<1>4. \A t \in Targets : task_count[t] # count_applied
  BY <1>2
<1>5. AnswerInv
  <2>1. \A t \in Targets : ~Held(t)
    BY <1>2, <1>3, MatchAssumption DEF Held
  <2> QED
    BY <1>4, <2>1 DEF AnswerInv, Due, Broken
<1>6. RootInv
  BY <1>2, <1>3 DEF RootInv, Sated
<1>7. EdgesInv
  <2>1. \A e : ~MustCount(e)
    BY <1>2, <1>3, <1>4 DEF MustCount, Matched, Past
  <2>2. \A t \in Targets : ~(task_count[t] > count_base)
    BY <1>2
  <2>3. Counted({})
    BY <2>1, <2>2, FS_EmptySet DEF Counted
  <2> QED
    BY <2>3 DEF EdgesInv
<1> QED
  BY <1>5, <1>6, <1>7

LEMMA UncountedNext == Uncounted' => AnswerInv' /\ RootInv' /\ EdgesInv'
BY UncountedKeeps, PTL

\* The first operation begins like that, ...
LEMMA InitCounted == Init => CountedInv
<1> SUFFICES ASSUME Init PROVE Uncounted
  BY InitKeeps, UncountedKeeps DEF CountedInv
<1>1. Fresh
  BY InitFresh
<1>2. \A t \in Targets : task_count[t] <= count_base
  BY DEF Init, count_base, Nodes
<1> QED
  BY <1>1, <1>2 DEF Uncounted

\* ... and so does the next, as its band of counts is above those that there are.
LEMMA NextOperationCounted == ASSUME IndInv, NextOperation PROVE Uncounted'
<1>1. Fresh'
  BY NextOperationFresh
<1>2. /\ TypeOK /\ FramesInv /\ PlacesInv /\ LocksInv /\ RootedInv /\ result = "matched"
      /\ current_on \in Nat /\ current_on' = current_on + 1
      /\ count_base \in Nat /\ count_applied = count_base + 4 /\ count_executed = count_base + 5
      /\ count_busy = count_applied + 2
  BY MatchAssumption, Counts DEF IndInv, TypeOK, NextOperation, count_base, count_applied, count_executed
<1>3. count_base' = count_base + 5
  BY <1>2 DEF count_base
<1>4. Calls = {} /\ queued = {}
  BY <1>2, NothingWithoutRoot DEF PlacesInv
<1>5. ~fail
  BY <1>2, FailureIsResult DEF FailureReported
<1>6. PICK executed \in {{}, Targets} :
         task_count' = [n \in Nodes |-> IF n \in executed /\ task_count[n] = count_applied
                                          THEN count_executed ELSE task_count[n]]
  BY DEF NextOperation
<1>7. ASSUME NEW t \in Targets PROVE task_count'[t] <= count_base'
  <2>1. ~Held(t)
    BY <1>4 DEF Held
  <2>2. t \in Nodes /\ task_count[t] \in Nat
    BY <1>2 DEF TypeOK, Nodes
  <2>3. task_count[t] < count_busy
    BY <1>2, <1>5, <2>1, <2>2 DEF LocksInv
  <2>4. task_count[t] <= count_applied
    BY <1>2, <2>3 DEF LocksInv
  <2>5. task_count'[t] \in {count_executed, task_count[t]}
    BY <1>6, <2>2
  <2> QED
    BY <1>2, <1>3, <2>2, <2>4, <2>5
<1> QED
  BY <1>1, <1>7 DEF Uncounted

\* Nothing changes.
LEMMA StutterCounted == ASSUME CountedInv, UNCHANGED vars PROVE CountedInv'
<1>1. /\ prerequisites' = prerequisites /\ keep_going' = keep_going /\ current_on' = current_on
      /\ task_count' = task_count /\ state' = state /\ dependents' = dependents /\ stack' = stack
      /\ queued' = queued /\ fail' = fail /\ result' = result
  BY DEF vars, build
<1>2. IndInv'
  BY StutterKeeps DEF CountedInv
<1>3. /\ Calls' = Calls /\ \A d : Frame(d)' = Frame(d) /\ (Holding(d)' <=> Holding(d))
      /\ Edges' = Edges /\ count_base' = count_base /\ count_applied' = count_applied
  BY <1>1 DEF Calls, Frame, Holding, Edges, count_applied, count_base
<1>4. \A t : /\ (Broken(t)' <=> Broken(t)) /\ (Matched(t)' <=> Matched(t)) /\ (Held(t)' <=> Held(t))
             /\ (Due(t)' <=> Due(t))
  BY <1>1, <1>3 DEF Broken, Matched, Due, Held
<1>5. AnswerInv'
  <2>1. \A d, t : Asks(Frame(d), t)' <=> Asks(Frame(d), t)
    BY <1>1, <1>3 DEF Asks
  <2>2. \A p, t : Answers(p, t)' <=> Answers(p, t)
    BY <1>1, <1>3, <1>4, <2>1 DEF Answers
  <2> QED
    BY <1>4, <2>2 DEF CountedInv, AnswerInv
<1>6. RootInv'
  BY <1>1, <1>3, <1>4 DEF CountedInv, RootInv, Sated
<1>7. EdgesInv'
  <2>1. \A d, i : Past(Frame(d), i)' <=> Past(Frame(d), i)
    BY <1>3 DEF Past
  <2>2. \A e : (MayCount(e)' <=> MayCount(e)) /\ (MustCount(e)' <=> MustCount(e))
    BY <1>1, <1>3, <1>4, <2>1 DEF MayCount, MustCount
  <2>3. \A t, D : On(t, D)' = On(t, D)
    BY <1>1 DEF On
  <2>4. \A D : Counted(D) => Counted(D)'
    BY <1>1, <1>3, <1>4, <2>2, <2>3 DEF Counted
  <2> QED
    BY <1>3, <2>4 DEF CountedInv, EdgesInv
<1> QED
  BY <1>2, <1>5, <1>6, <1>7 DEF CountedInv

\* The invariant is inductive.
LEMMA NextCounted == CountedInv /\ [Next]_vars => CountedInv'
<1> SUFFICES ASSUME CountedInv, [Next]_vars PROVE CountedInv'
  OBVIOUS
<1>1. ASSUME NEW u \in Threads, Step(u) PROVE CountedInv'
  BY <1>1, StepKeeps, AnswersKeep, RootStays, EdgesKeep DEF CountedInv
<1>2. CASE NextOperation
  BY <1>2, NextOperationCounted, UncountedNext, NextOperationFresh, FreshNext DEF CountedInv
<1>3. CASE UNCHANGED vars
  BY <1>3, StutterCounted
<1> QED
  BY <1>1, <1>2, <1>3 DEF Next, BuildDone

\* When the operation has been matched, what has been counted are the
\* dependencies of all that are matched.
LEMMA CountedExact == CountedInv => DependentsExact
<1> SUFFICES ASSUME CountedInv, result = "matched", NEW t \in Targets, Matched(t)
             PROVE  dependents[t] = Cardinality({e \in Edges : /\ prerequisites[e[1]][e[2]] = t
                                                               /\ e[1] = Root \/ Matched(e[1])})
  BY DEF DependentsExact
<1>1. /\ TypeOK /\ FramesInv /\ PlacesInv /\ LocksInv /\ RootedInv /\ AnswerInv
      /\ count_base \in Nat /\ count_applied \in Nat /\ count_base < count_applied
  BY Counts DEF CountedInv, IndInv
<1>2. Calls = {} /\ queued = {}
  BY <1>1, NothingWithoutRoot DEF PlacesInv
<1>3. ASSUME NEW q \in Targets PROVE ~Broken(q)
  <2>1. PICK S \in SUBSET Targets : S = {r \in Targets : Broken(r)}
    OBVIOUS
  <2>2. \A r \in S : Due(r)
    BY <2>1 DEF Due
  <2>3. ASSUME NEW r \in S, NEW p \in Nodes \ S, Answers(p, r) PROVE FALSE
    <3>1. p # Root /\ Broken(p)
      BY <1>2, <2>3 DEF Answers
    <3> QED
      BY <2>1, <2>3, <3>1 DEF Nodes
  <2> QED
    BY <1>1, <2>1, <2>2, <2>3 DEF AnswerInv
<1>4. PICK D \in SUBSET Edges : Counted(D)
  BY DEF CountedInv, EdgesInv
<1>5. dependents[t] = Cardinality(On(t, D))
  BY <1>1, <1>4 DEF Counted, Matched
<1>6. ASSUME NEW e \in Edges PROVE e \in D <=> e[1] = Root \/ Matched(e[1])
  <2>1. e[1] \in Nodes
    BY <1>1, EdgeParts
  <2>2. e \in D => e[1] = Root \/ Matched(e[1])
    BY <1>2, <1>3, <1>4 DEF Counted, MayCount, Broken, Matched
  <2>3. e[1] = Root \/ Matched(e[1]) => e \in D
    BY <1>4, <2>1 DEF Counted, MustCount, Nodes
  <2> QED
    BY <2>2, <2>3
<1>7. On(t, D) = {e \in Edges : prerequisites[e[1]][e[2]] = t /\ (e[1] = Root \/ Matched(e[1]))}
  BY <1>4, <1>6 DEF On
<1> QED
  BY <1>5, <1>7

-----------------------------------------------------------------------------
\* The dependents of every target have been counted exactly when match() of the
\* operation returns (match_inc_dependens()), by whatever threads in whatever
\* order they have matched it: execute() counts them down to the last one.
THEOREM DependentsExactCorrect == Spec => []DependentsExact
BY InitCounted, NextCounted, CountedExact, PTL DEF Spec

=============================================================================
