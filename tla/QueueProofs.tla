----------------------------- MODULE QueueProofs -----------------------------
(***************************************************************************)
(* Proofs about the two queues of the scheduler, for any values of their   *)
(* constants.                                                              *)
(*                                                                         *)
(* The task queue, for every depth, every nesting of tasks and every       *)
(* interleaving with the helpers: the circular buffer implements the       *)
(* double-ended queue of module Deque and the mark separates the levels.   *)
(*                                                                         *)
(* The wait queue, for any number of threads, counts and slots and any     *)
(* hash function: no wakeup is lost.                                       *)
(***************************************************************************)
EXTENDS TaskQueue, WaitQueue, SequenceTheorems, FiniteSetTheorems, TLAPS

\* Removing the last element of a sequence.
LEMMA ButLast ==
  ASSUME NEW S, NEW s \in Seq(S), s # <<>>
  PROVE  /\ Len(s) \in Nat \ {0} /\ s[Len(s)] \in S
         /\ SubSeq(s, 1, Len(s) - 1) \in Seq(S)
         /\ Len(SubSeq(s, 1, Len(s) - 1)) = Len(s) - 1
         /\ \A i \in 1 .. Len(s) - 1 : SubSeq(s, 1, Len(s) - 1)[i] = s[i]
<1>1. Len(s) \in Nat \ {0} /\ \A i \in 1 .. Len(s) : s[i] \in S
  OBVIOUS
<1> DEFINE n == Len(s) - 1
<1>2. n \in Int /\ 1 \in Int /\ \A i \in 1 .. n : s[i] \in S
  BY <1>1
<1> HIDE DEF n
<1>3. /\ SubSeq(s, 1, n) \in Seq(S)
      /\ Len(SubSeq(s, 1, n)) = IF 1 <= n THEN n - 1 + 1 ELSE 0
      /\ \A i \in 1 .. n - 1 + 1 : SubSeq(s, 1, n)[i] = s[1 + i - 1]
  BY ONLY <1>2, SubSeqProperties
<1>4. \A i \in 1 .. n : SubSeq(s, 1, n)[i] = s[i]
  BY <1>2, <1>3
<1>5. n \in Nat
  BY <1>1 DEF n
<1>6. Len(SubSeq(s, 1, n)) = n
  BY <1>3, <1>5
<1>7. s[Len(s)] \in S
  BY <1>1
<1> QED
  BY ONLY <1>1, <1>3, <1>4, <1>6, <1>7, Zenon DEF n

-----------------------------------------------------------------------------
(***************************************************************************)
(* The layout.                                                             *)
(***************************************************************************)

\* The indexes and the layout are right in the initial state.
LEMMA InitLayout == QueueInit => QueueTypeOK /\ RingOK
  BY QueueAssumption DEF QueueInit, QueueTypeOK, RingOK, Indexes, Level

\* Pushing, popping and going back to an interrupted wait keep them right.
LEMMA LayoutStep == QueueTypeOK /\ RingOK /\ [QueueNext]_queueVars => QueueTypeOK' /\ RingOK'
<1> SUFFICES ASSUME QueueTypeOK, RingOK, [QueueNext]_queueVars
             PROVE  QueueTypeOK' /\ RingOK'
  OBVIOUS
<1> USE QueueAssumption DEF QueueTypeOK, RingOK, Index, Indexes, Level, Disabled
<1>1. ASSUME NEW id \in Ids, Push(id)
      PROVE  QueueTypeOK' /\ RingOK'
  <2>1. tail' \in Indexes /\ tail' = TailAfterPush /\ size' = size + 1
    BY <1>1 DEF Push, TailAfterPush, Succ
  <2>2. [level |-> Level, id |-> id] \in Tasks
    BY DEF Tasks
  <2>3. data' \in [Indexes -> Tasks]
    BY <1>1, <2>1, <2>2 DEF Push
  <2>4. mark' \in 0 .. Depth /\ size' \in 0 .. Depth
    BY <1>1, <2>1 DEF Push, TailAfterPush, MarkAfterPush
  <2>5. head' = head /\ stack' = stack
    BY <1>1 DEF Push
  <2>6. RingOK'
    BY <1>1, <2>1, <2>5 DEF Push, TailAfterPush, Succ
  <2> QED
    BY <2>1, <2>3, <2>4, <2>5, <2>6
<1>2. CASE PushFull
  <2>1. [kind |-> "full", om |-> mark, a |-> FALSE] \in Frames
    BY DEF Frames
  <2> QED
    BY <1>2, <2>1 DEF PushFull
<1>3. CASE PopFront
  BY <1>3 DEF PopFront, HeadAfterPop, MarkAfterPop, Succ
<1>4. CASE PopBack
  <2>1. [kind |-> "pop", om |-> mark, a |-> (tail = mark)] \in Frames
    BY DEF Frames
  <2> QED
    BY <1>4, <2>1 DEF PopBack, Pred, empty_back
<1>5. CASE Return
  <2>1. Len(stack) \in Nat /\ Len(stack) # 0 /\ stack[Len(stack)] \in Frames
    BY <1>5 DEF Return
  <2>2. mark' \in 0 .. Depth
    BY <1>5, <2>1 DEF Return, Restored, Frames
  <2>3. stack' \in Seq(Frames) /\ Len(stack') = Len(stack) - 1
    BY <1>5, <2>1, ButLast DEF Return
  <2>4. UNCHANGED <<head, tail, size, data>>
    BY <1>5 DEF Return
  <2>5. RingOK'
    BY <2>4
  <2> QED
    BY <2>1, <2>2, <2>3, <2>4, <2>5
<1>6. CASE UNCHANGED queueVars
  BY <1>6 DEF queueVars
<1> QED
  BY <1>1, <1>2, <1>3, <1>4, <1>5, <1>6 DEF QueueNext
-----------------------------------------------------------------------------
(***************************************************************************)
(* The mark.                                                               *)
(***************************************************************************)

\* Index enumerates different places of the buffer.
LEMMA IndexFacts ==
  ASSUME QueueTypeOK
  PROVE  /\ \A i \in 1 .. Depth : Index(i) \in Indexes /\ data[Index(i)].level \in Nat
         /\ \A i, j \in 1 .. Depth : Index(i) = Index(j) => i = j
<1>1. \A i \in 1 .. Depth : Index(i) \in Indexes
  BY QueueAssumption DEF QueueTypeOK, Index, Indexes
<1>2. \A i \in 1 .. Depth : data[Index(i)].level \in Nat
  BY <1>1, QueueAssumption DEF QueueTypeOK, Tasks
<1>3. \A i, j \in 1 .. Depth : Index(i) = Index(j) => i = j
  BY QueueAssumption DEF QueueTypeOK, Index, Indexes
<1> QED
  BY <1>1, <1>2, <1>3

\* A push leaves the others where they are and puts its task behind them.
LEMMA PushMoves ==
  ASSUME QueueTypeOK, RingOK, NEW id \in Ids, Push(id)
  PROVE  /\ size' = size + 1 /\ stack' = stack
         /\ \A i \in 1 .. size : Index(i)' = Index(i) /\ data'[Index(i)] = data[Index(i)]
         /\ Index(size)' = tail'
         /\ data'[tail'] = [level |-> Level, id |-> id]
<1> USE QueueAssumption
<1>1. size' = size + 1 /\ stack' = stack /\ head' = head /\ size + 1 \in 1 .. Depth
  BY DEF Push, QueueTypeOK
<1>2. tail' = Index(size + 1)
  BY DEF Push, TailAfterPush, Succ, QueueTypeOK, RingOK, Index, Indexes
<1>3. \A i \in Nat : Index(i)' = Index(i)
  BY <1>1 DEF Index
<1>4. tail' \in Indexes /\ \A i \in 1 .. size : Index(i) \in Indexes /\ Index(i) # tail'
  <2>1. size \in 0 .. Depth /\ \A i \in 1 .. size : i \in 1 .. Depth /\ i # size + 1
    BY DEF QueueTypeOK
  <2> QED
    BY <1>1, <1>2, <2>1, IndexFacts
<1>5. \A i \in 1 .. size : data'[Index(i)] = data[Index(i)]
  BY <1>4 DEF Push, QueueTypeOK
<1>7. Index(size)' = Index(size + 1)
  BY <1>1 DEF Index, QueueTypeOK
<1>6. data'[tail'] = [level |-> Level, id |-> id]
  BY <1>4 DEF Push, QueueTypeOK
<1> QED
  BY <1>1, <1>2, <1>3, <1>5, <1>6, <1>7 DEF QueueTypeOK

\* A pop from the front moves everybody one place up.
LEMMA PopFrontMoves ==
  ASSUME QueueTypeOK, RingOK, PopFront
  PROVE  /\ size' = size - 1 /\ data' = data /\ stack' = stack
         /\ \A i \in 1 .. size - 1 : Index(i)' = Index(i + 1)
<1> USE QueueAssumption
<1>1. size' = size - 1 /\ data' = data /\ stack' = stack
  BY DEF PopFront
<1>2. size # 1 => head' = Succ(head)
  BY DEF PopFront, HeadAfterPop
<1>3. \A i \in 1 .. size - 1 : Index(i)' = Index(i + 1)
  BY <1>2 DEF Index, Succ, QueueTypeOK, Indexes
<1> QED
  BY <1>1, <1>3

\* A pop from the back moves nobody.
LEMMA PopBackMoves ==
  ASSUME QueueTypeOK, RingOK, PopBack
  PROVE  /\ size' = size - 1 /\ data' = data
         /\ \A i \in 1 .. size : Index(i)' = Index(i)
  BY DEF PopBack, Index, QueueTypeOK

\* The mark is fine in the initial state.
LEMMA InitMark == QueueInit => MarkInv
  BY DEF QueueInit, MarkInv, Beyond, Level

\* With a mark that has only tasks of its level behind it the owner takes
\* nothing else.
LEMMA MarkSeparates == QueueTypeOK /\ RingOK /\ MarkInv => LevelDiscipline
<1> SUFFICES ASSUME QueueTypeOK, RingOK, MarkInv, ~empty_back
             PROVE  data[tail].level = Level
  BY DEF LevelDiscipline
<1>1. size \in 1 .. Depth /\ tail = Index(size) /\ Level \in Nat
  BY QueueAssumption DEF empty_back, QueueTypeOK, RingOK, Level
<1>2. data[tail].level <= Level /\ data[tail].level \in Nat
  BY <1>1, IndexFacts DEF MarkInv
<1>3. Beyond(Level, mark)
  BY DEF MarkInv, empty_back
<1>4. data[tail].level >= Level
  BY <1>1, <1>3 DEF Beyond
<1> QED
  BY <1>1, <1>2, <1>4

\* The mark survives async() and wait() at any level and all helpers.
LEMMA MarkStep == QueueTypeOK /\ RingOK /\ MarkInv /\ [QueueNext]_queueVars => MarkInv'
<1> SUFFICES ASSUME QueueTypeOK, RingOK, MarkInv, [QueueNext]_queueVars
             PROVE  MarkInv'
  OBVIOUS
<1> USE QueueAssumption
<1>a. /\ Level \in Nat /\ stack \in Seq(Frames) /\ size \in 0 .. Depth
      /\ mark \in 0 .. Depth
      /\ \A k \in 1 .. Level : stack[k] \in Frames
  BY DEF QueueTypeOK, Level
<1>b. \A i \in 1 .. size : data[Index(i)].level \in Nat /\ i \in 1 .. Depth
  BY IndexFacts DEF QueueTypeOK
<1>c. /\ \A i \in 1 .. size : data[Index(i)].level <= Level
      /\ mark # Disabled => Beyond(Level, mark)
      /\ \A k \in 1 .. Level :
           stack[k].om # Disabled /\ ~stack[k].a => Beyond(k - 1, stack[k].om)
  BY DEF MarkInv
<1>1. ASSUME NEW id \in Ids, Push(id)
      PROVE  MarkInv'
  <2>1. /\ size' = size + 1 /\ stack' = stack /\ Level' = Level
        /\ \A i \in 1 .. size : Index(i)' = Index(i) /\ data'[Index(i)] = data[Index(i)]
        /\ Index(size)' = tail' /\ data'[tail'].level = Level
    <3>1. data'[tail'] = [level |-> Level, id |-> id]
      BY <1>1, PushMoves
    <3> QED
      BY <1>1, PushMoves, <3>1 DEF Level
  <2>2. \A i \in 1 .. size' :
          \/ i \in 1 .. size /\ data'[Index(i)'] = data[Index(i)]
          \/ i = size' /\ Index(i)' = tail' /\ data'[Index(i)'].level = Level
    BY <2>1, <1>a DEF Index
  <2>3. ASSUME NEW k \in 0 .. Level, NEW m, Beyond(k, m)
        PROVE  Beyond(k, m)'
    <3> SUFFICES ASSUME NEW i \in 1 .. size'
                 PROVE  \/ data'[Index(i)'].level >= k
                        \/ \E j \in i + 1 .. size' :
                              Index(j)' = m /\ data'[Index(j)'].level = k
      BY DEF Beyond
    <3>1. CASE data'[Index(i)'].level = Level
      BY <3>1, <1>a
    <3>2. CASE i \in 1 .. size /\ data'[Index(i)'] = data[Index(i)]
      <4>1. CASE data[Index(i)].level >= k
        BY <3>2, <4>1
      <4>2. ASSUME NEW j \in i + 1 .. size, Index(j) = m, data[Index(j)].level = k
            PROVE  j \in i + 1 .. size' /\ Index(j)' = m /\ data'[Index(j)'].level = k
        <5>1. j \in 1 .. size /\ j \in i + 1 .. size'
          BY <1>a, <2>1, <3>2
        <5> QED
          BY <2>1, <4>2, <5>1
      <4> QED
        BY <2>3, <3>2, <4>1, <4>2 DEF Beyond
    <3> QED
      BY <2>2, <3>1, <3>2
  <2>4. mark = Disabled => Beyond(Level, mark)'
    <3> SUFFICES ASSUME mark = Disabled, NEW i \in 1 .. size'
                 PROVE  \/ data'[Index(i)'].level >= Level
                        \/ \E j \in i + 1 .. size' :
                              Index(j)' = mark' /\ data'[Index(j)'].level = Level
      BY <2>1 DEF Beyond
    <3>1. mark' = tail'
      BY <1>1 DEF Push, MarkAfterPush
    <3>2. size' \in Nat /\ Index(size)' = mark' /\ data'[Index(size)'].level = Level
      BY <2>1, <3>1, <1>a
    <3>3. CASE i = size'
      BY <3>2, <3>3, <1>a, <2>1, <2>2
    <3>4. CASE i # size'
      <4>1. size' \in i + 1 .. size'
        BY <3>4, <3>2
      <4> QED
        BY <4>1, <3>2 DEF Index
    <3> QED
      BY <3>3, <3>4
  <2>5. mark # Disabled => mark' = mark /\ Beyond(Level, mark)'
    <3>1. mark # Disabled => mark' = mark
      BY <1>1 DEF Push, MarkAfterPush
    <3>2. PICK k, m : k = Level /\ m = mark
      OBVIOUS
    <3>3. mark # Disabled => Beyond(k, m)'
      BY <1>a, <1>c, <2>3, <3>2
    <3> QED
      BY <3>1, <3>2, <3>3, <2>1 DEF Beyond
  <2>6. \A i \in 1 .. size' : data'[Index(i)'].level <= Level'
    BY <2>1, <2>2, <1>a, <1>c
  <2>7. ASSUME NEW k \in 1 .. Level', stack'[k].om # Disabled', ~stack'[k].a
        PROVE  Beyond(k - 1, stack[k].om)'
    <3>1. PICK m : m = stack[k].om
      OBVIOUS
    <3>2. Beyond(k - 1, m)
      BY <2>1, <2>7, <3>1, <1>c DEF Disabled
    <3>3. Beyond(k - 1, m)'
      BY <3>2, <2>1, <2>3, <1>a
    <3> QED
      BY <3>1, <3>3, <2>1 DEF Beyond
  <2> QED
    BY <2>4, <2>5, <2>6, <2>7 DEF MarkInv, Disabled
<1>2. CASE PushFull
  <2>1. /\ UNCHANGED <<head, tail, size, data>> /\ mark' = Disabled
        /\ stack' = Append(stack, [kind |-> "full", om |-> mark, a |-> FALSE])
    BY <1>2 DEF PushFull
  <2>2. /\ Level' = Level + 1 /\ \A k \in 1 .. Level : stack'[k] = stack[k]
        /\ stack'[Level + 1].om = mark
    BY <2>1, <1>a DEF Level
  <2>3. ASSUME NEW k, NEW m, Beyond(k, m)
        PROVE  Beyond(k, m)'
    BY <2>1, <2>3 DEF Beyond, Index
  <2>4. \A i \in 1 .. size' : data'[Index(i)'].level <= Level'
    BY <2>1, <2>2, <1>a, <1>b, <1>c DEF Index
  <2>5. ASSUME NEW k \in 1 .. Level', stack'[k].om # Disabled', ~stack'[k].a
        PROVE  Beyond(k - 1, stack[k].om)'
    <3>1. PICK m : m = stack'[k].om
      OBVIOUS
    <3>2. CASE k \in 1 .. Level
      <4>1. stack'[k] = stack[k]
        BY <3>2, <2>2
      <4>2. Beyond(k - 1, m)
        BY <3>1, <3>2, <4>1, <2>5, <1>c DEF Disabled
      <4>3. Beyond(k - 1, m)'
        BY <4>2, <2>3
      <4> QED
        BY <4>3, <3>1 DEF Beyond
    <3>3. CASE k = Level + 1
      <4>1. k - 1 = Level /\ m = mark /\ mark # Disabled
        BY <3>1, <3>3, <2>2, <2>5, <1>a DEF Disabled
      <4>2. Beyond(k - 1, m)
        BY <4>1, <1>c
      <4>3. Beyond(k - 1, m)'
        BY <4>2, <2>3
      <4> QED
        BY <4>3, <3>1 DEF Beyond
    <3> QED
      BY <3>2, <3>3, <2>2, <1>a
  <2> QED
    BY <2>1, <2>4, <2>5 DEF MarkInv, Disabled
<1>3. CASE PopFront
  <2>1. /\ size' = size - 1 /\ data' = data /\ stack' = stack /\ Level' = Level
        /\ size \in 1 .. Depth
        /\ \A i \in 1 .. size - 1 : Index(i)' = Index(i + 1)
    BY <1>3, PopFrontMoves DEF Level, PopFront, QueueTypeOK
  <2>2. ASSUME NEW k, NEW m, Beyond(k, m)
        PROVE  Beyond(k, m)'
    <3> SUFFICES ASSUME NEW i \in 1 .. size'
                 PROVE  \/ data'[Index(i)'].level >= k
                        \/ \E j \in i + 1 .. size' :
                              Index(j)' = m /\ data'[Index(j)'].level = k
      BY DEF Beyond
    <3>1. i + 1 \in 1 .. size /\ Index(i)' = Index(i + 1)
      BY <2>1
    <3>2. CASE data[Index(i + 1)].level >= k
      BY <3>1, <3>2, <2>1
    <3>3. CASE \E j \in i + 2 .. size : Index(j) = m /\ data[Index(j)].level = k
      <4>1. PICK j \in i + 2 .. size : Index(j) = m /\ data[Index(j)].level = k
        BY <3>3
      <4>2. j - 1 \in i + 1 .. size' /\ j - 1 \in 1 .. size - 1 /\ (j - 1) + 1 = j
        BY <2>1, <3>1, <4>1
      <4>3. Index(j - 1)' = Index(j)
        BY <2>1, <4>2
      <4> QED
        BY <4>1, <4>2, <4>3, <2>1
    <3> QED
      BY <3>1, <3>2, <3>3, <2>2 DEF Beyond
  <2>3. mark' # Disabled => Beyond(Level, mark)'
    <3>1. CASE size = 1
      BY <2>1, <3>1 DEF Beyond
    <3>2. CASE size # 1 /\ head # mark
      <4>1. PICK k, m : k = Level /\ m = mark
        OBVIOUS
      <4>2. mark' = mark
        BY <1>3, <3>2 DEF PopFront, MarkAfterPop
      <4>3. mark # Disabled => Beyond(k, m)'
        BY <1>c, <2>2, <4>1
      <4> QED
        BY <4>1, <4>2, <4>3, <2>1 DEF Beyond, Disabled
    <3>3. CASE size # 1 /\ head = mark
      <4>1. Index(1) = mark /\ mark # Disabled
        BY <3>3 DEF Index, QueueTypeOK, Indexes, Disabled
      <4>2. ASSUME NEW i \in 1 .. size
            PROVE  data[Index(i)].level >= Level
        <5>1. ASSUME NEW j \in i + 1 .. size
              PROVE  Index(j) # mark
          <6>1. j \in 1 .. Depth /\ 1 \in 1 .. Depth /\ j # 1
            BY <2>1
          <6> QED
            BY <6>1, <4>1, IndexFacts
        <5> QED
          BY <5>1, <4>1, <1>c DEF Beyond
      <4>3. ASSUME NEW i \in 1 .. size'
            PROVE  data'[Index(i)'].level >= Level'
        <5>1. i + 1 \in 1 .. size /\ Index(i)' = Index(i + 1)
          BY <2>1
        <5> QED
          BY <5>1, <4>2, <2>1
      <4> QED
        BY <4>3 DEF Beyond
    <3> QED
      BY <3>1, <3>2, <3>3
  <2>4. ASSUME NEW i \in 1 .. size'
        PROVE  data'[Index(i)'].level <= Level'
    <3>1. i + 1 \in 1 .. size /\ Index(i)' = Index(i + 1)
      BY <2>1
    <3> QED
      BY <3>1, <2>1, <1>c
  <2>5. ASSUME NEW k \in 1 .. Level', stack'[k].om # Disabled', ~stack'[k].a
        PROVE  Beyond(k - 1, stack[k].om)'
    <3>1. PICK m : m = stack[k].om
      OBVIOUS
    <3>2. Beyond(k - 1, m)
      BY <2>1, <2>5, <3>1, <1>c DEF Disabled
    <3>3. Beyond(k - 1, m)'
      BY <3>2, <2>2
    <3> QED
      BY <3>1, <3>3, <2>1 DEF Beyond
  <2> QED
    BY <2>3, <2>4, <2>5 DEF MarkInv, Disabled
<1>4. CASE PopBack
  <2>1. /\ size' = size - 1 /\ data' = data /\ mark' = Disabled
        /\ size \in 1 .. Depth /\ tail = Index(size) /\ mark # Disabled
        /\ \A i \in 1 .. size : Index(i)' = Index(i)
    BY <1>4, PopBackMoves DEF PopBack, empty_back, QueueTypeOK, RingOK
  <2>2. /\ Level' = Level + 1 /\ \A k \in 1 .. Level : stack'[k] = stack[k]
        /\ stack'[Level + 1].om = mark
        /\ ~stack'[Level + 1].a => tail # mark
    <3>1. PICK f : f = [kind |-> "pop", om |-> mark, a |-> (tail = mark)]
      OBVIOUS
    <3>2. stack' = Append(stack, f)
      BY <1>4, <3>1 DEF PopBack
    <3>3. f \in Frames
      BY <3>1, <1>a DEF Frames
    <3>4. /\ Len(stack') = Len(stack) + 1 /\ stack'[Len(stack) + 1] = f
          /\ \A k \in 1 .. Len(stack) : stack'[k] = stack[k]
      BY <3>2, <3>3, <1>a, AppendProperties
    <3>5. f.om = mark
      BY <3>1
    <3>6. f.a = (tail = mark)
      BY <3>1, Zenon
    <3> QED
      BY <3>4, <3>5, <3>6 DEF Level
  <2>3. data[Index(size)].level = Level
    BY <1>4, <2>1, MarkSeparates DEF PopBack, LevelDiscipline
  <2>4. ASSUME NEW k \in Nat, NEW m, Beyond(k, m), k # Level \/ m # tail
        PROVE  Beyond(k, m)'
    <3> SUFFICES ASSUME NEW i \in 1 .. size'
                 PROVE  \/ data'[Index(i)'].level >= k
                        \/ \E j \in i + 1 .. size' :
                              Index(j)' = m /\ data'[Index(j)'].level = k
      BY DEF Beyond
    <3>1. i \in 1 .. size /\ Index(i)' = Index(i)
      BY <2>1
    <3>2. CASE data[Index(i)].level >= k
      BY <3>1, <3>2, <2>1
    <3>3. CASE \E j \in i + 1 .. size : Index(j) = m /\ data[Index(j)].level = k
      <4>1. PICK j \in i + 1 .. size : Index(j) = m /\ data[Index(j)].level = k
        BY <3>3
      <4>2. j # size
        BY <4>1, <2>1, <2>3, <2>4
      <4>3. j \in i + 1 .. size' /\ j \in 1 .. size
        BY <4>1, <4>2, <2>1, <3>1
      <4> QED
        BY <4>1, <4>3, <2>1
    <3> QED
      BY <3>1, <3>2, <3>3, <2>4 DEF Beyond
  <2>5. ASSUME NEW i \in 1 .. size'
        PROVE  data'[Index(i)'].level <= Level'
    <3>1. i \in 1 .. size /\ Index(i)' = Index(i)
      BY <2>1
    <3> QED
      BY <3>1, <2>1, <2>2, <1>a, <1>b, <1>c
  <2>6. ASSUME NEW k \in 1 .. Level', stack'[k].om # Disabled', ~stack'[k].a
        PROVE  Beyond(k - 1, stack[k].om)'
    <3>1. PICK m : m = stack'[k].om
      OBVIOUS
    <3>2. CASE k \in 1 .. Level
      <4>1. stack'[k] = stack[k] /\ k - 1 \in Nat /\ k - 1 # Level
        BY <3>2, <2>2, <1>a
      <4>2. Beyond(k - 1, m)
        BY <3>1, <3>2, <4>1, <2>6, <1>c DEF Disabled
      <4>3. Beyond(k - 1, m)'
        BY <4>1, <4>2, <2>4
      <4> QED
        BY <4>3, <3>1 DEF Beyond
    <3>3. CASE k = Level + 1
      <4>1. k - 1 = Level /\ k - 1 \in Nat /\ m = mark /\ tail # mark
        BY <3>1, <3>3, <2>2, <2>6, <1>a
      <4>2. Beyond(k - 1, m)
        BY <4>1, <2>1, <1>c
      <4>3. Beyond(k - 1, m)'
        BY <4>1, <4>2, <2>4
      <4> QED
        BY <4>3, <3>1 DEF Beyond
    <3> QED
      BY <3>2, <3>3, <2>2, <1>a
  <2> QED
    BY <2>1, <2>5, <2>6 DEF MarkInv, Disabled
<1>5. CASE Return
  <2>1. /\ UNCHANGED <<head, tail, size, data>>
        /\ mark' = Restored(stack[Level]) /\ stack' = SubSeq(stack, 1, Level - 1)
        /\ stack # <<>> /\ ~Queued(Level)
    BY <1>5 DEF Return
  <2>2. /\ Level \in 1 .. Level /\ Level' = Level - 1
        /\ \A k \in 1 .. Level - 1 : stack'[k] = stack[k]
    BY <2>1, <1>a, ButLast DEF Level
  <2>3. \A i \in Nat : Index(i)' = Index(i)
    BY <2>1 DEF Index
  <2>4. ASSUME NEW i \in 1 .. size
        PROVE  data[Index(i)].level <= Level - 1
    <3>1. data[Index(i)].level # Level
      BY <2>1 DEF Queued, Contents
    <3> QED
      BY <3>1, <1>a, <1>b, <1>c
  <2>5. ASSUME NEW k, NEW m, Beyond(k, m)
        PROVE  Beyond(k, m)'
    BY <2>1, <2>5 DEF Beyond, Index
  <2>6. mark' # Disabled => Beyond(Level, mark)'
    <3>1. CASE size = 0
      BY <2>1, <3>1 DEF Beyond
    <3>2. CASE size # 0 /\ mark' = mark /\ mark # Disabled
      <4>1. size \in 1 .. size
        BY <3>2, <1>a
      <4>2. Beyond(Level, mark)
        BY <3>2, <1>c
      <4>3. data[Index(size)].level >= Level
        BY <4>1, <4>2 DEF Beyond
      <4> QED
        BY <4>1, <4>3, <2>4, <1>a, <1>b
    <3>3. CASE size # 0 /\ mark' # Disabled /\ mark' = stack[Level].om /\ ~stack[Level].a
      <4>1. PICK k, m : k = Level - 1 /\ m = stack[Level].om
        OBVIOUS
      <4>2. Beyond(k, m)
        BY <3>3, <4>1, <2>2, <1>c
      <4>3. Beyond(k, m)'
        BY <4>2, <2>5
      <4> QED
        BY <4>1, <4>3, <3>3, <2>2 DEF Beyond
    <3>4. mark' # Disabled /\ size # 0 =>
            \/ mark' = mark /\ mark # Disabled
            \/ mark' = stack[Level].om /\ ~stack[Level].a
      BY <2>1 DEF Restored
    <3> QED
      BY <3>1, <3>2, <3>3, <3>4
  <2>7. \A i \in 1 .. size' : data'[Index(i)'].level <= Level'
    BY <2>1, <2>2, <2>3, <2>4, <1>a
  <2>8. ASSUME NEW k \in 1 .. Level', stack'[k].om # Disabled', ~stack'[k].a
        PROVE  Beyond(k - 1, stack[k].om)'
    <3>1. PICK m : m = stack'[k].om
      OBVIOUS
    <3>2. k \in 1 .. Level - 1 /\ k \in 1 .. Level /\ stack'[k] = stack[k]
      BY <2>2, <1>a
    <3>3. Beyond(k - 1, m)
      BY <3>1, <3>2, <2>8, <1>c DEF Disabled
    <3>4. Beyond(k - 1, m)'
      BY <3>3, <2>5
    <3> QED
      BY <3>4, <3>1 DEF Beyond
  <2> QED
    BY <2>6, <2>7, <2>8 DEF MarkInv, Disabled
<1>6. CASE UNCHANGED queueVars
  BY <1>6 DEF queueVars, MarkInv, Beyond, Index, Level, Disabled
<1> QED
  BY <1>1, <1>2, <1>3, <1>4, <1>5, <1>6 DEF QueueNext
-----------------------------------------------------------------------------
(***************************************************************************)
(* The theorems about the layout and the mark.                             *)
(***************************************************************************)

\* Every state of the queue satisfies IndInv.
THEOREM QueueInvariance == QueueSpec => []IndInv
<1>1. QueueInit => IndInv
  BY InitLayout, InitMark DEF IndInv
<1>2. IndInv /\ [QueueNext]_queueVars => IndInv'
  BY LayoutStep, MarkStep DEF IndInv
<1> QED
  BY <1>1, <1>2, PTL DEF QueueSpec

\* head, tail and size agree in every state, whichever way the buffer has
\* wrapped around (push, pop_front and pop_back of scheduler.hxx).
THEOREM RingCorrect == QueueSpec => [](QueueTypeOK /\ RingOK)
<1>1. IndInv => QueueTypeOK /\ RingOK
  BY DEF IndInv
<1> QED
  BY <1>1, QueueInvariance, PTL

\* The owner only ever takes tasks that it has queued at its current level.
THEOREM LevelDisciplineCorrect == QueueSpec => []LevelDiscipline
<1>1. IndInv => LevelDiscipline
  BY MarkSeparates DEF IndInv
<1> QED
  BY <1>1, QueueInvariance, PTL

-----------------------------------------------------------------------------
(***************************************************************************)
(* The refinement.                                                         *)
(***************************************************************************)

\* Contents is the sequence of the tasks from head to tail.
ContentsOK ==
    /\ Contents \in Seq(Tasks) /\ Len(Contents) = size
    /\ \A i \in 1 .. size : Contents[i] = data[Index(i)]

\* The contents of the queue are a sequence of tasks.
LEMMA ContentsSeq == QueueTypeOK => ContentsOK
<1> SUFFICES ASSUME QueueTypeOK
             PROVE  ContentsOK
  OBVIOUS
<1>1. size \in 0 .. Depth /\ \A i \in 1 .. size : i \in 1 .. Depth
  BY QueueAssumption DEF QueueTypeOK
<1>2. \A i \in 1 .. size : data[Index(i)] \in Tasks
  BY <1>1, IndexFacts DEF QueueTypeOK
<1> QED
  BY <1>1, <1>2 DEF Contents, ContentsOK

\* Every step of the circular buffer is one of the double-ended queue.
LEMMA DequeStep == QueueTypeOK /\ RingOK /\ QueueTypeOK' /\ [QueueNext]_queueVars => [D!Next]_Contents
<1>0. QueueTypeOK' => ContentsOK'
  BY ContentsSeq, PTL
<1> SUFFICES ASSUME QueueTypeOK, RingOK, QueueTypeOK', [QueueNext]_queueVars
             PROVE  D!Next \/ Contents' = Contents
  OBVIOUS
<1> USE QueueAssumption
<1>a. /\ Contents \in Seq(Tasks) /\ Len(Contents) = size /\ size \in 0 .. Depth
      /\ \A i \in 1 .. size : Contents[i] = data[Index(i)]
  BY ContentsSeq DEF QueueTypeOK, ContentsOK
<1>b. /\ Contents' \in Seq(Tasks) /\ Len(Contents') = size'
      /\ \A i \in 1 .. size' : Contents'[i] = data'[Index(i)']
  BY <1>0 DEF ContentsOK
<1>1. ASSUME NEW id \in Ids, Push(id)
      PROVE  D!Next
  <2>1. PICK task : task = [level |-> Level, id |-> id]
    OBVIOUS
  <2>2. task \in Tasks
    BY <2>1 DEF Tasks, QueueTypeOK, Level
  <2>3. /\ size' = size + 1 /\ data'[Index(size)'] = task
        /\ \A i \in 1 .. size : data'[Index(i)'] = data[Index(i)]
    BY <1>1, <2>1, PushMoves
  <2>4. \A i : i = size + 1 => data'[Index(i)'] = task
    BY <2>3 DEF Index
  <2>5. /\ Append(Contents, task) \in Seq(Tasks)
        /\ Len(Append(Contents, task)) = size + 1
        /\ Append(Contents, task)[size + 1] = task
        /\ \A i \in 1 .. size : Append(Contents, task)[i] = Contents[i]
    BY <1>a, <2>2, AppendProperties
  <2>6. \A i \in 1 .. size + 1 : Contents'[i] = Append(Contents, task)[i]
    BY <1>a, <1>b, <2>3, <2>4, <2>5
  <2>7. Contents' = Append(Contents, task)
    BY <1>b, <2>3, <2>5, <2>6, SeqEqual
  <2>8. Len(Contents) < Depth
    BY <1>1, <1>a DEF Push
  <2> QED
    BY <2>2, <2>7, <2>8 DEF D!Next, D!PushBack
<1>2. CASE PopFront
  <2>1. /\ size' = size - 1 /\ data' = data /\ size # 0
        /\ \A i \in 1 .. size - 1 : Index(i)' = Index(i + 1)
    BY <1>2, PopFrontMoves DEF PopFront
  <2>2. Contents # <<>>
    BY <1>a, <2>1
  <2>3. /\ Tail(Contents) \in Seq(Tasks) /\ Len(Tail(Contents)) = size - 1
        /\ \A i \in 1 .. size - 1 : Tail(Contents)[i] = Contents[i + 1]
    BY <1>a, <2>2, HeadTailProperties
  <2>4. \A i \in 1 .. size - 1 : Contents'[i] = Tail(Contents)[i]
    BY <1>a, <1>b, <2>1, <2>3
  <2>5. Contents' = Tail(Contents)
    BY <1>b, <2>1, <2>3, <2>4, SeqEqual
  <2> QED
    BY <2>2, <2>5 DEF D!Next, D!PopFront
<1>3. CASE PopBack
  <2>1. /\ size' = size - 1 /\ data' = data /\ size # 0
        /\ \A i \in 1 .. size : Index(i)' = Index(i)
    BY <1>3, PopBackMoves DEF PopBack, empty_back
  <2>2. Contents # <<>>
    BY <1>a, <2>1
  <2>3. /\ SubSeq(Contents, 1, size - 1) \in Seq(Tasks)
        /\ Len(SubSeq(Contents, 1, size - 1)) = size - 1
        /\ \A i \in 1 .. size - 1 : SubSeq(Contents, 1, size - 1)[i] = Contents[i]
    BY <1>a, <2>2, ButLast
  <2>4. \A i \in 1 .. size - 1 : Contents'[i] = SubSeq(Contents, 1, size - 1)[i]
    BY <1>a, <1>b, <2>1, <2>3
  <2>5. Contents' = SubSeq(Contents, 1, Len(Contents) - 1)
    BY <1>a, <1>b, <2>1, <2>3, <2>4, SeqEqual
  <2> QED
    BY <2>2, <2>5 DEF D!Next, D!PopBack
<1>4. CASE UNCHANGED <<head, tail, size, data>>
  BY <1>4 DEF Contents, Index
<1>5. PushFull \/ Return \/ UNCHANGED queueVars => UNCHANGED <<head, tail, size, data>>
  BY DEF PushFull, Return, queueVars
<1> QED
  BY <1>1, <1>2, <1>3, <1>4, <1>5 DEF QueueNext

\* The circular buffer loses, duplicates and reorders no task: it implements
\* the double-ended queue of module Deque.
THEOREM DequeRefined == QueueSpec => DequeSpec
<1>1. QueueInit => D!Init
  BY DEF QueueInit, D!Init, Contents
<1>2. IndInv /\ IndInv' /\ [QueueNext]_queueVars => [D!Next]_Contents
  BY DequeStep DEF IndInv
<1> QED
  BY <1>1, <1>2, QueueInvariance, PTL DEF QueueSpec, DequeSpec, D!Spec

-----------------------------------------------------------------------------
(***************************************************************************)
(* The wait queue.                                                         *)
(***************************************************************************)

\* Where a thread can be.
StepsOf == {"run", "suspend", "check", "wait", "sleep", "woken", "resume"}

\* The steps of wait(), within and without the slot.
Waiting(u) == step[u] \in {"suspend", "check", "wait", "sleep", "woken"}

(***************************************************************************)
(* The inductive invariant.  TypeOK is weakened to what does not follow    *)
(* from the rest.                                                          *)
(***************************************************************************)
WaitTypes ==
    /\ task_count \in [Counts -> 0 .. MaxCount]
    /\ owner \in [Counts -> Masters \cup {Nothing}]
    /\ over \in [Counts -> BOOLEAN]
    /\ step \in [Threads -> StepsOf]
    /\ on \in [Threads -> Counts \cup {Nothing}]
    /\ start_count \in [Threads -> {0, 1}]
    /\ collision \in [Threads -> BOOLEAN]
    /\ waiters \in [Slots -> Nat]
    /\ slot_count \in [Slots -> Counts \cup {Nothing}]
    /\ shutdown \in [Slots -> BOOLEAN]
    /\ starts \in 0 .. MaxStarts

\* A thread waits for the tasks of a count it owns, or for the end of a lock,
\* and resume() has a count.
WaitShape ==
    /\ \A u \in Threads : step[u] # "run" => on[u] \in Counts
    /\ \A u \in Threads : Waiting(u) =>
          \/ owner[on[u]] = u /\ start_count[u] = Base[on[u]] /\ ~over[on[u]]
          \/ Base[on[u]] = 1 /\ start_count[u] = 0 /\ owner[on[u]] # u

\* One thread holds the mutex of a slot.
MutexInv ==
    \A u, v \in Threads :
        /\ step[u] \in {"check", "wait"} /\ step[v] \in {"check", "wait"}
        /\ SlotOn(u) = SlotOn(v)
        => u = v

\* A count is at least its base as long as somebody owns it, and exactly that
\* once the owner has seen the end of its tasks.
CountInv ==
    \A c \in Counts :
        /\ owner[c] # Nothing => task_count[c] >= Base[c]
        /\ over[c] => owner[c] # Nothing
        /\ over[c] => task_count[c] = Base[c] \/ ShutdownBegun

\* NoLostWakeup from the moment when the thread has looked at the count: the
\* mutex keeps resume() away until it sleeps.
WakeInv ==
    \A u \in Threads : step[u] \in {"wait", "sleep"} /\ Reached(u) =>
        \E v \in Threads : step[v] = "resume" /\ on[v] = on[u]

WaitInv == WaitTypes /\ WaitShape /\ MutexInv /\ CountInv /\ WakeInv /\ WaitersExact

-----------------------------------------------------------------------------
\* There are finitely many threads and Nothing is not one of them.
LEMMA ThreadFacts ==
    /\ IsFiniteSet(Threads) /\ Masters \subseteq Threads /\ Helpers \subseteq Threads
    /\ Nothing \notin Threads /\ Nothing \notin Counts
<1>1. IsFiniteSet(Masters) /\ IsFiniteSet(Helpers)
  BY WaitQueueAssumption
<1>2. QED
  BY <1>1, FS_Union, WaitQueueAssumption DEF Threads

\* The steps of the specification, one by one.
LEMMA WaitSteps ==
    ASSUME [Next]_vars
    PROVE  \/ \E u \in Masters, c \in Counts :
                Lock(u, c) \/ Async(u, c) \/ WaitTasks(u, c) \/ WaitLock(u, c) \/ Unlock(u, c)
           \/ \E u \in Helpers, c \in Counts : TaskDone(u, c)
           \/ \E u \in Threads : Suspend(u) \/ Check(u) \/ Sleep(u) \/ Leave(u) \/ Wake(u)
                                 \/ SpuriousWakeup(u) \/ Resume(u)
           \/ \E s \in Slots : ShutdownSlot(s) \/ ShutdownNotify(s)
           \/ UNCHANGED vars
BY DEF Next, Progress, TakesMutex, Done

-----------------------------------------------------------------------------
\* Every step keeps the types.
LEMMA TypeStep ==
    ASSUME WaitInv, [Next]_vars
    PROVE  WaitTypes'
<1> USE ThreadFacts, WaitQueueAssumption DEF WaitInv, WaitTypes, StepsOf
<1>1. ASSUME NEW u \in Masters, NEW c \in Counts, Lock(u, c) PROVE WaitTypes'
  <2>1. Base[c] \in 0 .. MaxCount
    OBVIOUS
  <2>2. QED
    BY <1>1, <2>1 DEF Lock, slotVars
<1>2. ASSUME NEW u \in Masters, NEW c \in Counts, Async(u, c) PROVE WaitTypes'
  BY <1>2 DEF Async, slotVars
<1>3. ASSUME NEW u \in Masters, NEW c \in Counts, WaitTasks(u, c) PROVE WaitTypes'
  <2>1. over' \in [Counts -> BOOLEAN]
    <3> DEFINE b == task_count[c] <= Base[c]
    <3>1. b \in BOOLEAN
      OBVIOUS
    <3> HIDE DEF b
    <3>2. over' = [over EXCEPT ![c] = b]
      BY <1>3 DEF WaitTasks, b
    <3>3. QED
      BY <3>1, <3>2, Zenon
  <2>2. /\ UNCHANGED <<task_count, owner, collision, waiters, slot_count, shutdown, starts>>
        /\ step' \in [Threads -> StepsOf]
        /\ on' \in [Threads -> Counts \cup {Nothing}]
        /\ start_count' \in [Threads -> {0, 1}]
    BY <1>3 DEF WaitTasks, Wait, slotVars
  <2>3. QED
    BY <2>1, <2>2
<1>4. ASSUME NEW u \in Masters, NEW c \in Counts, WaitLock(u, c) PROVE WaitTypes'
  BY <1>4 DEF WaitLock, Wait, slotVars
<1>5. ASSUME NEW u \in Masters, NEW c \in Counts, Unlock(u, c) PROVE WaitTypes'
  BY <1>5 DEF Unlock, slotVars
<1>6. ASSUME NEW u \in Helpers, NEW c \in Counts, TaskDone(u, c) PROVE WaitTypes'
  <2>1. task_count[c] - 1 \in 0 .. MaxCount
    BY <1>6 DEF TaskDone
  <2>2. QED
    BY <1>6, <2>1 DEF TaskDone, slotVars
<1>7. ASSUME NEW u \in Threads, Suspend(u) PROVE WaitTypes'
  <2> DEFINE b == waiters[SlotOn(u)] # 0 /\ slot_count[SlotOn(u)] # on[u]
  <2>1. b \in BOOLEAN
    OBVIOUS
  <2>2. collision' = [collision EXCEPT ![u] = b]
    BY <1>7 DEF Suspend
  <2> HIDE DEF b
  <2>3. collision' \in [Threads -> BOOLEAN]
    BY <2>1, <2>2, Zenon
  <2>4. on[u] \in Counts /\ SlotOn(u) \in Slots
    BY <1>7 DEF Suspend, WaitShape, SlotOn
  <2>5. /\ UNCHANGED <<task_count, owner, over, on, start_count, shutdown, starts>>
        /\ step' \in [Threads -> StepsOf]
    BY <1>7 DEF Suspend
  <2>6. waiters' = [waiters EXCEPT ![SlotOn(u)] = @ + 1]
        /\ slot_count' = [slot_count EXCEPT ![SlotOn(u)] = on[u]]
    BY <1>7 DEF Suspend
  <2>7. waiters' \in [Slots -> Nat] /\ slot_count' \in [Slots -> Counts \cup {Nothing}]
    BY <2>4, <2>6
  <2>8. QED
    BY <2>3, <2>5, <2>7
<1>8. ASSUME NEW u \in Threads, Check(u) \/ Sleep(u) \/ Wake(u) \/ SpuriousWakeup(u) PROVE WaitTypes'
  BY <1>8 DEF Check, Sleep, Wake, SpuriousWakeup, slotVars
<1>9. ASSUME NEW u \in Threads, Leave(u) PROVE WaitTypes'
  <2>1. waiters[SlotOn(u)] # 0 /\ SlotOn(u) \in Slots
    <3>1. SlotOn(u) \in Slots /\ u \in {v \in Threads : InSlot(v, SlotOn(u))}
      BY <1>9 DEF Leave, InSlot, WaitShape, SlotOn
    <3>2. IsFiniteSet({v \in Threads : InSlot(v, SlotOn(u))})
      BY FS_Subset
    <3>3. QED
      BY <3>1, <3>2, FS_EmptySet DEF WaitersExact
  <2>2. waiters[SlotOn(u)] - 1 \in Nat
    BY <2>1
  <2>3. waiters' \in [Slots -> Nat]
    BY <1>9, <2>2 DEF Leave, Returns, Left
  <2>4. over' \in [Counts -> BOOLEAN]
    BY <1>9 DEF Leave, Returns
  <2>5. QED
    BY <1>9, <2>3, <2>4 DEF Leave, Returns
<1>10. ASSUME NEW u \in Threads, Resume(u) PROVE WaitTypes'
  BY <1>10 DEF Resume, NotifyAll, slotVars
<1>11. ASSUME NEW s \in Slots, ShutdownSlot(s) PROVE WaitTypes'
  BY <1>11 DEF ShutdownSlot
<1>12. ASSUME NEW s \in Slots, ShutdownNotify(s) PROVE WaitTypes'
  BY <1>12 DEF ShutdownNotify, NotifyAll, slotVars
<1>13. CASE UNCHANGED vars
  BY <1>13 DEF vars
<1>14. QED
  BY <1>1, <1>2, <1>3, <1>4, <1>5, <1>6, <1>7, <1>8, <1>9, <1>10, <1>11, <1>12, <1>13, WaitSteps

-----------------------------------------------------------------------------
\* Every step keeps the shape of the waits.
LEMMA ShapeStep ==
    ASSUME WaitInv, [Next]_vars
    PROVE  WaitShape'
<1> USE ThreadFacts, WaitQueueAssumption DEF WaitInv, WaitTypes, StepsOf, WaitShape, Waiting
<1>1. ASSUME NEW u \in Masters, NEW c \in Counts, Lock(u, c) PROVE WaitShape'
  BY <1>1 DEF Lock, CountInv
<1>2. ASSUME NEW u \in Masters, NEW c \in Counts, Async(u, c) PROVE WaitShape'
  BY <1>2 DEF Async
<1>3. ASSUME NEW u \in Masters, NEW c \in Counts, WaitTasks(u, c) PROVE WaitShape'
  BY <1>3 DEF WaitTasks, Wait
<1>4. ASSUME NEW u \in Masters, NEW c \in Counts, WaitLock(u, c) PROVE WaitShape'
  BY <1>4 DEF WaitLock, Wait
<1>5. ASSUME NEW u \in Masters, NEW c \in Counts, Unlock(u, c) PROVE WaitShape'
  BY <1>5 DEF Unlock
<1>6. ASSUME NEW u \in Helpers, NEW c \in Counts, TaskDone(u, c) PROVE WaitShape'
  BY <1>6 DEF TaskDone
<1>7. ASSUME NEW u \in Threads, Suspend(u) PROVE WaitShape'
  BY <1>7 DEF Suspend
<1>8. ASSUME NEW u \in Threads, Check(u) \/ Sleep(u) \/ Wake(u) \/ SpuriousWakeup(u)
      PROVE  WaitShape'
  BY <1>8 DEF Check, Sleep, Wake, SpuriousWakeup
<1>9. ASSUME NEW u \in Threads, Leave(u) PROVE WaitShape'
  <2>1. \A v \in Threads : Waiting(v)' => v # u /\ Waiting(v) /\ on'[v] = on[v]
    BY <1>9 DEF Leave, Returns
  <2>2. \A c \in Counts : over'[c] => over[c] \/ (c = on[u] /\ owner[c] = u)
    BY <1>9 DEF Leave, Returns
  <2>3. UNCHANGED <<owner, start_count>> /\ \A v \in Threads : v # u => step'[v] = step[v]
    BY <1>9 DEF Leave, Returns
  <2>4. step'[u] = "run" /\ \A v \in Threads : v # u => on'[v] = on[v]
    BY <1>9 DEF Leave, Returns
  <2>5. ASSUME NEW v \in Threads, step'[v] # "run" PROVE on'[v] \in Counts
    BY <2>3, <2>4, <2>5
  <2>6. ASSUME NEW v \in Threads, Waiting(v)'
        PROVE  \/ owner'[on'[v]] = v /\ start_count'[v] = Base[on'[v]] /\ ~over'[on'[v]]
               \/ Base[on'[v]] = 1 /\ start_count'[v] = 0 /\ owner'[on'[v]] # v
    <3>1. v # u /\ Waiting(v) /\ on'[v] = on[v] /\ on[v] \in Counts
      BY <2>1, <2>6
    <3>2. owner[on[v]] = v /\ ~over[on[v]] => ~over'[on[v]]
      BY <2>2, <3>1
    <3>3. QED
      BY <2>3, <3>1, <3>2
  <2>7. QED
    BY <2>5, <2>6
<1>10. ASSUME NEW u \in Threads, Resume(u) PROVE WaitShape'
  BY <1>10 DEF Resume, NotifyAll
<1>11. ASSUME NEW s \in Slots, ShutdownSlot(s) PROVE WaitShape'
  BY <1>11 DEF ShutdownSlot
<1>12. ASSUME NEW s \in Slots, ShutdownNotify(s) PROVE WaitShape'
  BY <1>12 DEF ShutdownNotify, NotifyAll
<1>13. CASE UNCHANGED vars
  BY <1>13 DEF vars
<1>14. QED
  BY <1>1, <1>2, <1>3, <1>4, <1>5, <1>6, <1>7, <1>8, <1>9, <1>10, <1>11, <1>12, <1>13, WaitSteps

-----------------------------------------------------------------------------
\* Every step respects the mutexes of the slots.
LEMMA MutexStep ==
    ASSUME WaitInv, [Next]_vars
    PROVE  MutexInv'
<1> USE ThreadFacts, WaitQueueAssumption DEF WaitInv, WaitTypes, StepsOf, MutexInv, SlotOn
<1>1. ASSUME NEW u \in Threads, Suspend(u) \/ Wake(u) PROVE MutexInv'
  <2>1. step' = [step EXCEPT ![u] = "check"] /\ on' = on
    BY <1>1 DEF Suspend, Wake, slotVars
  <2>2. \A v \in Threads : step[v] \in {"check", "wait"} => SlotOn(v) # SlotOn(u)
    BY <1>1 DEF Suspend, Wake, Unlocked
  <2>3. QED
    BY <2>1, <2>2
<1>2. ASSUME \A v \in Threads : step'[v] \in {"check", "wait"} =>
                 step[v] \in {"check", "wait"} /\ on'[v] = on[v]
      PROVE  MutexInv'
  BY <1>2
<1>3. ASSUME NEW u \in Masters, NEW c \in Counts,
             Lock(u, c) \/ Async(u, c) \/ WaitTasks(u, c) \/ WaitLock(u, c) \/ Unlock(u, c)
      PROVE  MutexInv'
  <2>1. \A v \in Threads : step'[v] \in {"check", "wait"} =>
            step[v] \in {"check", "wait"} /\ on'[v] = on[v]
    BY <1>3 DEF Lock, Async, WaitTasks, WaitLock, Wait, Unlock
  <2>2. QED
    BY <1>2, <2>1
<1>4. ASSUME NEW u \in Helpers, NEW c \in Counts, TaskDone(u, c) PROVE MutexInv'
  BY <1>2, <1>4 DEF TaskDone
<1>5. ASSUME NEW u \in Threads, Check(u) \/ Sleep(u) \/ SpuriousWakeup(u) PROVE MutexInv'
  BY <1>2, <1>5 DEF Check, Sleep, SpuriousWakeup
<1>6. ASSUME NEW u \in Threads, Leave(u) PROVE MutexInv'
  BY <1>2, <1>6 DEF Leave, Returns
<1>7. ASSUME NEW u \in Threads, Resume(u) PROVE MutexInv'
  BY <1>2, <1>7 DEF Resume, NotifyAll
<1>8. ASSUME NEW s \in Slots, ShutdownSlot(s) PROVE MutexInv'
  BY <1>2, <1>8 DEF ShutdownSlot
<1>9. ASSUME NEW s \in Slots, ShutdownNotify(s) PROVE MutexInv'
  BY <1>2, <1>9 DEF ShutdownNotify, NotifyAll
<1>10. CASE UNCHANGED vars
  BY <1>2, <1>10 DEF vars
<1>11. QED
  BY <1>1, <1>3, <1>4, <1>5, <1>6, <1>7, <1>8, <1>9, <1>10, WaitSteps

-----------------------------------------------------------------------------
\* Every step keeps the counts at or above their base.
LEMMA CountStep ==
    ASSUME WaitInv, [Next]_vars
    PROVE  CountInv'
<1> USE ThreadFacts, WaitQueueAssumption DEF WaitInv, WaitTypes, CountInv, ShutdownBegun
<1>1. ASSUME NEW u \in Masters, NEW c \in Counts, Lock(u, c) PROVE CountInv'
  BY <1>1 DEF Lock, slotVars
<1>2. ASSUME NEW u \in Masters, NEW c \in Counts, Async(u, c) PROVE CountInv'
  BY <1>2 DEF Async, slotVars
<1>3. ASSUME NEW u \in Masters, NEW c \in Counts, WaitTasks(u, c) PROVE CountInv'
  <2>1. over'[c] => task_count[c] <= Base[c]
    BY <1>3 DEF WaitTasks
  <2>2. \A d \in Counts : d # c => over'[d] = over[d]
    BY <1>3 DEF WaitTasks
  <2>3. owner[c] # Nothing
    BY <1>3 DEF WaitTasks
  <2>4. QED
    BY <1>3, <2>1, <2>2, <2>3 DEF WaitTasks, slotVars
<1>4. ASSUME NEW u \in Masters, NEW c \in Counts, WaitLock(u, c) PROVE CountInv'
  BY <1>4 DEF WaitLock, slotVars
<1>5. ASSUME NEW u \in Masters, NEW c \in Counts, Unlock(u, c) PROVE CountInv'
  BY <1>5 DEF Unlock, slotVars
<1>6. ASSUME NEW u \in Helpers, NEW c \in Counts, TaskDone(u, c) PROVE CountInv'
  BY <1>6 DEF TaskDone, slotVars
<1>7. ASSUME NEW u \in Threads, Suspend(u) PROVE CountInv'
  <2>1. UNCHANGED <<task_count, owner, over, shutdown>>
    BY <1>7 DEF Suspend
  <2>2. ShutdownBegun' = ShutdownBegun
    BY <2>1
  <2>3. QED
    BY <2>1, <2>2
<1>8. ASSUME NEW u \in Threads, Check(u) \/ Sleep(u) \/ Wake(u) \/ SpuriousWakeup(u)
      PROVE  CountInv'
  BY <1>8 DEF Check, Sleep, Wake, SpuriousWakeup, slotVars
<1>9. ASSUME NEW u \in Threads, Leave(u) PROVE CountInv'
  <2>1. /\ UNCHANGED <<task_count, owner, shutdown>>
        /\ \A c \in Counts : over'[c] => over[c] \/ (c = on[u] /\ owner[c] = u)
    BY <1>9 DEF Leave, Returns
  <2>2. on[u] \in Counts /\ (owner[on[u]] = u => start_count[u] = Base[on[u]])
    BY <1>9 DEF Leave, WaitShape, Waiting
  <2>3. SlotOn(u) \in Slots
    BY <2>2 DEF SlotOn
  <2>4. ShutdownBegun \/ task_count[on[u]] <= start_count[u]
    BY <1>9, <2>3 DEF Leave, Reached
  <2>5. owner[on[u]] = u => task_count[on[u]] = Base[on[u]] \/ ShutdownBegun
    <3> HIDE DEF ShutdownBegun
    <3>1. PICK c \in Counts : c = on[u]
      BY <2>2
    <3>2. owner[c] = u => owner[c] # Nothing /\ start_count[u] = Base[c]
      BY <2>2, <3>1
    <3>3. task_count[c] \in Nat /\ Base[c] \in Nat
      OBVIOUS
    <3>4. ShutdownBegun \/ task_count[c] <= start_count[u]
      BY ONLY <2>4, <3>1
    <3>5. owner[c] # Nothing => task_count[c] >= Base[c]
      OBVIOUS
    <3>6. ASSUME owner[c] = u, ~ShutdownBegun PROVE task_count[c] = Base[c]
      <4>1. task_count[c] <= Base[c]
        BY ONLY <3>2, <3>4, <3>6
      <4>2. task_count[c] >= Base[c]
        BY ONLY <3>2, <3>5, <3>6
      <4>3. QED
        BY ONLY <3>3, <4>1, <4>2
    <3>7. QED
      BY ONLY <3>1, <3>6
  <2>6. ShutdownBegun' = ShutdownBegun /\ owner' = owner /\ task_count' = task_count
    BY <2>1
  <2> HIDE DEF ShutdownBegun
  <2>7. QED
    BY <2>1, <2>2, <2>5, <2>6
<1>10. ASSUME NEW u \in Threads, Resume(u) PROVE CountInv'
  BY <1>10 DEF Resume, slotVars
<1>11. ASSUME NEW s \in Slots, ShutdownSlot(s) PROVE CountInv'
  BY <1>11 DEF ShutdownSlot
<1>12. ASSUME NEW s \in Slots, ShutdownNotify(s) PROVE CountInv'
  BY <1>12 DEF ShutdownNotify, slotVars
<1>13. CASE UNCHANGED vars
  BY <1>13 DEF vars
<1>14. QED
  BY <1>1, <1>2, <1>3, <1>4, <1>5, <1>6, <1>7, <1>8, <1>9, <1>10, <1>11, <1>12, <1>13, WaitSteps

-----------------------------------------------------------------------------
\* No step loses a wakeup.
LEMMA WakeStep ==
    ASSUME WaitInv, [Next]_vars
    PROVE  WakeInv'
<1> USE ThreadFacts, WaitQueueAssumption DEF WaitInv, WaitTypes, StepsOf, WakeInv, Reached
\* A step that moves no count, puts nobody to sleep and takes nobody out of
\* resume().
<1>1. ASSUME task_count' = task_count, start_count' = start_count,
             \A v \in Threads : step'[v] \in {"wait", "sleep"} =>
                 step[v] \in {"wait", "sleep"} /\ on'[v] = on[v],
             \A v \in Threads : step[v] = "resume" => step'[v] = "resume" /\ on'[v] = on[v]
      PROVE  WakeInv'
  BY <1>1
<1>2. ASSUME NEW u \in Masters, NEW c \in Counts, Lock(u, c) PROVE WakeInv'
  <2>1. \A v \in Threads : step[v] \in {"wait", "sleep"} /\ on[v] = c =>
            Base[c] = 1 /\ start_count[v] = 0
    BY <1>2 DEF Lock, WaitShape, Waiting
  <2>2. QED
    BY <1>2, <2>1 DEF Lock, WaitShape
<1>3. ASSUME NEW u \in Masters, NEW c \in Counts, Async(u, c) PROVE WakeInv'
  BY <1>3 DEF Async, WaitShape
<1>4. ASSUME NEW u \in Masters, NEW c \in Counts, WaitTasks(u, c) \/ WaitLock(u, c)
      PROVE  WakeInv'
  BY <1>4 DEF WaitTasks, WaitLock, Wait
<1>5. ASSUME NEW u \in Masters, NEW c \in Counts, Unlock(u, c) PROVE WakeInv'
  <2>1. CASE Base[c] = 1
    BY <1>5, <2>1 DEF Unlock, WaitShape
  <2>2. CASE Base[c] = 0
    <3>1. \A v \in Threads : step[v] \in {"wait", "sleep"} => on[v] # c
      BY <1>5, <2>2 DEF Unlock, WaitShape, Waiting
    <3>2. QED
      BY <1>5, <2>2, <3>1 DEF Unlock, WaitShape
  <2>3. QED
    BY <2>1, <2>2
<1>6. ASSUME NEW u \in Helpers, NEW c \in Counts, TaskDone(u, c) PROVE WakeInv'
  <2>1. CASE Resumes(c)
    BY <1>6, <2>1 DEF TaskDone, WaitShape
  <2>2. CASE ~Resumes(c)
    <3>1. \A v \in Threads : step[v] \in {"wait", "sleep"} /\ on[v] = c => start_count[v] <= Base[c]
      BY DEF WaitShape, Waiting
    <3>2. QED
      BY <1>6, <2>2, <3>1 DEF TaskDone, Resumes, WaitShape
  <2>3. QED
    BY <2>1, <2>2
<1>7. ASSUME NEW u \in Threads, Suspend(u) PROVE WakeInv'
  BY <1>1, <1>7 DEF Suspend
<1>8. ASSUME NEW u \in Threads, Check(u) PROVE WakeInv'
  BY <1>8 DEF Check
<1>9. ASSUME NEW u \in Threads, Sleep(u) \/ Wake(u) \/ SpuriousWakeup(u) PROVE WakeInv'
  BY <1>1, <1>9 DEF Sleep, Wake, SpuriousWakeup
<1>10. ASSUME NEW u \in Threads, Leave(u) PROVE WakeInv'
  BY <1>1, <1>10 DEF Leave, Returns
\* resume() has the mutex: nobody in its slot is about to sleep, and those who
\* sleep are all notified.
<1>11. ASSUME NEW u \in Threads, Resume(u) PROVE WakeInv'
  <2>1. \A v \in Threads : step[v] \in {"wait", "sleep"} /\ SlotOn(v) = SlotOn(u) =>
            step[v] = "sleep" /\ waiters[SlotOn(u)] # 0
    <3>1. ASSUME NEW v \in Threads, step[v] \in {"wait", "sleep"}, SlotOn(v) = SlotOn(u)
          PROVE  waiters[SlotOn(u)] # 0
      <4>1. v \in {x \in Threads : InSlot(x, SlotOn(u))} /\ SlotOn(u) \in Slots
        BY <1>11, <3>1 DEF InSlot, Resume, ResumeLocked, WaitShape, SlotOn
      <4>2. IsFiniteSet({x \in Threads : InSlot(x, SlotOn(u))})
        BY FS_Subset
      <4>3. QED
        BY <4>1, <4>2, FS_EmptySet DEF WaitersExact
    <3>2. QED
      BY <1>11, <3>1 DEF Resume, ResumeLocked, Unlocked
  <2>2. \A v \in Threads : step'[v] \in {"wait", "sleep"} =>
            step'[v] = step[v] /\ on'[v] = on[v] /\ SlotOn(v) # SlotOn(u)
    BY <1>11, <2>1 DEF Resume, ResumeLocked, NotifyAll, InSlot
  <2>3. \A v \in Threads : v # u /\ step[v] = "resume" => step'[v] = "resume" /\ on'[v] = on[v]
    BY <1>11 DEF Resume, NotifyAll, InSlot
  <2>4. task_count' = task_count /\ start_count' = start_count
    BY <1>11 DEF Resume
  <2>5. QED
    BY <2>2, <2>3, <2>4 DEF SlotOn
<1>12. ASSUME NEW s \in Slots, ShutdownSlot(s) PROVE WakeInv'
  BY <1>1, <1>12 DEF ShutdownSlot
<1>13. ASSUME NEW s \in Slots, ShutdownNotify(s) PROVE WakeInv'
  BY <1>1, <1>13 DEF ShutdownNotify, NotifyAll
<1>14. CASE UNCHANGED vars
  BY <1>1, <1>14 DEF vars
<1>15. QED
  BY <1>2, <1>3, <1>4, <1>5, <1>6, <1>7, <1>8, <1>9, <1>10, <1>11, <1>12, <1>13, <1>14, WaitSteps

-----------------------------------------------------------------------------
\* The threads that resume() would have to notify.
InSlots(s) == {u \in Threads : InSlot(u, s)}

\* Every step counts the waiters.
LEMMA WaitersStep ==
    ASSUME WaitInv, [Next]_vars
    PROVE  WaitersExact'
<1> USE ThreadFacts, WaitQueueAssumption DEF WaitInv, WaitTypes, StepsOf
<1>0. \A s \in Slots : IsFiniteSet(InSlots(s)) /\ waiters[s] = Cardinality(InSlots(s))
  BY FS_Subset DEF InSlots, WaitersExact
<1>1. ASSUME waiters' = waiters, \A s \in Slots : InSlots(s)' = InSlots(s) PROVE WaitersExact'
  BY <1>0, <1>1 DEF InSlots, WaitersExact
<1>2. ASSUME waiters' = waiters,
             \A v \in Threads : \/ step'[v] = step[v] /\ on'[v] = on[v]
                                \/ /\ step[v] \in {"check", "wait", "sleep", "woken"}
                                   /\ step'[v] \in {"check", "wait", "sleep", "woken"}
                                   /\ on'[v] = on[v]
                                \/ /\ step[v] \in {"run", "suspend", "resume"}
                                   /\ step'[v] \in {"run", "suspend", "resume"}
      PROVE  WaitersExact'
  <2>1. \A s \in Slots : InSlots(s)' = InSlots(s)
    BY <1>2 DEF InSlots, InSlot, SlotOn
  <2>2. QED
    BY <1>1, <1>2, <2>1
<1>3. ASSUME NEW u \in Masters, NEW c \in Counts,
             Lock(u, c) \/ Async(u, c) \/ WaitTasks(u, c) \/ WaitLock(u, c) \/ Unlock(u, c)
      PROVE  WaitersExact'
  BY <1>2, <1>3 DEF Lock, Async, WaitTasks, WaitLock, Wait, Unlock, slotVars
<1>4. ASSUME NEW u \in Helpers, NEW c \in Counts, TaskDone(u, c) PROVE WaitersExact'
  BY <1>2, <1>4 DEF TaskDone, slotVars
<1>5. ASSUME NEW u \in Threads, Suspend(u) PROVE WaitersExact'
  <2>0. PICK r \in Slots : r = SlotOn(u)
    BY <1>5 DEF Suspend, WaitShape, SlotOn
  <2>1. u \notin InSlots(r)
    BY <1>5 DEF Suspend, WaitShape, SlotOn, InSlots, InSlot
  <2>2. InSlots(r)' = InSlots(r) \cup {u}
    BY <1>5, <2>0, <2>1 DEF Suspend, InSlots, InSlot, SlotOn
  <2>3. \A s \in Slots : s # r => InSlots(s)' = InSlots(s)
    BY <1>5, <2>0 DEF Suspend, InSlots, InSlot, SlotOn
  <2>4. waiters' = [waiters EXCEPT ![r] = @ + 1]
    BY <1>5, <2>0 DEF Suspend
  <2>5. Cardinality(InSlots(r) \cup {u}) = Cardinality(InSlots(r)) + 1
    BY <1>0, <2>1, FS_AddElement
  <2>6. \A s \in Slots : waiters'[s] = Cardinality(InSlots(s)')
    BY <1>0, <2>1, <2>2, <2>3, <2>4, <2>5
  <2>7. QED
    BY <2>6 DEF InSlots, WaitersExact
<1>6. ASSUME NEW u \in Threads, Check(u) \/ Sleep(u) \/ Wake(u) \/ SpuriousWakeup(u)
      PROVE  WaitersExact'
  BY <1>2, <1>6 DEF Check, Sleep, Wake, SpuriousWakeup, slotVars
<1>7. ASSUME NEW u \in Threads, Leave(u) PROVE WaitersExact'
  <2>0. PICK r \in Slots : r = SlotOn(u)
    BY <1>7 DEF Leave, WaitShape, SlotOn
  <2>1. u \in InSlots(r)
    BY <1>7, <2>0 DEF Leave, WaitShape, SlotOn, InSlots, InSlot
  <2>2. /\ waiters' = [waiters EXCEPT ![r] = @ - 1]
        /\ step' = [step EXCEPT ![u] = "run"]
        /\ on' = [on EXCEPT ![u] = Nothing]
    BY <1>7, <2>0 DEF Leave, Returns, Left
  <2>3. InSlots(r)' = InSlots(r) \ {u}
    BY <2>0, <2>1, <2>2 DEF InSlots, InSlot, SlotOn
  <2>4. \A s \in Slots : s # r => InSlots(s)' = InSlots(s)
    BY <2>0, <2>2 DEF InSlots, InSlot, SlotOn
  <2>5. Cardinality(InSlots(r) \ {u}) = Cardinality(InSlots(r)) - 1
    BY <1>0, <2>1, FS_RemoveElement
  <2>6. \A s \in Slots : waiters'[s] = Cardinality(InSlots(s)')
    BY <1>0, <2>1, <2>2, <2>3, <2>4, <2>5
  <2>7. QED
    BY <2>6 DEF InSlots, WaitersExact
<1>8. ASSUME NEW u \in Threads, Resume(u) PROVE WaitersExact'
  BY <1>2, <1>8 DEF Resume, ResumeLocked, NotifyAll, InSlot, slotVars
<1>9. ASSUME NEW s \in Slots, ShutdownSlot(s) PROVE WaitersExact'
  BY <1>2, <1>9 DEF ShutdownSlot
<1>10. ASSUME NEW s \in Slots, ShutdownNotify(s) PROVE WaitersExact'
  BY <1>2, <1>10 DEF ShutdownNotify, NotifyAll, InSlot, slotVars
<1>11. CASE UNCHANGED vars
  BY <1>2, <1>11 DEF vars
<1>12. QED
  BY <1>3, <1>4, <1>5, <1>6, <1>7, <1>8, <1>9, <1>10, <1>11, WaitSteps

-----------------------------------------------------------------------------
\* The invariant holds initially.
LEMMA WaitInit ==
    ASSUME Init
    PROVE  WaitInv
<1> USE ThreadFacts, WaitQueueAssumption DEF Init
<1>1. WaitTypes
  BY DEF WaitTypes, StepsOf
<1>2. WaitShape /\ MutexInv /\ CountInv /\ WakeInv
  BY DEF WaitShape, Waiting, MutexInv, CountInv, WakeInv
<1>3. WaitersExact
  <2>1. \A s \in Slots : {u \in Threads : InSlot(u, s)} = {}
    BY DEF InSlot
  <2>2. QED
    BY <2>1, FS_EmptySet DEF WaitersExact
<1>4. QED
  BY <1>1, <1>2, <1>3 DEF WaitInv

\* It is an invariant of the specification.
THEOREM WaitQueueInvariance == Spec => []WaitInv
<1>1. WaitInv /\ [Next]_vars => WaitInv'
  BY TypeStep, ShapeStep, MutexStep, CountStep, WakeStep, WaitersStep DEF WaitInv
<1>2. QED
  BY WaitInit, <1>1, PTL DEF Spec

\* No thread sleeps through the end of what it waits for: suspend() and
\* resume() lose no wakeup however counts are hashed to slots.
THEOREM NoLostWakeupCorrect == Spec => []NoLostWakeup
<1>1. WaitInv => NoLostWakeup
  BY DEF WaitInv, WakeInv, NoLostWakeup
<1>2. QED
  BY <1>1, WaitQueueInvariance, PTL

\* The test of waiters in resume() forgets nobody.
THEOREM WaitersExactCorrect == Spec => []WaitersExact
<1>1. WaitInv => WaitersExact
  BY DEF WaitInv
<1>2. QED
  BY <1>1, WaitQueueInvariance, PTL

\* wait_guard returns when all its tasks are done, and not before.
THEOREM NoEarlyReturnCorrect == Spec => []NoEarlyReturn
<1>1. WaitInv => NoEarlyReturn
  BY DEF WaitInv, CountInv, NoEarlyReturn
<1>2. QED
  BY <1>1, WaitQueueInvariance, PTL

\* The variables have their types; waiters is bounded by the number of threads.
THEOREM WaitQueueTypeOK == Spec => []TypeOK
<1>1. WaitInv => TypeOK
  <2> SUFFICES ASSUME WaitInv PROVE TypeOK
    OBVIOUS
  <2>1. \A s \in Slots : waiters[s] \in 0 .. Cardinality(Threads)
    <3>1. ASSUME NEW s \in Slots
          PROVE  /\ Cardinality(InSlots(s)) \in Nat
                 /\ Cardinality(InSlots(s)) <= Cardinality(Threads)
      BY ThreadFacts, FS_Subset, FS_CardinalityType DEF InSlots
    <3>2. \A s \in Slots : waiters[s] = Cardinality(InSlots(s))
      BY DEF WaitInv, WaitersExact, InSlots
    <3>3. Cardinality(Threads) \in Nat
      BY ThreadFacts, FS_CardinalityType
    <3>4. QED
      BY <3>1, <3>2, <3>3
  <2>2. QED
    BY <2>1 DEF WaitInv, WaitTypes, TypeOK, StepsOf
<1>2. QED
  BY <1>1, WaitQueueInvariance, PTL
=============================================================================
