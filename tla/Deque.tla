------------------------------- MODULE Deque -------------------------------
(***************************************************************************)
(* What a task queue of the scheduler promises, whatever its layout: the   *)
(* owner adds and removes tasks at the back, other threads remove them at  *)
(* the front, no task is lost, duplicated or moved past another one, and   *)
(* there are never more than Capacity of them.                             *)
(***************************************************************************)
EXTENDS Naturals, Sequences

CONSTANTS
    Tasks,    \* the tasks
    Capacity  \* task_queue_depth_

VARIABLE items  \* the queued tasks, front first

Init == items = <<>>

PushBack(task) ==
    /\ Len(items) < Capacity
    /\ items' = Append(items, task)

PopFront == items # <<>> /\ items' = Tail(items)

PopBack == items # <<>> /\ items' = SubSeq(items, 1, Len(items) - 1)

Next == PopFront \/ PopBack \/ \E task \in Tasks : PushBack(task)

Spec == Init /\ [][Next]_items
=============================================================================
