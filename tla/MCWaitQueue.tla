---------------------------- MODULE MCWaitQueue ----------------------------
(***************************************************************************)
(* An instance of WaitQueue: a lock, and a batch of tasks nested in it,    *)
(* whose counts share a slot.                                              *)
(***************************************************************************)
EXTENDS WaitQueue, TLC

CONSTANTS m1, m2, h1, s1

LockAndBatch == (1 :> 1) @@ (2 :> 0)
OneSlot == (1 :> s1) @@ (2 :> s1)
=============================================================================
