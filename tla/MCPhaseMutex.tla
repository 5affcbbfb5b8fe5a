--------------------------- MODULE MCPhaseMutex ----------------------------
(* Instances of PhaseMutex for TLC. *)
EXTENDS PhaseMutex, TLC

CONSTANTS t1, t2, t3

Build(n, a, b, c) == [max_active |-> n, ops |-> (t1 :> a) @@ (t2 :> b) @@ (t3 :> c)]

Matches == {"match"}
Executes == {"execute"}
Loads == {"load"}
Unlocks == {NoPhase}
Anything == Phases \cup Unlocks

\* Two slots for three threads: one of them nests any guard within another one
\* while two more have one each, or all of them load from the match phase.
Contended ==
    {Build(2, <<LockPhases, Anything>>, <<Matches>>, <<Executes>>),
     Build(2, <<Matches, Loads>>, <<Matches, Loads>>, <<Matches, Loads>>)}

\* Two threads nest any guards.
Nested == {Build(2, <<LockPhases, Anything>>, <<LockPhases, Anything>>, <<>>)}

\* A thread works a task while it waits (and may be failing), with a wait or a
\* load within it, and another one loads.
Unwinding == {Build(2, <<Matches, Unlocks, Matches, Unlocks \cup Loads>>, <<Matches, Loads>>, <<>>)}

Instances == Contended \cup Nested \cup Unwinding
=============================================================================
