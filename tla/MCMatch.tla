------------------------------ MODULE MCMatch ------------------------------
(***************************************************************************)
(* Instances of Match.                                                     *)
(***************************************************************************)
EXTENDS Match, TLC

CONSTANTS a, b, c, d

\* Operations on two targets that share prerequisites, one of them twice.
AcyclicGraphs ==
    {(Root :> <<a, b>>) @@ (a :> la) @@ (b :> lb) @@ (c :> <<>>) @@ (d :> <<>>) :
        la \in {<<c>>, <<b, c>>}, lb \in {<<>>, <<c, c>>}}

\* A target that has nothing to do with the others.
Apart == (Root :> <<a, b, c>>) @@ (a :> <<b>>) @@ (b :> <<>>) @@ (c :> <<>>) @@ (d :> <<>>)

\* A diamond with a target that is asked for twice.
Diamond == {(Root :> <<a, c>>) @@ (a :> <<b, c>>) @@ (b :> <<c>>) @@ (c :> <<>>) @@ (d :> <<>>)}

\* Cycles: one that two threads enter from different sides, one with a target
\* that depends on itself on top of it, and one below two targets.
Ring == (Root :> <<b, a>>) @@ (a :> <<b>>) @@ (b :> <<c>>) @@ (c :> <<a>>) @@ (d :> <<>>)
Pair == (Root :> <<a, b, c>>) @@ (a :> <<c>>) @@ (b :> <<a, b>>) @@ (c :> <<a>>) @@ (d :> <<>>)
Side == (Root :> <<a, b>>) @@ (a :> <<b, c>>) @@ (b :> <<c>>) @@ (c :> <<b>>) @@ (d :> <<>>)

\* A rule that fails on itself with a task in its queue: what the thread then
\* takes waits for another thread while a load fails, or is itself a load.
Loop == (Root :> <<b, d, c>>) @@ (a :> <<d>>) @@ (b :> <<a, b>>) @@ (c :> <<>>) @@ (d :> <<>>)
Late == (Root :> <<b, d>>) @@ (a :> <<>>) @@ (b :> <<c, b>>) @@ (c :> <<d>>) @@ (d :> <<>>)

MixedGraphs == AcyclicGraphs \cup Diamond \cup {Apart, Ring, Pair, Side, Loop, Late}
=============================================================================
