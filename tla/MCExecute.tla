----------------------------- MODULE MCExecute -----------------------------
(***************************************************************************)
(* Instances of Execute.                                                   *)
(***************************************************************************)
EXTENDS Execute, TLC

CONSTANTS a, b, c, m, src

\* A chain that ends in a group (c) with a member (m) that is asked for twice;
\* a diamond whose one side goes through the member.  There is nothing to do
\* for the source src.
ExecuteGraphs ==
    {(Root :> <<a, m, src>>) @@ (a :> <<b, m>>) @@ (b :> <<c>>) @@ (c :> <<>>) @@ (m :> <<c>>)
        @@ (src :> <<>>),
     (Root :> <<a>>) @@ (a :> <<b, c>>) @@ (b :> <<m>>) @@ (c :> <<src>>) @@ (m :> <<c>>)
        @@ (src :> <<>>)}
=============================================================================
