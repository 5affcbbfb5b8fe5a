----------------------------- MODULE MCPkgBuild -----------------------------
(***************************************************************************)
(* Instances of PkgBuild.                                                  *)
(***************************************************************************)
EXTENDS PkgBuild, TLC

PackageOrder == <<"app", "base", "lib", "tool">>

\* Two applications, a library, and what it is based on.
Repository ==
    (<<"app", 1>> :> <<<<"lib", {1, 2}>>>>) @@ (<<"app", 2>> :> <<<<"base", {2}>>, <<"lib", {2}>>>>)
      @@ (<<"lib", 1>> :> <<<<"base", {1, 2}>>>>) @@ (<<"lib", 2>> :> <<<<"base", {2}>>>>)
      @@ (<<"tool", 1>> :> <<<<"base", {1}>>>>) @@ (<<"tool", 2>> :> <<<<"lib", {1, 2}>>>>)
      @@ (<<"base", 1>> :> <<>>) @@ (<<"base", 2>> :> <<>>)

Hold(args) == [hold |-> args, dep |-> <<>>]
Dependency(args) == [hold |-> <<>>, dep |-> args]

MixedRequests ==
    {Hold(<<<<"app", {1, 2}>>>>), Hold(<<<<"tool", {1}>>, <<"app", {1}>>>>), Hold(<<<<"lib", {1}>>>>),
     Hold(<<<<"app", {1}>>>>), Hold(<<<<"tool", {1, 2}>>>>), Dependency(<<<<"base", {1}>>>>),
     Dependency(<<<<"app", {1, 2}>>>>), Dependency(<<<<"lib", {1, 2}>>>>),
     [hold |-> <<<<"tool", {2}>>>>, dep |-> <<<<"lib", {1}>>>>],
     Dependency(<<<<"tool", {1, 2}>>, <<"base", {1}>>>>)}

\* A package and, once that is built, no longer this one and another version of
\* what it is based on.
DropRequests ==
    {[hold |-> <<<<"tool", {2}>>>>, dep |-> <<<<"lib", {1}>>>>],
     Dependency(<<<<"tool", {1, 2}>>, <<"base", {1}>>>>)}

\* A dependency cycle below the package that is asked for.
CyclicOrder == <<"app", "bar", "foo">>
CyclicRepository ==
    (<<"app", 1>> :> <<<<"foo", {1}>>>>) @@ (<<"foo", 1>> :> <<<<"bar", {1}>>>>)
      @@ (<<"bar", 1>> :> <<<<"foo", {1}>>>>)
CyclicRequests == {Hold(<<<<n, {1}>>>>) : n \in {"app", "foo"}}
=============================================================================
