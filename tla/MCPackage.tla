----------------------------- MODULE MCPackage -----------------------------
(***************************************************************************)
(* An instance of Package: an application that needs the second version of *)
(* a library.                                                              *)
(***************************************************************************)
EXTENDS Package, TLC

CONSTANTS app, lib

Needs == [n \in Names, v \in Versions |-> IF n = app THEN {<<lib, {2}>>} ELSE {}]
InArchives == {<<lib, 1>>}
InGit == {<<app, 1>>, <<lib, 2>>}
OfUser == {<<lib, 2>>}
=============================================================================
