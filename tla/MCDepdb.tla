------------------------------ MODULE MCDepdb ------------------------------
(***************************************************************************)
(* An instance of Depdb.                                                   *)
(***************************************************************************)
EXTENDS Depdb, TLC

SourceVars == "s1" :> 1 @@ "s2" :> 2
=============================================================================
