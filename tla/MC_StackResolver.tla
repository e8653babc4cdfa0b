-------------------------- MODULE MC_StackResolver --------------------------
(* Model-checking instance of StackResolver: two processes sharing a       *)
(* library, the second with two maps (before and after it maps a file).   *)
EXTENDS StackResolver, TLC

CONSTANTS exe1, exe2, lib

MCPids == {1, 2}

MCFiles == {exe1, exe2, lib}

MCMapsOf == (1 :> {{exe1, lib}}) @@ (2 :> {{exe2}, {exe2, lib}})
=============================================================================
