---------------------------- MODULE MCRollWatch -----------------------------
(* Instances of RollWatch for TLC: the ones of MCAppRuntime.               *)
EXTENDS MCAppRuntime, RollWatch
=============================================================================
