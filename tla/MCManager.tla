----------------------------- MODULE MCManager -----------------------------
(* Instances of Manager for TLC.                                           *)
EXTENDS Manager, TLC

(* Callers are interchangeable.                                            *)
Symmetry == Permutations(Callers)
=============================================================================
