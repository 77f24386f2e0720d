------------------------------ MODULE MCKProbe ------------------------------
(* A small instance of KProbe: two instructions of each function.          *)
EXTENDS KProbe, TLC

Symmetry == Permutations(Procs)
=============================================================================
