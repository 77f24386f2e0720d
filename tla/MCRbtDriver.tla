---------------------------- MODULE MCRbtDriver ----------------------------
(* A small instance of RbtDriver: three keys around 0, four heap cells.    *)
EXTENDS RbtDriver, TLC

MCKeys == {-1, 0, 1}
MCDatas == {0, 1, 2}
Symmetry == Permutations(Addrs) \cup Permutations(Procs)
=============================================================================
