----------------------------- MODULE MCMax7219 ------------------------------
(* Two threads on two rows; a free client copies all, one or none of two   *)
(* entries; the programs show one pattern, which differs from row to row.  *)
EXTENDS MatrixClient

TwoPatterns == {0, 1}
OneArray == {(0 :> <<0, 1>> @@ 1 :> <<0, 0>>)}
FirstLit == (0 :> <<0, 1>> @@ 1 :> <<0, 0>>)
AnyStatus == {2, 0, -5}   \* sent, nothing sent, -EIO
Sequences == {<<1, 0>>}
Symmetry == Permutations(Threads)
=============================================================================
