----------------------------- MODULE MCRbtTree -----------------------------
(* A small instance of RbtTree: seven keys, so that unloading meets trees  *)
(* of every shape with up to seven nodes.                                  *)
EXTENDS RbtTree

MCKeys == -3 .. 3
=============================================================================
