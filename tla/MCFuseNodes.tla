----------------------------- MODULE MCFuseNodes ----------------------------
(* An instance of FuseNodes: names are model values and may be exchanged.  *)
EXTENDS FuseNodes, TLC

Symmetry == Permutations(Names)
=============================================================================
