---------------------------- MODULE MCPrivateHeap ---------------------------
(* PrivateHeap on small instances.                                         *)
EXTENDS PrivateHeap, TLC

CONSTANTS p1, p2, p3, p4

Symmetry == Permutations(Ptr)
=============================================================================
