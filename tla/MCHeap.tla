------------------------------ MODULE MCHeap ------------------------------
(* Heap on a small instance: the names of the blocks are model values.     *)
EXTENDS Heap, TLC

Symmetry == Permutations(Blocks)
=============================================================================
