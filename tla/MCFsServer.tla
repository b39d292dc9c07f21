----------------------------- MODULE MCFsServer -----------------------------
(* FsServer with interchangeable clients and files.        *)
EXTENDS FsServer, TLC

Symmetry == Permutations(Envs) \cup Permutations(Files)
=============================================================================
