---------------------------- MODULE MCEnvSched ----------------------------
(* EnvSched on small instances: CPUs and None are model values.            *)
EXTENDS EnvSched, TLC

Symmetry == Permutations(CPUs)
=============================================================================
