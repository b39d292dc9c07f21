----------------------------- MODULE MCCowFork -----------------------------
(* CowFork with the stack and a shared page.               *)
EXTENDS CowFork, TLC

MCOrder == <<"stack", "lib">>
Symmetry == Permutations(Pages)
=============================================================================
