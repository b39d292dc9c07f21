----------------------------- MODULE MCPhysMem -----------------------------
(* PhysMem with two environments.  Four addresses: two ordinary, one       *)
(* in the last slot of a page table, one in a region env_free skips.       *)
EXTENDS PhysMem, TLC

MCVAs == {"text", "data", "last", "stack"}
MCRegion == [va \in MCVAs |-> IF va = "stack" THEN "high" ELSE "low"]

MCUsable == SetToSeq(Pages \ {Page0})

(* Only the first list depends on which page is which: the calls treat all *)
(* pages but page 0 alike.                                                 *)
Symmetry == Permutations(Pages \ {Page0})
=============================================================================
