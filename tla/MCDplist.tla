------------------------------- MODULE MCDplist -------------------------------
(* Four nodes, so that an insertion or removal can have nodes on both sides of  *)
(* its neighbours; two keys, so that a sorted insertion can fall in between and *)
(* keys repeat; indices from before the start to beyond the end.                *)
EXTENDS Dplist

MCCells == {"n1", "n2", "n3", "n4"}
MCKeys == 1 .. 2
MCIndexes == {-1, 0, 1, 2, 5}
===============================================================================
