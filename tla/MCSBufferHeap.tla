---------------------------- MODULE MCSBufferHeap -----------------------------
(* The two readers of the gateway and three cells: with three insertions the list *)
(* grows to three nodes, and a freed cell is handed out again by malloc.          *)
EXTENDS SBufferHeap

MCReaders == {"r0", "r1"}
MCData == {"a", "b"}
MCAddr == {"n1", "n2", "n3"}
===============================================================================
