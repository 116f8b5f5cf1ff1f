------------------------------ MODULE MCConnMgr -------------------------------
(* Three nodes are the fewest for one connection to go while another one sends    *)
(* and a third is next in the list; two measurements are the fewest for a node to *)
(* be read both when it connects and by a poll of its own descriptor.             *)
EXTENDS ConnMgr

MCSensors == {"s1", "s2", "s3"}

\* The nodes are interchangeable: name them in the order in which they connect.
\* TLC's symmetry reduction would do the same, but not with a liveness property.
MCFirstFree(s) == peer[s] = "off"
MCInOrder == /\ MCFirstFree("s1") => MCFirstFree("s2")
             /\ MCFirstFree("s2") => MCFirstFree("s3")

\* The properties of the run speak of calm rounds only, so the states behind the
\* first round that is not calm need not be explored.
MCScope == calm /\ MCInOrder
===============================================================================
