------------------------------ MODULE MCTcpSock ------------------------------
(* Two nodes, of which one sends a second measurement, so that what is wrong in the  *)
(* first one can show in it; one connection at a time may wait in the backlog.      *)
EXTENDS TcpSock

MCLoops == [n1 |-> 2, n2 |-> 1]
MCNodes == DOMAIN MCLoops
===============================================================================
