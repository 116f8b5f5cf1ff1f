------------------------------ MODULE MCGateway -------------------------------
(* Two measurements, stored or lost: the second one is read by each reader before *)
(* or after the flag, the INSERT of each can fail, and with two tries the table is *)
(* opened again after a loss.                                                     *)
EXTENDS Gateway

MCData == {"a", "b"}
MCOneReading == {"a"}
===============================================================================
