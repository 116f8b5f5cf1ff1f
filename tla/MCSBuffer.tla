------------------------------ MODULE MCSBuffer -------------------------------
(* Two readers (datamgr and strgmgr) and a third one, which config.h allows by  *)
(* -DREADERS=3; two measurements, so that equal and different neighbours occur. *)
EXTENDS SBuffer

MCReaders == {"r0", "r1", "r2"}
MCData == {"a", "b"}
===============================================================================
