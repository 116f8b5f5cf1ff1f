------------------------------- MODULE MCLogPipe ------------------------------
(* Three writing threads, a buffer of two messages in front of a pipe of one: the *)
(* fourth message already waits for the child, with the mutex held.               *)
EXTENDS LogPipe

MCWriters == {"connmgr", "datamgr", "strgmgr"}
===============================================================================
