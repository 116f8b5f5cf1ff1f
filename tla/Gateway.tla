------------------------------- MODULE Gateway --------------------------------
(***************************************************************************)
(* The gateway process of src/final/main.c: the main thread and the three  *)
(* threads connmgr, datamgr and strgmgr, which share the buffer (SBuffer), *)
(* the mutex, the flag "connmgr has ended" and the barrier, with the       *)
(* connection retries of strgmgr and its table (sensor_db.c).              *)
(*                                                                         *)
(* A critical section is two steps, Lock and its body, which unlocks.  The *)
(* sockets of connmgr are reduced to what they make it do here (ConnMgr),  *)
(* the running averages of datamgr to whether it logs something, and a     *)
(* call of write_to_fifo to the time it holds the mutex (LogPipe has the   *)
(* messages).                                                              *)
(***************************************************************************)
EXTENDS Naturals, Sequences, FiniteSets

CONSTANTS Data,         \* the measurements
          MaxInserts,   \* bound on the measurements the sensors send
          Tries         \* DB_CONNECTION_TRIES

ASSUME GatewayAssumption == /\ MaxInserts \in Nat
                            /\ Tries \in Nat \ {0}

Readers == {"datamgr", "strgmgr"}       \* reader ids 0 and 1
Threads == Readers \cup {"connmgr", "main"}

VARIABLES status, nodes, ret, inserted, got,    \* the buffer, see SBuffer
          mutex,        \* the thread that holds it, or "free"
          flag,         \* set by connmgr when it is done
          arrived,      \* the threads that have reached the barrier
          pc, then,     \* where a thread is; where it goes on after logging
          alive,        \* FALSE once an ERR_HANDLER assertion has aborted
          heard, clients, arg,          \* connmgr: measurements received, open
                                        \* connections, the one to be inserted
          rows, clear, db, err, tries,  \* strgmgr: the table, clear_up_flag,
                                        \* db # NULL, error_code, the loop counter
          dbFail,       \* the build has -DDB_FAIL: init_connection is not called
          lost          \* history: the positions in got["strgmgr"] of the
                        \* measurements whose INSERT failed

bufferVars == <<status, nodes, ret, inserted, got>>
connVars == <<heard, clients, arg>>
strgVars == <<rows, clear, db, err, tries, dbFail, lost>>
vars == <<bufferVars, mutex, flag, arrived, pc, then, alive, connVars, strgVars>>

Buffer == INSTANCE SBuffer

OldRow == "old row"     \* what an earlier run may have left in the table

Init == /\ Buffer!Init
        /\ mutex = "free"
        /\ flag = FALSE
        /\ arrived = {}
        /\ pc = [t \in Threads |-> IF t = "main" THEN "start" ELSE "none"]
        /\ then = [t \in Threads |-> "none"]
        /\ alive = TRUE
        /\ heard = 0 /\ clients = 0 /\ arg = "none"
        /\ rows \in {<<>>, <<OldRow>>}
        /\ clear = TRUE /\ db = FALSE /\ err = "unset" /\ tries = 1
        /\ dbFail \in BOOLEAN
        /\ lost = {}

At(t, l) == alive /\ pc[t] = l
Goto(t, l) == pc' = [pc EXCEPT ![t] = l] /\ UNCHANGED then
\* Through write_to_fifo on the way to l.
LogThenGoto(t, l) == /\ pc' = [pc EXCEPT ![t] = "log"]
                     /\ then' = [then EXCEPT ![t] = l]

\* An assertion of ERR_HANDLER fails: the whole process is gone.
Abort == /\ alive' = FALSE
         /\ UNCHANGED <<bufferVars, mutex, flag, arrived, pc, then, connVars, strgVars>>

-------------------------------------------------------------------------------
\* The mutex.

Critical == {"insert", "read", "log", "setflag"}

Lock(t) == /\ alive
           /\ pc[t] \in Critical
           /\ mutex = "free"
           /\ mutex' = t
           /\ UNCHANGED <<bufferVars, flag, arrived, pc, then, alive, connVars, strgVars>>

Inside(t, l) == At(t, l) /\ mutex = t
Unlock == mutex' = "free"

WriteToFifo(t) == /\ Inside(t, "log")
                  /\ Unlock
                  /\ pc' = [pc EXCEPT ![t] = then[t]]
                  /\ then' = [then EXCEPT ![t] = "none"]
                  /\ UNCHANGED <<bufferVars, flag, arrived, alive, connVars, strgVars>>

\* Fault: the flag alone ends a reader.
ReadUntilFlag(r) ==
  /\ Inside(r, "read")
  /\ Buffer!Remove(r)
  /\ Unlock
  /\ Goto(r, IF flag THEN "leave"
             ELSE IF ret'[r] = "NO_DATA" THEN "read" ELSE "use")
  /\ UNCHANGED <<flag, arrived, alive, connVars, strgVars>>

\* read_from_buffer: GET_DATA, WAIT (call again) or TERMINATE.
ReadFromBuffer(r) ==
  /\ Inside(r, "read")
  /\ Buffer!Remove(r)
  /\ Unlock
  /\ Goto(r, IF ret'[r] # "NO_DATA" THEN "use"
             ELSE IF flag THEN "leave" ELSE "read")
  /\ UNCHANGED <<flag, arrived, alive, connVars, strgVars>>

-------------------------------------------------------------------------------
\* The connmgr thread: what connmgr_listen_buffer does to the rest.

connOnly == <<bufferVars, mutex, flag, arrived, alive, strgVars>>

\* insert_client: log the new connection, then insert its first measurement.
Accept(d) == /\ At("connmgr", "listen")
             /\ heard < MaxInserts
             /\ heard' = heard + 1 /\ clients' = clients + 1 /\ arg' = d
             /\ LogThenGoto("connmgr", "insert")
             /\ UNCHANGED connOnly

\* read_data_write_to_buffer
Receive(d) == /\ At("connmgr", "listen")
              /\ clients > 0
              /\ heard < MaxInserts
              /\ heard' = heard + 1 /\ arg' = d
              /\ Goto("connmgr", "insert")
              /\ UNCHANGED <<clients, connOnly>>

\* close_connection of a client
Disconnect == /\ At("connmgr", "listen")
              /\ clients > 0
              /\ clients' = clients - 1
              /\ LogThenGoto("connmgr", "listen")
              /\ UNCHANGED <<heard, arg, connOnly>>

\* poll times out or fails: the server is closed and connmgr_free called.
Timeout == /\ At("connmgr", "listen")
           /\ Goto("connmgr", "setflag")
           /\ UNCHANGED <<connVars, connOnly>>

\* A socket or memory assertion of connmgr.c.
ConnmgrAssert == At("connmgr", "listen") /\ Abort

\* write_to_buffer, which does not look at what sbuffer_insert returned: without
\* memory for the node the measurement is dropped.
WriteToBuffer == /\ Inside("connmgr", "insert")
                 /\ Buffer!Insert(arg) \/ UNCHANGED bufferVars
                 /\ Unlock
                 /\ arg' = "none"
                 /\ Goto("connmgr", "listen")
                 /\ UNCHANGED <<flag, arrived, alive, heard, clients, strgVars>>

\* Fault: the flag is never raised.
SetFlagForgotten == /\ Inside("connmgr", "setflag")
                    /\ Unlock
                    /\ Goto("connmgr", "barrier")
                    /\ UNCHANGED <<bufferVars, flag, arrived, alive, connVars, strgVars>>

SetFlag == /\ Inside("connmgr", "setflag")
           /\ flag' = TRUE
           /\ Unlock
           /\ Goto("connmgr", "barrier")
           /\ UNCHANGED <<bufferVars, arrived, alive, connVars, strgVars>>

-------------------------------------------------------------------------------
\* The datamgr thread.

dataOnly == <<bufferVars, mutex, flag, arrived, alive, connVars, strgVars>>

\* fopen of the map file, and its assertion; the list is built from the map.
OpenMap == At("datamgr", "start") /\ Goto("datamgr", "read") /\ UNCHANGED dataOnly
\* (Fault: without the file the thread just goes to the barrier.)
NoMapReturns == At("datamgr", "start") /\ Goto("datamgr", "barrier") /\ UNCHANGED dataOnly
NoMap == At("datamgr", "start") /\ Abort

\* An unknown sensor id, too cold, too hot: one message; else none.
UseReading == /\ At("datamgr", "use")
              /\ LogThenGoto("datamgr", "read") \/ Goto("datamgr", "read")
              /\ UNCHANGED dataOnly

\* datamgr_free, fclose
LeaveDatamgr == At("datamgr", "leave") /\ Goto("datamgr", "barrier") /\ UNCHANGED dataOnly

-------------------------------------------------------------------------------
\* The strgmgr thread.

strgOnly == <<bufferVars, mutex, flag, arrived, alive, connVars, dbFail>>
StrgAt(l) == At("strgmgr", l)

\* One iteration with DB_FAIL: init_connection is skipped, db stays NULL.
SkipConnection == /\ StrgAt("try")
                  /\ dbFail
                  /\ Goto("strgmgr", "unable")
                  /\ UNCHANGED <<strgVars, strgOnly>>

\* sqlite3_open fails: init_connection logs and returns NULL.
OpenFails == /\ StrgAt("try")
             /\ ~dbFail
             /\ db' = FALSE
             /\ LogThenGoto("strgmgr", "unable")
             /\ UNCHANGED <<rows, clear, err, tries, lost, strgOnly>>

OpenDatabase == /\ StrgAt("try")
                /\ ~dbFail
                /\ LogThenGoto("strgmgr", IF clear THEN "drop" ELSE "create")
                /\ UNCHANGED <<strgVars, strgOnly>>

\* execute fails on DROP or CREATE: init_connection returns NULL, logging nothing.
StatementFails == /\ StrgAt("drop") \/ StrgAt("create")
                  /\ db' = FALSE
                  /\ Goto("strgmgr", "unable")
                  /\ UNCHANGED <<rows, clear, err, tries, lost, strgOnly>>

\* Fault: the existing rows stay.
DropNothing == /\ StrgAt("drop")
               /\ Goto("strgmgr", "create")
               /\ UNCHANGED <<strgVars, strgOnly>>

DropTable == /\ StrgAt("drop")
             /\ rows' = <<>>
             /\ Goto("strgmgr", "create")
             /\ UNCHANGED <<clear, db, err, tries, lost, strgOnly>>

CreateTable == /\ StrgAt("create")
               /\ LogThenGoto("strgmgr", "connected")
               /\ UNCHANGED <<strgVars, strgOnly>>

\* Fault: clear_up_flag stays set, so the next connection clears the table.
ConnectedClearing == /\ StrgAt("connected")
                     /\ db' = TRUE
                     /\ Goto("strgmgr", "read")
                     /\ UNCHANGED <<rows, clear, err, tries, lost, strgOnly>>

\* db # NULL: clear_up_flag = FALSE, and insert_sensor_from_buffer starts.
Connected == /\ StrgAt("connected")
             /\ db' = TRUE /\ clear' = FALSE
             /\ Goto("strgmgr", "read")
             /\ UNCHANGED <<rows, err, tries, lost, strgOnly>>

\* insert_sensor of the measurement just read.
Reading == got["strgmgr"][Len(got["strgmgr"])]

StoreReading == /\ StrgAt("use")
                /\ rows' = Append(rows, Reading)
                /\ Goto("strgmgr", "read")
                /\ UNCHANGED <<clear, db, err, tries, lost, strgOnly>>

\* The INSERT fails: insert_sensor_from_buffer returns STRGMGR_FAILURE; the
\* measurement has left the buffer and is not tried again.
StoreFails == /\ StrgAt("use")
              /\ lost' = lost \cup {Len(got["strgmgr"])}
              /\ err' = "FAILURE"
              /\ LogThenGoto("strgmgr", "sleep")
              /\ UNCHANGED <<rows, clear, db, tries, strgOnly>>

\* TERMINATE: insert_sensor_from_buffer returns STRGMGR_SUCCESS, the loop breaks.
StoredAll == /\ StrgAt("leave")
             /\ err' = "SUCCESS"
             /\ Goto("strgmgr", "after")
             /\ UNCHANGED <<rows, clear, db, tries, lost, strgOnly>>

\* "Unable to connect to SQL server"
LogUnable == /\ StrgAt("unable")
             /\ LogThenGoto("strgmgr", "sleep")
             /\ UNCHANGED <<strgVars, strgOnly>>

\* Fault: the loop does not count.
SleepUncounted == /\ StrgAt("sleep")
                  /\ Goto("strgmgr", "try")
                  /\ UNCHANGED <<strgVars, strgOnly>>

\* sleep(1), tries++ and the test of the loop.
Sleep == /\ StrgAt("sleep")
         /\ tries' = tries + 1
         /\ Goto("strgmgr", IF tries' <= Tries THEN "try" ELSE "after")
         /\ UNCHANGED <<rows, clear, db, err, lost, strgOnly>>

Disconnected == /\ LogThenGoto("strgmgr", "barrier")
                /\ UNCHANGED <<strgVars, strgOnly>>

\* The two assertions behind the loop; else disconnect and a last message.
EndStrgmgr == StrgAt("after") /\ IF ~db \/ err = "FAILURE" THEN Abort ELSE Disconnected

-------------------------------------------------------------------------------
\* The main thread, and the barrier.

\* sbuffer_init, then pthread_create of the three threads.
Start == /\ At("main", "start")
         /\ Buffer!BufferInit
         /\ pc' = [pc EXCEPT !["main"] = "barrier", !["connmgr"] = "listen",
                             !["datamgr"] = "start", !["strgmgr"] = "try"]
         /\ UNCHANGED <<then, mutex, flag, arrived, alive, connVars, strgVars>>

StartFails == At("main", "start") /\ Abort

\* pthread_barrier_wait: arrive, and go on when all four have.
Arrive(t) == /\ At(t, "barrier")
             /\ arrived' = arrived \cup {t}
             /\ Goto(t, "waiting")
             /\ UNCHANGED <<bufferVars, mutex, flag, alive, connVars, strgVars>>

Pass(t) == /\ At(t, "waiting")
           /\ arrived = Threads
           /\ Goto(t, IF t = "main" THEN "join" ELSE "done")
           /\ UNCHANGED <<bufferVars, mutex, flag, arrived, alive, connVars, strgVars>>

\* The three pthread_join, and the two destroys.
Join == /\ At("main", "join")
        /\ \A t \in Threads \ {"main"} : pc[t] = "done"
        /\ Goto("main", "free")
        /\ UNCHANGED <<bufferVars, mutex, flag, arrived, alive, connVars, strgVars>>

FreeBuffer == /\ At("main", "free")
              /\ Buffer!Free
              /\ Goto("main", "done")
              /\ UNCHANGED <<mutex, flag, arrived, alive, connVars, strgVars>>

\* The end of the process, by return from main or by abort.
Ended == ~alive \/ pc["main"] = "done"
Finished == Ended /\ UNCHANGED vars

-------------------------------------------------------------------------------
ConnmgrStep == \/ \E d \in Data : Accept(d) \/ Receive(d)
               \/ Disconnect \/ Timeout \/ ConnmgrAssert
               \/ WriteToBuffer \/ SetFlag \/ WriteToFifo("connmgr")
DatamgrStep == \/ OpenMap \/ NoMap \/ UseReading \/ LeaveDatamgr
               \/ ReadFromBuffer("datamgr") \/ WriteToFifo("datamgr")
StrgmgrStep == \/ SkipConnection \/ OpenFails \/ OpenDatabase \/ StatementFails
               \/ DropTable \/ CreateTable \/ Connected
               \/ StoreReading \/ StoreFails \/ StoredAll
               \/ LogUnable \/ Sleep \/ EndStrgmgr
               \/ ReadFromBuffer("strgmgr") \/ WriteToFifo("strgmgr")
MainStep == Start \/ StartFails \/ Join \/ FreeBuffer

Next == \/ ConnmgrStep \/ DatamgrStep \/ StrgmgrStep \/ MainStep
        \/ \E t \in Threads : Lock(t) \/ Arrive(t) \/ Pass(t)
        \/ Finished

Spec == Init /\ [][Next]_vars

\* Every thread is scheduled, and a thread that finds the mutex free again and
\* again gets it some time: the two readers poll, so it is never free for good.
Fairness == /\ WF_vars(ConnmgrStep) /\ WF_vars(DatamgrStep)
            /\ WF_vars(StrgmgrStep) /\ WF_vars(MainStep)
            /\ \A t \in Threads \ {"main"} : SF_vars(Lock(t))
            /\ \A t \in Threads : WF_vars(Arrive(t) \/ Pass(t))
FairSpec == Spec /\ Fairness
-------------------------------------------------------------------------------
Labels == Critical \cup {"none", "start", "listen", "barrier", "waiting", "done",
                         "use", "leave", "try", "drop", "create", "connected",
                         "unable", "sleep", "after", "join", "free"}

TypeOK == /\ Buffer!TypeOK
          /\ mutex \in Threads \cup {"free"}
          /\ flag \in BOOLEAN
          /\ arrived \subseteq Threads
          /\ pc \in [Threads -> Labels] /\ then \in [Threads -> Labels]
          /\ alive \in BOOLEAN
          /\ heard \in 0 .. MaxInserts /\ clients \in 0 .. MaxInserts
          /\ arg \in Data \cup {"none"}
          /\ rows \in Seq(Data \cup {OldRow})
          /\ clear \in BOOLEAN /\ db \in BOOLEAN
          /\ err \in {"unset", "SUCCESS", "FAILURE"}
          /\ tries \in 1 .. Tries + 1
          /\ dbFail \in BOOLEAN
          /\ lost \subseteq 1 .. MaxInserts

\* Where a reader thread is once read_from_buffer has told it to terminate.
HasLeft(r) == \/ r = "datamgr" /\ pc[r] \in {"leave", "barrier", "waiting", "done"}
              \/ r = "strgmgr" /\ \/ err = "SUCCESS"
                                  \/ pc[r] = "leave"

\* A reader that was told to terminate has everything that ever went into the
\* buffer: the flag cannot overtake the last measurement.  (main.c:45: the
\* threads terminate "as soon as theyre done getting all the data".)
LeaversHaveAll == \A r \in Readers : HasLeft(r) => flag /\ got[r] = inserted

\* When the barrier opens there is nothing left in the buffer and nobody inside
\* a critical section, so main destroys the mutex and frees the buffer safely.
QuietAtBarrier == alive /\ arrived = Threads => /\ nodes = <<>>
                                                /\ mutex = "free"
                                                /\ \A r \in Readers : HasLeft(r)

\* The table, from the first connection on: the measurements strgmgr has read, in
\* order, without those whose INSERT failed and the one in its hands.
Settled == IF pc["strgmgr"] = "use" THEN Len(got["strgmgr"]) - 1
                                    ELSE Len(got["strgmgr"])
Stored == (1 .. Settled) \ lost
TableHoldsReadings ==
  /\ TypeOK
  /\ ~clear => /\ Len(rows) = Cardinality(Stored)
               /\ \A k \in Stored :
                    rows[Cardinality({j \in Stored : j <= k})] = got["strgmgr"][k]

\* A measurement is lost to the table only by a try that failed: at most one for
\* each, and fewer than DB_CONNECTION_TRIES in a run that ends normally.
LossBounded == /\ Cardinality(lost) <= tries
               /\ err = "SUCCESS" => Cardinality(lost) < Tries

\* No step drops or moves a row of this run: a reconnection, which executes the
\* CREATE of init_connection again, does not clear the table a second time.
RowsKept == [][\A k \in 1 .. Len(rows) :
                 rows[k] # OldRow => k <= Len(rows') /\ rows'[k] = rows[k]]_vars

\* Every measurement in the buffer reaches both readers, or the process aborts.
Delivered == \A r \in Readers : \A k \in 1 .. MaxInserts :
               Len(inserted) >= k ~> Len(got[r]) >= k \/ ~alive

\* When the sensors fall silent the process ends: connmgr times out, the readers
\* see the flag, and the barrier opens; or an assertion has ended it before, as it
\* always does when compiled with -DDB_FAIL (main.c:151): the tries end in one.
Terminates == <>Ended /\ (dbFail => <>(~alive))

\* sensor_db.h:37: "insert all sensor measurements available from the buffer",
\* as the table shows it when the program has ended normally.
AllStored == alive /\ pc["main"] = "done" => Len(rows) = Len(inserted)
===============================================================================
