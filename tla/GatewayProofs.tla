---------------------------- MODULE GatewayProofs -----------------------------
(***************************************************************************)
(* Proofs about Gateway for any measurements, any number of them and any   *)
(* number of connection tries.                                             *)
(*                                                                         *)
(* Control says where each thread can be, who may hold the mutex and how   *)
(* the flag, error_code and the barrier follow from the places.  With it   *)
(* every step of the gateway is a step of SBuffer or leaves the buffer     *)
(* alone, so the theorems of SBufferProofs hold of its buffer; and from    *)
(* them follows that the threads end with an empty list.                   *)
(***************************************************************************)
EXTENDS Gateway, FiniteSetTheorems, SequenceTheorems, TLAPS

B == INSTANCE SBufferProofs

Places == /\ DOMAIN pc = Threads /\ DOMAIN then = Threads
          /\ pc["main"] \in {"start", "barrier", "waiting", "join", "free", "done"}
          /\ pc["main"] = "start" => \A t \in Threads \ {"main"} : pc[t] = "none"

ConnPlaces ==
  /\ pc["connmgr"] \in {"none", "listen", "insert", "log", "setflag", "barrier",
                        "waiting", "done"}
  /\ pc["connmgr"] = "log" => then["connmgr"] \in {"insert", "listen"}
  /\ pc["connmgr"] = "insert" => arg \in Data
  /\ pc["connmgr"] = "log" /\ then["connmgr"] = "insert" => arg \in Data
  /\ flag => pc["connmgr"] \in {"barrier", "waiting", "done"}

DataPlaces ==
  /\ pc["datamgr"] \in {"none", "start", "read", "use", "log", "leave", "barrier",
                        "waiting", "done"}
  /\ pc["datamgr"] = "log" => then["datamgr"] = "read"

\* strgmgr is past its loop, with the last message before it or on the way.
Parting == \/ pc["strgmgr"] \in {"barrier", "waiting", "done"}
           \/ pc["strgmgr"] = "log" /\ then["strgmgr"] = "barrier"

StrgPlaces ==
  /\ pc["strgmgr"] \in {"none", "try", "unable", "drop", "create", "connected", "read",
                        "use", "log", "leave", "sleep", "after", "barrier", "waiting",
                        "done"}
  /\ pc["strgmgr"] = "log" => then["strgmgr"] \in {"unable", "drop", "create",
                                                   "connected", "sleep", "barrier"}
  /\ err \in {"unset", "SUCCESS", "FAILURE"}
  /\ err = "SUCCESS" => Parting \/ pc["strgmgr"] = "after"
  /\ Parting => err = "SUCCESS"
  /\ db /\ err = "unset" => pc["strgmgr"] \in {"read", "use", "leave"}

Meeting == /\ mutex \in Threads \cup {"free"}
           /\ mutex # "free" => pc[mutex] \in Critical
           /\ arrived \subseteq Threads
           /\ \A t \in arrived : pc[t] \in {"waiting", "join", "free", "done"}

Control == Places /\ ConnPlaces /\ DataPlaces /\ StrgPlaces /\ Meeting

USE DEF Threads, Readers

LEMMA ControlInit == Init => Control
BY DEF Init, Control, Places, ConnPlaces, DataPlaces, StrgPlaces, Parting, Meeting

LEMMA ConnmgrControl ==
  ASSUME Control, ConnmgrStep PROVE Control'
<1> USE DEF Control, Places, ConnPlaces, DataPlaces, StrgPlaces, Parting, Meeting,
            At, Goto, LogThenGoto, Inside, Unlock, Critical, connOnly, connVars,
            strgVars, bufferVars
<1>1. ASSUME NEW d \in Data, Accept(d) PROVE Control'
  BY <1>1 DEF Accept
<1>2. ASSUME NEW d \in Data, Receive(d) PROVE Control'
  BY <1>2 DEF Receive
<1>3. CASE Disconnect
  BY <1>3 DEF Disconnect
<1>4. CASE Timeout
  BY <1>4 DEF Timeout
<1>5. CASE ConnmgrAssert
  BY <1>5 DEF ConnmgrAssert, Abort
<1>6. CASE WriteToBuffer
  BY <1>6 DEF WriteToBuffer
<1>7. CASE SetFlag
  BY <1>7 DEF SetFlag
<1>8. CASE WriteToFifo("connmgr")
  BY <1>8 DEF WriteToFifo
<1> QED
  BY <1>1, <1>2, <1>3, <1>4, <1>5, <1>6, <1>7, <1>8 DEF ConnmgrStep

LEMMA DatamgrControl ==
  ASSUME Control, DatamgrStep PROVE Control'
<1> USE DEF Control, Places, ConnPlaces, DataPlaces, StrgPlaces, Parting, Meeting,
            At, Goto, LogThenGoto, Inside, Unlock, Critical, dataOnly, connVars,
            strgVars, bufferVars
<1>1. CASE OpenMap
  BY <1>1 DEF OpenMap
<1>2. CASE NoMap
  BY <1>2 DEF NoMap, Abort
<1>3. CASE UseReading
  BY <1>3 DEF UseReading
<1>4. CASE LeaveDatamgr
  BY <1>4 DEF LeaveDatamgr
<1>5. CASE ReadFromBuffer("datamgr")
  BY <1>5 DEF ReadFromBuffer
<1>6. CASE WriteToFifo("datamgr")
  BY <1>6 DEF WriteToFifo
<1> QED
  BY <1>1, <1>2, <1>3, <1>4, <1>5, <1>6 DEF DatamgrStep

LEMMA StrgmgrControl ==
  ASSUME Control, StrgmgrStep PROVE Control'
<1> USE DEF Control, Places, ConnPlaces, DataPlaces, StrgPlaces, Parting, Meeting,
            At, StrgAt, Goto, LogThenGoto, Inside, Unlock, Critical, strgOnly,
            connVars, strgVars, bufferVars
<1>1. CASE SkipConnection
  BY <1>1 DEF SkipConnection
<1>2. CASE OpenFails
  BY <1>2 DEF OpenFails
<1>3. CASE OpenDatabase
  BY <1>3 DEF OpenDatabase
<1>4. CASE StatementFails
  BY <1>4 DEF StatementFails
<1>5. CASE DropTable
  BY <1>5 DEF DropTable
<1>6. CASE CreateTable
  BY <1>6 DEF CreateTable
<1>7. CASE Connected
  BY <1>7 DEF Connected
<1>8. CASE StoreReading
  BY <1>8 DEF StoreReading
<1>9. CASE StoreFails
  BY <1>9 DEF StoreFails
<1>10. CASE StoredAll
  BY <1>10 DEF StoredAll
<1>11. CASE LogUnable
  BY <1>11 DEF LogUnable
<1>12. CASE Sleep
  BY <1>12 DEF Sleep
<1>13. CASE EndStrgmgr
  <2>1. CASE Abort
    BY <2>1 DEF Abort
  <2>2. CASE StrgAt("after") /\ db /\ err # "FAILURE" /\ Disconnected
    BY <2>2 DEF Disconnected
  <2> QED
    BY <1>13, <2>1, <2>2, Zenon DEF EndStrgmgr
<1>14. CASE ReadFromBuffer("strgmgr")
  BY <1>14 DEF ReadFromBuffer
<1>15. CASE WriteToFifo("strgmgr")
  BY <1>15 DEF WriteToFifo
<1> QED
  BY <1>1, <1>2, <1>3, <1>4, <1>5, <1>6, <1>7, <1>8,
     <1>9, <1>10, <1>11, <1>12, <1>13, <1>14, <1>15
     DEF StrgmgrStep

LEMMA MainControl ==
  ASSUME Control, MainStep PROVE Control'
<1> USE DEF Control, Places, ConnPlaces, DataPlaces, StrgPlaces, Parting, Meeting,
            At, Goto, Critical, connVars, strgVars, bufferVars
<1>1. CASE Start
  BY <1>1 DEF Start
<1>2. CASE StartFails
  BY <1>2 DEF StartFails, Abort
<1>3. CASE Join
  BY <1>3 DEF Join
<1>4. CASE FreeBuffer
  BY <1>4 DEF FreeBuffer
<1> QED
  BY <1>1, <1>2, <1>3, <1>4 DEF MainStep

LEMMA SharedControl ==
  ASSUME Control, NEW t \in Threads, Lock(t) \/ Arrive(t) \/ Pass(t) PROVE Control'
<1> USE DEF Control, Places, ConnPlaces, DataPlaces, StrgPlaces, Parting, Meeting,
            At, Goto, Critical, connVars, strgVars, bufferVars
<1>1. CASE Lock(t)
  BY <1>1 DEF Lock
<1>2. CASE Arrive(t)
  BY <1>2 DEF Arrive
<1>3. CASE Pass(t)
  BY <1>3 DEF Pass
<1> QED
  BY <1>1, <1>2, <1>3

(* The four threads are where their code lets them be, only a thread in a  *)
(* critical section holds the mutex, the flag is up only behind connmgr's  *)
(* loop, and strgmgr gets to the barrier only with error_code SUCCESS.     *)
THEOREM ThreadsInPlace == Spec => []Control
<1>1. Control /\ [Next]_vars => Control'
  <2> SUFFICES ASSUME Control, [Next]_vars PROVE Control'
    OBVIOUS
  <2>1. CASE UNCHANGED vars
    BY <2>1 DEF vars, connVars, strgVars, bufferVars, Control, Places, ConnPlaces,
                DataPlaces, StrgPlaces, Parting, Meeting
  <2>2. CASE Finished
    BY <2>1, <2>2 DEF Finished
  <2>3. CASE \E t \in Threads : Lock(t) \/ Arrive(t) \/ Pass(t)
    BY <2>3, SharedControl
  <2> QED
    BY <2>1, <2>2, <2>3, ConnmgrControl, DatamgrControl, StrgmgrControl, MainControl
       DEF Next
<1> QED
  BY ControlInit, <1>1, PTL DEF Spec

-------------------------------------------------------------------------------
(* The buffer of the gateway is SBuffer's: what Gateway knows as Buffer and *)
(* what SBufferProofs speaks of are one specification.                     *)

LEMMA SameInit == Buffer!Init <=> B!Init
BY DEF Buffer!Init, B!Init

LEMMA SameRemove ==
  ASSUME NEW r \in Readers
  PROVE  Buffer!Remove(r) <=> B!Remove(r)
BY DEF Buffer!Remove, Buffer!RemoveSuccess, Buffer!RemoveNoData, Buffer!RemoveNull,
       Buffer!FirstUnread, Buffer!AllRead, Buffer!MarkAndReclaim,
       B!Remove, B!RemoveSuccess, B!RemoveNoData, B!RemoveNull,
       B!FirstUnread, B!AllRead, B!MarkAndReclaim

LEMMA SameInsert ==
  ASSUME NEW d \in Data
  PROVE  Buffer!Insert(d) <=> B!Insert(d)
BY DEF Buffer!Insert, B!Insert

LEMMA SameNext == Buffer!Next <=> B!Next
BY SameRemove, SameInsert
   DEF Buffer!Next, B!Next, Buffer!BufferInit, B!BufferInit, Buffer!Free, B!Free

(* Every step of the gateway is a step of the buffer or leaves it alone.   *)
LEMMA BufferStep ==
  ASSUME Control, [Next]_vars
  PROVE  [Buffer!Next]_bufferVars
<1> USE DEF bufferVars, connVars, strgVars
<1>1. CASE UNCHANGED vars \/ Finished
  BY <1>1 DEF vars, Finished
<1>2. CASE \E t \in Threads : Lock(t) \/ Arrive(t) \/ Pass(t)
  BY <1>2 DEF Lock, Arrive, Pass
<1>3. CASE ConnmgrStep
  <2>1. CASE WriteToBuffer
    <3>1. arg \in Data
      BY <2>1 DEF WriteToBuffer, Inside, At, Control, ConnPlaces
    <3> QED
      BY <2>1, <3>1 DEF WriteToBuffer, Buffer!Next
  <2>2. CASE ~WriteToBuffer
    BY <1>3, <2>2 DEF ConnmgrStep, Accept, Receive, Disconnect, Timeout, ConnmgrAssert,
                      Abort, SetFlag, WriteToFifo, connOnly
  <2> QED
    BY <2>1, <2>2
<1>4. CASE DatamgrStep
  <2>1. CASE ReadFromBuffer("datamgr")
    BY <2>1 DEF ReadFromBuffer, Buffer!Next
  <2>2. CASE ~ReadFromBuffer("datamgr")
    BY <1>4, <2>2 DEF DatamgrStep, OpenMap, NoMap, Abort, UseReading, LeaveDatamgr,
                      WriteToFifo, dataOnly
  <2> QED
    BY <2>1, <2>2
<1>5. CASE StrgmgrStep
  <2>1. CASE ReadFromBuffer("strgmgr")
    BY <2>1 DEF ReadFromBuffer, Buffer!Next
  <2>2. CASE ~ReadFromBuffer("strgmgr")
    BY <1>5, <2>2 DEF StrgmgrStep, SkipConnection, OpenFails, OpenDatabase,
         StatementFails, DropTable, CreateTable, Connected, StoreReading, StoreFails,
         StoredAll, LogUnable, Sleep, EndStrgmgr, Disconnected, Abort, WriteToFifo,
         strgOnly
  <2> QED
    BY <2>1, <2>2
<1>6. CASE MainStep
  BY <1>6 DEF MainStep, Start, StartFails, Abort, Join, FreeBuffer, Buffer!Next
<1> QED
  BY <1>1, <1>2, <1>3, <1>4, <1>5, <1>6 DEF Next

(* main.c uses the buffer as sbuffer.h means it: whatever the threads do,  *)
(* its buffer behaves as SBuffer specifies.                                *)
THEOREM GatewayUsesBuffer == Spec => Buffer!Spec
<1>1. Init => Buffer!Init
  BY DEF Init
<1>2. Control /\ [Next]_vars => [Buffer!Next]_(Buffer!vars)
  BY BufferStep DEF bufferVars, Buffer!vars
<1> QED
  BY <1>1, <1>2, ThreadsInPlace, PTL DEF Spec, Buffer!Spec

(* The assumption of SBuffer about its constants holds here.               *)
LEMMA BufferConstants == Readers # {} /\ B!IsFiniteSet(Readers) /\ MaxInserts \in Nat
<1>1. IsFiniteSet({"datamgr"}) /\ IsFiniteSet({"strgmgr"})
  BY FS_Singleton
<1>2. Readers = {"datamgr"} \cup {"strgmgr"}
  OBVIOUS
<1>3. IsFiniteSet(Readers)
  BY <1>1, <1>2, FS_Union
<1>4. B!IsFiniteSet(Readers)
  BY <1>3 DEF IsFiniteSet, B!IsFiniteSet
<1> QED
  BY <1>4, GatewayAssumption

(* So the invariant of SBufferProofs holds of it.                          *)
LEMMA BufferInvariant == Spec => []B!IInv
<1>1. Readers # {} /\ B!IsFiniteSet(Readers) /\ MaxInserts \in Nat
  BY BufferConstants
<1>2. B!Spec => []B!IInv
  BY <1>1, B!Invariance, PTL
<1>3. Init => B!Init
  BY SameInit DEF Init
<1>4. Control /\ [Next]_vars => [B!Next]_(B!vars)
  BY BufferStep, SameNext DEF bufferVars, B!vars
<1> QED
  BY <1>2, <1>3, <1>4, ThreadsInPlace, PTL DEF Spec, B!Spec

-------------------------------------------------------------------------------
(* Nothing is left unread.                                                 *)

(* A reader joins those that have left only by a read_from_buffer.         *)
LEMMA OnlyReadingLeaves ==
  ASSUME Control, [Next]_vars, NEW r \in Readers, ~ReadFromBuffer(r), HasLeft(r)'
  PROVE  HasLeft(r)
<1> USE DEF HasLeft, Control, Places, ConnPlaces, DataPlaces, StrgPlaces, Parting,
            At, Goto, LogThenGoto, connVars, strgVars, bufferVars
<1>1. CASE UNCHANGED vars \/ Finished
  BY <1>1 DEF vars, Finished
<1>2. CASE \E t \in Threads : Lock(t) \/ Arrive(t) \/ Pass(t)
  BY <1>2 DEF Lock, Arrive, Pass
<1>3. CASE ConnmgrStep
  BY <1>3 DEF ConnmgrStep, Accept, Receive, Disconnect, Timeout, ConnmgrAssert,
              Abort, WriteToBuffer, SetFlag, WriteToFifo, Inside, connOnly
<1>4. CASE DatamgrStep
  BY <1>4 DEF DatamgrStep, OpenMap, NoMap, Abort, UseReading, LeaveDatamgr,
              ReadFromBuffer, WriteToFifo, Inside, dataOnly
<1>5. CASE StrgmgrStep
  BY <1>5 DEF StrgmgrStep, SkipConnection, OpenFails, OpenDatabase, StatementFails,
       DropTable, CreateTable, Connected, StoreReading, StoreFails, StoredAll,
       LogUnable, Sleep, EndStrgmgr, Disconnected, Abort, ReadFromBuffer, WriteToFifo,
       Inside, StrgAt, strgOnly
<1>6. CASE MainStep
  BY <1>6 DEF MainStep, Start, StartFails, Abort, Join, FreeBuffer
<1> QED
  BY <1>1, <1>2, <1>3, <1>4, <1>5, <1>6 DEF Next

(* Only connmgr's write_to_buffer and r's own read_from_buffer change what *)
(* r has still to get; the flag stays up.                                  *)
LEMMA OthersLeaveIt ==
  ASSUME Control, B!TypeOK, [Next]_vars, NEW r \in Readers,
         ~ReadFromBuffer(r), ~WriteToBuffer
  PROVE  got'[r] = got[r] /\ inserted' = inserted /\ (flag => flag')
<1> USE DEF connVars, strgVars, bufferVars
<1>1. CASE UNCHANGED vars \/ Finished
  BY <1>1 DEF vars, Finished
<1>2. CASE \E t \in Threads : Lock(t) \/ Arrive(t) \/ Pass(t)
  BY <1>2 DEF Lock, Arrive, Pass
<1>3. CASE ConnmgrStep
  BY <1>3 DEF ConnmgrStep, Accept, Receive, Disconnect, Timeout, ConnmgrAssert,
              Abort, SetFlag, WriteToFifo, connOnly
<1>4. ASSUME NEW q \in Readers \ {r}, ReadFromBuffer(q)
      PROVE  got'[r] = got[r] /\ inserted' = inserted /\ flag' = flag
  BY <1>4 DEF ReadFromBuffer, Buffer!Remove, Buffer!RemoveSuccess, Buffer!RemoveNoData,
              Buffer!RemoveNull, B!TypeOK
<1>5. CASE DatamgrStep
  BY <1>4, <1>5 DEF DatamgrStep, OpenMap, NoMap, Abort, UseReading, LeaveDatamgr,
                    WriteToFifo, dataOnly
<1>6. CASE StrgmgrStep
  BY <1>4, <1>6 DEF StrgmgrStep, SkipConnection, OpenFails, OpenDatabase,
       StatementFails, DropTable, CreateTable, Connected, StoreReading, StoreFails,
       StoredAll, LogUnable, Sleep, EndStrgmgr, Disconnected, Abort, WriteToFifo,
       strgOnly
<1>7. CASE MainStep
  BY <1>7 DEF MainStep, Start, StartFails, Abort, Join, FreeBuffer, Buffer!BufferInit,
              Buffer!Free
<1> QED
  BY <1>1, <1>2, <1>3, <1>5, <1>6, <1>7 DEF Next

(* TERMINATE is returned to a reader that has everything, with the flag up. *)
LEMMA LeavingWithAll ==
  ASSUME Control, B!IInv, LeaversHaveAll, NEW r \in Readers, ReadFromBuffer(r),
         HasLeft(r)'
  PROVE  flag' /\ got'[r] = inserted'
<1>1. pc[r] = "read" /\ flag' = flag /\ err' = err
  BY DEF ReadFromBuffer, Inside, At, strgVars
<1>2. pc'[r] = "leave"
  BY <1>1 DEF ReadFromBuffer, HasLeft, Goto, Control, Places, StrgPlaces, Parting
<1>3. ret'[r] = "NO_DATA" /\ flag
  BY <1>2 DEF ReadFromBuffer, Goto, Control, Places
<1>4. B!Remove(r)
  BY SameRemove DEF ReadFromBuffer
<1>5. B!RemoveNoData(r)
  BY <1>3, <1>4 DEF B!Remove, B!RemoveSuccess, B!RemoveNull, B!IInv, B!TypeOK
<1>6. got[r] = inserted
  <2>1. B!TypeOK /\ B!InOrderOnce /\ B!LiveInv /\ B!AllRead(nodes, r)
    BY <1>5 DEF B!RemoveNoData, B!IInv
  <2>2. Readers # {} /\ B!IsFiniteSet(Readers) /\ MaxInserts \in Nat
    BY BufferConstants
  <2> QED
    BY <2>1, <2>2, B!CaughtUp
<1> QED
  BY <1>1, <1>3, <1>5, <1>6 DEF B!RemoveNoData

(* The flag cannot overtake the last measurement: a reader thread that has *)
(* been told to terminate has everything that ever went into the buffer.   *)
THEOREM NothingLeftBehind == Spec => []LeaversHaveAll
<1>1. Init => LeaversHaveAll
  BY DEF Init, LeaversHaveAll, HasLeft
<1>2. LeaversHaveAll /\ Control /\ B!IInv /\ [Next]_vars => LeaversHaveAll'
  <2> SUFFICES ASSUME LeaversHaveAll, Control, B!IInv, [Next]_vars,
                      NEW r \in Readers, HasLeft(r)'
               PROVE  flag' /\ got'[r] = inserted'
    BY DEF LeaversHaveAll
  <2>1. CASE ReadFromBuffer(r)
    BY <2>1, LeavingWithAll
  <2>2. CASE ~ReadFromBuffer(r)
    <3>1. HasLeft(r)
      BY <2>2, OnlyReadingLeaves
    <3>2. flag /\ got[r] = inserted
      BY <3>1 DEF LeaversHaveAll
    <3>3. ~WriteToBuffer
      BY <3>2 DEF WriteToBuffer, Inside, At, Control, ConnPlaces
    <3> QED
      BY <2>2, <3>2, <3>3, OthersLeaveIt DEF B!IInv
  <2> QED
    BY <2>1, <2>2
<1> QED
  BY <1>1, <1>2, ThreadsInPlace, BufferInvariant, PTL DEF Spec

(* When the barrier opens the list is empty, the mutex free, and both      *)
(* readers past their last read: main can destroy and free what it does.   *)
THEOREM BarrierIsQuiet == Spec => []QuietAtBarrier
<1>1. Control /\ B!IInv /\ LeaversHaveAll => QuietAtBarrier
  <2> SUFFICES ASSUME Control, B!IInv, LeaversHaveAll, arrived = Threads
               PROVE  nodes = <<>> /\ mutex = "free" /\ \A r \in Readers : HasLeft(r)
    BY DEF QuietAtBarrier
  <2>1. \A t \in Threads : pc[t] \in {"waiting", "join", "free", "done"}
    BY DEF Control, Meeting
  <2>2. mutex = "free"
    BY <2>1 DEF Control, Meeting, Critical
  <2>3. \A r \in Readers : HasLeft(r)
    BY <2>1 DEF HasLeft, Control, DataPlaces, StrgPlaces, Parting
  <2>4. \A r \in Readers : got[r] = inserted
    BY <2>3 DEF LeaversHaveAll
  <2>5. nodes = <<>>
    <3>1. CASE status = "live"
      <4>1. PICK r \in Readers : Len(got[r]) = B!Base
        BY <3>1 DEF B!IInv, B!LiveInv, B!Slowest
      <4>2. Len(nodes) = 0
        BY <2>4, <4>1 DEF B!Base, B!IInv, B!TypeOK
      <4> QED
        BY <4>2 DEF B!IInv, B!TypeOK
    <3>2. CASE status # "live"
      BY <3>2 DEF B!IInv, B!TypeOK
    <3> QED
      BY <3>1, <3>2
  <2> QED
    BY <2>2, <2>3, <2>5
<1> QED
  BY <1>1, ThreadsInPlace, BufferInvariant, NothingLeftBehind, PTL
-------------------------------------------------------------------------------
(* The table.  strgmgr reads only once it is connected, and the table is   *)
(* cleared only before that (Connecting); main frees the buffer only when  *)
(* strgmgr is done (MainPlaces), so every read_from_buffer that does not   *)
(* say NO_DATA has handed it a measurement; and within the tries of the    *)
(* loop a measurement is lost only on the way to the next one (Losing).    *)

\* At l, or at the mutex of the message before it.
On(l) == pc["strgmgr"] = l \/ (pc["strgmgr"] = "log" /\ then["strgmgr"] = l)

MainPlaces ==
  /\ pc["main"] = "start" => status = "null"
  /\ pc["main"] \in {"barrier", "waiting", "join", "free"} => status = "live"
  /\ pc["main"] \in {"free", "done"} => pc["connmgr"] = "done" /\ pc["strgmgr"] = "done"

Bounds == /\ clients <= heard
          /\ Len(inserted) <= MaxInserts
          /\ tries <= Tries \/ Parting \/ pc["strgmgr"] = "after"

Connecting ==
  /\ clear => /\ lost = {} /\ got["strgmgr"] = <<>> /\ err = "unset"
              /\ \A k \in 1 .. Len(rows) : rows[k] = OldRow
              /\ pc["strgmgr"] \notin {"read", "use", "leave"}
              /\ On("create") \/ On("connected") => rows = <<>>
  /\ On("drop") => clear

Losing == /\ lost \subseteq 1 .. Settled
          /\ Cardinality(lost) <= IF On("sleep") THEN tries ELSE tries - 1
          /\ pc["strgmgr"] = "use" => Len(got["strgmgr"]) > 0
          /\ err = "SUCCESS" => Cardinality(lost) < Tries

TInv == TableHoldsReadings /\ MainPlaces /\ Bounds /\ Connecting /\ Losing
LEMMA TInvInit == Init => TInv
<1> SUFFICES ASSUME Init PROVE TInv
  OBVIOUS
<1> USE DEF Init
<1>1. TypeOK
  <2>1. Buffer!TypeOK
    BY DEF Buffer!Init, Buffer!TypeOK, Buffer!Returns
  <2>2. rows \in Seq(Data \cup {OldRow})
    <3>1. OldRow \in Data \cup {OldRow}
      OBVIOUS
    <3>2. <<>> \in Seq(Data \cup {OldRow}) /\ <<OldRow>> \in Seq(Data \cup {OldRow})
      BY <3>1
    <3> QED
      BY <3>2
  <2>3. pc \in [Threads -> Labels] /\ then \in [Threads -> Labels]
    BY DEF Labels, Critical
  <2>4. heard \in 0 .. MaxInserts /\ clients \in 0 .. MaxInserts /\ tries \in 1 .. Tries + 1
    BY GatewayAssumption
  <2> QED
    BY <2>1, <2>2, <2>3, <2>4 DEF TypeOK
<1>2. MainPlaces
  BY DEF MainPlaces, Buffer!Init
<1>3. Bounds
  BY GatewayAssumption DEF Bounds, Buffer!Init
<1>4. Connecting
  BY DEF Connecting, On, Buffer!Init
<1>5. Losing
  <2>1. Cardinality({}) = 0
    BY FS_EmptySet
  <2> QED
    BY <2>1 DEF Losing, On, Settled, Buffer!Init
<1> QED
  BY <1>1, <1>2, <1>3, <1>4, <1>5 DEF TInv, TableHoldsReadings

(* What the steps of the other threads leave to strgmgr.                   *)
LEMMA OthersLeaveStrgmgr ==
  ASSUME Control, B!TypeOK,
         ConnmgrStep \/ DatamgrStep \/ MainStep \/ Finished \/ UNCHANGED vars
         \/ \E t \in Threads : Lock(t) \/ Arrive(t) \/ Pass(t)
  PROVE  /\ UNCHANGED <<rows, clear, db, err, tries, lost, got["strgmgr"], then["strgmgr"]>>
         /\ \/ pc'["strgmgr"] = pc["strgmgr"]
            \/ /\ pc["strgmgr"] \in {"none", "barrier", "waiting"}
               /\ pc'["strgmgr"] \in {"try", "waiting", "done"}
               /\ pc["strgmgr"] # "none" => pc'["strgmgr"] \in {"waiting", "done"}
               /\ pc["strgmgr"] = "none" => pc'["strgmgr"] = "try"
<1> USE DEF Control, Places, At, Goto, LogThenGoto, connVars, strgVars, bufferVars
<1>1. CASE UNCHANGED vars \/ Finished
  BY <1>1 DEF vars, Finished
<1>2. CASE \E t \in Threads : Lock(t) \/ Arrive(t) \/ Pass(t)
  BY <1>2 DEF Lock, Arrive, Pass, Critical
<1>3. CASE ConnmgrStep
  BY <1>3 DEF ConnmgrStep, Accept, Receive, Disconnect, Timeout, ConnmgrAssert, Abort,
              WriteToBuffer, Buffer!Insert, SetFlag, WriteToFifo, Inside, connOnly
<1>4. CASE DatamgrStep
  BY <1>4 DEF DatamgrStep, OpenMap, NoMap, Abort, UseReading, LeaveDatamgr, WriteToFifo,
              Inside, dataOnly, ReadFromBuffer, Buffer!Remove, Buffer!RemoveSuccess,
              Buffer!RemoveNoData, Buffer!RemoveNull, B!TypeOK
<1>5. CASE MainStep
  BY <1>5 DEF MainStep, Start, StartFails, Abort, Join, FreeBuffer, Buffer!BufferInit,
              Buffer!Free
<1> QED
  BY <1>1, <1>2, <1>3, <1>4, <1>5

(* main frees the buffer behind everybody.                                 *)
LEMMA MainPlacesKept ==
  ASSUME Control, MainPlaces, [Next]_vars PROVE MainPlaces'
<1> USE DEF MainPlaces, Control, Places, ConnPlaces, StrgPlaces, Parting, At, StrgAt, Goto,
            LogThenGoto, Inside, Unlock, connVars, strgVars, bufferVars
<1>1. CASE UNCHANGED vars \/ Finished
  BY <1>1 DEF vars, Finished
<1>2. CASE \E t \in Threads : Lock(t) \/ Arrive(t) \/ Pass(t)
  BY <1>2 DEF Lock, Arrive, Pass
<1>3. CASE ConnmgrStep
  BY <1>3 DEF ConnmgrStep, Accept, Receive, Disconnect, Timeout, ConnmgrAssert, Abort,
              WriteToBuffer, Buffer!Insert, SetFlag, WriteToFifo, connOnly
<1>4. CASE DatamgrStep
  BY <1>4 DEF DatamgrStep, OpenMap, NoMap, Abort, UseReading, LeaveDatamgr, WriteToFifo,
              dataOnly, ReadFromBuffer, Buffer!Remove, Buffer!RemoveSuccess,
              Buffer!RemoveNoData, Buffer!RemoveNull
<1>5. CASE MainStep
  BY <1>5 DEF MainStep, Start, StartFails, Abort, Join, FreeBuffer, Buffer!BufferInit,
              Buffer!Free
<1>6. CASE StrgmgrStep
  <2>1. CASE EndStrgmgr
    <3>1. Abort \/ (StrgAt("after") /\ Disconnected)
      BY <2>1 DEF EndStrgmgr
    <3> QED
      BY <3>1 DEF Abort, Disconnected, strgOnly
  <2>2. CASE ReadFromBuffer("strgmgr") \/ WriteToFifo("strgmgr")
    BY <2>2 DEF WriteToFifo, ReadFromBuffer, Buffer!Remove, Buffer!RemoveSuccess,
                Buffer!RemoveNoData, Buffer!RemoveNull
  <2>3. CASE ~EndStrgmgr /\ ~ReadFromBuffer("strgmgr") /\ ~WriteToFifo("strgmgr")
    BY <1>6, <2>3 DEF StrgmgrStep, SkipConnection, OpenFails, OpenDatabase, StatementFails,
         DropTable, CreateTable, Connected, StoreReading, StoreFails, StoredAll,
         LogUnable, Sleep, strgOnly
  <2> QED
    BY <2>1, <2>2, <2>3
<1> QED
  BY <1>1, <1>2, <1>3, <1>4, <1>5, <1>6 DEF Next

(* strgmgr is handed a measurement by every call that it goes on to store. *)
LEMMA StrgmgrReads ==
  ASSUME Control, B!TypeOK, MainPlaces, ReadFromBuffer("strgmgr")
  PROVE  /\ pc["strgmgr"] = "read" /\ UNCHANGED <<rows, clear, db, err, tries, lost, then>>
         /\ got["strgmgr"] \in Seq(Data)
         /\ \/ /\ pc'["strgmgr"] = "use"
               /\ \E d \in Data : got'["strgmgr"] = Append(got["strgmgr"], d)
            \/ /\ pc'["strgmgr"] \in {"read", "leave"}
               /\ got'["strgmgr"] = got["strgmgr"]
<1> USE DEF Control, Places, At, Goto, Inside, strgVars
<1>1. pc["strgmgr"] = "read" /\ status = "live"
  BY DEF ReadFromBuffer, MainPlaces
<1>2. got["strgmgr"] \in Seq(Data) /\ nodes \in Seq(B!Node)
  BY DEF B!TypeOK
<1>3. CASE Buffer!RemoveSuccess("strgmgr")
  <2>1. PICK i \in 1 .. Len(nodes) :
           got' = [got EXCEPT !["strgmgr"] = Append(@, nodes[i].data)]
    BY <1>3 DEF Buffer!RemoveSuccess
  <2>2. nodes[i].data \in Data
    <3>1. nodes[i] \in B!Node
      BY <1>2, ElementOfSeq
    <3> QED
      BY <3>1 DEF B!Node
  <2>3. ret'["strgmgr"] = "SUCCESS"
    BY <1>3 DEF Buffer!RemoveSuccess, B!TypeOK
  <2>4. got'["strgmgr"] = Append(got["strgmgr"], nodes[i].data)
    BY <2>1 DEF B!TypeOK
  <2> QED
    BY <1>1, <1>2, <2>2, <2>3, <2>4 DEF ReadFromBuffer
<1>4. CASE Buffer!RemoveNoData("strgmgr")
  BY <1>1, <1>2, <1>4 DEF Buffer!RemoveNoData, B!TypeOK, ReadFromBuffer
<1> QED
  BY <1>1, <1>3, <1>4 DEF ReadFromBuffer, Buffer!Remove, Buffer!RemoveNull

LEMMA BoundsKept ==
  ASSUME TInv, Control, B!TypeOK, [Next]_vars PROVE Bounds'
<1> USE DEF TInv, TableHoldsReadings, Control, Places, StrgPlaces, Parting, Bounds, At,
            StrgAt, Goto, LogThenGoto, Inside, Unlock, connVars, strgVars, bufferVars
<1>0. /\ heard \in Nat /\ clients \in Nat /\ tries \in Nat /\ Tries \in Nat
      /\ MaxInserts \in Nat
  BY GatewayAssumption DEF TypeOK
<1>1. CASE UNCHANGED vars \/ Finished
  BY <1>1 DEF vars, Finished
<1>2. CASE \E t \in Threads : Lock(t) \/ Arrive(t) \/ Pass(t)
  BY <1>2 DEF Lock, Arrive, Pass
<1>3. CASE ConnmgrStep
  <2>1. CASE WriteToBuffer
    <3>1. Len(inserted') <= MaxInserts
      <4>1. CASE Buffer!Insert(arg)
        <5>1. inserted \in Seq(Data) /\ arg \in Data
          BY <2>1 DEF WriteToBuffer, ConnPlaces, B!TypeOK
        <5>2. inserted' = Append(inserted, arg) /\ Len(inserted) < MaxInserts
          BY <4>1 DEF Buffer!Insert
        <5>3. Len(inserted') = Len(inserted) + 1 /\ Len(inserted) \in Nat
          BY <5>1, <5>2, AppendProperties
        <5> QED
          BY <1>0, <5>2, <5>3
      <4>2. CASE UNCHANGED bufferVars
        BY <4>2
      <4> QED
        BY <2>1, <4>1, <4>2 DEF WriteToBuffer
    <3> QED
      BY <2>1, <3>1 DEF WriteToBuffer
  <2>2. CASE ~WriteToBuffer
    BY <1>0, <1>3, <2>2 DEF ConnmgrStep, Accept, Receive, Disconnect, Timeout,
         ConnmgrAssert, Abort, SetFlag, WriteToFifo, connOnly
  <2> QED
    BY <2>1, <2>2
<1>4. CASE DatamgrStep
  BY <1>4 DEF DatamgrStep, OpenMap, NoMap, Abort, UseReading, LeaveDatamgr, WriteToFifo,
              dataOnly, ReadFromBuffer, Buffer!Remove, Buffer!RemoveSuccess,
              Buffer!RemoveNoData, Buffer!RemoveNull
<1>5. CASE MainStep
  BY <1>5 DEF MainStep, Start, StartFails, Abort, Join, FreeBuffer, Buffer!BufferInit,
              Buffer!Free
<1>6. CASE StrgmgrStep
  <2>1. CASE EndStrgmgr
    <3>1. Abort \/ (StrgAt("after") /\ Disconnected)
      BY <2>1 DEF EndStrgmgr
    <3> QED
      BY <3>1 DEF Abort, Disconnected, strgOnly
  <2>2. CASE ReadFromBuffer("strgmgr") \/ WriteToFifo("strgmgr")
    BY <2>2 DEF WriteToFifo, ReadFromBuffer, Buffer!Remove, Buffer!RemoveSuccess,
                Buffer!RemoveNoData, Buffer!RemoveNull
  <2>3. CASE Sleep
    BY <1>0, <2>3 DEF Sleep, strgOnly
  <2>4. CASE \/ SkipConnection \/ OpenFails \/ OpenDatabase \/ StatementFails
             \/ DropTable \/ CreateTable \/ Connected \/ StoreReading \/ StoreFails
             \/ StoredAll \/ LogUnable
    BY <2>4 DEF SkipConnection, OpenFails, OpenDatabase, StatementFails, DropTable,
         CreateTable, Connected, StoreReading, StoreFails, StoredAll, LogUnable, strgOnly
  <2> QED
    BY <1>6, <2>1, <2>2, <2>3, <2>4 DEF StrgmgrStep
<1> QED
  BY <1>1, <1>2, <1>3, <1>4, <1>5, <1>6 DEF Next

\* The steps of strgmgr that are not a reading, an INSERT or a sleep.
LEMMA ConnectingKept ==
  ASSUME TInv, Control, B!TypeOK, [Next]_vars PROVE Connecting'
<1> USE DEF TInv, TableHoldsReadings, Control, Places, StrgPlaces, Parting, Connecting,
            On, At, StrgAt, Goto, LogThenGoto, Inside, Unlock, strgVars, bufferVars
<1>1. CASE UNCHANGED vars \/ Finished \/ ConnmgrStep \/ DatamgrStep \/ MainStep
           \/ \E t \in Threads : Lock(t) \/ Arrive(t) \/ Pass(t)
  BY <1>1, OthersLeaveStrgmgr
<1>2. CASE ReadFromBuffer("strgmgr")
  BY <1>2, StrgmgrReads
<1>3. CASE EndStrgmgr
  <2>1. Abort \/ (StrgAt("after") /\ Disconnected)
    BY <1>3 DEF EndStrgmgr
  <2> QED
    BY <2>1 DEF Abort, Disconnected, strgOnly
<1>4. CASE \/ SkipConnection \/ OpenFails \/ OpenDatabase \/ StatementFails
           \/ DropTable \/ CreateTable \/ Connected \/ StoreReading \/ StoreFails
           \/ StoredAll \/ LogUnable \/ Sleep \/ WriteToFifo("strgmgr")
  BY <1>4 DEF SkipConnection, OpenFails, OpenDatabase, StatementFails, DropTable,
       CreateTable, Connected, StoreReading, StoreFails, StoredAll, LogUnable, Sleep,
       WriteToFifo, strgOnly
<1> QED
  BY <1>1, <1>2, <1>3, <1>4 DEF Next, StrgmgrStep

LEMMA LoseOne ==
  ASSUME NEW L, NEW n \in Nat, n > 0, L \subseteq 1 .. n - 1
  PROVE  /\ L \cup {n} \subseteq 1 .. n /\ L \subseteq 1 .. n
         /\ Cardinality(L) \in Nat /\ Cardinality(L \cup {n}) = Cardinality(L) + 1
<1>1. L \cup {n} \subseteq 1 .. n /\ L \subseteq 1 .. n /\ n \notin L
  OBVIOUS
<1>2. IsFiniteSet(L) /\ Cardinality(L) \in Nat
  <2>1. IsFiniteSet(1 .. n - 1) /\ L \in SUBSET (1 .. n - 1)
    BY FS_Interval
  <2>2. IsFiniteSet(L)
    BY <2>1, FS_Subset
  <2> QED
    BY <2>2, FS_CardinalityType
<1>3. Cardinality(L \cup {n}) = Cardinality(L) + 1
  BY <1>1, <1>2, FS_AddElement
<1> QED
  BY <1>1, <1>2, <1>3

\* The readings given up are finitely many, and the counts of Losing are numbers.
LEMMA LostAreCounted ==
  ASSUME TInv, Losing, B!TypeOK
  PROVE  /\ tries \in Nat /\ Tries \in Nat /\ got["strgmgr"] \in Seq(Data)
         /\ Len(got["strgmgr"]) \in Nat
         /\ IsFiniteSet(lost) /\ Cardinality(lost) \in Nat
<1>1. tries \in Nat /\ Tries \in Nat
  BY GatewayAssumption DEF TInv, TableHoldsReadings, TypeOK
<1>2. got["strgmgr"] \in Seq(Data)
  BY DEF B!TypeOK
<1>3. Len(got["strgmgr"]) \in Nat
  BY <1>2
<1>4. Settled \in Int
  BY <1>3 DEF Settled
<1>5. IsFiniteSet(1 .. Settled)
  BY <1>4, FS_Interval
<1>6. lost \in SUBSET (1 .. Settled)
  BY DEF Losing
<1>7. IsFiniteSet(lost)
  BY <1>5, <1>6, FS_Subset
<1> QED
  BY <1>1, <1>2, <1>3, <1>7, FS_CardinalityType

LEMMA LosingKept ==
  ASSUME TInv, Control, B!TypeOK, [Next]_vars PROVE Losing'
<1> USE DEF TInv, TableHoldsReadings, Control, Places, StrgPlaces, Parting, Losing, Settled,
            On, At, StrgAt, Goto, LogThenGoto, Inside, Unlock, strgVars, bufferVars
<1>0. /\ tries \in Nat /\ Tries \in Nat /\ got["strgmgr"] \in Seq(Data)
      /\ Len(got["strgmgr"]) \in Nat
      /\ IsFiniteSet(lost) /\ Cardinality(lost) \in Nat
  BY LostAreCounted
<1>1. CASE UNCHANGED vars \/ Finished \/ ConnmgrStep \/ DatamgrStep \/ MainStep
           \/ \E t \in Threads : Lock(t) \/ Arrive(t) \/ Pass(t)
  BY <1>0, <1>1, OthersLeaveStrgmgr
<1>2. CASE ReadFromBuffer("strgmgr")
  <2>1. CASE pc'["strgmgr"] = "use"
    <3>1. PICK d \in Data : got'["strgmgr"] = Append(got["strgmgr"], d)
      BY <1>2, <2>1, StrgmgrReads
    <3>2. Len(got'["strgmgr"]) = Len(got["strgmgr"]) + 1
      BY <1>0, <3>1, AppendProperties
    <3> QED
      BY <1>0, <1>2, <2>1, <3>2, StrgmgrReads
  <2>2. CASE pc'["strgmgr"] # "use"
    BY <1>0, <1>2, <2>2, StrgmgrReads
  <2> QED
    BY <2>1, <2>2
<1>3. CASE StoreFails
  <2>1. /\ lost' = lost \cup {Len(got["strgmgr"])} /\ got' = got
        /\ pc["strgmgr"] = "use" /\ pc'["strgmgr"] = "log" /\ then'["strgmgr"] = "sleep"
        /\ err' = "FAILURE" /\ tries' = tries
    BY <1>3 DEF StoreFails, strgOnly
  <2>2. lost \subseteq 1 .. Len(got["strgmgr"]) - 1 /\ Len(got["strgmgr"]) > 0
    BY <2>1
  <2>3. /\ lost' \subseteq 1 .. Len(got["strgmgr"])
        /\ Cardinality(lost') = Cardinality(lost) + 1
    BY <1>0, <2>1, <2>2, LoseOne
  <2>4. Cardinality(lost) <= tries - 1
    BY <1>0, <2>1
  <2> QED
    BY <1>0, <2>1, <2>2, <2>3, <2>4
<1>4. CASE Sleep
  BY <1>0, <1>4 DEF Sleep, strgOnly
<1>5. CASE StoredAll
  BY <1>0, <1>5 DEF StoredAll, strgOnly, Bounds
<1>6. CASE EndStrgmgr
  <2>1. Abort \/ (StrgAt("after") /\ Disconnected)
    BY <1>6 DEF EndStrgmgr
  <2> QED
    BY <1>0, <2>1 DEF Abort, Disconnected, strgOnly
<1>7. CASE StoreReading
  <2>1. /\ lost' = lost /\ got' = got /\ err' = err /\ tries' = tries
        /\ pc["strgmgr"] = "use" /\ pc'["strgmgr"] = "read"
    BY <1>7 DEF StoreReading, strgOnly
  <2>2. lost' \subseteq 1 .. Len(got["strgmgr"])
    <3>1. lost \subseteq 1 .. Len(got["strgmgr"]) - 1
      BY <2>1
    <3> QED
      BY <1>0, <2>1, <3>1
  <2> QED
    BY <1>0, <2>1, <2>2
<1>8. CASE SkipConnection \/ OpenFails \/ OpenDatabase \/ StatementFails
           \/ DropTable \/ CreateTable \/ Connected \/ LogUnable
  <2>1. /\ UNCHANGED <<lost, tries, err, got>>
        /\ pc["strgmgr"] \in {"try", "drop", "create", "connected", "unable"}
        /\ pc'["strgmgr"] # "use" /\ pc'["strgmgr"] # "sleep"
    <3>1. CASE SkipConnection \/ OpenFails \/ OpenDatabase
      BY <3>1 DEF SkipConnection, OpenFails, OpenDatabase, strgOnly
    <3>2. CASE StatementFails \/ DropTable \/ CreateTable \/ Connected \/ LogUnable
      BY <3>2 DEF StatementFails, DropTable, CreateTable, Connected, LogUnable, strgOnly
    <3> QED
      BY <1>8, <3>1, <3>2
  <2>2. Cardinality(lost) <= tries - 1 /\ tries - 1 <= tries
    BY <1>0, <2>1
  <2> QED
    BY <1>0, <2>1, <2>2
<1>9. CASE WriteToFifo("strgmgr")
  BY <1>0, <1>9 DEF WriteToFifo
<1> QED
  BY <1>1, <1>2, <1>3, <1>4, <1>5, <1>6, <1>7, <1>8, <1>9 DEF Next, StrgmgrStep

\* TypeOK in three parts, each kept by the actions for reasons of its own.
Labelled == pc \in [Threads -> Labels] /\ then \in [Threads -> Labels]

Scalars == /\ mutex \in Threads \cup {"free"}
           /\ flag \in BOOLEAN
           /\ arrived \subseteq Threads
           /\ alive \in BOOLEAN
           /\ heard \in 0 .. MaxInserts /\ clients \in Nat
           /\ arg \in Data \cup {"none"}
           /\ clear \in BOOLEAN /\ db \in BOOLEAN
           /\ err \in {"unset", "SUCCESS", "FAILURE"}
           /\ tries \in 1 .. Tries + 1
           /\ dbFail \in BOOLEAN

LEMMA LabelsKept ==
  ASSUME Labelled, [Next]_vars PROVE Labelled'
<1> USE DEF Labelled, Labels, Critical, Goto, LogThenGoto
<1>1. CASE UNCHANGED vars \/ Finished
  BY <1>1 DEF vars, Finished
<1>2. CASE \E t \in Threads : Lock(t) \/ Arrive(t) \/ Pass(t)
  BY <1>2 DEF Lock, Arrive, Pass
<1>3. CASE ConnmgrStep
  BY <1>3 DEF ConnmgrStep, Accept, Receive, Disconnect, Timeout, ConnmgrAssert, Abort,
              WriteToBuffer, SetFlag, WriteToFifo
<1>4. CASE DatamgrStep
  BY <1>4 DEF DatamgrStep, OpenMap, NoMap, Abort, UseReading, LeaveDatamgr, WriteToFifo,
              ReadFromBuffer
<1>5. CASE MainStep
  BY <1>5 DEF MainStep, Start, StartFails, Abort, Join, FreeBuffer
<1>6. CASE StrgmgrStep
  BY <1>6 DEF StrgmgrStep, SkipConnection, OpenFails, OpenDatabase, StatementFails,
       DropTable, CreateTable, Connected, StoreReading, StoreFails, StoredAll, LogUnable,
       Sleep, EndStrgmgr, Disconnected, Abort, ReadFromBuffer, WriteToFifo
<1> QED
  BY <1>1, <1>2, <1>3, <1>4, <1>5, <1>6 DEF Next

LEMMA ScalarsKept ==
  ASSUME Scalars, Control, Bounds, [Next]_vars PROVE Scalars'
<1> USE GatewayAssumption
    DEF Scalars, Unlock, connVars, strgVars
<1>1. CASE UNCHANGED vars \/ Finished
  BY ZenonT(60), <1>1 DEF vars, Finished
<1>2. CASE \E t \in Threads : Lock(t) \/ Arrive(t) \/ Pass(t)
  <2>1. PICK t \in Threads : Lock(t) \/ Arrive(t) \/ Pass(t)
    BY <1>2
  <2>2. CASE Lock(t)
    BY <2>2 DEF Lock
  <2>3. CASE Arrive(t)
    BY <2>3 DEF Arrive
  <2>4. CASE Pass(t)
    BY <2>4 DEF Pass
  <2> QED
    BY <2>1, <2>2, <2>3, <2>4
<1>3. CASE ConnmgrStep
  <2>1. CASE \E d \in Data : Accept(d) \/ Receive(d)
    <3>1. PICK d \in Data : Accept(d) \/ Receive(d)
      BY <2>1
    <3>2. heard' = heard + 1 /\ heard < MaxInserts /\ arg' = d
          /\ clients' \in {clients, clients + 1}
          /\ UNCHANGED <<mutex, flag, arrived, alive, clear, db, err, tries, dbFail>>
      BY <3>1 DEF Accept, Receive, connOnly
    <3> QED
      BY <3>2
  <2>2. CASE Disconnect
    <3>1. clients > 0 /\ clients' = clients - 1
          /\ UNCHANGED <<heard, arg, mutex, flag, arrived, alive, clear, db, err, tries, dbFail>>
      BY <2>2 DEF Disconnect, connOnly
    <3> QED
      BY <3>1
  <2>3. CASE Timeout \/ ConnmgrAssert
    BY ZenonT(60), <2>3 DEF Timeout, ConnmgrAssert, Abort, connOnly
  <2>4. CASE WriteToBuffer
    BY <2>4 DEF WriteToBuffer
  <2>5. CASE SetFlag \/ WriteToFifo("connmgr")
    BY <2>5 DEF SetFlag, WriteToFifo
  <2> QED
    BY <1>3, <2>1, <2>2, <2>3, <2>4, <2>5 DEF ConnmgrStep
<1>4. CASE DatamgrStep
  BY ZenonT(60), <1>4 DEF DatamgrStep, OpenMap, NoMap, Abort, UseReading, LeaveDatamgr, WriteToFifo,
              ReadFromBuffer, dataOnly
<1>5. CASE MainStep
  BY ZenonT(60), <1>5 DEF MainStep, Start, StartFails, Abort, Join, FreeBuffer
<1>6. CASE StrgmgrStep
  <2>1. CASE Sleep
    <3>1. tries <= Tries
      BY <2>1 DEF Sleep, StrgAt, At, Bounds, Parting
    <3> QED
      BY <2>1, <3>1 DEF Sleep, strgOnly
  <2>2. CASE SkipConnection \/ OpenFails \/ OpenDatabase \/ StatementFails \/ DropTable
    BY ZenonT(60), <2>2 DEF SkipConnection, OpenFails, OpenDatabase, StatementFails, DropTable, strgOnly
  <2>3. CASE CreateTable \/ Connected \/ StoreReading \/ StoreFails \/ StoredAll \/ LogUnable
    BY ZenonT(60), <2>3 DEF CreateTable, Connected, StoreReading, StoreFails, StoredAll, LogUnable, strgOnly
  <2>4. CASE EndStrgmgr
    <3>1. Abort \/ Disconnected
      BY <2>4 DEF EndStrgmgr
    <3>2. CASE Abort
      BY <3>2 DEF Abort
    <3>3. CASE Disconnected
      BY <3>3 DEF Disconnected, strgOnly
    <3> QED
      BY <3>1, <3>2, <3>3
  <2>5. CASE ReadFromBuffer("strgmgr") \/ WriteToFifo("strgmgr")
    BY <2>5 DEF ReadFromBuffer, WriteToFifo
  <2> QED
    BY <1>6, <2>1, <2>2, <2>3, <2>4, <2>5 DEF StrgmgrStep
<1> QED
  BY <1>1, <1>2, <1>3, <1>4, <1>5, <1>6 DEF Next

LEMMA RowsTyped ==
  ASSUME TInv, Control, B!TypeOK, [Next]_vars PROVE rows' \in Seq(Data \cup {OldRow})
<1>0. rows \in Seq(Data \cup {OldRow})
  BY DEF TInv, TableHoldsReadings, TypeOK
<1>1. CASE StoreReading
  <2>1. /\ got["strgmgr"] \in Seq(Data)
        /\ Len(got["strgmgr"]) \in 1 .. Len(got["strgmgr"])
    BY <1>1 DEF StoreReading, StrgAt, At, TInv, Losing, B!TypeOK
  <2>2. Reading \in Data \cup {OldRow}
    BY <2>1, ElementOfSeq DEF Reading
  <2> QED
    BY <1>0, <1>1, <2>2, AppendProperties DEF StoreReading
<1>2. CASE DropTable
  BY <1>2 DEF DropTable
<1>3. CASE ~DropTable /\ ~StoreReading
  <2>1. rows' = rows
    BY <1>3, OthersLeaveStrgmgr DEF Next, StrgmgrStep, SkipConnection, OpenFails,
         OpenDatabase, StatementFails, CreateTable, Connected, StoreFails, StoredAll,
         LogUnable, Sleep, EndStrgmgr, Disconnected, Abort, ReadFromBuffer, WriteToFifo,
         strgVars
  <2> QED
    BY <1>0, <2>1
<1> QED
  BY <1>1, <1>2, <1>3

LEMMA TypeKept ==
  ASSUME TInv, Control, B!IInv, B!IInv', Bounds', Losing', [Next]_vars PROVE TypeOK'
<1>1. Buffer!TypeOK'
  BY DEF B!IInv, B!TypeOK, B!Node, B!Returns, Buffer!TypeOK, Buffer!Node, Buffer!Returns
<1>2. lost' \subseteq 1 .. MaxInserts
  <2>1. /\ Len(got'["strgmgr"]) \in Nat /\ Len(got'["strgmgr"]) <= Len(inserted')
        /\ Len(inserted') \in Nat /\ Len(inserted') <= MaxInserts
    BY DEF B!IInv, B!TypeOK, B!InOrderOnce, Bounds
  <2>2. Settled' \in Int /\ Settled' <= MaxInserts
    BY <2>1, GatewayAssumption DEF Settled
  <2> QED
    BY <2>2, GatewayAssumption DEF Losing
<1>3. Labelled'
  BY LabelsKept DEF TInv, TableHoldsReadings, TypeOK, Labelled
<1>4. Scalars'
  BY ScalarsKept DEF TInv, TableHoldsReadings, TypeOK, Scalars
<1>5. clients' \in 0 .. MaxInserts
  BY <1>4, GatewayAssumption DEF Scalars, Bounds
<1>6. rows' \in Seq(Data \cup {OldRow})
  BY RowsTyped DEF B!IInv
<1> QED
  BY <1>1, <1>2, <1>3, <1>4, <1>5, <1>6 DEF TypeOK, Labelled, Scalars

(* Ranks: the place of the next stored measurement is behind the others.   *)
UpTo(S, k) == {j \in S : j <= k}

Without(L, n) == (1 .. n) \ L

LEMMA StoreOne ==
  ASSUME NEW n \in Nat, n > 0, NEW L, n \notin L,
         NEW S, S = Without(L, n - 1), NEW T, T = Without(L, n)
  PROVE  /\ T = S \cup {n}
         /\ Cardinality(S) \in Nat /\ Cardinality(T) = Cardinality(S) + 1
         /\ \A k \in S : /\ UpTo(T, k) = UpTo(S, k)
                         /\ Cardinality(UpTo(S, k)) \in 1 .. Cardinality(S)
         /\ UpTo(T, n) = T
<1> USE DEF UpTo, Without
<1>1. T = S \cup {n} /\ n \notin S /\ S \in SUBSET (1 .. n - 1)
  OBVIOUS
<1>2. IsFiniteSet(S)
  <2>1. IsFiniteSet(1 .. n - 1)
    BY FS_Interval
  <2> QED
    BY <1>1, <2>1, FS_Subset
<1>3. Cardinality(S) \in Nat /\ Cardinality(T) = Cardinality(S) + 1
  BY <1>1, <1>2, FS_AddElement, FS_CardinalityType
<1>4. ASSUME NEW k \in S
      PROVE  /\ UpTo(T, k) = UpTo(S, k)
             /\ Cardinality(UpTo(S, k)) \in 1 .. Cardinality(S)
  <2> DEFINE R == UpTo(S, k)
  <2>1. UpTo(T, k) = R
    BY <1>1
  <2>2. R \in SUBSET S /\ k \in R
    BY <1>1
  <2> HIDE DEF R
  <2>3. IsFiniteSet(R) /\ Cardinality(R) <= Cardinality(S) /\ Cardinality(R) \in Nat
    BY <1>2, <2>2, FS_Subset, FS_CardinalityType
  <2>4. Cardinality(R) # 0
    BY <2>2, <2>3, FS_EmptySet
  <2>5. Cardinality(R) \in 1 .. Cardinality(S)
    BY <1>3, <2>3, <2>4
  <2> QED
    BY <2>1, <2>5 DEF R
<1>5. UpTo(T, n) = T
  BY <1>1
<1> QED
  BY <1>1, <1>3, <1>4, <1>5

Table == /\ Len(rows) = Cardinality(Stored)
         /\ \A k \in Stored : rows[Cardinality(UpTo(Stored, k))] = got["strgmgr"][k]

LEMMA TableKept ==
  ASSUME TInv, Control, B!IInv, TypeOK', [Next]_vars PROVE ~clear' => Table'
<1> USE DEF TInv, Control, Places, At, StrgAt, Goto, LogThenGoto, Inside, Unlock, Table
<1>0. /\ (~clear => Table) /\ TypeOK /\ B!TypeOK
      /\ got["strgmgr"] \in Seq(Data) /\ Len(got["strgmgr"]) \in Nat
  BY DEF TableHoldsReadings, B!IInv, B!TypeOK, UpTo
<1>1. ASSUME Stored' = Stored, rows' = rows, clear' = clear,
             \A k \in Stored : got'["strgmgr"][k] = got["strgmgr"][k]
      PROVE  ~clear' => Table'
  BY <1>0, <1>1
<1>2. ASSUME Settled' = Settled, UNCHANGED <<rows, clear, lost>>,
             got'["strgmgr"] = got["strgmgr"]
      PROVE  ~clear' => Table'
  BY <1>1, <1>2 DEF Stored
<1>3. CASE UNCHANGED vars \/ Finished \/ ConnmgrStep \/ DatamgrStep \/ MainStep
           \/ \E t \in Threads : Lock(t) \/ Arrive(t) \/ Pass(t)
  BY <1>0, <1>2, <1>3, OthersLeaveStrgmgr DEF Settled
<1>4. CASE ReadFromBuffer("strgmgr")
  <2>1. CASE pc'["strgmgr"] # "use"
    BY <1>0, <1>2, <1>4, <2>1, StrgmgrReads DEF Settled
  <2>2. CASE pc'["strgmgr"] = "use"
    <3>1. PICK d \in Data : got'["strgmgr"] = Append(got["strgmgr"], d)
      BY <1>0, <1>4, <2>2, StrgmgrReads
    <3>2. /\ Len(got'["strgmgr"]) = Len(got["strgmgr"]) + 1
          /\ \A k \in 1 .. Len(got["strgmgr"]) : got'["strgmgr"][k] = got["strgmgr"][k]
      BY <1>0, <3>1, AppendProperties
    <3>3. /\ pc["strgmgr"] = "read" /\ UNCHANGED <<rows, clear, lost>>
      BY <1>0, <1>4, StrgmgrReads
    <3>4. Settled = Len(got["strgmgr"]) /\ Settled' = Settled
      BY <1>0, <2>2, <3>2, <3>3 DEF Settled
    <3>5. Stored' = Stored /\ \A k \in Stored : k \in 1 .. Len(got["strgmgr"])
      BY <3>3, <3>4 DEF Stored
    <3> QED
      BY <1>1, <3>2, <3>3, <3>5
  <2> QED
    BY <2>1, <2>2
<1>5. CASE StoreReading
  <2> DEFINE n == Len(got["strgmgr"])
  <2>1. /\ pc["strgmgr"] = "use" /\ pc'["strgmgr"] = "read"
        /\ rows' = Append(rows, got["strgmgr"][n])
        /\ lost' = lost /\ got' = got /\ clear' = clear
    BY <1>5 DEF StoreReading, Reading, strgOnly, bufferVars
  <2>2. n \in Nat /\ n > 0 /\ lost \subseteq 1 .. n - 1
    BY <1>0, <2>1 DEF Losing, Settled
  <2>3. /\ Stored = Without(lost, n - 1) /\ Stored' = Without(lost, n)
        /\ n \notin lost
    BY <2>1, <2>2 DEF Stored, Settled, Without
  <2>4. /\ Stored' = Stored \cup {n}
        /\ Cardinality(Stored) \in Nat /\ Cardinality(Stored') = Cardinality(Stored) + 1
        /\ \A k \in Stored :
             /\ UpTo(Stored', k) = UpTo(Stored, k)
             /\ Cardinality(UpTo(Stored, k)) \in 1 .. Cardinality(Stored)
        /\ UpTo(Stored', n) = Stored'
    <3> HIDE DEF n
    <3> QED
      BY <2>2, <2>3, StoreOne
  <2>5. ~clear
    BY <2>1 DEF Connecting
  <2>6. /\ Len(rows) = Cardinality(Stored)
        /\ \A k \in Stored :
             rows[Cardinality(UpTo(Stored, k))] = got["strgmgr"][k]
    BY <1>0, <2>5
  <2>7. got["strgmgr"][n] \in Data
    BY <1>0, <2>2, ElementOfSeq
  <2>8. /\ Len(rows') = Len(rows) + 1
        /\ \A i \in 1 .. Len(rows) : rows'[i] = rows[i]
        /\ rows'[Len(rows) + 1] = got["strgmgr"][n]
    <3>1. rows \in Seq(Data \cup {OldRow}) /\ got["strgmgr"][n] \in Data \cup {OldRow}
      BY <1>0, <2>7 DEF TypeOK
    <3> QED
      BY <2>1, <3>1, AppendProperties
  <2> HIDE DEF n
  <2>9. ASSUME NEW k \in Stored'
        PROVE  rows'[Cardinality(UpTo(Stored', k))] = got'["strgmgr"][k]
    <3>1. CASE k = n
      BY <2>1, <2>4, <2>6, <2>8, <3>1
    <3>2. CASE k \in Stored
      <4>1. Cardinality(UpTo(Stored', k)) = Cardinality(UpTo(Stored, k))
        BY <2>4, <3>2
      <4>2. Cardinality(UpTo(Stored, k)) \in 1 .. Len(rows)
        BY <2>4, <2>6, <3>2
      <4> QED
        BY <2>1, <2>6, <2>8, <3>2, <4>1, <4>2
    <3> QED
      BY <2>4, <3>1, <3>2
  <2> QED
    BY <2>4, <2>6, <2>8, <2>9
<1>6. CASE StoreFails
  <2> DEFINE n == Len(got["strgmgr"])
  <2>1. /\ pc["strgmgr"] = "use" /\ pc'["strgmgr"] = "log"
        /\ rows' = rows /\ lost' = lost \cup {n} /\ got' = got /\ clear' = clear
    BY <1>6 DEF StoreFails, strgOnly, bufferVars
  <2>2. n \in Nat /\ n > 0
    BY <1>0, <2>1 DEF Losing
  <2>3. Stored = (1 .. n - 1) \ lost /\ Stored' = (1 .. n) \ (lost \cup {n})
    BY <2>1 DEF Stored, Settled
  <2>4. Stored' = Stored
    BY <2>2, <2>3
  <2> QED
    BY <1>1, <2>1, <2>4
<1>7. CASE DropTable
  BY <1>7 DEF DropTable, strgOnly, Connecting, On
<1>8. CASE Connected
  <2>1. /\ UNCHANGED <<rows, lost, got>> /\ pc["strgmgr"] = "connected"
        /\ pc'["strgmgr"] = "read"
    BY <1>8 DEF Connected, strgOnly, bufferVars
  <2>2. CASE clear
    <3>1. rows = <<>> /\ got["strgmgr"] = <<>> /\ lost = {}
      BY <2>1, <2>2 DEF Connecting, On
    <3>2. Settled' = 0
      BY <2>1, <3>1 DEF Settled
    <3>3. Stored' = {}
      BY <3>2 DEF Stored
    <3> QED
      BY <2>1, <3>1, <3>3, FS_EmptySet
  <2>3. CASE ~clear
    <3>1. Stored' = Stored
      BY <2>1 DEF Stored, Settled
    <3> QED
      BY <1>0, <2>1, <2>3, <3>1
  <2> QED
    BY <2>2, <2>3
<1>9. CASE EndStrgmgr
  <2>1. Abort \/ (StrgAt("after") /\ Disconnected)
    BY <1>9 DEF EndStrgmgr
  <2> QED
    BY <1>2, <2>1 DEF Abort, Disconnected, strgOnly, strgVars, bufferVars, Settled
<1>10. CASE \/ SkipConnection \/ OpenFails \/ OpenDatabase \/ StatementFails
            \/ CreateTable \/ StoredAll \/ LogUnable \/ Sleep \/ WriteToFifo("strgmgr")
  <2>1. /\ UNCHANGED <<rows, clear, lost, got>>
        /\ pc["strgmgr"] # "use" /\ pc'["strgmgr"] # "use"
    BY <1>10 DEF SkipConnection, OpenFails, OpenDatabase, StatementFails, CreateTable,
         StoredAll, LogUnable, Sleep, WriteToFifo, strgOnly, strgVars, bufferVars, StrgPlaces
  <2> QED
    BY <1>2, <2>1 DEF Settled
<1> QED
  BY <1>3, <1>4, <1>5, <1>6, <1>7, <1>8, <1>9, <1>10 DEF Next, StrgmgrStep

LEMMA TableInvariance == Spec => []TInv
<1>1. TInv /\ Control /\ B!IInv /\ B!IInv' /\ [Next]_vars => TInv'
  <2> SUFFICES ASSUME TInv, Control, B!IInv, B!IInv', [Next]_vars PROVE TInv'
    OBVIOUS
  <2>0. B!TypeOK
    BY DEF B!IInv
  <2>1. MainPlaces' /\ Bounds' /\ Connecting' /\ Losing'
    BY <2>0, MainPlacesKept, BoundsKept, ConnectingKept, LosingKept DEF TInv
  <2>2. TypeOK'
    BY <2>1, TypeKept
  <2>3. ~clear' => Table'
    BY <2>2, TableKept
  <2> QED
    BY <2>1, <2>2, <2>3 DEF TInv, TableHoldsReadings, Table, UpTo
<1> QED
  BY <1>1, TInvInit, ThreadsInPlace, BufferInvariant, PTL DEF Spec

(* From the first connection on the table holds, in order, what strgmgr    *)
(* has read, without the measurements whose INSERT failed; and every       *)
(* variable keeps its type.                                                *)
THEOREM TableIsTheReadings == Spec => []TableHoldsReadings
<1>1. TInv => TableHoldsReadings
  BY DEF TInv
<1> QED
  BY <1>1, TableInvariance, PTL

(* A measurement is lost to the table only by a try that failed.           *)
THEOREM LossIsBounded == Spec => []LossBounded
<1>1. TInv => LossBounded
  <2> SUFFICES ASSUME TInv PROVE LossBounded
    OBVIOUS
  <2>1. lost \subseteq 1 .. MaxInserts /\ tries \in Nat
    BY GatewayAssumption DEF TInv, TableHoldsReadings, TypeOK
  <2>2. Cardinality(lost) \in Nat
    <3>1. IsFiniteSet(1 .. MaxInserts) /\ lost \in SUBSET (1 .. MaxInserts)
      BY <2>1, FS_Interval, GatewayAssumption
    <3>2. IsFiniteSet(lost)
      BY <3>1, FS_Subset
    <3> QED
      BY <3>2, FS_CardinalityType
  <2> QED
    BY <2>1, <2>2 DEF TInv, Losing, LossBounded
<1> QED
  BY <1>1, TableInvariance, PTL

(* No step drops or moves a row of this run.                               *)
THEOREM RowsStay == Spec => RowsKept
<1>1. TInv /\ Control /\ B!IInv /\ [Next]_vars
        => [\A k \in 1 .. Len(rows) :
              rows[k] # OldRow => k <= Len(rows') /\ rows'[k] = rows[k]]_vars
  <2> SUFFICES ASSUME TInv, Control, B!IInv, Next,
                      NEW k \in 1 .. Len(rows), rows[k] # OldRow
               PROVE  k <= Len(rows') /\ rows'[k] = rows[k]
    OBVIOUS
  <2> USE DEF connVars, strgVars, bufferVars
  <2>1. CASE DropTable
    BY <2>1 DEF DropTable, StrgAt, At, TInv, Connecting, On
  <2>2. CASE StoreReading
    <3>1. /\ got["strgmgr"] \in Seq(Data)
          /\ Len(got["strgmgr"]) \in 1 .. Len(got["strgmgr"])
      BY <2>2 DEF StoreReading, StrgAt, At, TInv, Losing, B!IInv, B!TypeOK
    <3>2. Reading \in Data \cup {OldRow} /\ rows \in Seq(Data \cup {OldRow})
      BY <3>1, ElementOfSeq DEF Reading, TInv, TableHoldsReadings, TypeOK
    <3> QED
      BY <2>2, <3>2, AppendProperties DEF StoreReading
  <2>3. CASE ~DropTable /\ ~StoreReading
    <3>1. rows' = rows
      BY <2>3, OthersLeaveStrgmgr DEF B!IInv, Next, StrgmgrStep, SkipConnection, OpenFails,
           OpenDatabase, StatementFails, CreateTable, Connected, StoreFails, StoredAll,
           LogUnable, Sleep, EndStrgmgr, Disconnected, Abort, ReadFromBuffer, WriteToFifo
    <3> QED
      BY <3>1 DEF TInv, TableHoldsReadings, TypeOK
  <2> QED
    BY <2>1, <2>2, <2>3
<1> QED
  BY <1>1, TableInvariance, ThreadsInPlace, BufferInvariant, PTL DEF Spec, RowsKept
===============================================================================
