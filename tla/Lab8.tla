--------------------------------- MODULE Lab8 ---------------------------------
(***************************************************************************)
(* The connection manager of lab_8, which writes the measurements to a     *)
(* file.  The sensor nodes, poll and its events are those of ConnMgr; what *)
(* is different is the fixed array of descriptors and the end of the loop  *)
(* when it is full, the accept that reads nothing, the receives, of which  *)
(* only the last one's result is looked at, and the one pass of compress.  *)
(* A receive may return a part of a field: the stream is counted in halves *)
(* of fields, a half being any part.  buffered counts the measurements     *)
(* written to the file.                                                    *)
(***************************************************************************)
EXTENDS ConnMgr, SequencesExt

CONSTANT MaxConn        \* MAX_CONN: fds has room for one more, the server

VARIABLES part,         \* of each node: 1 if half of its next field was received
          whole         \* history: each of its measurements was read in whole fields

halves == <<part, whole>>
lab8vars == <<vars, halves>>

\* The server's entry of fds and of the list, and the nodes, which are those of the
\* final program (lab_8/sensor_node.c).
InitServer == /\ Init
              /\ part = [s \in Sensors |-> 0] /\ whole = [s \in Sensors |-> TRUE]
GoesOn(s) == (SendField(s) \/ Leave(s)) /\ UNCHANGED halves
SensorNode(s) == (Connect(s) /\ UNCHANGED halves) \/ GoesOn(s)

\* The list functions that it calls (lab_8/lib/dplist.c), with their clamped index.
ReferenceAt(q, i) == IF i <= Len(q) THEN i ELSE Len(q)
GetElementAt(q, i) == q[ReferenceAt(q, i)]
InsertAtIndex(q, x, i) == InsertAt(q, IF i > Len(q) THEN Len(q) + 1 ELSE i, x)
RemoveAtIndex(q, i) == RemoveAt(q, ReferenceAt(q, i))
DplFree == list' = <<>>

\* tcp_close and close of what is behind a descriptor (lab_8/lib/tcpsock.c).
Closed(sides, conns) == [s \in Sensors |-> IF s \in conns THEN "closed" ELSE sides[s]]

\* tcp_wait_for_connection, which poll has announced.
TcpWait == /\ backlog' = Tail(backlog)
           /\ side' = [side EXCEPT ![Head(backlog)] = "accepted"]

\* Three tcp_receive, one for each field: each waits for the next half, or for the
\* end of the connection, and takes a half, or both if they are there.  Together they
\* take n.
Received(s) == 2 * taken[s] + part[s]
TcpReceive(n) == /\ Received(cur) + n <= 2 * sent[cur]
                 /\ taken' = [taken EXCEPT ![cur] = (Received(cur) + n) \div 2]
                 /\ part' = [part EXCEPT ![cur] = (Received(cur) + n) % 2]

\* The closing of entry i is calm when nothing else in its round depends on the
\* place of a connection in the list.
CalmClosing(i) == \A j \in DOMAIN events : j = 1 \/ j > i => events[j] = None
-------------------------------------------------------------------------------
\* close_connection for the entry that the scan has reached: the socket of the list
\* element that has this index by now, and the descriptor of the entry.
CloseEntry == /\ side' = Closed(side, {GetElementAt(list, index), fds[index]})
              /\ list' = RemoveAtIndex(list, index)
              /\ fds' = [fds EXCEPT ![index] = REMOVE_FD]
              /\ calm' = (calm /\ CalmClosing(index))

Continue == index' = NextEvent(events, index) /\ pc' = "scan" /\ cur' = None

\* Fault: an entry with another event than POLLIN is passed over.
SkipReported == /\ Scanning
                /\ events[index] = "other"
                /\ Continue
                /\ UNCHANGED <<net, side, list, fds, events, taken, buffered, calm, halves>>

CloseReported == /\ Scanning
                 /\ events[index] = "other"
                 /\ CloseEntry
                 /\ Continue
                 /\ UNCHANGED <<net, events, taken, buffered, halves>>

\* insert_client: accept, and an entry of fds and of the list behind the polled ones;
\* nothing looks whether fds has room for it, and without it the entry overwrites
\* another variable, which may end the program.
InsertClient == /\ Scanning
                /\ events[index] = "in" /\ index = 1
                /\ TcpWait
                /\ fds' = SubSeq(fds, 1, Len(events)) \o <<Head(backlog)>>
                            \o SubSeq(fds, Len(events) + 2, Len(fds))
                /\ list' = InsertAtIndex(list, Head(backlog), Len(events) + 1)
                /\ Continue
                /\ UNCHANGED <<peer, sent, events, taken, buffered, calm, halves>>
InsertOverruns == /\ Scanning
                  /\ events[index] = "in" /\ index = 1
                  /\ Len(events) > MaxConn
                  /\ pc' = "done"
                  /\ UNCHANGED <<net, side, list, fds, events, index, cur, taken, buffered,
                                 calm, halves>>

StartReading == /\ Scanning
                /\ events[index] = "in" /\ index > 1
                /\ cur' = GetElementAt(list, index)
                /\ pc' = "read"
                /\ UNCHANGED <<net, side, list, fds, events, index, taken, buffered, calm,
                               halves>>

\* read_data: three receives.  When the last one gets something a measurement is
\* written, of whatever the three have got; when it gets the end of the connection,
\* nothing is written and the connection closed.
ReadMeasurement == /\ pc = "read"
                   /\ \E n \in 3 .. 6 :
                        /\ TcpReceive(n)
                        /\ whole' = [whole EXCEPT ![cur] = @ /\ n = 6]
                   /\ buffered' = [buffered EXCEPT ![cur] = @ + 1]
                   /\ Continue
                   /\ UNCHANGED <<net, side, list, fds, events, calm>>
ReadCutOff == /\ pc = "read" /\ peer[cur] = "closed"
              /\ \E n \in 0 .. 4 : TcpReceive(n) /\ Received(cur) + n = 2 * sent[cur]
              /\ CloseEntry
              /\ Continue
              /\ UNCHANGED <<net, events, buffered, whole>>

PollFds == Poll /\ UNCHANGED halves

\* Fault: it leaves removed entries where they are.
CompressEntriesNot(q, old) == q

\* compress shifts the entries behind a removed one, once, among the polled ones.
CompressEntries(q, old) == CompressPass(q, old)

\* The loop goes on while size <= MAX_CONN; size counts the server.
HasRoom(size) == size <= MaxConn

EndRound == /\ Scanned
            /\ fds' = CompressEntries(fds, Len(events))
            /\ pc' = IF HasRoom(Len(events)) THEN "poll" ELSE "last"
            /\ events' = <<>> /\ index' = 1
            /\ UNCHANGED <<net, side, list, cur, taken, buffered, calm, halves>>

\* After the loop, or the timeout of poll, the server is closed and the file; main
\* calls connmgr_free, and dpl_free frees the list but not the sockets in it.
EndListen == /\ pc = "last" \/ (pc = "poll" /\ ~Ready)
             /\ pc' = "done"
             /\ DplFree /\ fds' = [fds EXCEPT ![1] = REMOVE_FD]
             /\ UNCHANGED <<net, side, events, index, cur, taken, buffered, calm, halves>>

Lab8Step == \/ PollFds \/ CloseReported \/ InsertClient \/ InsertOverruns \/ StartReading
            \/ ReadMeasurement \/ ReadCutOff \/ EndRound \/ EndListen

Lab8Finished == Over /\ UNCHANGED lab8vars

Lab8Next == \/ \E s \in Sensors : SensorNode(s)
            \/ Lab8Step
            \/ Lab8Finished

Lab8Spec == InitServer /\ [][Lab8Next]_lab8vars
Lab8Fairness == WF_lab8vars(Lab8Step) /\ \A s \in Sensors : WF_lab8vars(GoesOn(s))
-------------------------------------------------------------------------------
\* lab_8/connmgr.c:52: compress "gets rid of fds that became disconnected".  As long
\* as every closing is the last work of its round, and its round accepts nobody,
\* each entry of fds is behind it the socket of the list element with its index.
Lab8InStep == calm /\ pc \in {"poll", "last"} => \A i \in 1 .. Len(list) : fds[i] = list[i]

\* lab_8/connmgr.c:136: as long as the rounds are calm, and no receive for a
\* measurement of the node was short, the file has whole measurements of it only.
\* Whatever is read of a node whose connection ends within one is dropped with the
\* connection.
WholeMeasurements ==
  calm => \A s \in Sensors : whole[s] =>
            /\ part[s] = 0
            /\ \/ taken[s] = 3 * buffered[s]
               \/ side[s] = "closed" /\ taken[s] - 3 * buffered[s] \in 1 .. 2

\* lab_8/connmgr.c:45: a node that has gone, even within a measurement, is noticed
\* and its connection closed, unless the loop ends first because fds is full.
Lab8GoneRemoved ==
  \A s \in Sensors : side[s] = "accepted" /\ peer[s] = "closed"
                       ~> side[s] = "closed" \/ ~calm \/ Len(fds) > MaxConn
===============================================================================
