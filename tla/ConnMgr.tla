------------------------------- MODULE ConnMgr --------------------------------
(***************************************************************************)
(* The loop of src/final/connmgr.c: poll on an array of descriptors (fds)  *)
(* that is meant to run in step with a list of connections (connmgr_list), *)
(* and the sensor nodes at the other ends.  Index 0 of the program is      *)
(* position 1 here, the listening socket.  A descriptor is named by the    *)
(* sensor it leads to; revents is "in" for POLLIN alone, "other" for       *)
(* anything else that is not 0 (POLLRDHUP, POLLNVAL, ...).                 *)
(***************************************************************************)
EXTENDS Naturals, Sequences

CONSTANTS Sensors,      \* the sensor nodes
          Measurements  \* LOOPS: measurements of a node, three sends each

SERVER == "server"      \* the listening socket
REMOVE_FD == "-1"
ASSUME ConnMgrAssumption == /\ SERVER \notin Sensors /\ REMOVE_FD \notin Sensors
                            /\ Measurements \in Nat \ {0}

VARIABLES peer,         \* of each node: "off", "open", "closed" (or dead)
          sent,         \* fields it has sent
          side,         \* its connection in the gateway: "none", "backlog",
                        \* "accepted", "closed"
          backlog,      \* connections waiting for accept
          list, fds,    \* connmgr_list and fds
          events,       \* the revents of this round, one for each polled entry
          index,        \* the position the scan has reached
          pc,           \* "poll", "scan", "readnew", "read"; at the end "done",
                        \* "aborted" (assertion), "overflow" (stack)
          cur,          \* the connection being read
          taken,        \* fields received from each node
          buffered,     \* measurements of each node written to the buffer
          calm          \* history: every round so far has been calm (see Calm)

net == <<peer, sent, backlog>>
vars == <<net, side, list, fds, events, index, pc, cur, taken, buffered, calm>>

None == "none"
Over == pc \in {"done", "aborted", "overflow"}

Init == /\ peer = [s \in Sensors |-> "off"]
        /\ sent = [s \in Sensors |-> 0]
        /\ side = [s \in Sensors |-> "none"]
        /\ backlog = <<>>
        /\ list = <<SERVER>> /\ fds = <<SERVER>>
        /\ events = <<>> /\ index = 1
        /\ pc = "poll" /\ cur = None
        /\ taken = [s \in Sensors |-> 0]
        /\ buffered = [s \in Sensors |-> 0]
        /\ calm = TRUE

-------------------------------------------------------------------------------
\* The sensor nodes (sensor_node.c).

Connect(s) == /\ ~Over
              /\ peer[s] = "off"
              /\ peer' = [peer EXCEPT ![s] = "open"]
              /\ side' = [side EXCEPT ![s] = "backlog"]
              /\ backlog' = Append(backlog, s)
              /\ UNCHANGED <<sent, list, fds, events, index, pc, cur, taken, buffered,
                             calm>>

\* One of the three tcp_send of a measurement: id, temperature, timestamp.
SendField(s) == /\ ~Over
                /\ peer[s] = "open" /\ side[s] # "closed"
                /\ sent[s] < 3 * Measurements
                /\ sent' = [sent EXCEPT ![s] = @ + 1]
                /\ UNCHANGED <<peer, backlog, side, list, fds, events, index, pc,
                               cur, taken, buffered, calm>>

\* tcp_close after the last measurement, or the node dies, or its send fails.
Leave(s) == /\ ~Over
            /\ peer[s] = "open"
            /\ peer' = [peer EXCEPT ![s] = "closed"]
            /\ UNCHANGED <<sent, backlog, side, list, fds, events, index, pc,
                           cur, taken, buffered, calm>>

-------------------------------------------------------------------------------
\* The list clamps an index behind its end to its last element
\* (dpl_get_reference_at_index).
Clamp(i) == IF i <= Len(list) THEN i ELSE Len(list)

\* Fault: one too far.
ElementAfter(i) == list[Clamp(i + 1)]

ElementAt(i) == list[Clamp(i)]
Without(q, i) == SubSeq(q, 1, i - 1) \o SubSeq(q, i + 1, Len(q))

\* What poll reports for a descriptor.
Event(fd) == CASE fd = REMOVE_FD -> None
               [] fd = SERVER -> IF backlog # <<>> THEN "in" ELSE None
               [] OTHER -> IF side[fd] = "closed" \/ peer[fd] = "closed" THEN "other"
                           ELSE IF sent[fd] > taken[fd] THEN "in" ELSE None
Polled == [i \in 1 .. Len(list) |-> Event(fds[i])]
Ready == \E i \in 1 .. Len(list) : Event(fds[i]) # None

Scanning == pc = "scan" /\ index <= Len(events)

\* The next position behind i with an event (the loop skips the others), or the
\* one behind the last.
NextEvent(ev, i) ==
  CHOOSE j \in i + 1 .. Len(ev) + 1 : /\ j <= Len(ev) => ev[j] # None
                                      /\ \A k \in i + 1 .. j - 1 : ev[k] = None

\* A round that closes a connection accepts none, and has nothing to do for the
\* entries behind the closed one.
Calm(ev) == \A i \in DOMAIN ev :
              ev[i] = "other" => \A j \in DOMAIN ev : j = 1 \/ j > i => ev[j] = None

Poll == /\ pc = "poll"
        /\ Ready
        /\ events' = Polled
        /\ index' = NextEvent(Polled, 0)
        /\ pc' = "scan"
        /\ calm' = (calm /\ Calm(Polled))
        /\ UNCHANGED <<net, side, list, fds, cur, taken, buffered>>

\* Nothing for TIMEOUT seconds, from anybody: the loop breaks, the server socket
\* is closed, fds freed and (connmgr_free) the list; client sockets stay open.
Timeout == /\ pc = "poll"
           /\ ~Ready
           /\ pc' = "done"
           /\ list' = <<>> /\ fds' = <<>> /\ events' = <<>> /\ index' = 1
           /\ UNCHANGED <<net, side, cur, taken, buffered, calm>>

\* Fault: the connection is not taken off the list.
CloseFdOnly == /\ Scanning
               /\ events[index] = "other"
               /\ fds' = [fds EXCEPT ![index] = REMOVE_FD]
               /\ index' = NextEvent(events, index)
               /\ UNCHANGED <<net, side, list, events, pc, cur, taken, buffered, calm>>

\* close_connection of the list element that has this index by now.
CloseConnection == /\ Scanning
                   /\ events[index] = "other"
                   /\ side' = [side EXCEPT ![ElementAt(index)] = "closed"]
                   /\ list' = Without(list, Clamp(index))
                   /\ fds' = [fds EXCEPT ![index] = REMOVE_FD]
                   /\ index' = NextEvent(events, index)
                   /\ UNCHANGED <<net, events, pc, cur, taken, buffered, calm>>

\* insert_client up to its read_data: accept, and one more entry behind the
\* polled ones (realloc).
AcceptClient == /\ Scanning
                /\ events[index] = "in" /\ index = 1
                /\ cur' = Head(backlog) /\ backlog' = Tail(backlog)
                /\ side' = [side EXCEPT ![Head(backlog)] = "accepted"]
                /\ fds' = Append(SubSeq(fds, 1, Len(events)), Head(backlog))
                /\ pc' = "readnew"
                /\ UNCHANGED <<peer, sent, list, events, index, taken, buffered, calm>>

\* read_data_write_to_buffer up to its read_data.
ReadClient == /\ Scanning
              /\ events[index] = "in" /\ index > 1
              /\ cur' = ElementAt(index)
              /\ pc' = "read"
              /\ UNCHANGED <<net, side, list, fds, events, index, taken, buffered, calm>>

Reading == pc \in {"readnew", "read"}

\* read_data waits until the three fields are there; then the list gets a new
\* connection, and the buffer the measurement.
ReadData == /\ Reading
            /\ sent[cur] - taken[cur] >= 3
            /\ taken' = [taken EXCEPT ![cur] = @ + 3]
            /\ buffered' = [buffered EXCEPT ![cur] = @ + 1]
            /\ list' = IF pc = "readnew" THEN Append(list, cur) ELSE list
            /\ index' = NextEvent(events, index) /\ pc' = "scan" /\ cur' = None
            /\ UNCHANGED <<net, side, fds, events, calm>>

\* The connection ends within a measurement: the assertion on tcp_receive.
ReadAborts == /\ Reading
              /\ peer[cur] = "closed" /\ sent[cur] - taken[cur] < 3
              /\ pc' = "aborted"
              /\ UNCHANGED <<net, side, list, fds, events, index, cur, taken, buffered,
                             calm>>

-------------------------------------------------------------------------------
\* compress(old, new), with old the number of polled entries and new that of the
\* list.  One pass shifts the entries behind each removed one to the front.
Shift(q, i, old) ==
  IF q[i] # REMOVE_FD THEN q
  ELSE SubSeq(q, 1, i - 1) \o SubSeq(q, i + 1, old) \o <<REMOVE_FD>>
         \o SubSeq(q, old + 1, Len(q))
CompressPass(q, old) ==
  LET pass[i \in 0 .. old] == IF i = 0 THEN q ELSE Shift(pass[i - 1], i, old)
  IN pass[old]

Scanned == pc = "scan" /\ index > Len(events)

\* Fault: compress is left out.
CompressNothing == /\ Scanned
                   /\ pc' = "poll" /\ events' = <<>> /\ index' = 1
                   /\ UNCHANGED <<net, side, list, fds, cur, taken, buffered, calm>>

NeedsPass(q) == \E k \in 1 .. Len(list) : q[k] = REMOVE_FD

\* It returns at once when the sizes agree, and calls itself while a removed entry
\* is left among the first new ones: a call that changes nothing never returns.
Compress ==
  /\ Scanned
  /\ IF Len(events) = Len(list)
       THEN pc' = "poll" /\ UNCHANGED fds
       ELSE /\ fds' = CompressPass(fds, Len(events))
            /\ pc' = IF ~NeedsPass(fds') THEN "poll"
                     ELSE IF fds' = fds THEN "overflow" ELSE "scan"
  /\ events' = IF pc' = "poll" THEN <<>> ELSE events
  /\ index' = IF pc' = "poll" THEN 1 ELSE index
  /\ UNCHANGED <<net, side, list, cur, taken, buffered, calm>>

-------------------------------------------------------------------------------
Finished == Over /\ UNCHANGED vars

SensorStep(s) == Connect(s) \/ SendField(s) \/ Leave(s)
ConnMgrStep == \/ Poll \/ Timeout \/ CloseConnection \/ AcceptClient
               \/ ReadClient \/ ReadData \/ ReadAborts \/ Compress

Next == \/ \E s \in Sensors : SensorStep(s)
        \/ ConnMgrStep
        \/ Finished

Spec == Init /\ [][Next]_vars

\* The gateway runs on.
GatewaySpec == Spec /\ WF_vars(ConnMgrStep)
\* And a node that has connected goes on with its measurements or leaves.
FairSpec == GatewaySpec /\ \A s \in Sensors : WF_vars(SendField(s) \/ Leave(s))
-------------------------------------------------------------------------------
TypeOK == /\ peer \in [Sensors -> {"off", "open", "closed"}]
          /\ side \in [Sensors -> {"none", "backlog", "accepted", "closed"}]
          /\ sent \in [Sensors -> 0 .. 3 * Measurements]
          /\ \A s \in Sensors : taken[s] \in 0 .. sent[s]
          /\ buffered \in [Sensors -> 0 .. Measurements]
          /\ backlog \in Seq(Sensors)
          /\ list \in Seq(Sensors \cup {SERVER})
          /\ fds \in Seq(Sensors \cup {SERVER, REMOVE_FD})
          /\ events \in Seq({None, "in", "other"})
          /\ index \in 1 .. Len(events) + 1
          /\ pc \in {"poll", "scan", "readnew", "read", "done", "aborted", "overflow"}
          /\ cur \in Sensors \cup {None}

\* connmgr.c:56: compress "gets rid of fds that get disconnected".  Whenever poll is
\* called, entry i of fds is the socket of element i of the list.
Aligned == pc = "poll" => /\ Len(list) <= Len(fds)
                          /\ \A i \in 1 .. Len(list) : fds[i] = list[i]

\* connmgr.c:83: compress is called to "remove disconnected fds", and returns.
CompressReturns == pc # "overflow"

\* The blocking receive of a known connection only waits for the rest of a
\* measurement that has begun.
ReadsStarted == pc = "read" => sent[cur] > taken[cur] \/ peer[cur] = "closed"

\* As long as the rounds are calm, fds and list stay in step through accepts,
\* closings and compress; compress comes to its end, and the loop blocks for no
\* known node that has sent nothing.
AlignedIfCalm == TypeOK /\ (calm => Aligned /\ CompressReturns /\ ReadsStarted)

\* A connection of the gateway goes from open to closed.
Drops(s) == side[s] = "accepted" /\ side'[s] = "closed"

\* connmgr.c:47: a connection is removed "if no response from client or server".
\* No step closes the connection of a node that is still there.
LiveNeverDropped == [][\A s \in Sensors : Drops(s) => peer[s] = "closed"]_vars

\* It holds as long as the rounds are calm: the scan (connmgr.c:74) then closes
\* the connection whose descriptor was reported.
LiveKeptIfCalm == [][calm => \A s \in Sensors : Drops(s) => peer[s] = "closed"]_vars

\* As long as the rounds are calm, a node that has gone is noticed and its
\* connection closed, whatever the other nodes do meanwhile; only an assertion can
\* come first, not the timeout.
GoneRemovedIfCalm ==
  \A s \in Sensors : side[s] = "accepted" /\ peer[s] = "closed"
                       ~> side[s] = "closed" \/ pc = "aborted" \/ ~calm
===============================================================================
