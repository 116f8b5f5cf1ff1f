------------------------------- MODULE TcpSock -------------------------------
(***************************************************************************)
(* tcpsock.c under the gateway and the sensor nodes: the structs, address  *)
(* strings and descriptors that its calls take and give back, on every     *)
(* path, and the byte streams, which arrive in pieces.  connmgr.c is here  *)
(* as far as it decides what is called next: the rounds of poll, without   *)
(* the order of the entries in them.  Once a round has shortened the list  *)
(* in front of other work, an index can stand for any connection; which    *)
(* one is in ConnMgr.  A handle, its struct, string and descriptor are     *)
(* named by the node at the other end, or SERVER.                          *)
(***************************************************************************)
EXTENDS Naturals, Sequences

CONSTANTS Nodes, SERVER,
          Loops,        \* of each node: LOOPS, the measurements it sends
          MaxPending,   \* MAX_PENDING of listen
          JUNK          \* what is in a byte that nobody has written

ASSUME TcpSockAssumption == SERVER \notin Nodes /\ Loops \in [Nodes -> Nat]

HALVES == 2             \* a field may be cut between any two bytes: two halves
MEASUREMENT == 3 * HALVES

VARIABLES gateway,      \* "start", "poll", "scan", "read", "failed" (a call returned
                        \* an error), "freed", "over"
          toRead, toClose,  \* the entries of the round that the scan has not reached
          accepts,      \* the round has accepted a connection
          inStep,       \* history: the place in the list is that in fds
          handles,      \* the sockets it holds
          structs, strings, open,  \* what is allocated, and the open descriptors
          backlog,
          link,         \* of each node: "none", "up", "fin" (the node has ended),
                        \* "reset", "dropped" (by the gateway)
          node,         \* "off", "sending", "over"
          sent, arrived, taken,    \* halves of fields
          cur, data,    \* the connection of the last call, the fields read of it
          got,          \* the measurements read_data has returned, as places in the
                        \* stream of their node
          whole         \* history: every receive has got its whole field

round == <<toRead, toClose, accepts, inStep>>
memory == <<handles, structs, strings, open>>
stream == <<sent, arrived, taken>>
reading == <<cur, data, got, whole>>
vars == <<gateway, round, memory, backlog, link, node, stream, reading>>

Init == /\ gateway = "start"
        /\ toRead = {} /\ toClose = {} /\ accepts = FALSE /\ inStep = TRUE
        /\ handles = {} /\ structs = {} /\ strings = {} /\ open = {}
        /\ backlog = <<>>
        /\ link = [n \in Nodes |-> "none"]
        /\ node = [n \in Nodes |-> "off"]
        /\ sent = [n \in Nodes |-> 0]
        /\ arrived = [n \in Nodes |-> 0]
        /\ taken = [n \in Nodes |-> 0]
        /\ cur = SERVER /\ data = <<>>
        /\ got = [n \in Nodes |-> <<>>]
        /\ whole = [n \in Nodes |-> TRUE]
-------------------------------------------------------------------------------
\* What the calls of tcpsock.c do to memory.

\* A socket is created, bound or connected, and handed out.
Opens(h) == /\ structs' = structs \cup {h}
            /\ strings' = strings \cup ({h} \ {SERVER})
            /\ open' = open \cup {h}
            /\ handles' = handles \cup {h}

\* Fault: the struct is not given back.
OpenFailsKeeping(h) == /\ structs' = structs \cup {h}
                       /\ UNCHANGED <<handles, strings, open>>

\* malloc, socket or accept fails, or what comes behind it does: the struct is given
\* back, but not the descriptor.
OpenFails(h) == /\ open' \in {open, open \cup {h}}
                /\ UNCHANGED <<handles, structs, strings>>

\* tcp_close: shutdown fails for a connection that was reset, and then the
\* descriptor is not closed.
TcpClose(h) == /\ strings' = strings \ {h}
               /\ open' = IF h \in Nodes /\ link[h] = "reset" THEN open ELSE open \ {h}
               /\ structs' = structs \ {h}
               /\ handles' = handles \ {h}

Drop(conns) == link' = [n \in Nodes |-> IF n \in conns /\ link[n] \in {"up", "fin"}
                                          THEN "dropped" ELSE link[n]]

\* The end of the process takes everything with it.
ProcessEnds == /\ handles' = {} /\ structs' = {} /\ strings' = {} /\ open' = {}
               /\ backlog' = <<>>
               /\ Drop(Nodes)
               /\ gateway' = "over"
-------------------------------------------------------------------------------
\* The sensor nodes, and the network.

\* tcp_active_open: the listening socket has to be there and have room.
NodeConnects(n) == /\ node[n] = "off"
                   /\ SERVER \in open /\ Len(backlog) < MaxPending
                   /\ node' = [node EXCEPT ![n] = "sending"]
                   /\ link' = [link EXCEPT ![n] = "up"]
                   /\ backlog' = Append(backlog, n)
                   /\ UNCHANGED <<gateway, round, memory, stream, reading>>

\* It fails, and main exits.
NodeOpenFails(n) == /\ node[n] = "off"
                    /\ node' = [node EXCEPT ![n] = "over"]
                    /\ UNCHANGED <<gateway, round, memory, backlog, link, stream, reading>>

\* tcp_send of a field; a blocking send takes all of it.  What goes to a connection
\* that the gateway has dropped is lost and answered with a reset.
NodeSends(n) == /\ node[n] = "sending" /\ link[n] \in {"up", "dropped"}
                /\ sent[n] < Loops[n] * MEASUREMENT
                /\ IF link[n] = "up"
                     THEN /\ sent' = [sent EXCEPT ![n] = @ + HALVES]
                          /\ UNCHANGED link
                     ELSE /\ link' = [link EXCEPT ![n] = "reset"]
                          /\ UNCHANGED sent
                /\ UNCHANGED <<gateway, round, memory, backlog, node, arrived, taken, reading>>

\* The end of the loop and tcp_close; a failed tcp_send; or the node dies.  The end
\* of the connection travels behind the data.
NodeEnds(n) == /\ node[n] = "sending"
               /\ node' = [node EXCEPT ![n] = "over"]
               /\ link' = [link EXCEPT ![n] = IF @ = "up" THEN "fin" ELSE @]
               /\ UNCHANGED <<gateway, round, memory, backlog, stream, reading>>

Arrive(n) == /\ link[n] \in {"up", "fin"}
             /\ \E k \in arrived[n] + 1 .. sent[n] : arrived' = [arrived EXCEPT ![n] = k]
             /\ UNCHANGED <<gateway, round, memory, backlog, link, node, sent, taken, reading>>

\* The network or the host of the node resets the connection.
Reset(n) == /\ link[n] \in {"up", "fin"}
            /\ link' = [link EXCEPT ![n] = "reset"]
            /\ UNCHANGED <<gateway, round, memory, backlog, node, stream, reading>>
-------------------------------------------------------------------------------
\* The gateway.

GatewayOpens == /\ gateway = "start"
                /\ Opens(SERVER)
                /\ gateway' = "poll"
                /\ cur' = SERVER
                /\ UNCHANGED <<round, backlog, link, node, stream, data, got, whole>>
GatewayOpenFails == /\ gateway = "start"
                    /\ OpenFails(SERVER)
                    /\ gateway' = "failed"
                    /\ cur' = SERVER
                    /\ UNCHANGED <<round, backlog, link, node, stream, data, got, whole>>

Conns == handles \cap Nodes
\* The connection has come to its end; for poll that is POLLIN, too.
Ended(n) == link[n] = "reset" \/ (link[n] = "fin" /\ arrived[n] = sent[n])
Readable(n) == arrived[n] > taken[n] \/ Ended(n)

\* Fault: POLLRDHUP is not asked for, and only an error makes POLLIN not the only one.
ReportedError(n) == link[n] = "reset"

\* revents is something else than POLLIN alone.
Reported(n) == Ended(n)

\* poll, with something to report; the scan acts on it as it was then.
Poll == /\ gateway = "poll" /\ inStep
        /\ toRead' = {n \in Conns : Readable(n) /\ ~Reported(n)}
                       \cup (IF backlog # <<>> THEN {SERVER} ELSE {})
        /\ toClose' = {n \in Conns : Reported(n)}
        /\ toRead' \cup toClose' # {}
        /\ accepts' = FALSE
        /\ gateway' = "scan"
        /\ UNCHANGED <<inStep, memory, backlog, link, node, stream, reading>>

\* The scan has reached an entry of this connection, the listening socket first.  Out
\* of step an entry can stand for any connection, in any round.
Reaches(h, entries) == IF inStep
                         THEN /\ gateway = "scan" /\ h \in entries
                              /\ h = SERVER \/ SERVER \notin toRead
                         ELSE gateway = "poll"

\* insert_client up to its read_data.
AcceptClient == /\ Reaches(SERVER, toRead) /\ backlog # <<>>
                /\ cur' = Head(backlog) /\ backlog' = Tail(backlog)
                /\ Opens(cur')
                /\ gateway' = "read"
                /\ toRead' = toRead \ {SERVER} /\ accepts' = TRUE
                /\ UNCHANGED <<toClose, inStep, link, node, stream, data, got, whole>>
AcceptFails == /\ Reaches(SERVER, toRead) /\ backlog # <<>>
               /\ cur' = Head(backlog)
               /\ OpenFails(cur')
               /\ backlog' = IF cur' \in open' THEN Tail(backlog) ELSE backlog
               /\ gateway' = "failed"
               /\ UNCHANGED <<round, link, node, stream, data, got, whole>>

ReadKnown(n) == /\ n \in Conns /\ Reaches(n, toRead)
                /\ cur' = n /\ gateway' = "read"
                /\ toRead' = toRead \ {n}
                /\ UNCHANGED <<toClose, accepts, inStep, memory, backlog, link, node, stream,
                               data, got, whole>>

\* Of measurements that are not whole only their number is kept.
Kept(q, measurement) == Append(q, IF whole'[cur] THEN measurement ELSE JUNK)

\* Behind read_data: the next entry of the round, if there is one.
Continues == gateway' = IF toRead \cup toClose = {} THEN "poll" ELSE "scan"

\* tcp_receive gets what is there, up to a field; how much it was is not looked at.
Receive == /\ gateway = "read"
           /\ arrived[cur] > taken[cur]
           /\ LET k == IF arrived[cur] - taken[cur] < HALVES
                         THEN arrived[cur] - taken[cur] ELSE HALVES
                  field == [i \in 1 .. HALVES |-> IF i <= k THEN taken[cur] + i ELSE JUNK]
              IN /\ taken' = [taken EXCEPT ![cur] = @ + k]
                 /\ whole' = [whole EXCEPT ![cur] = @ /\ k = HALVES]
                 /\ IF Len(data) < MEASUREMENT - HALVES
                      THEN data' = data \o field /\ UNCHANGED <<gateway, got>>
                      ELSE /\ got' = [got EXCEPT ![cur] = Kept(@, data \o field)]
                           /\ data' = <<>> /\ Continues
           /\ UNCHANGED <<round, memory, backlog, link, node, sent, arrived, cur>>

\* There is nothing more to receive, or recv fails.
EndOfStream == gateway = "read" /\ Ended(cur) /\ arrived[cur] = taken[cur]

\* Fault: the result is not looked at, either.
ReceiveFailsUnseen ==
  /\ EndOfStream
  /\ got' = [got EXCEPT ![cur] = Append(@, data \o [i \in 1 .. HALVES |-> JUNK])]
  /\ data' = <<>> /\ Continues
  /\ UNCHANGED <<round, memory, backlog, link, node, stream, cur, whole>>

ReceiveFails == /\ EndOfStream
                /\ gateway' = "failed"
                /\ UNCHANGED <<round, memory, backlog, link, node, stream, reading>>

\* close_connection.  A round that closes one connection, as its last work, and has
\* accepted none leaves the list in step with fds (ConnMgr); any other one need not.
CloseConnection(n) == /\ n \in Conns /\ Reaches(n, toClose)
                      /\ TcpClose(n)
                      /\ Drop({n})
                      /\ inStep' = (inStep /\ ~accepts /\ toRead = {} /\ toClose = {n})
                      /\ toRead' = {} /\ toClose' = {}
                      /\ gateway' = "poll"
                      /\ UNCHANGED <<accepts, backlog, node, stream, reading>>

\* Out of step compress may call itself until the stack is full.
CompressOverflows == /\ gateway = "poll" /\ ~inStep
                     /\ ProcessEnds
                     /\ UNCHANGED <<round, node, stream, reading>>

\* The assertion on every result.
AssertFails == /\ gateway = "failed"
               /\ ProcessEnds
               /\ UNCHANGED <<round, node, stream, reading>>

\* After the timeout the server is closed; connmgr_free drops the other handles.  Out
\* of step poll may not be told of a connection that has something to say.
Timeout == /\ gateway = "poll" /\ backlog = <<>>
           /\ inStep => \A n \in Conns : ~Readable(n)
           /\ strings' = strings \ {SERVER} /\ structs' = structs \ {SERVER}
           /\ open' = open \ {SERVER} /\ handles' = {}
           /\ gateway' = "freed"
           /\ UNCHANGED <<round, backlog, link, node, stream, reading>>
Exit == /\ gateway = "freed"
        /\ ProcessEnds
        /\ UNCHANGED <<round, node, stream, reading>>

Finished == /\ gateway = "over" /\ \A n \in Nodes : node[n] = "over"
            /\ UNCHANGED vars

NodeStep(n) == \/ NodeConnects(n) \/ NodeOpenFails(n) \/ NodeSends(n) \/ NodeEnds(n)
               \/ Arrive(n) \/ Reset(n)
GatewayStep == \/ GatewayOpens \/ GatewayOpenFails \/ Poll \/ AcceptClient \/ AcceptFails
               \/ (\E n \in Nodes : ReadKnown(n) \/ CloseConnection(n))
               \/ Receive \/ ReceiveFails \/ CompressOverflows
               \/ AssertFails \/ Timeout \/ Exit

Next == (\E n \in Nodes : NodeStep(n)) \/ GatewayStep \/ Finished
Spec == Init /\ [][Next]_vars
-------------------------------------------------------------------------------
TypeOK == /\ gateway \in {"start", "poll", "scan", "read", "failed", "freed", "over"}
          /\ toRead \subseteq Nodes \cup {SERVER} /\ toClose \subseteq Nodes
          /\ accepts \in BOOLEAN /\ inStep \in BOOLEAN
          /\ handles \subseteq Nodes \cup {SERVER} /\ structs \subseteq Nodes \cup {SERVER}
          /\ strings \subseteq Nodes /\ open \subseteq Nodes \cup {SERVER}
          /\ backlog \in Seq(Nodes)
          /\ link \in [Nodes -> {"none", "up", "fin", "reset", "dropped"}]
          /\ node \in [Nodes -> {"off", "sending", "over"}]
          /\ \A n \in Nodes : sent[n] \in 0 .. Loops[n] * MEASUREMENT
          /\ \A n \in Nodes : arrived[n] \in 0 .. sent[n] /\ taken[n] \in 0 .. arrived[n]
          /\ cur \in Nodes \cup {SERVER}
          /\ whole \in [Nodes -> BOOLEAN]

\* tcpsock.h:47: tcp_close frees "allocated resources".  While the loop runs, whichever
\* connections it closes and in whatever order, the structs are those of its handles,
\* each with its string and descriptor, and of what it no longer holds nothing is left.
\* Nothing is demanded of the descriptor of a connection that was reset, which stays
\* open against that comment, nor of what a failed open or connmgr_free leaves behind.
Accounted ==
  gateway \in {"poll", "scan", "read", "failed"} =>
    /\ structs = handles
    /\ strings = handles \ {SERVER}
    /\ handles \subseteq open
    /\ \A n \in Nodes :
         link[n] # "reset" /\ (gateway = "failed" => n # cur) => (n \in open <=> n \in handles)

Place(i, j) == MEASUREMENT * (i - 1) + j
\* connmgr.c:50: read_data "gets the id, temp, and ts" of a node.  As long as no
\* receive was cut short its measurements are those of the node, each once and in
\* order, whatever the segments and whichever other connections are read in between.
FramedIfWhole ==
  \A n \in Nodes : whole[n] =>
    got[n] = [i \in 1 .. Len(got[n]) |-> [j \in 1 .. MEASUREMENT |-> Place(i, j)]]

\* connmgr.c:187: as long as the list is in step with fds and no receive was cut
\* short, an assertion on one is only reached by a connection that was reset, or that
\* has ended before or within a measurement.  Only through the index of another one
\* (connmgr.c:74) can a node that has finished abort the gateway.
AbortsExplained ==
  /\ TypeOK
  /\ inStep /\ gateway = "failed" /\ cur \in handles /\ whole[cur] =>
       \/ link[cur] = "reset"
       \/ sent[cur] = 0
       \/ sent[cur] % MEASUREMENT # 0
===============================================================================
