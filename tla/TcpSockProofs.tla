---------------------------- MODULE TcpSockProofs ----------------------------
(***************************************************************************)
(* What the calls of tcpsock.c take they give back, on every path, for any *)
(* number of nodes, connections waiting and measurements.                  *)
(***************************************************************************)
EXTENDS TcpSock, SequenceTheorems, TLAPS

Links == {"none", "up", "fin", "reset", "dropped"}

\* A node that has not begun has no connection: so no step makes a connection that
\* was reset a new one.
Linked == /\ link \in [Nodes -> Links]
          /\ node \in [Nodes -> {"off", "sending", "over"}]
          /\ \A n \in Nodes : node[n] = "off" => link[n] = "none"

\* What the gateway has allocated is what its handles own, until connmgr_free forgets
\* those of the nodes that are still connected; and a descriptor without a struct is
\* that of a connection that was reset, or of the call that has just failed.
Owned ==
  /\ structs = handles \/ (gateway \in {"freed", "over"} /\ handles = {})
  /\ strings = structs \ {SERVER}
  /\ structs \subseteq open
  /\ \A h \in open \ structs : \/ h \in Nodes /\ link[h] = "reset"
                               \/ gateway = "failed" /\ h = cur

IInv == Linked /\ Owned

LEMMA InitIInv == Init => IInv
BY DEF Init, IInv, Linked, Links, Owned

\* A step that leaves the memory of the gateway alone, and no reset connection anew.
LEMMA MemoryKept ==
  ASSUME Owned,
         UNCHANGED <<memory, cur>>,
         gateway \in {"failed", "freed", "over"} => gateway' = gateway,
         \A n \in Nodes : link[n] = "reset" => link'[n] = "reset"
  PROVE Owned'
BY DEF Owned, memory

LEMMA DropLinked ==
  ASSUME Linked, NEW conns, Drop(conns), UNCHANGED node
  PROVE /\ Linked'
        /\ \A n \in Nodes : link[n] = "reset" => link'[n] = "reset"
BY DEF Linked, Links, Drop

\* The end of the process leaves nothing.
LEMMA EndOwned ==
  ASSUME ProcessEnds
  PROVE Owned'
BY DEF ProcessEnds, Owned

LEMMA NodeStepIInv ==
  ASSUME IInv, NEW n \in Nodes, NodeStep(n)
  PROVE IInv'
<1> USE DEF IInv
<1>0. UNCHANGED <<gateway, memory, cur>>
  BY DEF NodeStep, NodeConnects, NodeOpenFails, NodeSends, NodeEnds, Arrive, Reset, reading
<1>1. Linked'
  <2>1. CASE NodeConnects(n)
    BY <2>1 DEF NodeConnects, Linked, Links
  <2>2. CASE NodeOpenFails(n)
    BY <2>2 DEF NodeOpenFails, Linked
  <2>3. CASE NodeSends(n)
    BY <2>3 DEF NodeSends, Linked, Links
  <2>4. CASE NodeEnds(n)
    BY <2>4 DEF NodeEnds, Linked, Links
  <2>5. CASE Arrive(n)
    BY <2>5 DEF Arrive, Linked
  <2>6. CASE Reset(n)
    BY <2>6 DEF Reset, Linked, Links
  <2> QED BY <2>1, <2>2, <2>3, <2>4, <2>5, <2>6 DEF NodeStep
<1>2. \A m \in Nodes : link[m] = "reset" => link'[m] = "reset"
  BY DEF NodeStep, NodeConnects, NodeOpenFails, NodeSends, NodeEnds, Arrive, Reset, Linked
<1>3. Owned'
  BY <1>0, <1>2, MemoryKept
<1> QED BY <1>1, <1>3

LEMMA GatewayStepIInv ==
  ASSUME IInv, GatewayStep
  PROVE IInv'
<1> USE DEF IInv
<1>1. CASE GatewayOpens
  BY <1>1 DEF GatewayOpens, Opens, Owned, Linked
<1>2. CASE GatewayOpenFails
  BY <1>2 DEF GatewayOpenFails, OpenFails, Owned, Linked
<1>3. CASE AcceptClient
  BY <1>3 DEF AcceptClient, Reaches, Opens, Owned, Linked
<1>4. CASE AcceptFails
  BY <1>4 DEF AcceptFails, Reaches, OpenFails, Owned, Linked
<1>5. ASSUME NEW n \in Nodes, ReadKnown(n) PROVE IInv'
  BY <1>5 DEF ReadKnown, Reaches, memory, Owned, Linked
<1>6. ASSUME NEW n \in Nodes, CloseConnection(n) PROVE IInv'
  <2>1. /\ Linked'
        /\ \A m \in Nodes : link[m] = "reset" => link'[m] = "reset"
    BY <1>6, DropLinked DEF CloseConnection
  <2>2. Owned'
    BY <1>6, <2>1, TcpSockAssumption DEF CloseConnection, Reaches, TcpClose, Owned
  <2> QED BY <2>1, <2>2
<1>7. CASE Receive
  <2>1. UNCHANGED <<memory, cur, link, node>> /\ gateway = "read"
    BY <1>7 DEF Receive
  <2>2. Owned'
    BY <2>1, MemoryKept
  <2> QED BY <2>1, <2>2 DEF Linked
<1>8. CASE ReceiveFails
  <2>1. UNCHANGED <<memory, cur, link, node>> /\ gateway = "read"
    BY <1>8 DEF ReceiveFails, EndOfStream, reading
  <2>2. Owned'
    BY <2>1, MemoryKept
  <2> QED BY <2>1, <2>2 DEF Linked
<1>9. CASE AssertFails \/ CompressOverflows
  BY <1>9, EndOwned, DropLinked DEF AssertFails, CompressOverflows, ProcessEnds
<1>10. CASE Timeout
  BY <1>10 DEF Timeout, Owned, Linked
<1>11. CASE Exit
  BY <1>11, EndOwned, DropLinked DEF Exit, ProcessEnds
<1>12. CASE Poll
  <2>1. UNCHANGED <<memory, cur, link, node>> /\ gateway = "poll"
    BY <1>12 DEF Poll, reading
  <2>2. Owned'
    BY <2>1, MemoryKept
  <2> QED BY <2>1, <2>2 DEF Linked
<1> QED BY <1>1, <1>2, <1>3, <1>4, <1>5, <1>6, <1>7, <1>8, <1>9, <1>10, <1>11, <1>12
        DEF GatewayStep

LEMMA NextIInv == IInv /\ [Next]_vars => IInv'
<1> SUFFICES ASSUME IInv, [Next]_vars PROVE IInv'
  OBVIOUS
<1>1. CASE \E n \in Nodes : NodeStep(n)
  BY <1>1, NodeStepIInv
<1>2. CASE GatewayStep
  BY <1>2, GatewayStepIInv
<1>3. CASE Finished \/ UNCHANGED vars
  BY <1>3 DEF Finished, vars, memory, reading, IInv, Linked, Owned
<1> QED BY <1>1, <1>2, <1>3 DEF Next

\* tcp_close and the opening calls (tcpsock.h:47): whatever nodes, network and gateway
\* do, while the loop runs the structs, the strings and, of connections that were not
\* reset, the descriptors are those of the handles.
THEOREM ResourcesAccounted == Spec => []Accounted
<1>1. IInv => Accounted
  <2> SUFFICES ASSUME Linked, Owned, gateway \in {"poll", "scan", "read", "failed"}
               PROVE  /\ structs = handles /\ strings = handles \ {SERVER} /\ handles \subseteq open
                      /\ \A n \in Nodes :
                           link[n] # "reset" /\ (gateway = "failed" => n # cur) =>
                             (n \in open <=> n \in handles)
    BY DEF IInv, Accounted
  <2>1. structs = handles
    BY DEF Owned
  <2> QED BY <2>1 DEF Owned
<1> QED BY <1>1, InitIInv, NextIInv, PTL DEF Spec
-------------------------------------------------------------------------------
\* What has been taken of a stream is what was returned, and the fields of the
\* measurement that is being read.
Partial(n) == IF cur = n THEN Len(data) ELSE 0
Exactly(n) == [i \in 1 .. Len(got[n]) |-> [j \in 1 .. MEASUREMENT |-> Place(i, j)]]
Fields(n) == [j \in 1 .. Len(data) |-> MEASUREMENT * Len(got[n]) + j]

Halves == Nat \cup {JUNK}
Counters == /\ sent \in [Nodes -> Nat] /\ arrived \in [Nodes -> Nat]
            /\ taken \in [Nodes -> Nat]
            /\ whole \in [Nodes -> BOOLEAN]
            /\ got \in [Nodes -> Seq(Seq(Halves) \cup {JUNK})]
            /\ data \in Seq(Halves)
            /\ backlog \in Seq(Nodes) /\ cur \in Nodes \cup {SERVER}
Between == /\ gateway \in {"start", "poll", "scan"} => data = <<>>
           /\ gateway = "read" => cur \in Nodes
           /\ Len(data) \in {0, HALVES, 2 * HALVES}
Framed == \A n \in Nodes : whole[n] =>
            /\ got[n] = Exactly(n)
            /\ taken[n] = MEASUREMENT * Len(got[n]) + Partial(n)
            /\ cur = n => data = Fields(n)

FInv == Counters /\ Between /\ Framed

LEMMA InitFInv == Init => FInv
<1> SUFFICES ASSUME Init PROVE FInv
  OBVIOUS
<1>1. Counters
  BY DEF Init, Counters, Halves
<1>2. Between
  BY DEF Init, Between, HALVES
<1>3. ASSUME NEW n \in Nodes
      PROVE /\ got[n] = Exactly(n) /\ Partial(n) = 0
            /\ taken[n] = MEASUREMENT * Len(got[n]) + 0 /\ data = Fields(n)
  <2>1. got[n] = <<>> /\ data = <<>> /\ taken[n] = 0
    BY DEF Init
  <2>2. Exactly(n) = <<>> /\ Fields(n) = <<>> /\ Partial(n) = 0
    BY <2>1 DEF Exactly, Fields, Partial
  <2> QED BY <2>1, <2>2 DEF MEASUREMENT, HALVES
<1>4. Framed
  BY <1>3 DEF Framed
<1> QED BY <1>1, <1>2, <1>4 DEF FInv

\* A step that receives nothing, between or within measurements.
LEMMA NothingReceived ==
  ASSUME FInv,
         UNCHANGED <<taken, data, got, whole>>,
         sent' \in [Nodes -> Nat], arrived' \in [Nodes -> Nat],
         backlog' \in Seq(Nodes), cur' \in Nodes \cup {SERVER},
         gateway' \in {"start", "poll", "scan"} => gateway \in {"start", "poll", "scan"},
         gateway' = "read" => cur' \in Nodes,
         cur' # cur => gateway \in {"start", "poll", "scan"}
  PROVE FInv'
<1>1. Counters'
  BY DEF FInv, Counters
<1>2. Between'
  BY DEF FInv, Between
<1>3. cur' = cur \/ data = <<>>
  BY DEF FInv, Between
<1>4. Framed'
  <2> SUFFICES ASSUME NEW n \in Nodes, whole[n]
               PROVE /\ got[n] = Exactly(n)
                     /\ taken[n] = MEASUREMENT * Len(got[n]) + Partial(n)'
                     /\ cur' = n => data = Fields(n)
    BY DEF Framed, Exactly, Fields
  <2>1. CASE cur' = cur
    BY <2>1 DEF FInv, Framed, Partial
  <2>2. CASE data = <<>>
    <3>1. Len(data) = 0 /\ data = [j \in 1 .. 0 |-> MEASUREMENT * Len(got[n]) + j]
      BY <2>2
    <3>2. Partial(n) = 0 /\ Partial(n)' = 0
      BY <3>1 DEF Partial
    <3> QED BY <3>1, <3>2 DEF FInv, Framed, Fields
  <2> QED BY <1>3, <2>1, <2>2
<1> QED BY <1>1, <1>2, <1>4 DEF FInv

LEMMA SameSequence ==
  ASSUME NEW S, NEW s \in Seq(S), NEW l \in Nat, NEW t, t = [i \in 1 .. l |-> t[i]],
         Len(s) = l, \A i \in 1 .. l : s[i] = t[i]
  PROVE s = t
<1>1. s \in [1 .. l -> S]
  BY LenProperties
<1> QED BY <1>1

LEMMA SameCount ==
  ASSUME NEW S, NEW s \in Seq(S), NEW b, \A i \in 1 .. Len(s) : s[i] = b + i
  PROVE s = [i \in 1 .. Len(s) |-> b + i]
<1>1. s \in [1 .. Len(s) -> S]
  BY LenProperties
<1> QED BY <1>1

\* A field that follows the ones that have been read.
LEMMA FieldFollows ==
  ASSUME NEW d \in Seq(Halves), NEW f \in Seq(Halves), NEW b \in Nat,
         \A j \in 1 .. Len(d) : d[j] = b + j,
         Len(f) = 2, \A i \in 1 .. 2 : f[i] = b + Len(d) + i
  PROVE d \o f = [j \in 1 .. Len(d \o f) |-> b + j]
<1>0. Len(d) \in Nat
  BY LenProperties
<1>1. d \o f \in Seq(Halves) /\ Len(d \o f) = Len(d) + Len(f)
  BY ConcatProperties
<1>2. ASSUME NEW j \in 1 .. Len(d \o f) PROVE (d \o f)[j] = b + j
  <2>0. \A i \in 1 .. Len(d) + Len(f) :
          (d \o f)[i] = IF i <= Len(d) THEN d[i] ELSE f[i - Len(d)]
    BY ConcatProperties
  <2>1. (d \o f)[j] = IF j <= Len(d) THEN d[j] ELSE f[j - Len(d)]
    BY <1>1, <2>0
  <2>2. j \in Nat /\ j >= 1 /\ j <= Len(d) + 2
    BY <1>0, <1>1
  <2>3. CASE j <= Len(d)
    BY <1>0, <2>1, <2>2, <2>3
  <2>4. CASE j > Len(d)
    <3>1. j - Len(d) \in 1 .. 2
      BY <1>0, <2>2, <2>4
    <3>2. f[j - Len(d)] = b + Len(d) + (j - Len(d))
      BY <3>1
    <3>3. b + Len(d) + (j - Len(d)) = b + j
      BY <1>0, <2>2
    <3>4. ~(j <= Len(d))
      BY <1>0, <2>2, <2>4
    <3> QED BY <2>1, <3>2, <3>3, <3>4
  <2> QED BY <1>0, <2>2, <2>3, <2>4
<1> DEFINE s == d \o f
<1>3. s \in Seq(Halves) /\ \A i \in 1 .. Len(s) : s[i] = b + i
  BY <1>1, <1>2
<1> HIDE DEF s
<1>4. s = [i \in 1 .. Len(s) |-> b + i]
  BY <1>3, SameCount
<1> QED BY <1>4 DEF s

LEMMA PlaceArithmetic ==
  /\ \A x \in {0, 2, 4} : /\ x < 4 \/ x = 4
                         /\ x < 4 => x + 2 \in {0, 2, 4}
  /\ \A x, l \in Nat : 6 * l + x + 2 = 6 * l + (x + 2)
OBVIOUS

\* What Receive does: a field of which k halves are those of the stream.
LEMMA ReceiveEffect ==
  ASSUME FInv, Receive
  PROVE \E k \in 1 .. HALVES, field \in Seq(Halves) :
          /\ Len(field) = HALVES
          /\ k = HALVES => \A i \in 1 .. HALVES : field[i] = taken[cur] + i
          /\ taken' = [taken EXCEPT ![cur] = @ + k]
          /\ whole' = [whole EXCEPT ![cur] = @ /\ k = HALVES]
          /\ IF Len(data) < MEASUREMENT - HALVES
               THEN data' = data \o field /\ UNCHANGED <<gateway, got>>
               ELSE /\ got' = [got EXCEPT ![cur] = Kept(@, data \o field)]
                    /\ data' = <<>> /\ Continues
<1> DEFINE k == IF arrived[cur] - taken[cur] < HALVES
                  THEN arrived[cur] - taken[cur] ELSE HALVES
           half(i) == IF i <= k THEN taken[cur] + i ELSE JUNK
           field == [i \in 1 .. HALVES |-> half(i)]
<1>1. /\ arrived[cur] \in Nat /\ taken[cur] \in Nat /\ arrived[cur] > taken[cur]
  BY DEF FInv, Between, Counters, Receive
<1>2. k \in 1 .. HALVES
  BY <1>1 DEF HALVES
<1>3. field \in Seq(Halves) /\ Len(field) = HALVES
  <2>1. \A i \in 1 .. 2 : half(i) \in Halves
    BY <1>1, <1>2 DEF Halves
  <2> HIDE DEF half
  <2> QED BY <2>1 DEF HALVES
<1>4. k = HALVES => \A i \in 1 .. HALVES : field[i] = taken[cur] + i
  BY <1>1 DEF HALVES
<1> QED BY <1>2, <1>3, <1>4, Zenon DEF Receive

LEMMA ReceiveFInv ==
  ASSUME FInv, Receive
  PROVE FInv'
<1>0. /\ cur \in Nodes /\ cur' = cur /\ gateway = "read"
      /\ UNCHANGED <<sent, arrived, backlog>>
      /\ taken[cur] \in Nat /\ data \in Seq(Halves)
  BY DEF FInv, Between, Counters, Receive
<1>1. PICK k \in 1 .. HALVES, field \in Seq(Halves) :
          /\ Len(field) = HALVES
          /\ k = HALVES => \A i \in 1 .. HALVES : field[i] = taken[cur] + i
          /\ taken' = [taken EXCEPT ![cur] = @ + k]
          /\ whole' = [whole EXCEPT ![cur] = @ /\ k = HALVES]
          /\ IF Len(data) < MEASUREMENT - HALVES
               THEN data' = data \o field /\ UNCHANGED <<gateway, got>>
               ELSE /\ got' = [got EXCEPT ![cur] = Kept(@, data \o field)]
                    /\ data' = <<>> /\ Continues
  BY ReceiveEffect
<1>2. Len(data) \in {0, 2, 4} /\ HALVES = 2 /\ MEASUREMENT = 6
  BY DEF FInv, Between, HALVES, MEASUREMENT
<1>l. Len(data) \in Nat /\ (Len(data) = 0 \/ Len(data) = 2 \/ Len(data) = 4)
  BY <1>0, <1>2, LenProperties
<1>3. data \o field \in Seq(Halves) /\ Len(data \o field) = Len(data) + 2
  <2>1. /\ data \o field \in Seq(Halves)
        /\ Len(data \o field) = Len(data) + Len(field)
    BY <1>0, ConcatProperties
  <2> QED BY <1>1, <1>2, <2>1
<1>4. \/ Len(data) < 4 /\ data' = data \o field /\ UNCHANGED <<gateway, got>>
      \/ /\ Len(data) = 4 /\ data' = <<>> /\ gateway' \in {"poll", "scan"}
         /\ got' = [got EXCEPT ![cur] = Kept(@, data \o field)]
  <2>1. CASE Len(data) = 4
    <3>1. ~(Len(data) < MEASUREMENT - HALVES)
      BY <1>2, <2>1
    <3>2. Continues => gateway' \in {"poll", "scan"}
      BY DEF Continues
    <3> QED BY <1>1, <2>1, <3>1, <3>2, Zenon
  <2>2. CASE Len(data) = 0 \/ Len(data) = 2
    <3>1. Len(data) < 4 /\ Len(data) < MEASUREMENT - HALVES
      BY <1>2, <2>2
    <3> QED BY <1>1, <3>1, Zenon
  <2> QED BY <1>l, <2>1, <2>2
<1>a. k \in Nat /\ k \in 1 .. 2
  BY <1>2
<1>b. taken' = [taken EXCEPT ![cur] = @ + k] /\ whole' = [whole EXCEPT ![cur] = @ /\ k = HALVES]
  BY <1>1
<1>5. Counters'
  <2>1. taken' \in [Nodes -> Nat] /\ whole' \in [Nodes -> BOOLEAN]
    BY <1>0, <1>a, <1>b DEF FInv, Counters
  <2>2. data' \in Seq(Halves)
    <3>1. <<>> \in Seq(Halves)
      OBVIOUS
    <3> QED BY <1>3, <1>4, <3>1, Zenon
  <2>3. got' \in [Nodes -> Seq(Seq(Halves) \cup {JUNK})]
    <3>1. ASSUME NEW q \in Seq(Seq(Halves) \cup {JUNK})
          PROVE Kept(q, data \o field) \in Seq(Seq(Halves) \cup {JUNK})
      <4> DEFINE m == data \o field
      <4>1. m \in Seq(Halves)
        BY <1>3
      <4> HIDE DEF m
      <4>2. Kept(q, m) \in Seq(Seq(Halves) \cup {JUNK})
        BY <4>1 DEF Kept
      <4> QED BY <4>2 DEF m
    <3>2. got \in [Nodes -> Seq(Seq(Halves) \cup {JUNK})]
      BY DEF FInv, Counters
    <3>3. CASE got' = got
      BY <3>2, <3>3
    <3>4. CASE got' = [got EXCEPT ![cur] = Kept(@, data \o field)]
      <4>1. Kept(got[cur], data \o field) \in Seq(Seq(Halves) \cup {JUNK})
        BY <1>0, <3>1, <3>2
      <4> QED BY <3>2, <3>4, <4>1, Zenon
    <3> QED BY <1>4, <3>3, <3>4, Zenon
  <2> QED BY <1>0, <2>1, <2>2, <2>3 DEF FInv, Counters
<1>6. Between'
  <2>1. Len(data') \in {0, 2, 4}
    <3>1. CASE Len(data) < 4 /\ data' = data \o field
      <4>1. Len(data') = Len(data) + 2
        BY <1>3, <3>1, Zenon
      <4> QED BY <1>2, <3>1, <4>1, PlaceArithmetic, Zenon
    <3>2. CASE data' = <<>>
      BY <3>2
    <3> QED BY <1>4, <3>1, <3>2, Zenon
  <2> QED BY <1>0, <1>2, <1>4, <2>1 DEF Between
<1>7. Framed'
  <2> SUFFICES ASSUME NEW n \in Nodes, whole'[n]
               PROVE /\ got'[n] = Exactly(n)'
                     /\ taken'[n] = MEASUREMENT * Len(got'[n]) + Partial(n)'
                     /\ cur = n => data' = Fields(n)'
    BY <1>0 DEF Framed
  <2>1. whole[n]
    BY <1>0, <1>1 DEF FInv, Counters
  <2>2. /\ got[n] = Exactly(n)
        /\ taken[n] = MEASUREMENT * Len(got[n]) + Partial(n)
        /\ cur = n => data = Fields(n)
    BY <2>1 DEF FInv, Framed
  <2>3. CASE n # cur
    <3>1. got'[n] = got[n] /\ taken'[n] = taken[n]
      BY <1>0, <1>1, <1>4, <2>3 DEF FInv, Counters
    <3>2. Partial(n) = 0 /\ Partial(n)' = 0
      BY <1>0, <2>3 DEF Partial
    <3> QED BY <2>2, <2>3, <3>1, <3>2 DEF Exactly
  <2>4. CASE n = cur
    <3> DEFINE l == Len(got[cur])
    <3>0. got[cur] \in Seq(Seq(Halves) \cup {JUNK}) /\ l \in Nat
      BY <1>0 DEF FInv, Counters
    <3>1. k = 2
      BY <1>0, <1>1, <1>2, <2>4 DEF FInv, Counters
    <3>2. taken[cur] = 6 * l + Len(data)
      BY <1>0, <1>2, <2>2, <2>4 DEF Partial
    <3>3. taken'[cur] = 6 * l + Len(data) + 2
      BY <1>0, <1>1, <3>1, <3>2 DEF FInv, Counters
    <3>4. \A j \in 1 .. Len(data) : data[j] = 6 * l + j
      <4>1. data = [j \in 1 .. Len(data) |-> 6 * l + j]
        BY <1>2, <2>2, <2>4 DEF Fields
      <4> QED BY <4>1
    <3>5. data \o field = [j \in 1 .. Len(data \o field) |-> 6 * l + j]
      <4>1. 6 * l \in Nat
        BY <3>0
      <4>2. \A i \in 1 .. 2 : field[i] = 6 * l + Len(data) + i
        BY <1>1, <1>2, <3>1, <3>2
      <4>3. Len(field) = 2
        BY <1>1, <1>2
      <4> HIDE DEF l
      <4> QED BY ZenonT(60), <1>0, <1>1, <3>4, <4>1, <4>2, <4>3, FieldFollows
    <3>6. CASE Len(data) < 4 /\ data' = data \o field /\ UNCHANGED <<gateway, got>>
      <4>1. Len(data') = Len(data) + 2
        BY <1>3, <3>6
      <4>2. Partial(n)' = Len(data) + 2
        BY <1>0, <2>4, <4>1 DEF Partial
      <4>3. data' = Fields(n)'
        BY <1>2, <2>4, <3>5, <3>6 DEF Fields
      <4>4. got'[n] = Exactly(n)'
        BY <2>2, <3>6 DEF Exactly
      <4>5. taken'[n] = MEASUREMENT * Len(got'[n]) + Partial(n)'
        <5>1. Len(got'[n]) = l
          BY <2>4, <3>6
        <5>2. 6 * l + Len(data) + 2 = 6 * l + (Len(data) + 2)
          <6> HIDE DEF l
          <6> QED BY <1>l, <3>0, PlaceArithmetic, Zenon
        <5> QED BY <1>2, <2>4, <3>3, <4>2, <5>1, <5>2
      <4> QED BY <4>3, <4>4, <4>5
    <3>7. CASE /\ Len(data) = 4 /\ data' = <<>> /\ gateway' \in {"poll", "scan"}
               /\ got' = [got EXCEPT ![cur] = Kept(@, data \o field)]
      <4> DEFINE m == data \o field
      <4>0. m \in Seq(Halves) \cup {JUNK}
        BY <1>3
      <4>1. got'[cur] = Append(got[cur], m)
        BY <1>0, <2>4, <3>7 DEF FInv, Counters, Kept
      <4>2. m = [j \in 1 .. 6 |-> Place(l + 1, j)]
        <5>1. m = [j \in 1 .. 6 |-> 6 * l + j]
          BY <1>3, <3>5, <3>7
        <5>2. \A j \in 1 .. 6 : Place(l + 1, j) = 6 * l + j
          BY <1>2, <3>0 DEF Place
        <5> QED BY <5>1, <5>2
      <4> HIDE DEF m, l
      <4>3. /\ Append(got[cur], m) \in Seq(Seq(Halves) \cup {JUNK})
            /\ Len(Append(got[cur], m)) = l + 1
        BY <3>0, <4>0 DEF l
      <4>4. \A i \in 1 .. l + 1 :
              Append(got[cur], m)[i] = [j \in 1 .. 6 |-> Place(i, j)]
        <5> SUFFICES ASSUME NEW i \in 1 .. l + 1
                     PROVE Append(got[cur], m)[i] = [j \in 1 .. 6 |-> Place(i, j)]
          OBVIOUS
        <5>1. CASE i = l + 1
          BY <3>0, <4>0, <4>2, <5>1 DEF l
        <5>2. CASE i # l + 1
          <6>1. i \in 1 .. l
            BY <3>0, <5>2
          <6>2. Append(got[cur], m)[i] = got[cur][i]
            BY <3>0, <4>0, <6>1 DEF l
          <6> QED BY SMTT(30), <1>2, <2>2, <2>4, <6>1, <6>2 DEF Exactly, l
        <5> QED BY <5>1, <5>2
      <4>5. got'[n] = Exactly(n)'
        <5> DEFINE t == [i \in 1 .. l + 1 |-> [j \in 1 .. 6 |-> Place(i, j)]]
        <5>1. Append(got[cur], m) = t
          <6>1. t = [i \in 1 .. l + 1 |-> t[i]]
            OBVIOUS
          <6>2. \A i \in 1 .. l + 1 : Append(got[cur], m)[i] = t[i]
            BY <4>4
          <6>3. l + 1 \in Nat
            BY <3>0
          <6> HIDE DEF t
          <6> QED BY <4>3, <6>1, <6>2, <6>3, SameSequence
        <5> QED BY <1>2, <2>4, <4>1, <4>3, <5>1 DEF Exactly
      <4>6. Len(data') = 0 /\ data' = <<>>
        BY <3>7
      <4>7. Partial(n)' = 0 /\ data' = Fields(n)'
        BY <4>6 DEF Partial, Fields
      <4>8. taken'[n] = MEASUREMENT * Len(got'[n]) + Partial(n)'
        <5>1. Len(got'[n]) = l + 1
          BY <2>4, <4>1, <4>3
        <5>2. taken'[cur] = 6 * l + 4 + 2
          BY <3>3, <3>7 DEF l
        <5>3. MEASUREMENT * (l + 1) + 0 = 6 * l + 4 + 2
          BY <1>2, <3>0
        <5> QED BY <2>4, <4>7, <5>1, <5>2, <5>3
      <4> QED BY <4>5, <4>7, <4>8
    <3> QED BY <1>4, <3>6, <3>7
  <2> QED BY <2>3, <2>4
<1> QED BY <1>5, <1>6, <1>7 DEF FInv

LEMMA NodeStepFInv ==
  ASSUME FInv, NEW n \in Nodes, NodeStep(n)
  PROVE FInv'
<1>1. UNCHANGED <<taken, data, got, whole, cur, gateway>>
  BY DEF NodeStep, NodeConnects, NodeOpenFails, NodeSends, NodeEnds, Arrive, Reset, reading, stream
<1>0. sent \in [Nodes -> Nat] /\ arrived \in [Nodes -> Nat]
  BY DEF FInv, Counters
<1>2. sent' \in [Nodes -> Nat]
  <2>1. CASE NodeSends(n)
    BY <1>0, <2>1 DEF NodeSends, HALVES
  <2>2. CASE UNCHANGED sent
    BY <1>0, <2>2
  <2> QED BY <2>1, <2>2 DEF NodeStep, NodeConnects, NodeOpenFails, NodeEnds, Arrive, Reset, stream
<1>3. arrived' \in [Nodes -> Nat]
  <2>1. CASE Arrive(n)
    <3>1. PICK k \in arrived[n] + 1 .. sent[n] : arrived' = [arrived EXCEPT ![n] = k]
      BY <2>1 DEF Arrive
    <3>2. k \in Nat
      BY <1>0, <3>1
    <3> QED BY <1>0, <3>1, <3>2
  <2>2. CASE UNCHANGED arrived
    BY <1>0, <2>2
  <2> QED BY <2>1, <2>2 DEF NodeStep, NodeConnects, NodeOpenFails, NodeSends, NodeEnds, Reset,
                            stream
<1>4. backlog' \in Seq(Nodes)
  <2>1. backlog \in Seq(Nodes)
    BY DEF FInv, Counters
  <2>2. backlog' = backlog \/ backlog' = Append(backlog, n)
    BY DEF NodeStep, NodeConnects, NodeOpenFails, NodeSends, NodeEnds, Arrive, Reset
  <2> QED BY <2>1, <2>2
<1>5. cur' \in Nodes \cup {SERVER} /\ (gateway = "read" => cur \in Nodes)
  BY <1>1 DEF FInv, Counters, Between
<1> QED BY <1>1, <1>2, <1>3, <1>4, <1>5, NothingReceived

LEMMA GatewayStepFInv ==
  ASSUME FInv, GatewayStep
  PROVE FInv'
<1> DEFINE Quiet == UNCHANGED <<stream, data, got, whole>>
<1>0. /\ sent \in [Nodes -> Nat] /\ arrived \in [Nodes -> Nat]
      /\ backlog \in Seq(Nodes) /\ cur \in Nodes \cup {SERVER}
      /\ gateway = "read" => cur \in Nodes
  BY DEF FInv, Counters, Between
<1>h. backlog # <<>> => Head(backlog) \in Nodes /\ Tail(backlog) \in Seq(Nodes)
  BY <1>0
<1>1. CASE GatewayOpens \/ GatewayOpenFails
  BY <1>0, <1>1, NothingReceived DEF GatewayOpens, GatewayOpenFails, stream
<1>2. CASE AcceptClient \/ AcceptFails
  <2>1. /\ Quiet /\ gateway \in {"poll", "scan"} /\ backlog' \in Seq(Nodes)
        /\ cur' \in Nodes /\ gateway' \in {"read", "failed"}
    BY <1>0, <1>h, <1>2 DEF AcceptClient, AcceptFails, Reaches
  <2> QED BY <1>0, <2>1, NothingReceived DEF stream
<1>3. ASSUME NEW n \in Nodes, ReadKnown(n) PROVE FInv'
  BY <1>0, <1>3, NothingReceived DEF ReadKnown, Reaches, stream
<1>4. ASSUME NEW n \in Nodes, CloseConnection(n) PROVE FInv'
  BY <1>0, <1>4, NothingReceived DEF CloseConnection, Reaches, stream, reading
<1>5. CASE Receive
  BY <1>5, ReceiveFInv
<1>6. CASE ReceiveFails
  BY <1>0, <1>6, NothingReceived DEF ReceiveFails, stream, reading
<1>7. CASE AssertFails \/ CompressOverflows \/ Exit
  <2>1. Quiet /\ cur' = cur /\ gateway' = "over" /\ backlog' = <<>>
    BY <1>7 DEF AssertFails, CompressOverflows, Exit, ProcessEnds, reading
  <2>2. backlog' \in Seq(Nodes)
    BY <2>1
  <2> QED BY <1>0, <2>1, <2>2, NothingReceived DEF stream
<1>8. CASE Timeout
  BY <1>0, <1>8, NothingReceived DEF Timeout, stream, reading
<1>9. CASE Poll
  BY <1>0, <1>9, NothingReceived DEF Poll, stream, reading
<1> QED BY <1>1, <1>2, <1>3, <1>4, <1>5, <1>6, <1>7, <1>8, <1>9 DEF GatewayStep

LEMMA NextFInv == FInv /\ [Next]_vars => FInv'
<1> SUFFICES ASSUME FInv, [Next]_vars PROVE FInv'
  OBVIOUS
<1>1. CASE \E n \in Nodes : NodeStep(n)
  BY <1>1, NodeStepFInv
<1>2. CASE GatewayStep
  BY <1>2, GatewayStepFInv
<1>3. CASE Finished \/ UNCHANGED vars
  <2>1. UNCHANGED <<taken, data, got, whole, sent, arrived, backlog, cur, gateway>>
    BY <1>3 DEF Finished, vars, stream, reading
  <2> QED BY <2>1, NothingReceived DEF FInv, Counters, Between
<1> QED BY <1>1, <1>2, <1>3 DEF Next

\* read_data (connmgr.c:50): however the streams are cut into segments, interleaved,
\* ended or reset, the measurements of a node whose receives were all whole are the
\* ones it sent, each once and in order.
THEOREM MeasurementsFramed == Spec => []FramedIfWhole
<1>1. FInv => FramedIfWhole
  BY DEF FInv, Framed, Exactly, FramedIfWhole
<1> QED BY <1>1, InitFInv, NextFInv, PTL DEF Spec
-------------------------------------------------------------------------------
\* What comes before a receive that fails.  A field is sent as a whole, and taken at
\* most as far as it has arrived.
Sizes ==
  /\ handles \subseteq Nodes \cup {SERVER} /\ structs \subseteq Nodes \cup {SERVER}
  /\ strings \subseteq Nodes /\ open \subseteq Nodes \cup {SERVER}
  /\ \A n \in Nodes : /\ sent[n] \in 0 .. Loops[n] * MEASUREMENT /\ sent[n] % 2 = 0
                       /\ arrived[n] \in 0 .. sent[n] /\ taken[n] \in 0 .. arrived[n]

\* A connection is accepted once, and nothing is taken of it before.
Waits(n) == taken[n] = 0 /\ n \notin handles
Queue ==
  /\ \A n \in Nodes : node[n] = "off" => Waits(n)
  /\ gateway \in {"start", "poll", "scan", "read"} =>
       /\ \A i \in 1 .. Len(backlog) : node[backlog[i]] # "off" /\ Waits(backlog[i])
       /\ \A i, j \in 1 .. Len(backlog) : backlog[i] = backlog[j] => i = j
  /\ gateway = "start" => handles = {}

\* A measurement of a connection that was accepted before is only begun when
\* something of it is there.
Begun == gateway = "read" =>
           /\ cur \in handles \cap Nodes
           /\ inStep /\ Len(data) = 0 => arrived[cur] > taken[cur] \/ taken[cur] = 0

Explained == gateway = "failed" /\ cur \in handles =>
               /\ cur \in Nodes /\ link[cur] \in {"fin", "reset"}
               /\ inStep /\ whole[cur] /\ link[cur] = "fin" =>
                    sent[cur] = 0 \/ sent[cur] % MEASUREMENT # 0

Stages == /\ gateway \in {"start", "poll", "scan", "read", "failed", "freed", "over"}
          /\ toRead \subseteq Nodes \cup {SERVER} /\ toClose \subseteq Nodes
          /\ accepts \in BOOLEAN /\ inStep \in BOOLEAN

\* What the scan is still to read was there when it began, and nothing else takes it;
\* out of step there are no rounds.
Rounds ==
  /\ gateway \in {"start", "poll"} \/ ~inStep => toRead = {} /\ toClose = {}
  /\ gateway \in {"scan", "read"} =>
       \A n \in toRead \cap Nodes : n \in handles /\ arrived[n] > taken[n]
  /\ gateway = "read" => cur \notin toRead

AInv == Stages /\ Sizes /\ Queue /\ Begun /\ Rounds /\ Explained

LEMMA InitAInv == Init => AInv
<1> SUFFICES ASSUME Init PROVE AInv
  OBVIOUS
<1>1. Sizes
  BY TcpSockAssumption DEF Init, Sizes, MEASUREMENT, HALVES
<1>2. Queue
  BY DEF Init, Queue, Waits
<1>3. Stages /\ Begun /\ Rounds /\ Explained
  BY DEF Init, Stages, Begun, Rounds, Explained
<1> QED BY <1>1, <1>2, <1>3 DEF AInv

\* A receive takes at most what is there.
LEMMA Taking ==
  ASSUME FInv, Receive
  PROVE /\ cur \in Nodes
        /\ \A n \in Nodes : n # cur => taken'[n] = taken[n]
        /\ taken'[cur] \in taken[cur] + 1 .. arrived[cur]
<1>1. /\ cur \in Nodes /\ taken \in [Nodes -> Nat] /\ arrived[cur] > taken[cur]
      /\ taken[cur] \in Nat /\ arrived[cur] \in Nat
  BY DEF FInv, Between, Counters, Receive
<1>2. PICK k \in Nat : /\ taken' = [taken EXCEPT ![cur] = @ + k]
                        /\ k >= 1 /\ k <= arrived[cur] - taken[cur]
  <2> DEFINE k == IF arrived[cur] - taken[cur] < HALVES
                    THEN arrived[cur] - taken[cur] ELSE HALVES
  <2>1. taken' = [taken EXCEPT ![cur] = @ + k]
    BY DEF Receive
  <2>2. k \in Nat /\ k >= 1 /\ k <= arrived[cur] - taken[cur]
    BY <1>1 DEF HALVES
  <2> HIDE DEF k
  <2> QED BY <2>1, <2>2
<1>3. taken'[cur] = taken[cur] + k /\ \A n \in Nodes : n # cur => taken'[n] = taken[n]
  BY <1>1, <1>2
<1> QED BY <1>1, <1>2, <1>3

LEMMA StagesKept ==
  ASSUME Stages, [Next]_vars PROVE Stages'
<1> USE DEF Stages
<1>1. CASE \E n \in Nodes : NodeStep(n)
  BY <1>1 DEF NodeStep, NodeConnects, NodeOpenFails, NodeSends, NodeEnds, Arrive, Reset, round
<1>2. CASE GatewayStep
  <2>1. CASE Poll
    BY <2>1, TcpSockAssumption DEF Poll, Conns
  <2>2. ASSUME NEW n \in Nodes, ReadKnown(n) \/ CloseConnection(n) PROVE Stages'
    BY <2>2 DEF ReadKnown, CloseConnection
  <2>3. CASE Receive
    BY <2>3 DEF Receive, Continues, round
  <2>4. CASE AcceptClient \/ AcceptFails
    BY <2>4 DEF AcceptClient, AcceptFails, round
  <2>5. CASE \/ GatewayOpens \/ GatewayOpenFails \/ ReceiveFails \/ CompressOverflows
             \/ AssertFails \/ Timeout \/ Exit
    BY <2>5 DEF GatewayOpens, GatewayOpenFails, ReceiveFails, CompressOverflows, AssertFails,
                Timeout, Exit, ProcessEnds, round
  <2> QED BY <1>2, <2>1, <2>2, <2>3, <2>4, <2>5 DEF GatewayStep
<1>3. CASE Finished \/ UNCHANGED vars
  BY <1>3 DEF Finished, vars, round
<1> QED BY <1>1, <1>2, <1>3 DEF Next

LEMMA WholeFields ==
  \A s, l \in Nat : s % 2 = 0 /\ s < l * 6 => s + 2 <= l * 6 /\ (s + 2) % 2 = 0
OBVIOUS

LEMMA SizesKept ==
  ASSUME IInv, FInv, AInv, [Next]_vars PROVE Sizes'
<1> USE DEF AInv, Sizes
<1>0. /\ sent \in [Nodes -> Nat] /\ arrived \in [Nodes -> Nat] /\ taken \in [Nodes -> Nat]
      /\ backlog \in Seq(Nodes) /\ Loops \in [Nodes -> Nat] /\ cur \in Nodes \cup {SERVER}
  BY TcpSockAssumption DEF FInv, Counters
<1>1. ASSUME UNCHANGED memory, UNCHANGED stream PROVE Sizes'
  BY <1>1 DEF memory, stream
<1>2. ASSUME NEW n \in Nodes, NodeStep(n) PROVE Sizes'
  <2>1. CASE NodeSends(n)
    <3>1. UNCHANGED <<memory, arrived, taken>>
      BY <2>1 DEF NodeSends, reading
    <3>2. /\ sent[n] + 2 \in 0 .. Loops[n] * MEASUREMENT /\ (sent[n] + 2) % 2 = 0
          /\ sent[n] \in Nat /\ sent[n] <= sent[n] + 2
      <4>1. MEASUREMENT = 6
        BY DEF MEASUREMENT, HALVES
      <4>2. sent[n] < Loops[n] * 6 /\ sent[n] % 2 = 0 /\ sent[n] \in Nat /\ Loops[n] \in Nat
        BY <1>0, <2>1, <4>1 DEF NodeSends
      <4>3. sent[n] + 2 <= Loops[n] * 6 /\ (sent[n] + 2) % 2 = 0
        BY <4>2, WholeFields
      <4> QED BY <4>1, <4>2, <4>3
    <3>3. sent' = [sent EXCEPT ![n] = @ + 2] \/ sent' = sent
      BY <2>1 DEF NodeSends, HALVES
    <3>4. \A m \in Nodes : /\ sent'[m] \in 0 .. Loops[m] * MEASUREMENT /\ sent'[m] % 2 = 0
                            /\ sent[m] <= sent'[m] /\ sent'[m] \in Nat
      <4> SUFFICES ASSUME NEW m \in Nodes
                   PROVE /\ sent'[m] \in 0 .. Loops[m] * MEASUREMENT /\ sent'[m] % 2 = 0
                         /\ sent[m] <= sent'[m] /\ sent'[m] \in Nat
        OBVIOUS
      <4>1. sent'[m] = sent[m] \/ (m = n /\ sent'[m] = sent[m] + 2)
        BY <1>0, <3>3
      <4>2. sent[m] \in Nat /\ sent[m] <= sent[m]
        BY <1>0
      <4>3. CASE sent'[m] = sent[m]
        BY <4>2, <4>3
      <4>4. CASE m = n /\ sent'[m] = sent[m] + 2
        BY <3>2, <4>4
      <4> QED BY <4>1, <4>3, <4>4
    <3> QED BY SMTT(30), <1>0, <3>1, <3>4 DEF memory
  <2>2. CASE Arrive(n)
    <3>1. PICK k \in arrived[n] + 1 .. sent[n] : arrived' = [arrived EXCEPT ![n] = k]
      BY <2>2 DEF Arrive
    <3>2. UNCHANGED <<memory, sent, taken>>
      BY <2>2 DEF Arrive, reading
    <3> QED BY <1>0, <3>1, <3>2 DEF memory
  <2>3. CASE NodeConnects(n) \/ NodeOpenFails(n) \/ NodeEnds(n) \/ Reset(n)
    BY <1>1, <2>3 DEF NodeConnects, NodeOpenFails, NodeEnds, Reset
  <2> QED BY <1>2, <2>1, <2>2, <2>3 DEF NodeStep
<1>3. CASE GatewayStep
  <2>1. CASE GatewayOpens \/ GatewayOpenFails
    BY <2>1 DEF GatewayOpens, GatewayOpenFails, Opens, OpenFails, stream
  <2>2. CASE AcceptClient \/ AcceptFails
    <3>1. cur' \in Nodes /\ UNCHANGED stream
      BY <1>0, <2>2 DEF AcceptClient, AcceptFails
    <3>2. Opens(cur') \/ OpenFails(cur')
      BY <2>2 DEF AcceptClient, AcceptFails
    <3> QED BY <3>1, <3>2, TcpSockAssumption DEF Opens, OpenFails, stream
  <2>3. ASSUME NEW n \in Nodes, ReadKnown(n) PROVE Sizes'
    BY <1>1, <2>3 DEF ReadKnown
  <2>4. ASSUME NEW n \in Nodes, CloseConnection(n) PROVE Sizes'
    BY <2>4 DEF CloseConnection, TcpClose, stream
  <2>5. CASE Receive
    <3>1. UNCHANGED <<memory, sent, arrived>>
      BY <2>5 DEF Receive
    <3>2. \A n \in Nodes : taken'[n] \in 0 .. arrived[n]
      <4> SUFFICES ASSUME NEW n \in Nodes PROVE taken'[n] \in 0 .. arrived[n]
        OBVIOUS
      <4>1. /\ \A m \in Nodes : m # cur => taken'[m] = taken[m]
            /\ taken'[cur] \in taken[cur] + 1 .. arrived[cur]
        BY <2>5, Taking
      <4>2. taken[n] \in Nat /\ arrived[n] \in Nat
        BY <1>0
      <4> QED BY <4>1, <4>2
    <3> QED BY <3>1, <3>2 DEF memory
  <2>6. CASE ReceiveFails
    BY <1>1, <2>6 DEF ReceiveFails
  <2>7. CASE AssertFails \/ CompressOverflows \/ Exit
    BY <2>7 DEF AssertFails, CompressOverflows, Exit, ProcessEnds, stream
  <2>8. CASE Timeout
    BY <2>8 DEF Timeout, stream
  <2>9. CASE Poll
    BY <1>1, <2>9 DEF Poll
  <2> QED BY <1>3, <2>1, <2>2, <2>3, <2>4, <2>5, <2>6, <2>7, <2>8, <2>9 DEF GatewayStep
<1>4. CASE Finished \/ UNCHANGED vars
  BY <1>1, <1>4 DEF Finished, vars
<1> QED BY <1>2, <1>3, <1>4 DEF Next

LEMMA QueueKept ==
  ASSUME IInv, FInv, AInv, [Next]_vars PROVE Queue'
<1> USE DEF AInv, Queue, Waits
<1>0. /\ taken \in [Nodes -> Nat] /\ node \in [Nodes -> {"off", "sending", "over"}]
      /\ backlog \in Seq(Nodes) /\ Len(backlog) \in Nat
      /\ \A i \in 1 .. Len(backlog) : backlog[i] \in Nodes
  BY DEF FInv, Counters, IInv, Linked
<1>1. ASSUME UNCHANGED <<node, taken, backlog>>, handles' \subseteq handles,
             \/ gateway' = gateway
             \/ gateway' \notin {"start", "poll", "scan", "read"}
             \/ /\ gateway' \in {"poll", "scan", "read"}
                /\ gateway \in {"poll", "scan", "read"}
      PROVE  Queue'
  BY <1>1
<1>2. ASSUME NEW n \in Nodes, NodeStep(n) PROVE Queue'
  <2>1. CASE NodeConnects(n)
    <3>1. /\ UNCHANGED <<gateway, handles, taken>> /\ node[n] = "off"
          /\ node' = [node EXCEPT ![n] = "sending"]
          /\ backlog' = Append(backlog, n)
      BY <2>1 DEF NodeConnects, memory, stream
    <3>2. /\ Len(backlog') = Len(backlog) + 1 /\ backlog'[Len(backlog) + 1] = n
          /\ \A i \in 1 .. Len(backlog) : backlog'[i] = backlog[i]
      BY <1>0, <3>1, AppendProperties
    <3>3. \A m \in Nodes : node'[m] = "off" => node[m] = "off"
      BY <1>0, <3>1
    <3>4. node'[n] # "off" /\ \A m \in Nodes : node[m] # "off" => node'[m] # "off"
      BY <1>0, <3>1
    <3>5. \A i \in 1 .. Len(backlog') : i \in 1 .. Len(backlog) \/ i = Len(backlog) + 1
      BY <1>0, <3>2
    <3>6. ASSUME gateway' \in {"start", "poll", "scan", "read"}
          PROVE /\ \A i \in 1 .. Len(backlog') : node'[backlog'[i]] # "off" /\ Waits(backlog'[i])
                /\ \A i, j \in 1 .. Len(backlog') : backlog'[i] = backlog'[j] => i = j
      <4>1. \A i \in 1 .. Len(backlog) : backlog[i] # n
        BY <3>1, <3>6
      <4> QED BY <1>0, <3>1, <3>2, <3>4, <3>5, <3>6, <4>1
    <3> QED BY <3>1, <3>3, <3>6
  <2>2. CASE NodeOpenFails(n) \/ NodeEnds(n)
    <3>1. /\ UNCHANGED <<gateway, handles, taken, backlog>>
          /\ node' = [node EXCEPT ![n] = "over"]
      BY <2>2 DEF NodeOpenFails, NodeEnds, memory, stream
    <3>2. \A m \in Nodes : /\ node'[m] = "off" => node[m] = "off"
                           /\ node[m] # "off" => node'[m] # "off"
      BY <1>0, <3>1
    <3> QED BY <1>0, <3>1, <3>2
  <2>3. CASE NodeSends(n) \/ Arrive(n) \/ Reset(n)
    BY <1>1, <2>3 DEF NodeSends, Arrive, Reset, memory, stream
  <2> QED BY <1>2, <2>1, <2>2, <2>3 DEF NodeStep
<1>3. CASE GatewayStep
  <2>1. CASE GatewayOpens \/ GatewayOpenFails
    BY <1>0, <2>1, TcpSockAssumption
       DEF GatewayOpens, GatewayOpenFails, Opens, OpenFails, stream
  <2>2. CASE AcceptClient
    <3>1. /\ gateway \in {"poll", "scan"} /\ backlog # <<>> /\ cur' = Head(backlog)
          /\ backlog' = Tail(backlog) /\ gateway' = "read"
          /\ handles' = handles \cup {cur'} /\ UNCHANGED <<node, taken>>
      BY <2>2 DEF AcceptClient, Reaches, Opens, stream
    <3>2. /\ cur' = backlog[1] /\ 1 \in 1 .. Len(backlog)
          /\ Len(backlog') = Len(backlog) - 1
          /\ \A i \in 1 .. Len(backlog') : backlog'[i] = backlog[i + 1]
      BY <1>0, <3>1, HeadTailProperties
    <3>3. \A i \in 1 .. Len(backlog') : i + 1 \in 1 .. Len(backlog) /\ i + 1 # 1
      BY <1>0, <3>2
    <3>4. \A i \in 1 .. Len(backlog') : backlog'[i] # cur'
      BY <1>0, <3>1, <3>2, <3>3
    <3>5. \A i, j \in 1 .. Len(backlog') : i + 1 = j + 1 => i = j
      BY <1>0, <3>2
    <3>6. node[cur'] # "off"
      BY <3>1, <3>2
    <3> QED BY <1>0, <3>1, <3>2, <3>3, <3>4, <3>5, <3>6
  <2>3. CASE AcceptFails
    BY <2>3 DEF AcceptFails, OpenFails, stream
  <2>4. ASSUME NEW n \in Nodes, ReadKnown(n) PROVE Queue'
    BY <1>1, <2>4 DEF ReadKnown, Reaches, memory, stream
  <2>5. ASSUME NEW n \in Nodes, CloseConnection(n) PROVE Queue'
    BY <1>1, <2>5 DEF CloseConnection, Reaches, TcpClose, stream
  <2>6. CASE Receive
    <3>1. /\ cur \in handles /\ gateway = "read" /\ gateway' \in {"read", "poll", "scan"}
          /\ UNCHANGED <<node, backlog, handles>>
      BY <2>6 DEF Receive, Continues, memory, Begun
    <3>2. \A n \in Nodes : n # cur => taken'[n] = taken[n]
      BY <2>6, Taking
    <3> QED BY <1>0, <3>1, <3>2
  <2>7. CASE ReceiveFails
    BY <1>1, <2>7 DEF ReceiveFails, memory, stream
  <2>8. CASE AssertFails \/ CompressOverflows \/ Exit
    BY <2>8 DEF AssertFails, CompressOverflows, Exit, ProcessEnds, stream
  <2>9. CASE Timeout
    BY <2>9 DEF Timeout, stream
  <2>10. CASE Poll
    BY <1>1, <2>10 DEF Poll, memory, stream
  <2> QED BY <1>3, <2>1, <2>2, <2>3, <2>4, <2>5, <2>6, <2>7, <2>8, <2>9, <2>10 DEF GatewayStep
<1>4. CASE Finished \/ UNCHANGED vars
  BY <1>1, <1>4 DEF Finished, vars, memory, stream
<1> QED BY <1>2, <1>3, <1>4 DEF Next

LEMMA BegunKept ==
  ASSUME IInv, FInv, AInv, [Next]_vars PROVE Begun'
<1> USE DEF AInv, Begun
<1>0. /\ taken \in [Nodes -> Nat] /\ arrived \in [Nodes -> Nat] /\ sent \in [Nodes -> Nat]
      /\ backlog \in Seq(Nodes)
      /\ gateway \in {"start", "poll", "scan"} => data = <<>>
  BY DEF FInv, Counters, Between
<1>1. ASSUME UNCHANGED <<gateway, inStep, handles, cur, data, taken>>,
             arrived' \in [Nodes -> Nat], \A m \in Nodes : arrived[m] <= arrived'[m]
      PROVE  Begun'
  BY <1>0, <1>1
<1>2. ASSUME NEW n \in Nodes, NodeStep(n) PROVE Begun'
  <2>1. CASE Arrive(n)
    <3>1. PICK k \in arrived[n] + 1 .. sent[n] : arrived' = [arrived EXCEPT ![n] = k]
      BY <2>1 DEF Arrive
    <3>2. arrived' \in [Nodes -> Nat] /\ \A m \in Nodes : arrived[m] <= arrived'[m]
      BY <1>0, <3>1
    <3> QED BY <1>1, <2>1, <3>2 DEF Arrive, round, memory, reading
  <2>2. CASE ~Arrive(n)
    <3>1. UNCHANGED <<gateway, inStep, handles, cur, data, taken, arrived>>
      BY <1>2, <2>2 DEF NodeStep, NodeConnects, NodeOpenFails, NodeSends, NodeEnds, Reset,
                        round, memory, stream, reading
    <3> QED BY <1>0, <1>1, <3>1
  <2> QED BY <2>1, <2>2
<1>3. CASE GatewayStep
  <2>1. CASE AcceptClient
    <3>1. /\ gateway \in {"poll", "scan"} /\ backlog # <<>> /\ cur' = Head(backlog)
          /\ handles' = handles \cup {cur'} /\ UNCHANGED <<taken, arrived, data>>
      BY <2>1 DEF AcceptClient, Reaches, Opens, stream
    <3>2. cur' = backlog[1] /\ 1 \in 1 .. Len(backlog) /\ cur' \in Nodes
      BY <1>0, <3>1, HeadTailProperties
    <3>3. taken[cur'] = 0
      BY <3>1, <3>2 DEF Queue, Waits
    <3> QED BY <3>1, <3>2, <3>3
  <2>2. ASSUME NEW n \in Nodes, ReadKnown(n) PROVE Begun'
    <3>1. /\ cur' = n /\ n \in handles
          /\ UNCHANGED <<inStep, taken, arrived, data, handles>>
          /\ inStep => arrived[n] > taken[n]
      BY <2>2 DEF ReadKnown, Reaches, Conns, Rounds, memory, stream
    <3> QED BY <3>1
  <2>3. CASE Receive
    <3>1. UNCHANGED <<handles, cur, arrived>> /\ gateway = "read"
      BY <2>3 DEF Receive, memory
    <3>2. CASE gateway' \in {"poll", "scan"}
      BY <3>2
    <3>3. CASE gateway' \notin {"poll", "scan"}
      <4>1. PICK k \in 1 .. HALVES, field \in Seq(Halves) :
               Len(field) = HALVES /\ data' = data \o field
        <5>1. Receive
          BY <2>3
        <5>2. Continues => gateway' \in {"poll", "scan"}
          BY DEF Continues
        <5> QED BY <5>1, <5>2, <3>3, ReceiveEffect
      <4>2. data \in Seq(Halves)
        BY DEF FInv, Counters
      <4>3. Len(data') = Len(data) + 2 /\ Len(data) \in Nat
        <5>1. Len(data \o field) = Len(data) + Len(field)
          BY <4>2, ConcatProperties
        <5> QED BY <4>1, <4>2, <5>1 DEF HALVES
      <4>4. Len(data') # 0
        BY <4>3
      <4> QED BY <3>1, <4>4
    <3> QED BY <3>2, <3>3
  <2>4. CASE \/ GatewayOpens \/ GatewayOpenFails \/ Poll \/ AcceptFails \/ ReceiveFails
             \/ CompressOverflows \/ AssertFails \/ Timeout \/ Exit
    BY <2>4 DEF GatewayOpens, GatewayOpenFails, Poll, AcceptFails, ReceiveFails,
                CompressOverflows, AssertFails, Timeout, Exit, ProcessEnds
  <2>5. ASSUME NEW n \in Nodes, CloseConnection(n) PROVE Begun'
    BY <2>5 DEF CloseConnection
  <2> QED BY <1>3, <2>1, <2>2, <2>3, <2>4, <2>5 DEF GatewayStep
<1>4. CASE Finished \/ UNCHANGED vars
  <2>1. UNCHANGED <<gateway, inStep, handles, cur, data, taken, arrived>>
    BY <1>4 DEF Finished, vars, round, memory, stream, reading
  <2> QED BY <1>0, <1>1, <2>1
<1> QED BY <1>2, <1>3, <1>4 DEF Next

LEMMA RoundsKept ==
  ASSUME IInv, FInv, AInv, [Next]_vars PROVE Rounds'
<1> USE DEF AInv, Rounds
<1>0. /\ taken \in [Nodes -> Nat] /\ arrived \in [Nodes -> Nat] /\ sent \in [Nodes -> Nat]
      /\ backlog \in Seq(Nodes)
  BY DEF FInv, Counters
<1>1. ASSUME UNCHANGED <<gateway, round, handles, cur, taken>>,
             arrived' \in [Nodes -> Nat], \A m \in Nodes : arrived[m] <= arrived'[m]
      PROVE  Rounds'
  BY <1>0, <1>1 DEF round
<1>2. ASSUME NEW n \in Nodes, NodeStep(n) PROVE Rounds'
  <2>1. UNCHANGED <<gateway, round, handles, cur, taken>>
    BY <1>2 DEF NodeStep, NodeConnects, NodeOpenFails, NodeSends, NodeEnds, Arrive, Reset,
                memory, stream, reading
  <2>2. CASE Arrive(n)
    <3>1. PICK k \in arrived[n] + 1 .. sent[n] : arrived' = [arrived EXCEPT ![n] = k]
      BY <2>2 DEF Arrive
    <3>2. arrived' \in [Nodes -> Nat] /\ \A m \in Nodes : arrived[m] <= arrived'[m]
      BY <1>0, <3>1
    <3> QED BY <1>1, <2>1, <3>2
  <2>3. CASE ~Arrive(n)
    <3>1. UNCHANGED arrived
      BY <1>2, <2>3 DEF NodeStep, NodeConnects, NodeOpenFails, NodeSends, NodeEnds, Reset, stream
    <3> QED BY <1>0, <1>1, <2>1, <3>1
  <2> QED BY <2>2, <2>3
<1>3. CASE Poll
  BY <1>3, TcpSockAssumption DEF Poll, Conns, Readable, Reported, memory, stream
<1>4. CASE AcceptClient
  <2>1. /\ gateway \in {"poll", "scan"} /\ backlog # <<>> /\ cur' = Head(backlog)
        /\ handles \subseteq handles' /\ toRead' \subseteq toRead /\ gateway' = "read"
        /\ UNCHANGED <<inStep, toClose, taken, arrived>>
    BY <1>4 DEF AcceptClient, Reaches, Opens, stream
  <2>2. cur' = backlog[1] /\ 1 \in 1 .. Len(backlog) /\ cur' \in Nodes
    BY <1>0, <2>1, HeadTailProperties
  <2>3. cur' \notin handles
    BY <2>1, <2>2 DEF Queue, Waits
  <2>4. cur' \notin toRead
    BY <2>1, <2>2, <2>3
  <2> QED BY <2>1, <2>4
<1>5. ASSUME NEW n \in Nodes, ReadKnown(n) PROVE Rounds'
  BY <1>5 DEF ReadKnown, Reaches, memory, stream
<1>6. ASSUME NEW n \in Nodes, CloseConnection(n) PROVE Rounds'
  BY <1>6 DEF CloseConnection
<1>7. CASE Receive
  <2>1. /\ gateway = "read" /\ UNCHANGED <<round, handles, cur, arrived>>
        /\ gateway' = "read" \/ Continues
    BY <1>7 DEF Receive, memory
  <2>2. \A n \in Nodes : n # cur => taken'[n] = taken[n]
    BY <1>7, Taking
  <2>3. \A n \in toRead \cap Nodes : n \in handles /\ arrived'[n] > taken'[n]
    BY <2>1, <2>2
  <2> QED BY <2>1, <2>3 DEF Continues, round
<1>8. CASE \/ GatewayOpens \/ GatewayOpenFails \/ AcceptFails \/ ReceiveFails
           \/ CompressOverflows \/ AssertFails \/ Timeout \/ Exit
  BY <1>8 DEF GatewayOpens, GatewayOpenFails, AcceptFails, ReceiveFails, CompressOverflows,
              AssertFails, Timeout, Exit, ProcessEnds, round
<1>9. CASE Finished \/ UNCHANGED vars
  BY <1>0, <1>1, <1>9 DEF Finished, vars, memory, stream, reading
<1> QED BY <1>2, <1>3, <1>4, <1>5, <1>6, <1>7, <1>8, <1>9 DEF Next, GatewayStep

LEMMA ExplainedKept ==
  ASSUME IInv, FInv, AInv, [Next]_vars PROVE Explained'
<1> USE DEF AInv, Explained
<1>0. /\ taken \in [Nodes -> Nat] /\ arrived \in [Nodes -> Nat] /\ sent \in [Nodes -> Nat]
      /\ link \in [Nodes -> Links] /\ backlog \in Seq(Nodes)
  BY DEF FInv, Counters, IInv, Linked
<1>1. ASSUME UNCHANGED <<gateway, inStep, handles, cur, whole>>,
             \A m \in Nodes : link[m] = "fin" => sent'[m] = sent[m] /\ link'[m] \in {"fin", "reset"},
             \A m \in Nodes : link[m] = "reset" => link'[m] = "reset"
      PROVE  Explained'
  BY <1>1
<1>2. ASSUME NEW n \in Nodes, NodeStep(n) PROVE Explained'
  <2>1. UNCHANGED <<gateway, inStep, handles, cur, whole>>
    BY <1>2 DEF NodeStep, NodeConnects, NodeOpenFails, NodeSends, NodeEnds, Arrive, Reset,
                round, memory, reading
  <2>2. /\ \A m \in Nodes : link[m] = "fin" => sent'[m] = sent[m] /\ link'[m] \in {"fin", "reset"}
        /\ \A m \in Nodes : link[m] = "reset" => link'[m] = "reset"
    <3>1. CASE NodeConnects(n)
      BY <1>0, <3>1 DEF NodeConnects, stream, IInv, Linked
    <3>2. CASE NodeSends(n)
      BY <1>0, <3>2 DEF NodeSends
    <3>3. CASE NodeOpenFails(n) \/ Arrive(n)
      BY <3>3 DEF NodeOpenFails, Arrive, stream
    <3>4. CASE NodeEnds(n) \/ Reset(n)
      BY <1>0, <3>4 DEF NodeEnds, Reset, stream
    <3> QED BY <1>2, <3>1, <3>2, <3>3, <3>4 DEF NodeStep
  <2> QED BY <1>1, <2>1, <2>2
<1>3. CASE ReceiveFails
  <2>1. /\ gateway = "read" /\ cur \in Nodes /\ arrived[cur] = taken[cur]
        /\ link[cur] = "reset" \/ (link[cur] = "fin" /\ arrived[cur] = sent[cur])
        /\ UNCHANGED <<inStep, handles, cur, whole, link, sent>>
    BY <1>3 DEF ReceiveFails, EndOfStream, Ended, Begun, round, memory, reading, stream
  <2>2. ASSUME inStep, whole[cur], link[cur] = "fin"
        PROVE  sent[cur] = 0 \/ sent[cur] % MEASUREMENT # 0
    <3>0. MEASUREMENT = 6 /\ HALVES = 2
      BY DEF MEASUREMENT, HALVES
    <3>1. /\ sent[cur] = 6 * Len(got[cur]) + Len(data) /\ Len(got[cur]) \in Nat
          /\ Len(data) = 0 \/ Len(data) = 2 \/ Len(data) = 4
      <4>1. taken[cur] = MEASUREMENT * Len(got[cur]) + Partial(cur)
        BY <2>1, <2>2 DEF FInv, Framed
      <4>2. Len(data) \in {0, HALVES, 2 * HALVES}
        BY DEF FInv, Between
      <4>3. got[cur] \in Seq(Seq(Halves) \cup {JUNK})
        BY <2>1 DEF FInv, Counters
      <4>4. Len(got[cur]) \in Nat
        BY <4>3, LenProperties
      <4>5. sent[cur] = taken[cur]
        BY <2>1, <2>2
      <4> QED BY <3>0, <4>1, <4>2, <4>4, <4>5 DEF Partial
    <3>2. CASE Len(data) = 0
      BY <1>0, <2>1, <2>2, <3>2 DEF Begun
    <3>3. CASE Len(data) = 2 \/ Len(data) = 4
      <4>1. \A l \in Nat : (6 * l + 2) % 6 # 0 /\ (6 * l + 4) % 6 # 0
        OBVIOUS
      <4> QED BY <3>0, <3>1, <3>3, <4>1
    <3> QED BY <3>1, <3>2, <3>3
  <2> QED BY <2>1, <2>2
<1>4. CASE GatewayOpenFails
  BY <1>4 DEF GatewayOpenFails, OpenFails, Queue
<1>5. CASE AcceptFails
  <2>1. /\ gateway \in {"poll", "scan"} /\ backlog # <<>>
        /\ cur' = Head(backlog) /\ handles' = handles
    BY <1>5 DEF AcceptFails, Reaches, OpenFails
  <2>2. cur' = backlog[1] /\ 1 \in 1 .. Len(backlog)
    BY <1>0, <2>1, HeadTailProperties
  <2>3. cur' \notin handles
    BY <2>1, <2>2 DEF Queue, Waits
  <2> QED BY <2>1, <2>3
<1>6. CASE \/ GatewayOpens \/ Poll \/ AcceptClient \/ Receive \/ CompressOverflows
           \/ AssertFails \/ Timeout \/ Exit
  BY <1>6 DEF GatewayOpens, Poll, AcceptClient, Receive, Continues, CompressOverflows,
              AssertFails, Timeout, Exit, ProcessEnds
<1>7. ASSUME NEW n \in Nodes, ReadKnown(n) \/ CloseConnection(n) PROVE Explained'
  BY <1>7 DEF ReadKnown, CloseConnection
<1>8. CASE Finished \/ UNCHANGED vars
  BY <1>8 DEF Finished, vars, round, memory, stream, reading
<1> QED BY <1>2, <1>3, <1>4, <1>5, <1>6, <1>7, <1>8 DEF Next, GatewayStep

LEMMA AInvInvariant == Spec => []AInv
<1>1. IInv /\ FInv /\ AInv /\ [Next]_vars => AInv'
  BY StagesKept, SizesKept, QueueKept, BegunKept, RoundsKept, ExplainedKept
     DEF AInv
<1> QED BY <1>1, InitIInv, NextIInv, InitFInv, NextFInv, InitAInv, PTL DEF Spec

\* connmgr.c:187: as long as the list is in step with fds, the assertion on a receive is
\* reached by a connection that was reset, or that ended before or within a measurement,
\* never by a node that has finished, unless a receive of it was cut short; and every
\* variable keeps its type.  Out of step a finished node can reach it, through the index
\* of another one (connmgr.c:74).
THEOREM AbortsAreExplained == Spec => []AbortsExplained
<1>1. IInv /\ FInv /\ AInv => AbortsExplained
  <2> SUFFICES ASSUME IInv, FInv, AInv PROVE AbortsExplained
    OBVIOUS
  <2>1. TypeOK
    BY DEF IInv, Linked, Links, FInv, Counters, AInv, Stages, Sizes, TypeOK
  <2> QED BY <2>1 DEF AInv, Explained, AbortsExplained
<1> QED BY <1>1, InitIInv, NextIInv, InitFInv, NextFInv, AInvInvariant, PTL DEF Spec
===============================================================================
