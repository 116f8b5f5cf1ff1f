------------------------------- MODULE SBuffer --------------------------------
(***************************************************************************)
(* The shared buffer of the gateway (src/final/sbuffer.c), one step per    *)
(* call: main.c makes every call while it holds the mutex.  The linked     *)
(* list is a sequence of nodes; the READERS flags of a node are the set of *)
(* readers whose flag is 1.  SBufferHeap keeps the pointers and the steps  *)
(* inside a call, and implements this module.                              *)
(***************************************************************************)
EXTENDS Naturals, Sequences, FiniteSets

CONSTANTS Readers,      \* the ids 0 .. READERS-1 (config.h)
          Data,         \* the measurements
          MaxInserts    \* bound on the calls of sbuffer_insert that succeed

ASSUME SBufferAssumption == /\ Readers # {}
                            /\ IsFiniteSet(Readers)
                            /\ MaxInserts \in Nat

VARIABLES status,       \* of the buffer pointer: "null" before sbuffer_init,
                        \* "live", "freed" (NULL again) after sbuffer_free
          nodes,        \* the list from head to tail
          ret,          \* ret[r]: what the last sbuffer_remove of r returned
          inserted,     \* history: every measurement inserted
          got           \* history: got[r], every measurement handed to r

vars == <<status, nodes, ret, inserted, got>>

Node == [data : Data, seen : SUBSET Readers]
Returns == {"none", "SUCCESS", "NO_DATA", "FAILURE"}

\* Fault: the walk only looks at the head.
HeadAnyway(q, r, i) == i = 1 /\ Len(q) > 0

\* The first node, from the head, that r has not read (the loop of sbuffer_remove).
FirstUnread(q, r, i) == /\ i \in 1 .. Len(q)
                        /\ r \notin q[i].seen
                        /\ \A j \in 1 .. i - 1 : r \in q[j].seen

\* Fault: NO_DATA as soon as the head was read.
HeadRead(q, r) == Len(q) > 0 => r \in q[1].seen

AllRead(q, r) == \A i \in 1 .. Len(q) : r \in q[i].seen

\* Faults: the head goes whoever has read it, and it never goes.
ReclaimAlways(q, r, i) == IF i = 1 THEN Tail(q)
                                   ELSE [q EXCEPT ![i].seen = @ \cup {r}]
ReclaimNever(q, r, i) == [q EXCEPT ![i].seen = @ \cup {r}]

\* The list after r marks node i: a head that every reader has marked is unlinked.
MarkAndReclaim(q, r, i) ==
  IF i = 1 /\ q[1].seen \cup {r} = Readers
    THEN Tail(q)
    ELSE [q EXCEPT ![i].seen = @ \cup {r}]

Init == /\ status = "null"
        /\ nodes = <<>>
        /\ ret = [r \in Readers |-> "none"]
        /\ inserted = <<>>
        /\ got = [r \in Readers |-> <<>>]

\* sbuffer_init; when malloc fails main aborts and nothing else happens.
BufferInit == /\ status = "null"
              /\ status' = "live"
              /\ UNCHANGED <<nodes, ret, inserted, got>>

\* Faults: the data is not copied, and the node goes in at the head.
InsertNoData(d) == /\ status = "live"
                   /\ Len(inserted) < MaxInserts
                   /\ nodes' = Append(nodes, [data |-> "garbage", seen |-> {}])
                   /\ inserted' = Append(inserted, d)
                   /\ UNCHANGED <<status, ret, got>>
InsertAtHead(d) == /\ status = "live"
                   /\ Len(inserted) < MaxInserts
                   /\ nodes' = <<[data |-> d, seen |-> {}]>> \o nodes
                   /\ inserted' = Append(inserted, d)
                   /\ UNCHANGED <<status, ret, got>>

\* sbuffer_insert that finds memory for the node; when malloc fails, or the
\* buffer is NULL, it returns SBUFFER_FAILURE and changes nothing.
Insert(d) == /\ status = "live"
             /\ Len(inserted) < MaxInserts
             /\ nodes' = Append(nodes, [data |-> d, seen |-> {}])
             /\ inserted' = Append(inserted, d)
             /\ UNCHANGED <<status, ret, got>>

\* sbuffer_remove of reader r, one action for each way it returns.
RemoveSuccess(r) ==
  /\ status = "live"
  /\ \E i \in 1 .. Len(nodes) :
        /\ FirstUnread(nodes, r, i)
        /\ nodes' = MarkAndReclaim(nodes, r, i)
        /\ got' = [got EXCEPT ![r] = Append(@, nodes[i].data)]
  /\ ret' = [ret EXCEPT ![r] = "SUCCESS"]
  /\ UNCHANGED <<status, inserted>>

RemoveNoData(r) == /\ status = "live"
                   /\ AllRead(nodes, r)
                   /\ ret' = [ret EXCEPT ![r] = "NO_DATA"]
                   /\ UNCHANGED <<status, nodes, inserted, got>>

RemoveNull(r) == /\ status # "live"
                 /\ ret' = [ret EXCEPT ![r] = "FAILURE"]
                 /\ UNCHANGED <<status, nodes, inserted, got>>

Remove(r) == RemoveSuccess(r) \/ RemoveNoData(r) \/ RemoveNull(r)

\* sbuffer_free: the loop frees every node, then the buffer itself.
Free == /\ status = "live"
        /\ status' = "freed"
        /\ nodes' = <<>>
        /\ UNCHANGED <<ret, inserted, got>>

Next == \/ BufferInit
        \/ \E d \in Data : Insert(d)
        \/ \E r \in Readers : Remove(r)
        \/ Free

Spec == Init /\ [][Next]_vars
-------------------------------------------------------------------------------
TypeOK == /\ status \in {"null", "live", "freed"}
          /\ nodes \in Seq(Node)
          /\ ret \in [Readers -> Returns]
          /\ inserted \in Seq(Data)
          /\ got \in [Readers -> Seq(Data)]

\* The number of inserted items that were unlinked already.
Base == Len(inserted) - Len(nodes)

\* In order, exactly once: whatever the speeds of the readers, what a reader
\* has been handed is an initial part of what was inserted.
InOrderOnce == \A r \in Readers :
                 /\ Len(got[r]) <= Len(inserted)
                 /\ \A k \in 1 .. Len(got[r]) : got[r][k] = inserted[k]

\* Nothing a reader still has to be handed was unlinked: every reader has what is
\* gone, the nodes are the items after that, and a flag is set exactly on those its
\* reader was handed.
NothingLost ==
  status = "live" =>
    /\ \A r \in Readers : Base <= Len(got[r])
    /\ \A i \in 1 .. Len(nodes) :
         /\ nodes[i].data = inserted[Base + i]
         /\ \A r \in Readers : r \in nodes[i].seen <=> Base + i <= Len(got[r])

\* The memory of an item goes back as soon as its last reader has it, although
\* sbuffer_remove only ever looks at the head: no node is read by everyone.
Reclaimed == /\ \A i \in 1 .. Len(nodes) : nodes[i].seen # Readers
             /\ status = "live" =>
                  \E r \in Readers : Len(got[r]) = Base

\* NO_DATA is the truth at the moment it is returned: the reader has everything
\* that was inserted (main.c:62-65 ends the thread on the strength of it).
NoDataMeansCaughtUp ==
  [][\A r \in Readers :
        ret'[r] = "NO_DATA" /\ ret[r] # "NO_DATA" => got[r] = inserted]_vars

\* The promise of the buffer, with the history variables as the mapping.
Log == INSTANCE BroadcastLog WITH log <- inserted, delivered <- got
ImplementsLog == Log!Spec
===============================================================================
