---------------------------- MODULE SBufferProofs -----------------------------
(***************************************************************************)
(* Proofs about SBuffer for any finite set of readers, any measurements    *)
(* and any number of insertions.                                           *)
(*                                                                         *)
(* The invariants a reader of sbuffer.h cares about (InOrderOnce,          *)
(* NothingLost, Reclaimed) are not inductive one by one: that a removal    *)
(* hands out the next item needs the flags to agree with the counts, and   *)
(* that the head may be unlinked needs some reader to stand exactly at it. *)
(* IInv is their conjunction with the type invariant, with the bounds of   *)
(* the counts, and with what holds before sbuffer_init.                    *)
(***************************************************************************)
EXTENDS SBuffer, SequenceTheorems, TLAPS

Counts == /\ Len(nodes) <= Len(inserted)
          /\ \A r \in Readers : Base <= Len(got[r])

Flags == \A i \in 1 .. Len(nodes) :
           /\ nodes[i].data = inserted[Base + i]
           /\ \A r \in Readers : r \in nodes[i].seen <=> Base + i <= Len(got[r])

Slowest == \E r \in Readers : Len(got[r]) = Base

LiveInv == Counts /\ Flags /\ Slowest

IInv == /\ TypeOK
        /\ InOrderOnce
        /\ status = "live" => LiveInv
        /\ status = "null" => /\ nodes = <<>>
                              /\ inserted = <<>>
                              /\ got = [r \in Readers |-> <<>>]
        /\ status = "freed" => nodes = <<>>

-------------------------------------------------------------------------------
(* The reader's next node is the one its count points at: the flags a      *)
(* reader leaves behind form an initial part of the list, so the walk of   *)
(* sbuffer_remove from the head stops exactly at the next item.            *)
LEMMA NextNode ==
  ASSUME TypeOK, LiveInv, NEW r \in Readers, NEW i \in 1 .. Len(nodes),
         FirstUnread(nodes, r, i)
  PROVE  Len(got[r]) = Base + i - 1
<1>1. Len(nodes) \in Nat /\ Len(inserted) \in Nat /\ Len(got[r]) \in Nat
  BY DEF TypeOK
<1>2. Base \in Int /\ Base <= Len(got[r])
  BY <1>1 DEF LiveInv, Counts, Base
<1>3. ~(Base + i <= Len(got[r]))
  BY DEF FirstUnread, LiveInv, Flags
<1>4. CASE i = 1
  BY <1>1, <1>2, <1>3, <1>4
<1>5. CASE i # 1
  <2>1. i - 1 \in 1 .. Len(nodes) /\ i - 1 \in 1 .. i - 1
    BY <1>1, <1>5
  <2>2. r \in nodes[i - 1].seen
    BY <2>1 DEF FirstUnread
  <2>3. Base + (i - 1) <= Len(got[r])
    BY <2>1, <2>2 DEF LiveInv, Flags
  <2> QED
    BY <2>3, <1>1, <1>2, <1>3
<1> QED
  BY <1>4, <1>5

(* A reader that finds every node marked has been handed everything.       *)
LEMMA CaughtUp ==
  ASSUME TypeOK, InOrderOnce, LiveInv, NEW r \in Readers, AllRead(nodes, r)
  PROVE  got[r] = inserted
<1>1. /\ Len(nodes) \in Nat /\ Len(inserted) \in Nat /\ Len(got[r]) \in Nat
      /\ inserted \in Seq(Data) /\ got[r] \in Seq(Data)
  BY DEF TypeOK
<1>2. Len(got[r]) <= Len(inserted) /\ Base \in Int /\ Base <= Len(got[r])
  BY <1>1 DEF InOrderOnce, LiveInv, Counts, Base
<1>3. Len(got[r]) = Len(inserted)
  <2>1. CASE Len(nodes) = 0
    BY <2>1, <1>1, <1>2 DEF Base
  <2>2. CASE Len(nodes) # 0
    <3>1. Len(nodes) \in 1 .. Len(nodes)
      BY <2>2, <1>1
    <3>2. Base + Len(nodes) <= Len(got[r])
      BY <3>1 DEF AllRead, LiveInv, Flags
    <3> QED
      BY <3>2, <1>1, <1>2 DEF Base
  <2> QED
    BY <2>1, <2>2
<1>4. \A k \in 1 .. Len(got[r]) : got[r][k] = inserted[k]
  BY DEF InOrderOnce
<1> QED
  BY <1>1, <1>3, <1>4, SeqEqual

-------------------------------------------------------------------------------
(* Type correctness: the nodes and the histories stay sequences of         *)
(* measurements through every call of sbuffer.c.                           *)
THEOREM TypeCorrect == Spec => []TypeOK
<1>1. Init => TypeOK
  BY DEF Init, TypeOK, Returns
<1>2. TypeOK /\ [Next]_vars => TypeOK'
  <2> SUFFICES ASSUME TypeOK, [Next]_vars
               PROVE  TypeOK'
    OBVIOUS
  <2> USE DEF TypeOK, Returns
  <2>1. CASE BufferInit
    BY <2>1 DEF BufferInit
  <2>2. ASSUME NEW d \in Data, Insert(d)
        PROVE  TypeOK'
    <3>1. [data |-> d, seen |-> {}] \in Node
      BY DEF Node
    <3> QED
      BY <2>2, <3>1 DEF Insert
  <2>3. ASSUME NEW r \in Readers, RemoveSuccess(r)
        PROVE  TypeOK'
    <3>1. PICK i \in 1 .. Len(nodes) :
             /\ nodes' = MarkAndReclaim(nodes, r, i)
             /\ got' = [got EXCEPT ![r] = Append(@, nodes[i].data)]
      BY <2>3 DEF RemoveSuccess
    <3>2. nodes[i] \in Node /\ nodes[i].data \in Data
      <4>1. nodes[i] \in Node
        BY <3>1, ElementOfSeq
      <4> QED
        BY <4>1 DEF Node
    <3>3. [nodes[i] EXCEPT !.seen = @ \cup {r}] \in Node
      BY <3>2 DEF Node
    <3>4. Tail(nodes) \in Seq(Node)
      BY <3>1
    <3>5. [nodes EXCEPT ![i].seen = @ \cup {r}] \in Seq(Node)
      BY <3>2, <3>3
    <3>6. nodes' \in Seq(Node)
      BY <3>1, <3>4, <3>5 DEF MarkAndReclaim
    <3>7. got' \in [Readers -> Seq(Data)]
      BY <3>1, <3>2
    <3> QED
      BY <2>3, <3>6, <3>7 DEF RemoveSuccess
  <2>4. ASSUME NEW r \in Readers, RemoveNoData(r) \/ RemoveNull(r)
        PROVE  TypeOK'
    BY <2>4 DEF RemoveNoData, RemoveNull
  <2>5. CASE Free
    BY <2>5 DEF Free
  <2>6. CASE UNCHANGED vars
    BY <2>6 DEF vars
  <2> QED
    BY <2>1, <2>2, <2>3, <2>4, <2>5, <2>6 DEF Next, Remove
<1> QED
  BY <1>1, <1>2, PTL DEF Spec
-------------------------------------------------------------------------------
(* What marking node i does to a list, when the head is not unlinked.      *)
LEMMA MarkOnly ==
  ASSUME NEW q \in Seq(Node), NEW r \in Readers, NEW i \in 1 .. Len(q),
         NEW new, new = [q EXCEPT ![i].seen = @ \cup {r}]
  PROVE  /\ Len(new) = Len(q)
         /\ \A j \in 1 .. Len(q) :
              /\ new[j].data = q[j].data
              /\ \A s \in Readers :
                    s \in new[j].seen <=> s \in q[j].seen \/ (j = i /\ s = r)
<1>1. \A j \in 1 .. Len(q) : q[j] \in Node
  BY ElementOfSeq
<1>2. q \in [1 .. Len(q) -> Node] /\ Len(q) \in Nat
  BY LenProperties
<1>3. Len(new) = Len(q)
  BY <1>1
<1>4. ASSUME NEW j \in 1 .. Len(q)
      PROVE  /\ new[j].data = q[j].data
             /\ \A s \in Readers :
                  s \in new[j].seen <=> s \in q[j].seen \/ (j = i /\ s = r)
  <2>1. CASE j = i
    <3>1. new[j] = [q[i] EXCEPT !.seen = @ \cup {r}]
      BY <1>2, <2>1
    <3>2. new[j].data = q[i].data /\ new[j].seen = q[i].seen \cup {r}
      BY <3>1, <1>1 DEF Node
    <3> QED
      BY <3>2, <2>1
  <2>2. CASE j # i
    <3>1. new[j] = q[j]
      BY <1>2, <2>2
    <3> QED
      BY <3>1, <2>2
  <2> QED
    BY <2>1, <2>2
<1> QED
  BY <1>3, <1>4

(* A successful removal hands r the next item of the history and keeps     *)
(* everything the other readers still need.                                *)
LEMMA RemovePreserves ==
  ASSUME IInv, TypeOK', NEW r \in Readers, RemoveSuccess(r)
  PROVE  InOrderOnce' /\ LiveInv'
<1>1. status = "live" /\ status' = "live" /\ inserted' = inserted
  BY DEF RemoveSuccess
<1>2. TypeOK /\ InOrderOnce /\ LiveInv
  BY <1>1 DEF IInv
<1>3. PICK i \in 1 .. Len(nodes) :
         /\ FirstUnread(nodes, r, i)
         /\ nodes' = MarkAndReclaim(nodes, r, i)
         /\ got' = [got EXCEPT ![r] = Append(@, nodes[i].data)]
  BY DEF RemoveSuccess
<1>4. /\ Len(nodes) \in Nat /\ Len(inserted) \in Nat
      /\ \A s \in Readers : Len(got[s]) \in Nat /\ got[s] \in Seq(Data)
      /\ Base \in Nat /\ Len(nodes) <= Len(inserted)
  BY <1>2 DEF TypeOK, LiveInv, Counts, Base
<1>5. Len(got[r]) = Base + i - 1
  BY <1>2, <1>3, NextNode
<1>6. /\ nodes[i].data = inserted[Len(got[r]) + 1]
      /\ nodes[i].data \in Data
      /\ Len(got[r]) + 1 <= Len(inserted)
  <2>1. nodes[i].data = inserted[Base + i]
    BY <1>2 DEF LiveInv, Flags
  <2>2. Base + i = Len(got[r]) + 1 /\ Base + i <= Len(inserted) /\ Base + i >= 1
    BY <1>4, <1>5 DEF Base
  <2>3. inserted[Base + i] \in Data
    BY <1>4, <2>2, <1>2, ElementOfSeq DEF TypeOK
  <2> QED
    BY <2>1, <2>2, <2>3
<1>7. /\ Len(got'[r]) = Len(got[r]) + 1
      /\ \A k \in 1 .. Len(got[r]) : got'[r][k] = got[r][k]
      /\ got'[r][Len(got[r]) + 1] = inserted[Len(got[r]) + 1]
      /\ \A s \in Readers : s # r => got'[s] = got[s]
  <2>1. got'[r] = Append(got[r], nodes[i].data)
    BY <1>2, <1>3 DEF TypeOK
  <2> QED
    BY <2>1, <1>2, <1>3, <1>4, <1>6, AppendProperties DEF TypeOK
<1>8. InOrderOnce'
  <2> SUFFICES ASSUME NEW s \in Readers
               PROVE  /\ Len(got'[s]) <= Len(inserted)
                      /\ \A k \in 1 .. Len(got'[s]) : got'[s][k] = inserted[k]
    BY <1>1 DEF InOrderOnce
  <2>1. CASE s = r
    BY <2>1, <1>2, <1>4, <1>6, <1>7 DEF InOrderOnce
  <2>2. CASE s # r
    BY <2>2, <1>2, <1>7 DEF InOrderOnce
  <2> QED
    BY <2>1, <2>2
<1>9. \A s \in Readers : \A n \in Nat :
         n <= Len(got'[s]) <=> n <= Len(got[s]) \/ (s = r /\ n = Base + i)
  BY <1>4, <1>5, <1>7
<1>10. CASE i = 1 /\ nodes[1].seen \cup {r} = Readers
  <2>1. nodes' = Tail(nodes) /\ nodes # <<>>
    BY <1>3, <1>10, <1>4 DEF MarkAndReclaim
  <2>2. /\ Len(nodes') = Len(nodes) - 1
        /\ \A j \in 1 .. Len(nodes') : nodes'[j] = nodes[j + 1]
    BY <2>1, <1>2, HeadTailProperties DEF TypeOK
  <2>3. Base' = Base + 1
    BY <2>2, <1>1, <1>4 DEF Base
  <2>4. Counts'
    <3>1. ASSUME NEW s \in Readers
          PROVE  Base + 1 <= Len(got'[s])
      <4>1. CASE s = r
        BY <4>1, <1>4, <1>5, <1>7, <1>10
      <4>2. CASE s # r
        <5>1. s \in nodes[1].seen
          BY <4>2, <1>10
        <5> QED
          BY <5>1, <4>2, <1>2, <1>3, <1>7, <1>10 DEF LiveInv, Flags
      <4> QED
        BY <4>1, <4>2
    <3> QED
      BY <3>1, <2>2, <2>3, <1>1, <1>4 DEF Counts
  <2>5. Flags'
    <3> SUFFICES ASSUME NEW j \in 1 .. Len(nodes')
                 PROVE  /\ nodes'[j].data = inserted[Base + 1 + j]
                        /\ \A s \in Readers :
                             s \in nodes'[j].seen <=> Base + 1 + j <= Len(got'[s])
      BY <1>1, <2>3 DEF Flags
    <3>1. nodes'[j] = nodes[j + 1] /\ j + 1 \in 1 .. Len(nodes)
      BY <2>2, <1>4
    <3>2. /\ nodes[j + 1].data = inserted[Base + (j + 1)]
          /\ \A s \in Readers :
               s \in nodes[j + 1].seen <=> Base + (j + 1) <= Len(got[s])
      BY <3>1, <1>2 DEF LiveInv, Flags
    <3>3. Base + (j + 1) = Base + 1 + j /\ Base + 1 + j # Base + i
          /\ Base + 1 + j \in Nat
      BY <1>4, <1>10, <2>2
    <3> QED
      BY <3>1, <3>2, <3>3, <1>9
  <2>6. Slowest'
    BY <2>3, <1>5, <1>7, <1>10, <1>4 DEF Slowest
  <2> QED
    BY <1>8, <2>4, <2>5, <2>6 DEF LiveInv
<1>11. CASE ~(i = 1 /\ nodes[1].seen \cup {r} = Readers)
  <2>1. nodes' = [nodes EXCEPT ![i].seen = @ \cup {r}]
    BY <1>3, <1>11 DEF MarkAndReclaim
  <2>2. nodes \in Seq(Node)
    BY <1>2 DEF TypeOK
  <2>3. /\ Len(nodes') = Len(nodes)
        /\ \A j \in 1 .. Len(nodes) :
             /\ nodes'[j].data = nodes[j].data
             /\ \A s \in Readers :
                  s \in nodes'[j].seen <=> s \in nodes[j].seen \/ (j = i /\ s = r)
    BY <2>1, <2>2, MarkOnly
  <2>4. Base' = Base
    BY <2>3, <1>1 DEF Base
  <2>5. Counts'
    BY <2>3, <2>4, <1>1, <1>2, <1>4, <1>7 DEF LiveInv, Counts
  <2>6. Flags'
    <3> SUFFICES ASSUME NEW j \in 1 .. Len(nodes)
                 PROVE  /\ nodes'[j].data = inserted[Base + j]
                        /\ \A s \in Readers :
                             s \in nodes'[j].seen <=> Base + j <= Len(got'[s])
      BY <1>1, <2>3, <2>4 DEF Flags
    <3>1. /\ nodes[j].data = inserted[Base + j]
          /\ \A s \in Readers : s \in nodes[j].seen <=> Base + j <= Len(got[s])
      BY <1>2 DEF LiveInv, Flags
    <3>2. Base + j \in Nat /\ (Base + j = Base + i <=> j = i)
      BY <1>4
    <3> QED
      BY <3>1, <3>2, <2>3, <1>9
  <2>7. Slowest'
    <3>1. CASE i = 1
      <4>1. PICK s \in Readers : s \notin nodes[1].seen /\ s # r
        <5>1. nodes[i] \in Node
          BY <2>2, ElementOfSeq
        <5>2. nodes[1].seen \in SUBSET Readers
          BY <3>1, <5>1 DEF Node
        <5> QED
          BY <5>2, <3>1, <1>11
      <4>2. ~(Base + 1 <= Len(got[s]))
        BY <4>1, <3>1, <1>2, <1>3 DEF LiveInv, Flags
      <4>3. Base <= Len(got[s])
        BY <1>2 DEF LiveInv, Counts
      <4> QED
        BY <4>1, <4>2, <4>3, <2>4, <1>4, <1>7 DEF Slowest
    <3>2. CASE i # 1
      <4>1. PICK s \in Readers : Len(got[s]) = Base
        BY <1>2 DEF LiveInv, Slowest
      <4>2. s # r
        BY <4>1, <3>2, <1>4, <1>5
      <4> QED
        BY <4>1, <4>2, <2>4, <1>7 DEF Slowest
    <3> QED
      BY <3>1, <3>2
  <2> QED
    BY <1>8, <2>5, <2>6, <2>7 DEF LiveInv
<1> QED
  BY <1>10, <1>11
-------------------------------------------------------------------------------
(* IInv is inductive: it holds before sbuffer_init, and every call keeps it. *)
THEOREM Invariance == Spec => []IInv
<1>1. Init => IInv
  BY DEF Init, IInv, TypeOK, Returns, InOrderOnce
<1>2. IInv /\ TypeOK' /\ [Next]_vars => IInv'
  <2> SUFFICES ASSUME IInv, TypeOK', [Next]_vars
               PROVE  IInv'
    OBVIOUS
  <2>0. TypeOK
    BY DEF IInv
  <2>1. CASE BufferInit
    <3>1. /\ status' = "live" /\ nodes' = <<>> /\ inserted' = <<>>
          /\ got' = [r \in Readers |-> <<>>]
      BY <2>1 DEF BufferInit, IInv
    <3>2. Base' = 0 /\ Len(nodes') = 0 /\ Len(inserted') = 0
      BY <3>1 DEF Base
    <3>3. LiveInv'
      BY <3>1, <3>2, SBufferAssumption DEF LiveInv, Counts, Flags, Slowest
    <3>4. InOrderOnce'
      BY <3>1 DEF InOrderOnce
    <3> QED
      BY <3>1, <3>3, <3>4 DEF IInv
  <2>2. ASSUME NEW d \in Data, Insert(d)
        PROVE  IInv'
    <3>1. /\ status = "live" /\ status' = "live" /\ got' = got
          /\ nodes' = Append(nodes, [data |-> d, seen |-> {}])
          /\ inserted' = Append(inserted, d)
          /\ [data |-> d, seen |-> {}] \in Node
      BY <2>2 DEF Insert, Node
    <3>2. LiveInv /\ InOrderOnce
      BY <3>1 DEF IInv
    <3>3. /\ Len(nodes) \in Nat /\ Len(inserted) \in Nat
          /\ Len(nodes) <= Len(inserted) /\ Base \in Nat
          /\ \A r \in Readers : Len(got[r]) \in Nat
      BY <2>0, <3>2 DEF TypeOK, LiveInv, Counts, Base
    <3>4. /\ Len(nodes') = Len(nodes) + 1
          /\ \A j \in 1 .. Len(nodes) : nodes'[j] = nodes[j]
          /\ nodes'[Len(nodes) + 1] = [data |-> d, seen |-> {}]
      BY <2>0, <3>1, AppendProperties DEF TypeOK
    <3>5. /\ Len(inserted') = Len(inserted) + 1
          /\ \A j \in 1 .. Len(inserted) : inserted'[j] = inserted[j]
          /\ inserted'[Len(inserted) + 1] = d
      BY <2>0, <3>1, AppendProperties DEF TypeOK
    <3>6. Base' = Base
      BY <3>3, <3>4, <3>5 DEF Base
    <3>7. InOrderOnce'
      BY <3>1, <3>2, <3>3, <3>5 DEF InOrderOnce
    <3>8. Counts' /\ Slowest'
      BY <3>1, <3>2, <3>3, <3>4, <3>5, <3>6 DEF LiveInv, Counts, Slowest
    <3>9. Flags'
      <4> SUFFICES ASSUME NEW j \in 1 .. Len(nodes')
                   PROVE  /\ nodes'[j].data = inserted'[Base + j]
                          /\ \A r \in Readers :
                               r \in nodes'[j].seen <=> Base + j <= Len(got[r])
        BY <3>1, <3>6 DEF Flags
      <4>1. CASE j \in 1 .. Len(nodes)
        <5>1. Base + j \in 1 .. Len(inserted)
          BY <4>1, <3>3 DEF Base
        <5> QED
          BY <4>1, <5>1, <3>2, <3>4, <3>5 DEF LiveInv, Flags
      <4>2. CASE j = Len(nodes) + 1
        <5>1. Base + j = Len(inserted) + 1
          BY <4>2, <3>3 DEF Base
        <5>2. \A r \in Readers : ~(Len(inserted) + 1 <= Len(got[r]))
          BY <3>2, <3>3 DEF InOrderOnce
        <5>3. nodes'[j].data = d /\ nodes'[j].seen = {}
          BY <4>2, <3>4
        <5> QED
          BY <5>1, <5>2, <5>3, <3>5
      <4> QED
        BY <4>1, <4>2, <3>3, <3>4
    <3> QED
      BY <3>1, <3>7, <3>8, <3>9 DEF IInv, LiveInv
  <2>3. ASSUME NEW r \in Readers, RemoveSuccess(r)
        PROVE  IInv'
    BY <2>3, RemovePreserves DEF IInv, RemoveSuccess
  <2>4. ASSUME NEW r \in Readers, RemoveNoData(r) \/ RemoveNull(r)
        PROVE  IInv'
    <3>1. UNCHANGED <<status, nodes, inserted, got>>
      BY <2>4 DEF RemoveNoData, RemoveNull
    <3>2. Base' = Base
      BY <3>1 DEF Base
    <3>3. InOrderOnce => InOrderOnce'
      BY <3>1 DEF InOrderOnce
    <3>4. Flags => Flags'
      BY <3>1, <3>2 DEF Flags
    <3>5. LiveInv => LiveInv'
      BY <3>1, <3>2, <3>4 DEF LiveInv, Counts, Slowest
    <3> QED
      BY <3>1, <3>3, <3>5 DEF IInv
  <2>5. CASE Free
    BY <2>5 DEF Free, IInv, InOrderOnce
  <2>6. CASE UNCHANGED vars
    BY <2>6 DEF vars, IInv, InOrderOnce, LiveInv, Counts, Flags, Slowest, Base
  <2> QED
    BY <2>1, <2>2, <2>3, <2>4, <2>5, <2>6 DEF Next, Remove
<1> QED
  BY <1>1, <1>2, TypeCorrect, PTL DEF Spec

(* In order, exactly once, for every number of readers and insertions.     *)
THEOREM DeliveredInOrder == Spec => []InOrderOnce
<1>1. IInv => InOrderOnce
  BY DEF IInv
<1> QED
  BY <1>1, Invariance, PTL

(* Nothing is unlinked before every reader has it, and the flags of the    *)
(* nodes tell exactly who has what.                                        *)
THEOREM NoItemLost == Spec => []NothingLost
<1>1. IInv => NothingLost
  BY DEF IInv, LiveInv, Counts, Flags, NothingLost
<1> QED
  BY <1>1, Invariance, PTL

(* No node that every reader has read stays in the list.                   *)
THEOREM ReadNodesReclaimed == Spec => []Reclaimed
<1>1. IInv => Reclaimed
  <2> SUFFICES ASSUME IInv PROVE Reclaimed
    OBVIOUS
  <2>1. CASE status = "live"
    <3>1. LiveInv /\ TypeOK
      BY <2>1 DEF IInv
    <3>2. PICK r \in Readers : Len(got[r]) = Base
      BY <3>1 DEF LiveInv, Slowest
    <3>3. Base \in Int
      BY <3>1 DEF TypeOK, Base
    <3>4. \A i \in 1 .. Len(nodes) : r \notin nodes[i].seen
      BY <3>1, <3>2, <3>3 DEF LiveInv, Flags
    <3> QED
      BY <3>2, <3>4 DEF Reclaimed
  <2>2. CASE status # "live"
    BY <2>2 DEF IInv, TypeOK, Reclaimed
  <2> QED
    BY <2>1, <2>2
<1> QED
  BY <1>1, Invariance, PTL

(* NO_DATA is only returned to a reader that has everything.               *)
THEOREM NoDataIsTrue == Spec => NoDataMeansCaughtUp
<1>1. IInv /\ [Next]_vars
        => [\A r \in Readers :
              ret'[r] = "NO_DATA" /\ ret[r] # "NO_DATA" => got[r] = inserted]_vars
  <2> SUFFICES ASSUME IInv, Next, NEW r \in Readers,
                      ret'[r] = "NO_DATA", ret[r] # "NO_DATA"
               PROVE  got[r] = inserted
    OBVIOUS
  <2>0. ret \in [Readers -> Returns]
    BY DEF IInv, TypeOK
  <2>1. RemoveNoData(r)
    BY <2>0 DEF Next, BufferInit, Insert, Remove, RemoveSuccess, RemoveNoData,
                RemoveNull, Free
  <2>2. LiveInv /\ TypeOK /\ InOrderOnce /\ AllRead(nodes, r)
    BY <2>1 DEF RemoveNoData, IInv
  <2> QED
    BY <2>2, CaughtUp
<1> QED
  BY <1>1, Invariance, PTL DEF Spec, NoDataMeansCaughtUp

(* Every call of sbuffer.c is a step of the log that only grows, or none.  *)
THEOREM BufferImplementsLog == Spec => ImplementsLog
<1>1. Init => Log!Init
  BY DEF Init, Log!Init
<1>2. IInv /\ IInv' /\ [Next]_vars => [Log!Next]_(Log!vars)
  <2> SUFFICES ASSUME IInv, IInv', [Next]_vars
               PROVE  [Log!Next]_(Log!vars)
    OBVIOUS
  <2>1. ASSUME NEW d \in Data, Insert(d)
        PROVE  Log!Insert(d)
    BY <2>1 DEF Insert, Log!Insert
  <2>2. ASSUME NEW r \in Readers, RemoveSuccess(r)
        PROVE  Log!Deliver(r)
    <3>1. /\ status = "live" /\ inserted' = inserted
          /\ TypeOK /\ LiveInv /\ InOrderOnce'
      BY <2>2 DEF RemoveSuccess, IInv
    <3>2. PICK i \in 1 .. Len(nodes) :
             /\ FirstUnread(nodes, r, i)
             /\ got' = [got EXCEPT ![r] = Append(@, nodes[i].data)]
      BY <2>2 DEF RemoveSuccess
    <3>3. /\ Len(nodes) \in Nat /\ Len(inserted) \in Nat
          /\ Len(got[r]) \in Nat /\ Base \in Int
          /\ Len(nodes) <= Len(inserted)
      BY <3>1 DEF TypeOK, LiveInv, Counts, Base
    <3>4. Len(got[r]) = Base + i - 1
      BY <3>1, <3>2, NextNode
    <3>5. Base + i = Len(got[r]) + 1 /\ Len(got[r]) < Len(inserted)
      BY <3>3, <3>4 DEF Base
    <3>6. nodes[i].data = inserted[Len(got[r]) + 1]
      BY <3>1, <3>5 DEF LiveInv, Flags
    <3> QED
      BY <3>1, <3>2, <3>5, <3>6 DEF Log!Deliver, TypeOK
  <2>3. ASSUME NEW r \in Readers, RemoveNoData(r) \/ RemoveNull(r)
        PROVE  UNCHANGED Log!vars
    BY <2>3 DEF RemoveNoData, RemoveNull, Log!vars
  <2>4. CASE BufferInit \/ Free \/ UNCHANGED vars
    BY <2>4 DEF BufferInit, Free, vars, Log!vars
  <2> QED
    BY <2>1, <2>2, <2>3, <2>4 DEF Next, Remove, Log!Next
<1> QED
  BY <1>1, <1>2, Invariance, PTL DEF Spec, ImplementsLog, Log!Spec
===============================================================================
