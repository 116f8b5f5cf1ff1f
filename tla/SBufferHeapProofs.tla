--------------------------- MODULE SBufferHeapProofs --------------------------
(***************************************************************************)
(* Proofs about SBufferHeap, for any finite set of readers, any number of  *)
(* heap cells and any number of insertions: no step of any interleaving    *)
(* follows a pointer to a freed node, the pointers spell out the list, no  *)
(* cell leaks, and every step is a call of SBuffer or no call at all.      *)
(*                                                                         *)
(* The three invariants need each other and two facts that none of them    *)
(* states: only the thread that holds the mutex is inside a call, and the  *)
(* one cell that is allocated and not in the list is the local pointer of  *)
(* that thread (Private).  IInv is their inductive conjunction; SeenInv    *)
(* adds what the READERS flags along the list look like, which only the    *)
(* refinement needs.                                                       *)
(***************************************************************************)
EXTENDS SBufferHeap, SequenceTheorems, FiniteSetTheorems, TLAPS

Distinct == \A i, j \in 1 .. Len(list) : list[i] = list[j] => i = j

Chain == \A i \in 1 .. Len(list) :
           heap[list[i]].next = IF i < Len(list) THEN list[i + 1] ELSE NULL

\* In the empty list of sbuffer_free the tail pointer dangles: nobody reads it.
Ends == IF list = <<>>
          THEN head = NULL /\ (status \in {"null", "live"} => tail = NULL)
          ELSE /\ head = list[1]
               /\ tail = list[IF pc[Writer] = "tail" THEN Len(list) - 1 ELSE Len(list)]
               /\ pc[Writer] = "tail" => Len(list) > 1

\* Only the thread that holds the mutex is inside a call.
Holder == /\ \A t \in Threads : pc[t] # "idle" => mutex = t
          /\ \A t \in Threads : mutex = t => pc[t] # "idle"
          /\ mutex # NULL => status = "live"
          /\ pc[Writer] \in {"idle", "malloc", "fill", "link", "tail", "unlock"}
          /\ \A r \in Readers : pc[r] \in {"idle", "walk", "check", "free", "unlock"}

\* The cell a thread has taken from malloc and not yet linked, or has unlinked
\* and not yet freed.
Private(t) == pc[t] \in {"fill", "link", "free"}

Allocation ==
  /\ \A t \in Threads : Private(t) => /\ cur[t] \in Addr \ Cells
                                      /\ used = Cells \cup {cur[t]}
  /\ (\A t \in Threads : ~Private(t)) => used = Cells

Locals ==
  /\ \A t \in Threads : pc[t] \in {"idle", "malloc"} => cur[t] = NULL
  /\ \A t \in Threads : pc[t] \in {"check", "tail"} => cur[t] \in Cells
  /\ \A t \in Threads : pc[t] = "walk" => cur[t] \in Cells \cup {NULL}
  /\ pc[Writer] \in {"malloc", "fill", "link"} => arg \in Data /\ Len(inserted) < MaxInserts
  /\ pc[Writer] = "link" =>
       heap[cur[Writer]] = [data |-> arg, next |-> NULL, seen |-> {}]

Stages == status \in {"null", "freed"} => list = <<>>

IInv == TypeOK /\ Distinct /\ Chain /\ Ends /\ Holder /\ Allocation /\ Locals /\ Stages

-------------------------------------------------------------------------------
(* The cells of a list that grows at its end.                              *)
LEMMA GrownList ==
  ASSUME NEW s \in Seq(Addr), NEW a \in Addr, NEW t, t = Append(s, a)
  PROVE  /\ t \in Seq(Addr) /\ t # <<>>
         /\ Len(t) = Len(s) + 1 /\ Len(s) \in Nat
         /\ \A i \in 1 .. Len(s) : t[i] = s[i]
         /\ t[Len(s) + 1] = a
         /\ {t[i] : i \in 1 .. Len(t)}
              = {s[i] : i \in 1 .. Len(s)} \cup {a}
<1>1. /\ t \in Seq(Addr) /\ t # <<>>
      /\ Len(t) = Len(s) + 1 /\ Len(s) \in Nat
      /\ \A i \in 1 .. Len(s) : t[i] = s[i]
      /\ t[Len(s) + 1] = a
  BY AppendProperties, LenProperties
<1>2. \A i \in 1 .. Len(s) + 1 : i \in 1 .. Len(s) \/ i = Len(s) + 1
  BY <1>1
<1>3. Len(s) + 1 \in 1 .. Len(s) + 1 /\ \A i \in 1 .. Len(s) : i \in 1 .. Len(s) + 1
  BY <1>1
<1> QED
  BY <1>1, <1>2, <1>3, Zenon

(* The cells of the list when a node is linked, and when the head leaves.  *)
LEMMA CellsGrow ==
  ASSUME TypeOK, NEW a \in Addr, list' = Append(list, a)
  PROVE  /\ list' \in Seq(Addr) /\ list' # <<>>
         /\ Len(list') = Len(list) + 1 /\ Len(list) \in Nat
         /\ \A i \in 1 .. Len(list) : list'[i] = list[i]
         /\ list'[Len(list) + 1] = a
         /\ Cells' = Cells \cup {a}
<1>1. list \in Seq(Addr)
  BY DEF TypeOK
<1>2. /\ list' \in Seq(Addr) /\ list' # <<>>
      /\ Len(list') = Len(list) + 1 /\ Len(list) \in Nat
      /\ \A i \in 1 .. Len(list) : list'[i] = list[i]
      /\ list'[Len(list) + 1] = a
      /\ {list'[i] : i \in 1 .. Len(list')} = {list[i] : i \in 1 .. Len(list)} \cup {a}
  BY <1>1, GrownList
<1> QED
  BY <1>2 DEF Cells

LEMMA CellsShrink ==
  ASSUME TypeOK, Distinct, list # <<>>, list' = Tail(list)
  PROVE  /\ list' \in Seq(Addr) /\ Len(list') = Len(list) - 1
         /\ Len(list) \in Nat /\ Len(list) > 0
         /\ \A i \in 1 .. Len(list) - 1 : list'[i] = list[i + 1]
         /\ list' = <<>> <=> Len(list) = 1
         /\ Cells' = Cells \ {list[1]}
<1>1. /\ list' \in Seq(Addr) /\ Len(list') = Len(list) - 1
      /\ Len(list) \in Nat /\ Len(list) > 0
      /\ \A i \in 1 .. Len(list) - 1 : list'[i] = list[i + 1]
  BY HeadTailProperties, EmptySeq DEF TypeOK
<1>2. \A i \in 1 .. Len(list) - 1 : i + 1 \in 1 .. Len(list) /\ i + 1 # 1
  BY <1>1
<1>3. \A i \in 1 .. Len(list) : i # 1 => \E j \in 1 .. Len(list) - 1 : i = j + 1
  <2>1. \A i \in 1 .. Len(list) :
           i # 1 => i - 1 \in 1 .. Len(list) - 1 /\ i = (i - 1) + 1
    BY <1>1
  <2> QED
    BY <2>1
<1>4. 1 \in 1 .. Len(list)
  BY <1>1
<1>5. ASSUME NEW x PROVE x \in Cells' <=> x \in Cells \ {list[1]}
  <2>1. ASSUME NEW i \in 1 .. Len(list) - 1, x = list'[i]
        PROVE  x \in Cells /\ x # list[1]
    BY <2>1, <1>1, <1>2, <1>4 DEF Cells, Distinct
  <2>2. ASSUME NEW i \in 1 .. Len(list), x = list[i], x # list[1]
        PROVE  \E j \in 1 .. Len(list') : x = list'[j]
    BY <2>2, <1>1, <1>3
  <2> QED
    BY <2>1, <2>2, <1>1 DEF Cells
<1>6. list' = <<>> <=> Len(list) = 1
  <2>1. list' = <<>> => Len(list') = 0
    OBVIOUS
  <2>2. list' # <<>> => Len(list') > 0
    BY <1>1, EmptySeq
  <2> QED
    BY <2>1, <2>2, <1>1
<1> QED
  BY <1>1, <1>5, <1>6

-------------------------------------------------------------------------------
(* sbuffer_insert keeps the invariant, step by step.                       *)
LEMMA InsertKeeps ==
  ASSUME IInv, InsertStep \/ \E d \in Data : StartInsert(d)
  PROVE  IInv'
<1> USE DEF IInv, Goto, At, buffer, history, Private, Cells, Threads
<1>1. ASSUME NEW d \in Data, StartInsert(d) PROVE IInv'
  <2> USE <1>1, HeapAssumption DEF StartInsert, Acquire
  <2>1. TypeOK'
    BY DEF TypeOK
  <2>2. Distinct' /\ Chain' /\ Ends' /\ Stages'
    BY DEF TypeOK, Distinct, Chain, Ends, Stages
  <2>3. Holder'
    BY DEF TypeOK, Holder
  <2>4. Allocation' /\ Locals'
    BY DEF TypeOK, Holder, Allocation, Locals
  <2> QED
    BY <2>1, <2>2, <2>3, <2>4
<1>2. CASE Malloc
  <2> USE <1>2, HeapAssumption DEF Malloc
  <2>1. TypeOK'
    BY DEF TypeOK
  <2>2. Distinct' /\ Chain' /\ Ends' /\ Stages'
    BY DEF TypeOK, Distinct, Chain, Ends, Stages
  <2>3. Holder'
    BY DEF TypeOK, Holder
  <2>4. Allocation' /\ Locals'
    BY DEF TypeOK, Holder, Allocation, Locals
  <2> QED
    BY <2>1, <2>2, <2>3, <2>4
<1>3. CASE MallocFails
  <2> USE <1>3, HeapAssumption DEF MallocFails
  <2>1. TypeOK'
    BY DEF TypeOK
  <2>2. Distinct' /\ Chain' /\ Ends' /\ Stages'
    BY DEF TypeOK, Distinct, Chain, Ends, Stages
  <2>3. Holder'
    BY DEF TypeOK, Holder
  <2>4. Allocation' /\ Locals'
    BY DEF TypeOK, Holder, Allocation, Locals
  <2> QED
    BY <2>1, <2>2, <2>3, <2>4
<1>4. CASE Fill
  <2> USE <1>4, HeapAssumption DEF Fill
  <2>1. TypeOK'
    BY DEF TypeOK, Cell, Locals
  <2>2. cur[Writer] \in Addr \ Cells
    BY DEF Allocation
  <2>3. Distinct' /\ Chain' /\ Ends' /\ Stages'
    BY <2>2 DEF TypeOK, Distinct, Chain, Ends, Stages
  <2>4. Holder'
    BY DEF TypeOK, Holder
  <2>5. Allocation' /\ Locals'
    BY <2>2 DEF TypeOK, Holder, Allocation, Locals
  <2> QED
    BY <2>1, <2>3, <2>4, <2>5
<1>5. CASE LinkFirst
  <2> USE <1>5, HeapAssumption DEF LinkFirst
  <2>1. cur[Writer] \in Addr \ Cells /\ used = Cells \cup {cur[Writer]}
    BY DEF Allocation
  <2>2. list = <<>>
    BY DEF Ends, TypeOK
  <2>3. TypeOK'
    BY <2>1 DEF TypeOK
  <2>4. heap[cur[Writer]].next = NULL
    BY DEF Locals
  <2>5. Distinct' /\ Chain' /\ Ends' /\ Stages'
    BY <2>1, <2>2, <2>4 DEF TypeOK, Distinct, Chain, Ends, Stages, Holder
  <2>6. Holder'
    BY DEF TypeOK, Holder
  <2>7. Allocation' /\ Locals'
    BY <2>1, <2>2 DEF TypeOK, Holder, Allocation, Locals
  <2> QED
    BY <2>3, <2>5, <2>6, <2>7
<1>6. CASE LinkLast
  <2> USE <1>6, HeapAssumption DEF LinkLast
  <2>1. cur[Writer] \in Addr \ Cells /\ used = Cells \cup {cur[Writer]}
    BY DEF Allocation
  <2>2. list # <<>> /\ tail = list[Len(list)] /\ head = list[1]
    BY DEF Ends, Holder
  <2>3. /\ list' \in Seq(Addr) /\ list' # <<>>
        /\ Len(list') = Len(list) + 1 /\ Len(list) \in Nat
        /\ \A i \in 1 .. Len(list) : list'[i] = list[i]
        /\ list'[Len(list) + 1] = cur[Writer]
        /\ Cells' = Cells \cup {cur[Writer]}
    BY <2>1, CellsGrow
  <2>4. TypeOK'
    BY SMTT(30), <2>1, <2>3 DEF TypeOK, Cell
  <2>5. Distinct'
    BY <2>1, <2>3 DEF Distinct
  <2>6. Chain'
    BY <2>1, <2>2, <2>3 DEF TypeOK, Distinct, Chain, Locals
  <2>7. Ends' /\ Stages'
    BY <2>1, <2>2, <2>3 DEF TypeOK, Ends, Stages, Holder
  <2>8. Holder'
    BY DEF TypeOK, Holder
  <2>9. Allocation' /\ Locals'
    BY <2>1, <2>3 DEF TypeOK, Holder, Allocation, Locals
  <2> QED
    BY <2>4, <2>5, <2>6, <2>7, <2>8, <2>9
<1>7. CASE MoveTail
  <2> USE <1>7, HeapAssumption DEF MoveTail
  <2>1. list # <<>> /\ tail = list[Len(list) - 1] /\ Len(list) > 1
    BY DEF Ends, Locals
  <2>2. heap[tail].next = list[Len(list)]
    BY <2>1 DEF Chain, TypeOK
  <2>3. TypeOK'
    BY <2>1, <2>2 DEF TypeOK
  <2>4. Distinct' /\ Chain' /\ Ends' /\ Stages'
    BY <2>1, <2>2 DEF TypeOK, Distinct, Chain, Ends, Stages
  <2>5. Holder'
    BY DEF TypeOK, Holder
  <2>6. Allocation' /\ Locals'
    BY DEF TypeOK, Holder, Allocation, Locals
  <2> QED
    BY <2>3, <2>4, <2>5, <2>6
<1> QED
  BY <1>1, <1>2, <1>3, <1>4, <1>5, <1>6, <1>7 DEF InsertStep

(* So does sbuffer_remove: the walk stays on the list, and the head is      *)
(* unlinked before it is freed.                                            *)
LEMMA RemoveKeeps ==
  ASSUME IInv, NEW r \in Readers, StartRemove(r) \/ RemoveStep(r)
  PROVE  IInv'
<1> USE DEF IInv, Goto, At, buffer, history, Private, Cells, Threads
<1>0. r # Writer /\ r \in Threads
  BY HeapAssumption
<1>1. CASE StartRemove(r)
  <2> USE <1>0, <1>1, HeapAssumption DEF StartRemove, Acquire
  <2>1. TypeOK'
    BY DEF TypeOK
  <2>2. Distinct' /\ Chain' /\ Ends' /\ Stages'
    BY DEF TypeOK, Distinct, Chain, Ends, Stages, Holder
  <2>3. Holder'
    BY DEF TypeOK, Holder
  <2>4. head \in Cells \cup {NULL}
    <3>1. list # <<>> => 1 \in 1 .. Len(list)
      BY EmptySeq DEF TypeOK
    <3> QED
      BY <3>1 DEF Ends
  <2>5. Allocation' /\ Locals'
    BY <2>4 DEF TypeOK, Holder, Allocation, Locals
  <2> QED
    BY <2>1, <2>2, <2>3, <2>5
<1>2. CASE Walk(r)
  <2> USE <1>0, <1>2, HeapAssumption DEF Walk
  <2>1. cur[r] \in Cells
    BY DEF Locals
  <2>2. heap[cur[r]].next \in Cells \cup {NULL}
    <3>1. PICK i \in 1 .. Len(list) : cur[r] = list[i]
      BY <2>1
    <3>2. i < Len(list) => i + 1 \in 1 .. Len(list)
      BY DEF TypeOK
    <3> QED
      BY <3>1, <3>2 DEF Chain
  <2>3. TypeOK'
    BY <2>1, <2>2 DEF TypeOK
  <2>4. Distinct' /\ Chain' /\ Ends' /\ Stages'
    BY DEF TypeOK, Distinct, Chain, Ends, Stages
  <2>5. Holder'
    BY DEF TypeOK, Holder
  <2>6. Allocation' /\ Locals'
    BY <2>2 DEF TypeOK, Holder, Allocation, Locals
  <2> QED
    BY <2>3, <2>4, <2>5, <2>6
<1>3. CASE NoData(r)
  <2> USE <1>0, <1>3, HeapAssumption DEF NoData
  <2>1. TypeOK'
    BY DEF TypeOK
  <2>2. Distinct' /\ Chain' /\ Ends' /\ Stages'
    BY DEF TypeOK, Distinct, Chain, Ends, Stages, Holder
  <2>3. Holder'
    BY DEF TypeOK, Holder
  <2>4. Allocation' /\ Locals'
    BY DEF TypeOK, Holder, Allocation, Locals
  <2> QED
    BY <2>1, <2>2, <2>3, <2>4
<1>4. CASE Mark(r)
  <2> USE <1>0, <1>4, HeapAssumption DEF Mark
  <2>1. cur[r] \in Cells /\ cur[r] \in Addr
    BY DEF Locals, TypeOK
  <2>2. /\ heap' = [heap EXCEPT ![cur[r]].seen = @ \cup {r}]
        /\ \A a \in Addr : heap'[a].next = heap[a].next
    BY <2>1 DEF TypeOK, Cell
  <2>3. TypeOK'
    BY <2>1 DEF TypeOK, Cell
  <2>4. Distinct' /\ Chain' /\ Ends' /\ Stages'
    BY <2>2 DEF TypeOK, Distinct, Chain, Ends, Stages, Holder
  <2>5. Holder'
    BY DEF TypeOK, Holder
  <2>6. Allocation' /\ Locals'
    BY <2>1 DEF TypeOK, Holder, Allocation, Locals
  <2> QED
    BY <2>3, <2>4, <2>5, <2>6
<1>5. CASE Keep(r)
  <2> USE <1>0, <1>5, HeapAssumption DEF Keep
  <2>1. TypeOK'
    BY DEF TypeOK
  <2>2. Distinct' /\ Chain' /\ Ends' /\ Stages'
    BY DEF TypeOK, Distinct, Chain, Ends, Stages, Holder
  <2>3. Holder'
    BY DEF TypeOK, Holder
  <2>4. Allocation' /\ Locals'
    BY DEF TypeOK, Holder, Allocation, Locals
  <2> QED
    BY <2>1, <2>2, <2>3, <2>4
<1>6. CASE Unlink(r)
  <2> USE <1>0, <1>6, HeapAssumption DEF Unlink, Reclaimable
  <2>1. list # <<>> /\ head = list[1] /\ tail = list[Len(list)] /\ cur[r] = list[1]
    <3>1. cur[r] \in Addr
      BY DEF Locals, TypeOK
    <3> QED
      BY <3>1 DEF Ends, Holder, TypeOK
  <2>2. /\ list' \in Seq(Addr) /\ Len(list') = Len(list) - 1
        /\ Len(list) \in Nat /\ Len(list) > 0
        /\ \A i \in 1 .. Len(list) - 1 : list'[i] = list[i + 1]
        /\ list' = <<>> <=> Len(list) = 1
        /\ Cells' = Cells \ {cur[r]}
    BY <2>1, CellsShrink
  <2>3. heap[head].next = IF Len(list) > 1 THEN list[2] ELSE NULL
    BY <2>1, <2>2 DEF Chain
  <2>4. head = tail <=> Len(list) = 1
    BY <2>1, <2>2 DEF Distinct
  <2>5. /\ head' = IF Len(list) > 1 THEN list[2] ELSE NULL
        /\ tail' = IF Len(list) > 1 THEN tail ELSE NULL
    BY <2>2, <2>3, <2>4
  <2>6. TypeOK'
    BY <2>2, <2>5 DEF TypeOK
  <2>7. Distinct'
    BY <2>2 DEF Distinct
  <2>8. Chain'
    BY <2>2 DEF Chain
  <2>9. Ends' /\ Stages'
    BY <2>1, <2>2, <2>5 DEF Ends, Stages, Holder, TypeOK
  <2>10. Holder'
    BY DEF TypeOK, Holder
  <2>11. \A t \in Threads \ {r} : pc[t] = "idle"
    BY DEF Holder
  <2>12. used = Cells /\ cur[r] \in Cells
    BY <2>11 DEF Allocation, Locals
  <2>13. cur[r] \in Addr \ Cells' /\ used' = Cells' \cup {cur[r]}
    <3> HIDE DEF Cells
    <3> QED
      BY <2>1, <2>2, <2>12 DEF TypeOK
  <2>14. Allocation' /\ Locals'
    BY <2>11, <2>13 DEF TypeOK, Allocation, Locals
  <2> QED
    BY <2>6, <2>7, <2>8, <2>9, <2>10, <2>14
<1>7. CASE FreeNode(r)
  <2> USE <1>0, <1>7, HeapAssumption DEF FreeNode
  <2>1. cur[r] \in Addr \ Cells /\ used = Cells \cup {cur[r]}
    BY DEF Allocation
  <2>2. TypeOK'
    BY DEF TypeOK
  <2>3. Distinct' /\ Chain' /\ Ends' /\ Stages'
    BY DEF TypeOK, Distinct, Chain, Ends, Stages, Holder
  <2>4. Holder'
    BY DEF TypeOK, Holder
  <2>5. Allocation' /\ Locals'
    BY <2>1 DEF TypeOK, Holder, Allocation, Locals
  <2> QED
    BY <2>2, <2>3, <2>4, <2>5
<1> QED
  BY <1>1, <1>2, <1>3, <1>4, <1>5, <1>6, <1>7 DEF RemoveStep

(* And so do the unlock and the walk of sbuffer_free.                      *)
LEMMA OtherKeeps ==
  ASSUME IInv, \/ BufferInit
               \/ \E t \in Threads : Unlock(t)
               \/ FreeStep
               \/ UNCHANGED vars
  PROVE  IInv'
<1> USE DEF IInv, Goto, At, buffer, history, Private, Cells, Threads
<1>1. CASE BufferInit
  <2> USE <1>1, HeapAssumption DEF BufferInit
  <2>1. TypeOK'
    BY DEF TypeOK
  <2>2. Distinct' /\ Chain' /\ Ends' /\ Stages'
    BY DEF TypeOK, Distinct, Chain, Ends, Stages, Holder
  <2>3. Holder'
    BY DEF TypeOK, Holder
  <2>4. Allocation' /\ Locals'
    BY DEF TypeOK, Holder, Allocation, Locals
  <2> QED
    BY <2>1, <2>2, <2>3, <2>4
<1>2. CASE \E t \in Threads : Unlock(t)
  <2> USE <1>2, HeapAssumption DEF Unlock
  <2>1. TypeOK'
    BY DEF TypeOK
  <2>2. Distinct' /\ Chain' /\ Ends' /\ Stages'
    BY DEF TypeOK, Distinct, Chain, Ends, Stages, Holder
  <2>3. Holder'
    BY DEF TypeOK, Holder
  <2>4. Allocation' /\ Locals'
    BY DEF TypeOK, Holder, Allocation, Locals
  <2> QED
    BY <2>1, <2>2, <2>3, <2>4
<1>3. CASE StartFree
  <2> USE <1>3, HeapAssumption DEF StartFree
  <2>1. TypeOK'
    BY DEF TypeOK
  <2>2. Distinct' /\ Chain' /\ Ends' /\ Stages'
    BY DEF TypeOK, Distinct, Chain, Ends, Stages, Holder
  <2>3. Holder'
    BY DEF TypeOK, Holder
  <2>4. Allocation' /\ Locals'
    BY DEF TypeOK, Holder, Allocation, Locals
  <2> QED
    BY <2>1, <2>2, <2>3, <2>4
<1>4. CASE FreeHead
  <2> USE <1>4, HeapAssumption DEF FreeHead
  <2>1. list # <<>> /\ head = list[1]
    BY DEF Ends
  <2>2. /\ list' \in Seq(Addr) /\ Len(list') = Len(list) - 1
        /\ Len(list) \in Nat /\ Len(list) > 0
        /\ \A i \in 1 .. Len(list) - 1 : list'[i] = list[i + 1]
        /\ list' = <<>> <=> Len(list) = 1
        /\ Cells' = Cells \ {head}
    BY <2>1, CellsShrink
  <2>3. head' = IF Len(list) > 1 THEN list[2] ELSE NULL
    BY <2>1, <2>2 DEF Chain
  <2>4. \A t \in Threads : pc[t] = "idle"
    BY DEF Holder
  <2>5. TypeOK'
    BY <2>2, <2>3 DEF TypeOK
  <2>6. Distinct'
    BY <2>2 DEF Distinct
  <2>7. Chain'
    BY <2>2 DEF Chain
  <2>8. Ends' /\ Stages'
    BY <2>1, <2>2, <2>3, <2>4 DEF Ends, Stages, TypeOK
  <2>9. Holder'
    BY DEF TypeOK, Holder
  <2>10. Allocation' /\ Locals'
    BY <2>1, <2>2, <2>4 DEF TypeOK, Allocation, Locals
  <2> QED
    BY <2>5, <2>6, <2>7, <2>8, <2>9, <2>10
<1>5. CASE EndFree
  <2> USE <1>5, HeapAssumption DEF EndFree
  <2>1. TypeOK'
    BY DEF TypeOK
  <2>2. Distinct' /\ Chain' /\ Ends' /\ Stages'
    BY DEF TypeOK, Distinct, Chain, Ends, Stages, Holder
  <2>3. Holder'
    BY DEF TypeOK, Holder
  <2>4. Allocation' /\ Locals'
    BY DEF TypeOK, Holder, Allocation, Locals
  <2> QED
    BY <2>1, <2>2, <2>3, <2>4
<1>6. CASE UNCHANGED vars
  <2> USE <1>6, HeapAssumption DEF vars
  <2>1. TypeOK'
    BY DEF TypeOK
  <2>2. Distinct' /\ Chain' /\ Ends' /\ Stages'
    BY DEF TypeOK, Distinct, Chain, Ends, Stages, Holder
  <2>3. Holder'
    BY DEF TypeOK, Holder
  <2>4. Allocation' /\ Locals'
    BY DEF TypeOK, Holder, Allocation, Locals
  <2> QED
    BY <2>1, <2>2, <2>3, <2>4
<1> QED
  BY <1>1, <1>2, <1>3, <1>4, <1>5, <1>6 DEF FreeStep

LEMMA Invariance == Spec => []IInv
<1>1. Init => IInv
  <2> SUFFICES ASSUME Init PROVE IInv
    OBVIOUS
  <2> USE HeapAssumption DEF Init, Threads
  <2>1. TypeOK
    BY DEF TypeOK, Cell, Garbage
  <2>2. Distinct /\ Chain /\ Ends /\ Stages
    BY DEF Distinct, Chain, Ends, Stages
  <2>3. Holder
    BY DEF Holder
  <2>4. Allocation /\ Locals
    BY DEF Allocation, Locals, Private, Cells
  <2> QED
    BY <2>1, <2>2, <2>3, <2>4 DEF IInv
<1>2. IInv /\ [Next]_vars => IInv'
  BY InsertKeeps, RemoveKeeps, OtherKeeps DEF Next, Finished
<1> QED
  BY <1>1, <1>2, PTL DEF Spec

(* No step of any interleaving of the three threads follows a pointer to a *)
(* node that sbuffer.c has freed.                                          *)
THEOREM NoFreedNodeIsUsed == Spec => []NoUseAfterFree
<1>1. IInv => NoUseAfterFree
  <2> SUFFICES ASSUME IInv PROVE NoUseAfterFree
    OBVIOUS
  <2>1. TypeOK
    BY DEF IInv
  <2>2. Cells \subseteq used
    BY DEF IInv, Allocation
  <2>3. status = "live" /\ tail # NULL => tail \in used
    <3> SUFFICES ASSUME status = "live", tail # NULL PROVE tail \in Cells
      BY <2>2
    <3>1. list # <<>> /\ Len(list) \in Nat /\ Len(list) > 0
      BY EmptySeq DEF IInv, TypeOK, Ends
    <3>2. IF pc[Writer] = "tail" THEN Len(list) - 1 \in 1 .. Len(list)
                                 ELSE Len(list) \in 1 .. Len(list)
      BY <3>1 DEF IInv, Ends
    <3> QED
      BY <3>1, <3>2 DEF IInv, Ends, Cells
  <2>4. \A t \in Threads : cur[t] # NULL /\ pc[t] # "unlock" => cur[t] \in used
    BY <2>2 DEF IInv, TypeOK, Locals, Allocation, Private
  <2> QED
    BY <2>1, <2>2, <2>3, <2>4 DEF NoUseAfterFree
<1> QED
  BY <1>1, Invariance, PTL

(* A list without a repeated cell has as many cells as it is long.         *)
LEMMA CountCells ==
  ASSUME IInv
  PROVE  Cardinality(Cells) = Len(list)
<1>1. /\ list \in [1 .. Len(list) -> Addr] /\ Len(list) \in Nat
      /\ Distinct
  BY LenProperties DEF IInv, TypeOK
<1>2. list \in Bijection(1 .. Len(list), Cells)
  BY <1>1 DEF Bijection, Injection, Surjection, Cells, Distinct, IsInjective
<1>3. ExistsBijection(1 .. Len(list), Cells)
  BY <1>2 DEF ExistsBijection
<1> QED
  BY <1>1, <1>3, FS_CountingElements

(* The head, the next pointers and the tail spell out the list, whatever   *)
(* the threads are doing.                                                  *)
THEOREM PointersIntact == Spec => []ListIntact
<1>1. IInv => ListIntact
  BY CountCells DEF IInv, Chain, Ends, ListIntact
<1> QED
  BY <1>1, Invariance, PTL

(* Outside the calls exactly the list is allocated, and nothing after      *)
(* sbuffer_free.                                                           *)
THEOREM NothingLeaks == Spec => []NoLeak
<1>1. IInv => NoLeak
  <2> SUFFICES ASSUME IInv PROVE NoLeak
    OBVIOUS
  <2>1. mutex = NULL => \A t \in Threads : ~Private(t)
    BY HeapAssumption DEF IInv, Holder, Private, Threads
  <2>2. mutex = NULL => used = Cells
    BY <2>1 DEF IInv, Allocation
  <2>3. status = "freed" => mutex = NULL /\ list = <<>>
    BY DEF IInv, Holder, Stages
  <2>4. list = <<>> => Cells = {}
    BY DEF Cells
  <2> QED
    BY <2>2, <2>3, <2>4 DEF NoLeak
<1> QED
  BY <1>1, Invariance, PTL

-------------------------------------------------------------------------------
Seen(i) == heap[list[i]].seen

\* The flags a reader has set form an initial part of the list, and a reader that
\* is walking has passed its own.
Passed(r) == \A i \in 1 .. Len(list) :
               /\ i > 1 /\ r \in Seen(i) => r \in Seen(i - 1)
               /\ pc[r] = "walk" /\ r \notin Seen(i) =>
                    cur[r] # NULL /\ \E j \in 1 .. i : cur[r] = list[j]

\* Only the head can have all its flags set, and then a reader is about to see it.
HeadOnly == \A i \in 1 .. Len(list) :
              Seen(i) = Readers =>
                i = 1 /\ \E r \in Readers : pc[r] = "check" /\ cur[r] = list[1]

SeenInv == status = "live" => HeadOnly /\ \A r \in Readers : Passed(r)
-------------------------------------------------------------------------------
(* The walk stops at the first node the reader has not marked.             *)
LEMMA MarksFirst ==
  ASSUME IInv, NEW r \in Readers, Passed(r), pc[r] = "walk",
         NEW k \in 1 .. Len(list), cur[r] = list[k]
  PROVE  \A i \in 1 .. Len(list) : i < k => r \in Seen(i)
<1> SUFFICES ASSUME NEW i \in 1 .. Len(list), i < k, r \notin Seen(i) PROVE FALSE
  OBVIOUS
<1>1. PICK j \in 1 .. i : cur[r] = list[j]
  BY DEF Passed
<1>2. j \in 1 .. Len(list) /\ j # k
  BY DEF IInv, TypeOK
<1> QED
  BY <1>1, <1>2 DEF IInv, Distinct

(* Marking sets one flag of one node.                                      *)
LEMMA MarkedHeap ==
  ASSUME IInv, NEW r \in Readers, Mark(r),
         NEW k \in 1 .. Len(list), cur[r] = list[k]
  PROVE  \A i \in 1 .. Len(list) :
           /\ Seen(i)' = IF i = k THEN Seen(i) \cup {r} ELSE Seen(i)
           /\ heap'[list[i]].data = heap[list[i]].data
<1>1. list' = list /\ heap' = [heap EXCEPT ![cur[r]].seen = @ \cup {r}]
  BY DEF Mark
<1>2. heap \in [Addr -> Cell] /\ \A i \in 1 .. Len(list) : list[i] \in Addr
  BY DEF IInv, TypeOK
<1>3. \A a \in Addr : heap[a] \in Cell
  BY <1>2
<1>4. \A a \in Addr :
        /\ heap'[a].seen = IF a = cur[r] THEN heap[a].seen \cup {r} ELSE heap[a].seen
        /\ heap'[a].data = heap[a].data
  BY <1>1, <1>2, <1>3 DEF Cell
<1>5. \A i \in 1 .. Len(list) : list[i] = cur[r] <=> i = k
  BY DEF IInv, Distinct
<1> QED
  BY <1>1, <1>2, <1>4, <1>5 DEF Seen

(* The flags along the list stay in order: the only thread that sets one   *)
(* has passed its own on the way there.                                    *)
LEMMA SeenKeeps ==
  ASSUME IInv, IInv', SeenInv, Next, status' = "live"
  PROVE  HeadOnly' /\ \A r \in Readers : Passed(r)'
<1> USE HeapAssumption DEF Goto, At, buffer, history, Threads
<1>1. CASE BufferInit
  <2>1. list' = <<>>
    BY <1>1 DEF BufferInit, IInv, Stages
  <2> QED
    BY <2>1 DEF HeadOnly, Passed
<1> SUFFICES ASSUME ~BufferInit PROVE HeadOnly' /\ \A r \in Readers : Passed(r)'
  BY <1>1
<1>0. status = "live" /\ HeadOnly /\ (\A r \in Readers : Passed(r)) /\ ~FreeStep
  <2>1. status = "live"
    BY DEF Next, StartInsert, InsertStep, Malloc, MallocFails, Fill, LinkFirst, LinkLast,
           MoveTail, StartRemove, RemoveStep, Walk, NoData, Mark, Keep, Unlink,
           FreeNode, Unlock, FreeStep, StartFree, FreeHead, EndFree, Finished, vars
  <2> QED
    BY <2>1 DEF SeenInv, FreeStep, StartFree, FreeHead, EndFree
<1>2. CASE (\E d \in Data : StartInsert(d)) \/ Malloc \/ MallocFails \/ MoveTail
  BY <1>0, <1>2 DEF IInv, TypeOK, Holder, Passed, HeadOnly, Seen,
                    StartInsert, Acquire, Malloc, MallocFails, MoveTail
<1>3. CASE Fill
  <2>1. cur[Writer] \in Addr \ Cells
    BY <1>3 DEF Fill, IInv, Allocation, Private
  <2>2. list' = list /\ \A i \in 1 .. Len(list) : Seen(i)' = Seen(i)
    BY <1>3, <2>1 DEF Fill, IInv, TypeOK, Seen, Cells
  <2> QED
    BY <1>0, <1>3, <2>2 DEF Fill, IInv, TypeOK, Holder, Passed, HeadOnly
<1>4. CASE LinkFirst \/ LinkLast
  <2>1. cur[Writer] \in Addr \ Cells /\ heap[cur[Writer]].seen = {}
    BY <1>4 DEF LinkFirst, LinkLast, IInv, Allocation, Locals, Private
  <2>2. \A r \in Readers : pc[r] = "idle" /\ pc'[r] = "idle"
    BY <1>4 DEF LinkFirst, LinkLast, IInv, TypeOK, Holder
  <2>3. /\ list \in Seq(Addr) /\ Len(list) \in Nat
        /\ Len(list') = Len(list) + 1
        /\ \A i \in 1 .. Len(list) : list'[i] = list[i]
        /\ list'[Len(list) + 1] = cur[Writer]
    <3>1. CASE LinkFirst
      <4>1. list = <<>> /\ list' = <<cur[Writer]>>
        BY <3>1 DEF LinkFirst, IInv, Ends, TypeOK
      <4> QED
        BY <4>1 DEF IInv, TypeOK
    <3>2. CASE LinkLast
      BY <2>1, <3>2, CellsGrow DEF LinkLast, IInv, TypeOK
    <3> QED
      BY <1>4, <3>1, <3>2
  <2>4. \A a \in Addr : heap'[a].seen = heap[a].seen
    <3>1. CASE LinkFirst
      BY <3>1 DEF LinkFirst
    <3>2. CASE LinkLast
      <4>1. \A a \in Addr : heap[a] \in Cell
        BY DEF IInv, TypeOK
      <4>2. heap' = [heap EXCEPT ![tail].next = cur[Writer]] /\ heap \in [Addr -> Cell]
        BY <3>2 DEF LinkLast, IInv, TypeOK
      <4> QED
        BY <4>1, <4>2 DEF Cell
    <3> QED
      BY <1>4, <3>1, <3>2
  <2>5. /\ \A i \in 1 .. Len(list) : Seen(i)' = Seen(i) /\ Seen(i) # Readers
        /\ \A i \in 1 .. Len(list') : i = Len(list) + 1 => Seen(i)' = {}
    BY <1>0, <2>1, <2>2, <2>3, <2>4 DEF Seen, HeadOnly, IInv, TypeOK
  <2>6. \A i \in 1 .. Len(list') : i \in 1 .. Len(list) \/ i = Len(list) + 1
    BY <2>3
  <2>7. HeadOnly'
    BY <2>3, <2>5, <2>6 DEF HeadOnly
  <2>8. \A r \in Readers : Passed(r)'
    BY <1>0, <2>2, <2>3, <2>5, <2>6 DEF Passed
  <2> QED
    BY <2>7, <2>8
<1>5. ASSUME NEW r \in Readers, StartRemove(r)
      PROVE  HeadOnly' /\ \A s \in Readers : Passed(s)'
  <2>1. list # <<>> => head = list[1]
    BY DEF IInv, Ends
  <2>2. \A i \in 1 .. Len(list) : list # <<>> /\ 1 \in 1 .. i /\ list[1] # NULL
    BY DEF IInv, TypeOK
  <2> QED
    BY <1>0, <1>5, <2>1, <2>2 DEF IInv, TypeOK, Holder, Passed, HeadOnly, Seen,
                                  StartRemove, Acquire
<1>6. ASSUME NEW r \in Readers, Walk(r)
      PROVE  HeadOnly' /\ \A s \in Readers : Passed(s)'
  <2>1. cur'[r] = heap[cur[r]].next /\ pc' = pc /\ list' = list /\ heap' = heap
    BY <1>6 DEF Walk, IInv, TypeOK
  <2>2. ASSUME NEW i \in 1 .. Len(list), r \notin Seen(i)
        PROVE  cur'[r] # NULL /\ \E j \in 1 .. i : cur'[r] = list[j]
    <3>1. PICK j \in 1 .. i : cur[r] = list[j]
      BY <1>0, <1>6, <2>2 DEF Walk, Passed
    <3>2. j # i
      BY <1>6, <2>2, <3>1 DEF Walk, Seen
    <3>3. j \in 1 .. Len(list) /\ j + 1 \in 1 .. i /\ j < Len(list) /\ j + 1 \in 1 .. Len(list)
      BY <3>2 DEF IInv, TypeOK
    <3>4. cur'[r] = list[j + 1]
      BY <2>1, <3>1, <3>3 DEF IInv, Chain
    <3> QED
      BY <3>3, <3>4 DEF IInv, TypeOK
  <2>3. \A s \in Readers : s # r => cur'[s] = cur[s]
    BY <1>6 DEF Walk, IInv, TypeOK
  <2> QED
    BY <1>0, <1>6, <2>1, <2>2, <2>3 DEF Walk, IInv, Holder, Passed, HeadOnly, Seen
<1>7. ASSUME NEW r \in Readers, NoData(r) \/ Keep(r) \/ FreeNode(r)
      PROVE  HeadOnly' /\ \A s \in Readers : Passed(s)'
  <2>1. list' = list /\ heap' = heap /\ cur' = cur
        /\ \A s \in Readers : pc'[s] = IF s = r THEN "unlock" ELSE pc[s]
    BY <1>7 DEF NoData, Keep, FreeNode, IInv, TypeOK
  <2>2. \A s \in Readers : s # r => pc[s] = "idle"
    BY <1>7 DEF NoData, Keep, FreeNode, IInv, Holder
  <2>3. \A i \in 1 .. Len(list) : Seen(i) # Readers
    <3>1. CASE Keep(r)
      BY <1>0, <2>2, <3>1 DEF Keep, Reclaimable, HeadOnly, Seen, IInv, Ends
    <3>2. CASE NoData(r) \/ FreeNode(r)
      BY <1>0, <2>2, <3>2 DEF NoData, FreeNode, HeadOnly
    <3> QED
      BY <1>7, <3>1, <3>2
  <2> QED
    BY <1>0, <2>1, <2>2, <2>3 DEF Passed, HeadOnly, Seen
<1>8. ASSUME NEW r \in Readers, Mark(r)
      PROVE  HeadOnly' /\ \A s \in Readers : Passed(s)'
  <2>1. /\ pc[r] = "walk" /\ cur[r] # NULL /\ r \notin heap[cur[r]].seen
        /\ cur' = cur /\ list' = list
        /\ \A s \in Readers : pc'[s] = IF s = r THEN "check" ELSE pc[s]
    BY <1>8 DEF Mark, IInv, TypeOK
  <2>2. \A s \in Readers : s # r => pc[s] = "idle"
    BY <1>8 DEF Mark, IInv, Holder
  <2>3. PICK k \in 1 .. Len(list) : cur[r] = list[k]
    BY <2>1 DEF IInv, Locals, Cells
  <2>4. \A i \in 1 .. Len(list) :
           Seen(i)' = IF i = k THEN Seen(i) \cup {r} ELSE Seen(i)
    BY <1>8, <2>3, MarkedHeap
  <2>5. Len(list) \in Nat /\ \A i \in 1 .. Len(list) : Seen(i) \subseteq Readers
    BY DEF IInv, TypeOK, Cell, Seen
  <2>6. \A i \in 1 .. Len(list) : i < k => r \in Seen(i)
    BY <1>0, <2>1, <2>3, MarksFirst
  <2>7. \A i \in 1 .. Len(list) : Seen(i) # Readers
    BY <1>0, <2>1, <2>2 DEF HeadOnly
  <2>8. \A i \in 1 .. Len(list) :
           i > 1 => i - 1 \in 1 .. Len(list) /\ Seen(i) \subseteq Seen(i - 1)
    BY <1>0, <2>5 DEF Passed
  <2>9. \A i \in 1 .. Len(list) : i > 1 => Seen(i)' # Readers
    <3> SUFFICES ASSUME NEW i \in 1 .. Len(list), i > 1, Seen(i)' = Readers PROVE FALSE
      OBVIOUS
    <3>1. i = k /\ Seen(i) \cup {r} = Readers
      BY <2>4, <2>7
    <3>2. i - 1 \in 1 .. Len(list) /\ i - 1 < k
      BY <2>8, <3>1
    <3>3. r \in Seen(i - 1) /\ Seen(i) \subseteq Seen(i - 1) /\ Seen(i - 1) \subseteq Readers
      BY <2>5, <2>6, <2>8, <3>2
    <3>4. Seen(i - 1) = Readers
      BY <3>1, <3>3
    <3> QED
      BY <2>7, <3>2, <3>4
  <2>10. HeadOnly'
    BY <2>1, <2>3, <2>4, <2>5, <2>7, <2>9 DEF HeadOnly
  <2>11. ASSUME NEW s \in Readers, NEW i \in 1 .. Len(list'), i > 1, s \in Seen(i)'
         PROVE  s \in Seen(i - 1)'
    <3>1. i \in 1 .. Len(list) /\ i - 1 \in 1 .. Len(list)
      BY <2>1, <2>5, <2>11
    <3>2. s \in Seen(i) => s \in Seen(i - 1)
      BY <1>0, <2>11, <3>1 DEF Passed
    <3>3. i = k => r \in Seen(i - 1)
      BY <2>5, <2>6, <3>1
    <3> QED
      BY <2>4, <2>11, <3>1, <3>2, <3>3
  <2>12. \A s \in Readers : pc'[s] # "walk"
    BY <2>1, <2>2
  <2>13. \A s \in Readers : Passed(s)'
    BY <2>11, <2>12 DEF Passed
  <2> QED
    BY <2>10, <2>13
<1>9. ASSUME NEW r \in Readers, Unlink(r)
      PROVE  HeadOnly' /\ \A s \in Readers : Passed(s)'
  <2>1. list # <<>>
    BY <1>9 DEF Unlink, Reclaimable, IInv, Ends, Locals, TypeOK
  <2>2. /\ Len(list') = Len(list) - 1 /\ Len(list) \in Nat
        /\ \A i \in 1 .. Len(list) - 1 : list'[i] = list[i + 1]
    BY <1>9, <2>1, CellsShrink DEF Unlink, IInv
  <2>3. \A s \in Readers : pc[s] # "walk" /\ pc'[s] # "walk"
    BY <1>9 DEF Unlink, IInv, TypeOK, Holder
  <2>4. \A i \in 1 .. Len(list') : i + 1 \in 1 .. Len(list) /\ Seen(i)' = Seen(i + 1)
    BY <1>9, <2>2 DEF Unlink, Seen
  <2>5. HeadOnly'
    BY <1>0, <2>2, <2>4 DEF HeadOnly
  <2>6. \A s \in Readers : Passed(s)'
    BY <1>0, <2>2, <2>3, <2>4 DEF Passed
  <2> QED
    BY <2>5, <2>6
<1>10. ASSUME NEW t \in Threads, Unlock(t)
       PROVE  HeadOnly' /\ \A s \in Readers : Passed(s)'
  BY <1>0, <1>10 DEF Unlock, IInv, TypeOK, Passed, HeadOnly, Seen
<1>11. CASE Finished
  BY <1>0, <1>11 DEF Finished
<1> QED
  BY <1>0, <1>2, <1>3, <1>4, <1>5, <1>6, <1>7, <1>8, <1>9, <1>10, <1>11
     DEF Next, InsertStep, RemoveStep
LEMMA SeenInvariance == Spec => []SeenInv
<1>1. Init => SeenInv
  BY DEF Init, SeenInv
<1>2. IInv /\ IInv' /\ SeenInv /\ [Next]_vars => SeenInv'
  <2> SUFFICES ASSUME IInv, IInv', SeenInv, [Next]_vars, status' = "live"
               PROVE  HeadOnly' /\ \A r \in Readers : Passed(r)'
    BY DEF SeenInv
  <2>1. CASE Next
    BY <2>1, SeenKeeps
  <2>2. CASE UNCHANGED vars
    BY <2>2 DEF vars, buffer, SeenInv, HeadOnly, Passed, Seen
  <2> QED
    BY <2>1, <2>2
<1> QED
  BY <1>1, <1>2, Invariance, PTL DEF Spec

-------------------------------------------------------------------------------
Item(c) == [data |-> c.data, seen |-> c.seen]

(* What SBuffer sees of a cell is a node of its list.                      *)
LEMMA ItemType == ASSUME NEW c \in Cell PROVE Item(c) \in Abstract!Node
BY DEF Cell, Item, Abstract!Node

LEMMA ItemSeen == ASSUME NEW c PROVE Item(c).seen = c.seen
BY DEF Item

LEMMA MarkItem ==
  ASSUME NEW x \in Abstract!Node, NEW r
  PROVE  [x EXCEPT !.seen = @ \cup {r}] = [data |-> x.data, seen |-> x.seen \cup {r}]
BY DEF Abstract!Node

\* Nobody is about to unlink the head.
LEMMA WholeList ==
  ASSUME IInv, SeenInv, status = "live", \A r \in Readers : pc[r] # "check"
  PROVE  list = <<>> \/ Seen(1) # Readers
BY EmptySeq DEF IInv, TypeOK, SeenInv, HeadOnly

(* The steps that change nothing of the buffer SBuffer describes.          *)
LEMMA SilentSteps ==
  ASSUME IInv, IInv', SeenInv, SeenInv',
         \/ \E d \in Data : StartInsert(d)
         \/ Malloc \/ MallocFails \/ Fill \/ MoveTail
         \/ \E r \in Readers :
               StartRemove(r) \/ Walk(r) \/ Keep(r) \/ Unlink(r) \/ FreeNode(r)
         \/ \E t \in Threads : Unlock(t)
         \/ FreeHead \/ EndFree \/ UNCHANGED vars
  PROVE  UNCHANGED Abstract!vars
<1> USE DEF Goto, At, buffer, history
<1> SUFFICES AbsNodes' = AbsNodes
             /\ (status' = status \/ (status = "freeing" /\ status' = "freed"))
  BY DEF StartInsert, Malloc, MallocFails, Fill, MoveTail, StartRemove, Walk, Keep,
         Unlink, FreeNode, Unlock, FreeHead, EndFree, vars, Abstract!vars
<1>1. CASE FreeHead \/ EndFree
  BY <1>1 DEF FreeHead, EndFree, AbsNodes
<1>2. CASE Fill
  <2>1. cur[Writer] \in Addr \ Cells /\ status = "live"
    BY <1>2, HeapAssumption DEF Fill, IInv, Allocation, Private, Holder, Threads
  <2>2. \A i \in 1 .. Len(list) : heap'[list[i]] = heap[list[i]]
    BY <1>2, <2>1 DEF Fill, Cells, IInv, TypeOK
  <2>3. \A r \in Readers : pc[r] # "check" /\ pc'[r] # "check"
    BY <1>2, HeapAssumption DEF Fill, IInv, TypeOK, Holder, Threads
  <2>4. status' = status /\ list' = list
    BY <1>2 DEF Fill
  <2>5. list = <<>> \/ (Seen(1) # Readers /\ Seen(1)' # Readers)
    BY <2>1, <2>2, <2>3, <2>4, WholeList, EmptySeq DEF Seen, IInv, TypeOK
  <2>6. Remaining = list /\ Remaining' = list
    BY <2>4, <2>5 DEF Remaining, Seen
  <2> QED
    BY <2>1, <2>2, <2>4, <2>6 DEF AbsNodes
<1>3. ASSUME NEW r \in Readers, Unlink(r)
      PROVE  AbsNodes' = AbsNodes /\ status' = status
  <2>1. /\ list # <<>> /\ Seen(1) = Readers
        /\ list' = Tail(list) /\ heap' = heap /\ status' = status
    BY <1>3 DEF Unlink, Reclaimable, IInv, Ends, Locals, TypeOK, Seen
  <2>2. \A s \in Readers : pc'[s] # "check"
    BY <1>3, HeapAssumption DEF Unlink, IInv, TypeOK, Holder, Threads
  <2>3. status = "live"
    BY <1>3, HeapAssumption DEF Unlink, IInv, Holder, Threads
  <2>4. list' = <<>> \/ Seen(1)' # Readers
    BY <2>1, <2>2, <2>3, EmptySeq DEF SeenInv, HeadOnly, IInv, TypeOK
  <2>5. Remaining = Tail(list) /\ Remaining' = Tail(list)
    BY <2>1, <2>4 DEF Remaining, Seen
  <2> QED
    BY <2>1, <2>5 DEF AbsNodes
<1>4. CASE /\ ~(FreeHead \/ EndFree \/ Fill) /\ ~\E r \in Readers : Unlink(r)
  <2>1. status' = status /\ heap' = heap /\ list' = list
    BY <1>4 DEF StartInsert, Malloc, MallocFails, MoveTail, StartRemove, Walk, Keep,
                FreeNode, Unlock, vars
  <2> QED
    BY <2>1 DEF AbsNodes, Remaining
<1> QED
  BY <1>1, <1>2, <1>3, <1>4

(* Linking the node is the call of sbuffer_insert.                         *)
LEMMA LinkInserts ==
  ASSUME IInv, IInv', SeenInv, SeenInv', LinkFirst \/ LinkLast
  PROVE  Abstract!Insert(arg)
<1> USE DEF Goto, At, Threads
<1>1. /\ status = "live" /\ status' = "live" /\ arg \in Data
      /\ Len(inserted) < MaxInserts
      /\ inserted' = Append(inserted, arg) /\ UNCHANGED <<ret, got>>
  BY HeapAssumption DEF LinkFirst, LinkLast, IInv, Holder, Locals
<1>2. /\ heap \in [Addr -> Cell] /\ heap' \in [Addr -> Cell]
      /\ list \in Seq(Addr) /\ list' \in Seq(Addr)
  BY DEF IInv, TypeOK
<1>3. /\ cur[Writer] \in Addr \ Cells
      /\ heap[cur[Writer]] = [data |-> arg, next |-> NULL, seen |-> {}]
  BY DEF LinkFirst, LinkLast, IInv, Allocation, Locals, Private
<1>4. \A r \in Readers : pc[r] # "check" /\ pc'[r] # "check"
  BY HeapAssumption DEF LinkFirst, LinkLast, IInv, TypeOK, Holder
<1>5. Remaining = list /\ Remaining' = list'
  <2>1. list = <<>> \/ Seen(1) # Readers
    BY <1>1, <1>4, WholeList
  <2>2. list' = <<>> \/ Seen(1)' # Readers
    BY <1>1, <1>4, EmptySeq DEF IInv, TypeOK, SeenInv, HeadOnly
  <2> QED
    BY <2>1, <2>2 DEF Remaining, Seen
<1>6. AbsNodes = [i \in 1 .. Len(list) |-> Item(heap[list[i]])]
  BY <1>1, <1>5 DEF AbsNodes, Item
<1>7. AbsNodes' = [i \in 1 .. Len(list') |-> Item(heap'[list'[i]])]
  BY <1>1, <1>5 DEF AbsNodes, Item
<1>8. /\ AbsNodes \in Seq(Abstract!Node) /\ Len(AbsNodes) = Len(list)
      /\ \A i \in 1 .. Len(list) : AbsNodes[i] = Item(heap[list[i]])
      /\ Len(list) \in Nat
  <2>1. \A i \in 1 .. Len(list) : Item(heap[list[i]]) \in Abstract!Node
    BY <1>2, ItemType
  <2> QED
    BY <1>2, <1>6, <2>1
<1>9. /\ AbsNodes' \in Seq(Abstract!Node) /\ Len(AbsNodes') = Len(list')
      /\ \A i \in 1 .. Len(list') : AbsNodes'[i] = Item(heap'[list'[i]])
  <2>1. \A i \in 1 .. Len(list') : Item(heap'[list'[i]]) \in Abstract!Node
    BY <1>2, ItemType
  <2> QED
    BY <1>2, <1>7, <2>1
<1>10. /\ Len(list') = Len(list) + 1
       /\ \A i \in 1 .. Len(list) : list'[i] = list[i]
       /\ list'[Len(list) + 1] = cur[Writer]
  <2>1. CASE LinkFirst
    <3>1. list = <<>> /\ list' = <<cur[Writer]>>
      <4>1. tail = NULL /\ list' = <<cur[Writer]>>
        BY <2>1 DEF LinkFirst
      <4>2. list # <<>> => tail # NULL
        BY <1>1, EmptySeq, HeapAssumption DEF IInv, Ends, TypeOK
      <4> QED
        BY <4>1, <4>2
    <3> QED
      BY <3>1, <1>2
  <2>2. CASE LinkLast
    BY <1>3, <2>2, CellsGrow DEF LinkLast, IInv
  <2> QED
    BY <2>1, <2>2
<1>11. \A a \in Addr : Item(heap'[a]) = Item(heap[a])
  <2>1. CASE LinkFirst
    BY <2>1 DEF LinkFirst
  <2>2. CASE LinkLast
    <3>1. heap' = [heap EXCEPT ![tail].next = cur[Writer]]
      BY <2>2 DEF LinkLast
    <3>2. \A a \in Addr : heap[a] \in Cell
      BY <1>2
    <3> QED
      BY <1>2, <3>1, <3>2 DEF Cell, Item
  <2> QED
    BY <2>1, <2>2
<1> DEFINE new == [data |-> arg, seen |-> {}]
<1>12. new \in Abstract!Node /\ new = Item(heap[cur[Writer]])
  BY <1>1, <1>3 DEF Item, Abstract!Node
<1> HIDE DEF new
<1>13. /\ Append(AbsNodes, new) \in Seq(Abstract!Node)
       /\ Len(Append(AbsNodes, new)) = Len(list) + 1
       /\ \A i \in 1 .. Len(list) : Append(AbsNodes, new)[i] = AbsNodes[i]
       /\ Append(AbsNodes, new)[Len(list) + 1] = new
  BY <1>8, <1>12, AppendProperties
<1>14. \A i \in 1 .. Len(list) + 1 : AbsNodes'[i] = Append(AbsNodes, new)[i]
  <2>1. \A i \in 1 .. Len(list) + 1 : i \in 1 .. Len(list) \/ i = Len(list) + 1
    BY <1>8
  <2>2. \A i \in 1 .. Len(list) : list[i] \in Addr
    BY <1>2
  <2> HIDE DEF Item
  <2>3. \A i \in 1 .. Len(list) : AbsNodes'[i] = Append(AbsNodes, new)[i]
    BY <1>8, <1>9, <1>10, <1>11, <1>13, <2>2
  <2>4. AbsNodes'[Len(list) + 1] = new
    BY <1>3, <1>8, <1>9, <1>10, <1>11, <1>12
  <2> QED
    BY <1>13, <2>1, <2>3, <2>4
<1>15. AbsNodes' = Append(AbsNodes, new)
  BY <1>9, <1>10, <1>13, <1>14, SeqEqual
<1> QED
  BY <1>1, <1>15 DEF Abstract!Insert, new

(* A walk that meets the end has found everything marked.                  *)
LEMMA NoDataRemoves ==
  ASSUME IInv, SeenInv, NEW r \in Readers, NoData(r)
  PROVE  Abstract!RemoveNoData(r)
<1> USE DEF Goto, At, Threads
<1>1. status = "live" /\ pc[r] = "walk" /\ cur[r] = NULL
  BY HeapAssumption DEF NoData, IInv, Holder
<1>2. \A s \in Readers : pc[s] # "check"
  BY <1>1 DEF IInv, Holder
<1>3. Remaining = list /\ list \in Seq(Addr) /\ heap \in [Addr -> Cell]
  <2>1. list = <<>> \/ Seen(1) # Readers
    BY <1>1, <1>2, WholeList
  <2> QED
    BY <2>1 DEF Remaining, Seen, IInv, TypeOK
<1>4. AbsNodes = [i \in 1 .. Len(list) |-> Item(heap[list[i]])]
  BY <1>1, <1>3 DEF AbsNodes, Item
<1>5. /\ Len(AbsNodes) = Len(list)
      /\ \A i \in 1 .. Len(list) : AbsNodes[i].seen = Seen(i)
  <2>1. /\ Len(AbsNodes) = Len(list)
        /\ \A i \in 1 .. Len(list) : AbsNodes[i] = Item(heap[list[i]])
    <3>1. \A i \in 1 .. Len(list) : Item(heap[list[i]]) \in Abstract!Node
      BY <1>3, ItemType
    <3> QED
      BY <1>3, <1>4, <3>1
  <2> QED
    BY <2>1, ItemSeen DEF Seen
<1>6. \A i \in 1 .. Len(list) : r \in Seen(i)
  BY <1>1 DEF SeenInv, Passed
<1>7. AbsNodes' = AbsNodes /\ status' = status
  BY DEF NoData, AbsNodes, Remaining, buffer
<1> QED
  BY <1>1, <1>5, <1>6, <1>7 DEF NoData, Abstract!RemoveNoData, Abstract!AllRead

(* Marking is the call that returns SBUFFER_SUCCESS, and when it sets the  *)
(* last flag of the head that node is gone for every later call.           *)
LEMMA MarkRemoves ==
  ASSUME IInv, IInv', SeenInv, SeenInv', NEW r \in Readers, Mark(r)
  PROVE  Abstract!RemoveSuccess(r)
<1> USE DEF Goto, At, Threads
<1>1. /\ status = "live" /\ status' = "live" /\ inserted' = inserted
      /\ pc[r] = "walk" /\ r \notin heap[cur[r]].seen
      /\ got' = [got EXCEPT ![r] = Append(@, heap[cur[r]].data)]
      /\ ret' = [ret EXCEPT ![r] = "SUCCESS"]
      /\ list' = list
  BY HeapAssumption DEF Mark, IInv, Holder
<1>2. /\ heap \in [Addr -> Cell] /\ heap' \in [Addr -> Cell] /\ list \in Seq(Addr)
  BY DEF IInv, TypeOK
<1>3. PICK k \in 1 .. Len(list) : cur[r] = list[k]
  BY <1>1 DEF Mark, IInv, Locals, Cells
<1>4. \A s \in Readers : pc[s] # "check"
  BY <1>1 DEF IInv, Holder
<1>5. list # <<>> /\ Len(list) \in Nat /\ 1 \in 1 .. Len(list)
  BY <1>2, <1>3
<1>6. Seen(1) # Readers /\ Remaining = list
  BY <1>1, <1>4, <1>5, WholeList DEF Remaining, Seen
<1>7. AbsNodes = [i \in 1 .. Len(list) |-> Item(heap[list[i]])]
  BY <1>1, <1>6 DEF AbsNodes, Item
<1>8. /\ AbsNodes \in Seq(Abstract!Node) /\ Len(AbsNodes) = Len(list)
      /\ \A i \in 1 .. Len(list) : AbsNodes[i] = Item(heap[list[i]])
  <2>1. \A i \in 1 .. Len(list) : Item(heap[list[i]]) \in Abstract!Node
    BY <1>2, ItemType
  <2> QED
    BY <1>2, <1>7, <2>1
<1>9. \A i \in 1 .. Len(list) :
         /\ AbsNodes[i].seen = Seen(i) /\ AbsNodes[i].data = heap[list[i]].data
         /\ AbsNodes[i] = [data |-> heap[list[i]].data, seen |-> Seen(i)]
  BY <1>8 DEF Item, Seen
<1>10. \A i \in 1 .. Len(list) :
         /\ Seen(i)' = IF i = k THEN Seen(i) \cup {r} ELSE Seen(i)
         /\ heap'[list[i]].data = heap[list[i]].data
  BY <1>3, MarkedHeap
<1>11. Abstract!FirstUnread(AbsNodes, r, k)
  <2>1. \A i \in 1 .. Len(list) : i < k => r \in Seen(i)
    BY <1>1, <1>3, MarksFirst DEF SeenInv
  <2>2. r \notin Seen(k) /\ k \in Nat
    BY <1>1, <1>3, <1>5 DEF Seen
  <2>3. \A j \in 1 .. k - 1 : j \in 1 .. Len(list) /\ j < k
    BY <1>5, <2>2
  <2> QED
    BY <1>8, <1>9, <2>1, <2>2, <2>3 DEF Abstract!FirstUnread
<1> DEFINE marked == [AbsNodes EXCEPT ![k].seen = @ \cup {r}]
<1>12. /\ marked \in Seq(Abstract!Node) /\ Len(marked) = Len(list)
       /\ \A i \in 1 .. Len(list) : marked[i] = Item(heap'[list[i]])
  <2>1. \A i \in 1 .. Len(list) : AbsNodes[i] \in Abstract!Node
    BY <1>8
  <2>2. \A i \in 1 .. Len(list) :
           Item(heap'[list[i]]) = [data |-> heap[list[i]].data,
                                   seen |-> IF i = k THEN Seen(i) \cup {r} ELSE Seen(i)]
    BY <1>1, <1>10 DEF Item, Seen
  <2>3. [AbsNodes[k] EXCEPT !.seen = @ \cup {r}]
          = [data |-> heap[list[k]].data, seen |-> Seen(k) \cup {r}]
    <3>1. [AbsNodes[k] EXCEPT !.seen = @ \cup {r}]
            = [data |-> AbsNodes[k].data, seen |-> AbsNodes[k].seen \cup {r}]
      BY <2>1, MarkItem
    <3> QED
      BY <1>9, <3>1
  <2>4. [AbsNodes[k] EXCEPT !.seen = @ \cup {r}] \in Abstract!Node
    BY <2>1 DEF Abstract!Node
  <2>5. marked = [AbsNodes EXCEPT ![k] = [AbsNodes[k] EXCEPT !.seen = @ \cup {r}]]
    BY <1>8
  <2> HIDE DEF Item, Abstract!Node, marked
  <2>6. /\ marked \in Seq(Abstract!Node) /\ Len(marked) = Len(list)
        /\ \A i \in 1 .. Len(list) :
             marked[i] = IF i = k THEN [AbsNodes[k] EXCEPT !.seen = @ \cup {r}]
                                  ELSE AbsNodes[i]
    BY <1>8, <2>4, <2>5, ExceptSeq
  <2> QED
    BY <1>9, <2>2, <2>3, <2>6
<1> HIDE DEF marked, Item
<1>13. ASSUME NEW l \in Seq(Addr), Remaining' = l
       PROVE  /\ AbsNodes' \in Seq(Abstract!Node) /\ Len(AbsNodes') = Len(l)
              /\ \A i \in 1 .. Len(l) : AbsNodes'[i] = Item(heap'[l[i]])
  <2>1. AbsNodes' = [i \in 1 .. Len(l) |-> Item(heap'[l[i]])]
    BY <1>1, <1>13 DEF AbsNodes, Item
  <2>2. \A i \in 1 .. Len(l) : Item(heap'[l[i]]) \in Abstract!Node
    BY <1>2, ItemType
  <2> QED
    BY <2>1, <2>2
<1>14. k = 1 /\ AbsNodes[1].seen \cup {r} = Readers <=> Seen(1)' = Readers
  BY <1>5, <1>6, <1>9, <1>10
<1>15. AbsNodes' = Abstract!MarkAndReclaim(AbsNodes, r, k)
  <2>1. CASE Seen(1)' = Readers
    <3>1. Remaining' = Tail(list)
      BY <1>1, <1>5, <2>1 DEF Remaining, Seen
    <3>2. /\ Tail(list) \in Seq(Addr) /\ Len(Tail(list)) = Len(list) - 1
          /\ \A i \in 1 .. Len(list) - 1 : Tail(list)[i] = list[i + 1]
      BY <1>2, <1>5, HeadTailProperties
    <3>3. AbsNodes # <<>>
      BY <1>5, <1>8
    <3>4. /\ Tail(AbsNodes) \in Seq(Abstract!Node) /\ Len(Tail(AbsNodes)) = Len(list) - 1
          /\ \A i \in 1 .. Len(list) - 1 : Tail(AbsNodes)[i] = AbsNodes[i + 1]
      BY <1>8, <3>3, HeadTailProperties
    <3>5. \A i \in 1 .. Len(list) - 1 :
             /\ i + 1 \in 1 .. Len(list)
             /\ AbsNodes[i + 1] = Item(heap'[list[i + 1]])
      <4>1. \A i \in 1 .. Len(list) - 1 : i + 1 \in 1 .. Len(list) /\ i + 1 # k
        BY <1>5, <1>14, <2>1
      <4>2. \A i \in 1 .. Len(list) : i # k => AbsNodes[i] = Item(heap'[list[i]])
        BY <1>1, <1>9, <1>10 DEF Item, Seen
      <4> QED
        BY <4>1, <4>2
    <3>6. /\ AbsNodes' \in Seq(Abstract!Node) /\ Len(AbsNodes') = Len(list) - 1
          /\ \A i \in 1 .. Len(list) - 1 : AbsNodes'[i] = Item(heap'[list[i + 1]])
      <4>1. /\ AbsNodes' \in Seq(Abstract!Node) /\ Len(AbsNodes') = Len(Tail(list))
            /\ \A i \in 1 .. Len(Tail(list)) : AbsNodes'[i] = Item(heap'[Tail(list)[i]])
        BY <1>13, <3>1, <3>2
      <4> QED
        BY <4>1, <3>2
    <3>7. AbsNodes' = Tail(AbsNodes)
      BY <3>4, <3>5, <3>6, SeqEqual
    <3> QED
      BY <1>14, <2>1, <3>7 DEF Abstract!MarkAndReclaim
  <2>2. CASE Seen(1)' # Readers
    <3>1. Remaining' = list
      BY <1>1, <2>2 DEF Remaining, Seen
    <3>2. AbsNodes' = marked
      BY <1>2, <1>12, <1>13, <3>1, SeqEqual
    <3> QED
      BY <1>14, <2>2, <3>2 DEF Abstract!MarkAndReclaim, marked
  <2> QED
    BY <2>1, <2>2
<1>16. AbsNodes[k].data = heap[cur[r]].data /\ k \in 1 .. Len(AbsNodes)
  BY <1>3, <1>8, <1>9
<1> QED
  BY <1>1, <1>11, <1>15, <1>16 DEF Abstract!RemoveSuccess

(* Every step of the heap is a call of SBuffer, or none.                   *)
THEOREM HeapImplementsSBuffer == Spec => ImplementsSBuffer
<1>1. Init => Abstract!Init
  BY DEF Init, Abstract!Init, AbsNodes
<1>2. IInv /\ IInv' /\ SeenInv /\ SeenInv' /\ [Next]_vars
        => [Abstract!Next]_(Abstract!vars)
  <2> SUFFICES ASSUME IInv, IInv', SeenInv, SeenInv', [Next]_vars
               PROVE  [Abstract!Next]_(Abstract!vars)
    OBVIOUS
  <2>1. CASE BufferInit
    <3>1. list = <<>> /\ status = "null" /\ status' = "live" /\ list' = <<>>
      BY <2>1 DEF BufferInit, IInv, Stages
    <3>2. AbsNodes = <<>> /\ AbsNodes' = <<>>
      BY <3>1 DEF AbsNodes, Remaining
    <3> QED
      BY <2>1, <3>1, <3>2 DEF BufferInit, history, Abstract!BufferInit, Abstract!Next
  <2>2. CASE StartFree
    BY <2>2 DEF StartFree, history, AbsNodes, Abstract!Free, Abstract!Next
  <2>3. CASE LinkFirst \/ LinkLast
    <3>1. Abstract!Insert(arg)
      BY <2>3, LinkInserts
    <3>2. arg \in Data
      BY <2>3 DEF LinkFirst, LinkLast, At, IInv, Locals
    <3> QED
      BY <3>1, <3>2 DEF Abstract!Next
  <2>4. ASSUME NEW r \in Readers, NoData(r) \/ Mark(r)
        PROVE  Abstract!Next
    BY <2>4, NoDataRemoves, MarkRemoves DEF Abstract!Next, Abstract!Remove
  <2> QED
    BY <2>1, <2>2, <2>3, <2>4, SilentSteps
       DEF Next, InsertStep, RemoveStep, FreeStep, Finished
<1> QED
  BY <1>1, <1>2, Invariance, SeenInvariance, PTL
     DEF Spec, ImplementsSBuffer, Abstract!Spec
AbstractProofs == INSTANCE SBufferProofs WITH
                    status <- IF status = "freeing" THEN "freed" ELSE status,
                    nodes <- AbsNodes

(* So the calls, interleaved as they are, hand every reader the items in   *)
(* order and exactly once, and no item goes before its last reader has it: *)
(* what SBuffer promises holds of the pointers.                            *)
THEOREM HeapKeepsPromises == Spec => [](Abstract!InOrderOnce /\ Abstract!NothingLost)
<1>1. AbstractProofs!Spec
        => [](AbstractProofs!InOrderOnce /\ AbstractProofs!NothingLost)
  <2>1. Readers # {} /\ AbstractProofs!IsFiniteSet(Readers) /\ MaxInserts \in Nat
    BY HeapAssumption DEF AbstractProofs!IsFiniteSet, IsFiniteSet
  <2> QED
    BY <2>1, AbstractProofs!DeliveredInOrder, AbstractProofs!NoItemLost, PTL
<1>2. Abstract!Init => AbstractProofs!Init
  BY DEF Abstract!Init, AbstractProofs!Init
<1>3. [Abstract!Next]_(Abstract!vars) => [AbstractProofs!Next]_(AbstractProofs!vars)
  BY DEF Abstract!Next, Abstract!BufferInit, Abstract!Insert, Abstract!Remove,
         Abstract!RemoveSuccess, Abstract!RemoveNoData, Abstract!RemoveNull, Abstract!Free,
         Abstract!FirstUnread, Abstract!MarkAndReclaim, Abstract!AllRead, Abstract!vars,
         AbstractProofs!Next, AbstractProofs!BufferInit, AbstractProofs!Insert,
         AbstractProofs!Remove, AbstractProofs!RemoveSuccess,
         AbstractProofs!RemoveNoData, AbstractProofs!RemoveNull, AbstractProofs!Free,
         AbstractProofs!FirstUnread, AbstractProofs!MarkAndReclaim,
         AbstractProofs!AllRead, AbstractProofs!vars
<1>4. AbstractProofs!InOrderOnce => Abstract!InOrderOnce
  BY DEF Abstract!InOrderOnce, AbstractProofs!InOrderOnce
<1>5. AbstractProofs!NothingLost => Abstract!NothingLost
  BY DEF Abstract!NothingLost, AbstractProofs!NothingLost, Abstract!Base, AbstractProofs!Base
<1> QED
  BY <1>1, <1>2, <1>3, <1>4, <1>5, HeapImplementsSBuffer, PTL
     DEF ImplementsSBuffer, Abstract!Spec, AbstractProofs!Spec
===============================================================================
