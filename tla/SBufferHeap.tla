----------------------------- MODULE SBufferHeap ------------------------------
(***************************************************************************)
(* The shared buffer as sbuffer.c builds it: a singly linked list of heap  *)
(* nodes with a head and a tail pointer, and main.c's mutex around every   *)
(* call.  A step is one pointer operation, so the steps of the writer and  *)
(* of the readers may interleave wherever the mutex does not forbid it.    *)
(* A node that is freed keeps its contents until it is allocated and       *)
(* filled again.                                                           *)
(***************************************************************************)
EXTENDS Naturals, Sequences, FiniteSets

CONSTANTS Readers, Data, MaxInserts,
          Writer,       \* the connmgr thread
          Addr,         \* the heap cells malloc can return for a node
          NULL

ASSUME HeapAssumption == /\ Readers # {} /\ IsFiniteSet(Readers)
                         /\ Data # {}
                         /\ IsFiniteSet(Addr)
                         /\ Writer \notin Readers
                         /\ NULL \notin Addr \cup Readers \cup {Writer}
                         /\ MaxInserts \in Nat

Threads == Readers \cup {Writer}

VARIABLES status,       \* of the buffer pointer
          head, tail,   \* the two pointers of struct sbuffer
          heap,         \* the contents of every cell
          used,         \* the cells that are allocated
          mutex,        \* who holds it, or NULL
          pc,           \* where each thread is inside its call
          cur,          \* the local pointer "dummy" of each thread
          arg,          \* the measurement the writer is inserting, or NULL
          list,         \* history: the cells from head to the last one linked
          ret, inserted, got    \* as in SBuffer

buffer == <<status, head, tail, heap, used, list>>
history == <<ret, inserted, got>>
vars == <<buffer, mutex, pc, cur, arg, history>>

Cell == [data : Data, next : Addr \cup {NULL}, seen : SUBSET Readers]

\* Cells start out with whatever is in memory; all of it is overwritten when
\* sbuffer_insert fills a node, so one value stands for them all.
Garbage == [data |-> CHOOSE d \in Data : TRUE, next |-> NULL, seen |-> Readers]

Init == /\ status = "null"
        /\ head = NULL /\ tail = NULL
        /\ heap = [a \in Addr |-> Garbage]
        /\ used = {}
        /\ mutex = NULL
        /\ pc = [t \in Threads |-> "idle"]
        /\ cur = [t \in Threads |-> NULL]
        /\ arg = NULL
        /\ list = <<>>
        /\ ret = [r \in Readers |-> "none"]
        /\ inserted = <<>>
        /\ got = [r \in Readers |-> <<>>]

Goto(t, l) == pc' = [pc EXCEPT ![t] = l]
At(t, l) == pc[t] = l

\* sbuffer_init, before the threads start.
BufferInit == /\ status = "null"
              /\ status' = "live"
              /\ head' = NULL /\ tail' = NULL
              /\ UNCHANGED <<heap, used, list, mutex, pc, cur, arg, history>>

-------------------------------------------------------------------------------
\* pthread_mutex_lock and pthread_mutex_unlock of write_to_buffer and
\* read_from_buffer.  The locals of the call are gone when it returns.
\* Fault: a call that does not wait for the mutex.
AcquireUnchecked(t) == mutex' = t

Acquire(t) == mutex = NULL /\ mutex' = t

Unlock(t) == /\ At(t, "unlock")
             /\ mutex' = NULL
             /\ Goto(t, "idle")
             /\ cur' = [cur EXCEPT ![t] = NULL]
             /\ arg' = IF t = Writer THEN NULL ELSE arg
             /\ UNCHANGED <<buffer, history>>

-------------------------------------------------------------------------------
\* sbuffer_insert

StartInsert(d) == /\ At(Writer, "idle")
                  /\ status = "live"
                  /\ Len(inserted) < MaxInserts
                  /\ Acquire(Writer)
                  /\ arg' = d
                  /\ Goto(Writer, "malloc")
                  /\ UNCHANGED <<buffer, cur, history>>

Malloc == /\ At(Writer, "malloc")
          /\ \E a \in Addr \ used :
                /\ used' = used \cup {a}
                /\ cur' = [cur EXCEPT ![Writer] = a]
          /\ Goto(Writer, "fill")
          /\ UNCHANGED <<status, head, tail, heap, list, mutex, arg, history>>

\* Fault: the early return of SBUFFER_FAILURE skips the unlock.
MallocFailsHolding == /\ At(Writer, "malloc")
                      /\ Goto(Writer, "idle")
                      /\ UNCHANGED <<buffer, mutex, cur, arg, history>>

\* malloc may return NULL whatever is left: SBUFFER_FAILURE, which
\* write_to_buffer does not look at.
MallocFails == /\ At(Writer, "malloc")
               /\ Goto(Writer, "unlock")
               /\ UNCHANGED <<buffer, mutex, cur, arg, history>>

\* Fault: without the memset of the flags.
FillStaleFlags == /\ At(Writer, "fill")
                  /\ heap' = [heap EXCEPT ![cur[Writer]].data = arg,
                                           ![cur[Writer]].next = NULL]
                  /\ Goto(Writer, "link")
                  /\ UNCHANGED <<status, head, tail, used, list, mutex, cur, arg, history>>

Fill == /\ At(Writer, "fill")
        /\ heap' = [heap EXCEPT ![cur[Writer]] =
                      [data |-> arg, next |-> NULL, seen |-> {}]]
        /\ Goto(Writer, "link")
        /\ UNCHANGED <<status, head, tail, used, list, mutex, cur, arg, history>>

LinkFirst == /\ At(Writer, "link")
             /\ tail = NULL
             /\ head' = cur[Writer] /\ tail' = cur[Writer]
             /\ list' = <<cur[Writer]>>
             /\ inserted' = Append(inserted, arg)
             /\ Goto(Writer, "unlock")
             /\ UNCHANGED <<status, heap, used, mutex, cur, arg, ret, got>>

LinkLast == /\ At(Writer, "link")
            /\ tail # NULL
            /\ heap' = [heap EXCEPT ![tail].next = cur[Writer]]
            /\ list' = Append(list, cur[Writer])
            /\ inserted' = Append(inserted, arg)
            /\ Goto(Writer, "tail")
            /\ UNCHANGED <<status, head, tail, used, mutex, cur, arg, ret, got>>

MoveTail == /\ At(Writer, "tail")
            /\ tail' = heap[tail].next
            /\ Goto(Writer, "unlock")
            /\ UNCHANGED <<status, head, heap, used, list, mutex, cur, arg, history>>

-------------------------------------------------------------------------------
\* sbuffer_remove

StartRemove(r) == /\ At(r, "idle")
                  /\ status = "live"
                  /\ Acquire(r)
                  /\ Goto(r, "walk")
                  /\ cur' = [cur EXCEPT ![r] = head]
                  /\ UNCHANGED <<buffer, arg, history>>

\* The while loop: past every node this reader has marked.
Walk(r) == /\ At(r, "walk")
           /\ cur[r] # NULL
           /\ r \in heap[cur[r]].seen
           /\ cur' = [cur EXCEPT ![r] = heap[cur[r]].next]
           /\ UNCHANGED <<buffer, mutex, pc, arg, history>>

\* head == NULL or the end of the list: SBUFFER_NO_DATA.
NoData(r) == /\ At(r, "walk")
             /\ cur[r] = NULL
             /\ ret' = [ret EXCEPT ![r] = "NO_DATA"]
             /\ Goto(r, "unlock")
             /\ UNCHANGED <<buffer, mutex, cur, arg, inserted, got>>

\* The first unmarked node: copy the data out and set the flag.
Mark(r) == /\ At(r, "walk")
           /\ cur[r] # NULL
           /\ r \notin heap[cur[r]].seen
           /\ got' = [got EXCEPT ![r] = Append(@, heap[cur[r]].data)]
           /\ heap' = [heap EXCEPT ![cur[r]].seen = @ \cup {r}]
           /\ ret' = [ret EXCEPT ![r] = "SUCCESS"]
           /\ Goto(r, "check")
           /\ UNCHANGED <<status, head, tail, used, list, mutex, cur, arg, inserted>>

\* "check if remove or not"
Reclaimable(r) == cur[r] = head /\ heap[cur[r]].seen = Readers

Keep(r) == /\ At(r, "check")
           /\ ~Reclaimable(r)
           /\ Goto(r, "unlock")
           /\ UNCHANGED <<buffer, mutex, cur, arg, history>>

\* Fault: removing the only node leaves the tail pointer on it.
UnlinkKeepTail(r) == /\ At(r, "check")
                     /\ Reclaimable(r)
                     /\ head' = heap[head].next
                     /\ list' = Tail(list)
                     /\ Goto(r, "free")
                     /\ UNCHANGED <<status, tail, heap, used, mutex, cur, arg, history>>

Unlink(r) == /\ At(r, "check")
             /\ Reclaimable(r)
             /\ IF head = tail THEN head' = NULL /\ tail' = NULL
                               ELSE head' = heap[head].next /\ UNCHANGED tail
             /\ list' = Tail(list)
             /\ Goto(r, "free")
             /\ UNCHANGED <<status, heap, used, mutex, cur, arg, history>>

\* Fault: the unlinked node is not freed.
FreeNothing(r) == /\ At(r, "free")
                  /\ Goto(r, "unlock")
                  /\ UNCHANGED <<buffer, mutex, cur, arg, history>>

FreeNode(r) == /\ At(r, "free")
               /\ used' = used \ {cur[r]}
               /\ Goto(r, "unlock")
               /\ UNCHANGED <<status, head, tail, heap, list, mutex, cur, arg, history>>

-------------------------------------------------------------------------------
\* sbuffer_free, called by main after it has joined the three threads: the loop
\* takes one node off the head at a time, then the buffer is freed and NULL.

StartFree == /\ status = "live"
             /\ \A t \in Threads : At(t, "idle")
             /\ status' = "freeing"
             /\ UNCHANGED <<list, head, tail, heap, used, mutex, pc, cur, arg, history>>

FreeHead == /\ status = "freeing"
            /\ head # NULL
            /\ head' = heap[head].next
            /\ used' = used \ {head}
            /\ list' = Tail(list)
            /\ UNCHANGED <<status, tail, heap, mutex, pc, cur, arg, history>>

EndFree == /\ status = "freeing"
           /\ head = NULL
           /\ status' = "freed"
           /\ UNCHANGED <<head, tail, heap, used, list, mutex, pc, cur, arg, history>>

\* main goes on without the buffer.
Finished == status = "freed" /\ UNCHANGED vars

-------------------------------------------------------------------------------
InsertStep == Malloc \/ MallocFails \/ Fill \/ LinkFirst \/ LinkLast \/ MoveTail
RemoveStep(r) == Walk(r) \/ NoData(r) \/ Mark(r) \/ Keep(r) \/ Unlink(r) \/ FreeNode(r)
FreeStep == StartFree \/ FreeHead \/ EndFree

Next == \/ BufferInit
        \/ \E d \in Data : StartInsert(d)
        \/ InsertStep
        \/ \E r \in Readers : StartRemove(r) \/ RemoveStep(r)
        \/ \E t \in Threads : Unlock(t)
        \/ FreeStep
        \/ Finished

Spec == Init /\ [][Next]_vars

\* A thread that is running keeps running; nothing is assumed about who gets the
\* mutex, nor that a thread makes another call.
Fairness == /\ WF_vars(InsertStep)
            /\ \A r \in Readers : WF_vars(RemoveStep(r))
            /\ \A t \in Threads : WF_vars(Unlock(t))
            /\ WF_vars(FreeHead \/ EndFree)
FairSpec == Spec /\ Fairness
-------------------------------------------------------------------------------
TypeOK == /\ status \in {"null", "live", "freeing", "freed"}
          /\ head \in Addr \cup {NULL} /\ tail \in Addr \cup {NULL}
          /\ heap \in [Addr -> Cell]
          /\ used \subseteq Addr
          /\ mutex \in Threads \cup {NULL}
          /\ pc \in [Threads -> {"idle", "malloc", "fill", "link", "tail", "walk",
                                 "check", "free", "unlock"}]
          /\ cur \in [Threads -> Addr \cup {NULL}]
          /\ arg \in Data \cup {NULL}
          /\ list \in Seq(Addr)

Cells == {list[i] : i \in 1 .. Len(list)}

\* The pointers spell out the list: from head, along next, to a last node whose
\* next is NULL, without meeting a cell twice; and the tail pointer is that last
\* node, unless the writer has linked a node and not yet moved the tail.
ListIntact ==
  /\ Cardinality(Cells) = Len(list)
  /\ IF list = <<>>
       THEN head = NULL /\ (status = "live" => tail = NULL)
       ELSE /\ head = list[1]
            /\ \A i \in 1 .. Len(list) :
                 heap[list[i]].next = IF i < Len(list) THEN list[i + 1] ELSE NULL
            /\ tail = list[IF pc[Writer] = "tail" THEN Len(list) - 1 ELSE Len(list)]

\* Every pointer a thread is about to follow leads to an allocated cell: no step
\* of any interleaving reads or writes a node that was freed.
NoUseAfterFree ==
  /\ TypeOK
  /\ Cells \subseteq used
  /\ status = "live" /\ tail # NULL => tail \in used
  /\ \A t \in Threads : cur[t] # NULL /\ pc[t] # "unlock" => cur[t] \in used

\* No cell leaks: outside the calls exactly the cells of the list are allocated,
\* and after sbuffer_free none is.
NoLeak == /\ mutex = NULL => used = Cells
          /\ status = "freed" => used = {}

\* Every call returns: the walk from the head always ends, and whoever holds the
\* mutex lets go of it.
CallsReturn == \A t \in Threads : (mutex = t) ~> (mutex = NULL)

\* The calls as SBuffer sees them.  A call takes effect when the writer links
\* the node and when the reader marks it; a head that all readers have marked is
\* gone already, although it is unlinked one step later.
Remaining == IF list # <<>> /\ heap[list[1]].seen = Readers THEN Tail(list) ELSE list
AbsNodes == IF status # "live" THEN <<>>
            ELSE [i \in 1 .. Len(Remaining) |->
                    [data |-> heap[Remaining[i]].data, seen |-> heap[Remaining[i]].seen]]

Abstract == INSTANCE SBuffer WITH
              status <- IF status = "freeing" THEN "freed" ELSE status,
              nodes <- AbsNodes
ImplementsSBuffer == Abstract!Spec
===============================================================================
