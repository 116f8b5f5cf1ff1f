-------------------------------- MODULE Dplist --------------------------------
(***************************************************************************)
(* lib/dplist.c: the doubly linked list behind datamgr_list and            *)
(* connmgr_list, as heap nodes with prev and next pointers.  Each list is  *)
(* used by one thread, so a call is one step; dpl_free goes node by node.  *)
(* An element is what element_compare sees of it; who frees the element is *)
(* left to the callers.  A reference argument may be any pointer, also one *)
(* to a node that was removed long ago.                                    *)
(***************************************************************************)
EXTENDS Integers, Sequences, FiniteSets

CONSTANTS Cells,        \* the heap cells malloc can return for a node
          Keys, Indexes,
          NULL,
          FREED         \* what a pointer in a freed cell holds: anything

ASSUME DplistAssumption == /\ IsFiniteSet(Cells)
                           /\ Keys \subseteq Int /\ Indexes \subseteq Int
                           /\ NULL \notin Cells \cup {FREED} \cup Int
                           /\ FREED \notin Cells

VARIABLES status,       \* of the list pointer; "freeing" inside dpl_free
          head, prev, next, elem,
          used,         \* the allocated cells
          call          \* history: the last call, in the terms of ListContract

heap == <<head, prev, next, elem, used>>
vars == <<status, heap, call>>

Init == /\ status = "null"
        /\ head = NULL
        /\ prev = [c \in Cells |-> FREED]
        /\ next = [c \in Cells |-> FREED]
        /\ elem = [c \in Cells |-> FREED]
        /\ used = {}
        /\ call = <<"none">>

-------------------------------------------------------------------------------
\* The walks: OnWalk[k] is the node after k steps along next, from head.
OnWalk[k \in 0 .. Cardinality(Cells)] ==
  IF k = 0 THEN head
  ELSE IF OnWalk[k - 1] \in Cells THEN next[OnWalk[k - 1]] ELSE NULL

\* dpl_size
Size == Cardinality({k \in DOMAIN OnWalk : OnWalk[k] # NULL})

\* dpl_get_reference_at_index: stops at the index or at the last node.
ReferenceAtIndex(i) == IF head = NULL THEN NULL
                       ELSE OnWalk[IF i <= 0 THEN 0 ELSE IF i >= Size THEN Size - 1 ELSE i]
ElementAtIndex(i) == IF head = NULL THEN NULL ELSE elem[ReferenceAtIndex(i)]

\* The index of the first node of the walk for which Test holds, or else d.
FirstOnWalk(Test(_), d) ==
  LET hits == {k \in 0 .. Size - 1 : Test(OnWalk[k])}
  IN IF hits = {} THEN d ELSE CHOOSE k \in hits : \A j \in hits : k <= j

IndexOfElement(k) == FirstOnWalk(LAMBDA c : elem[c] = k, -1)
LastReference == ReferenceAtIndex(Size)
OrLast(r) == IF r = NULL THEN LastReference ELSE r
IndexOfReference(r) == FirstOnWalk(LAMBDA c : c = OrLast(r), -1)
ReferenceInList(r) == IF \E k \in 0 .. Size - 1 : OnWalk[k] = r THEN r ELSE NULL
NextReference(r) == IF ReferenceInList(r) = NULL THEN NULL ELSE next[r]
PreviousReference(r) == IF ReferenceInList(r) = NULL THEN NULL ELSE prev[r]
ElementAtReference(r) ==
  IF ReferenceInList(OrLast(r)) = NULL THEN NULL ELSE elem[OrLast(r)]
ReferenceOfElement(k) ==
  IF IndexOfElement(k) = -1 THEN NULL ELSE OnWalk[IndexOfElement(k)]

\* How ListContract names a reference.
Named(r) == IF r = NULL THEN NULL ELSE IndexOfReference(r)

-------------------------------------------------------------------------------
Create == /\ status = "null"
          /\ status' = "live"
          /\ head' = NULL
          /\ call' = <<"create">>
          /\ UNCHANGED <<prev, next, elem, used>>

\* dpl_insert_at_index, once the new node n is allocated.
Link(n, i) ==
  LET at == ReferenceAtIndex(i)
  IN \/ /\ Size = 0
        /\ next' = [next EXCEPT ![n] = NULL]
        /\ prev' = [prev EXCEPT ![n] = NULL]
        /\ head' = n
     \/ /\ Size > 0 /\ i <= 0
        /\ next' = [next EXCEPT ![n] = at]
        /\ prev' = [prev EXCEPT ![n] = NULL, ![at] = n]
        /\ head' = n
     \/ /\ Size > 0 /\ i > 0 /\ i >= Size
        /\ next' = [next EXCEPT ![n] = NULL, ![at] = n]
        /\ prev' = [prev EXCEPT ![n] = at]
        /\ UNCHANGED head
     \/ /\ 0 < i /\ i < Size
        /\ next' = [next EXCEPT ![n] = at, ![prev[at]] = n]
        /\ prev' = [prev EXCEPT ![n] = prev[at], ![at] = n]
        /\ UNCHANGED head

\* Fault: node_at_index keeps its pointer to the node before the new one.
InsertHalf(k, i) ==
  \E n \in Cells \ used :
    /\ used' = used \cup {n}
    /\ elem' = [elem EXCEPT ![n] = k]
    /\ LET at == ReferenceAtIndex(i)
       IN IF 0 < i /\ i < Size
          THEN /\ next' = [next EXCEPT ![n] = at, ![prev[at]] = n]
               /\ prev' = [prev EXCEPT ![n] = prev[at]]
               /\ UNCHANGED head
          ELSE Link(n, i)

Insert(k, i) == \E n \in Cells \ used :
                  /\ used' = used \cup {n}
                  /\ elem' = [elem EXCEPT ![n] = k]
                  /\ Link(n, i)

\* malloc returns NULL, or the list pointer of a call is NULL: an assertion.
AssertFails == /\ status \in {"null", "live"}
               /\ status' = "aborted"
               /\ call' = <<"abort">>
               /\ UNCHANGED heap

FreedIn(f, n) == [f EXCEPT ![n] = FREED]
Redirect(f, n, to) == IF n = NULL THEN f ELSE [f EXCEPT ![n] = to]

\* dpl_remove_at_index: the neighbours of n, where it has any, now point past it.
Unlink(n) == /\ head' = IF n = head THEN next[n] ELSE head
             /\ next' = FreedIn(Redirect(next, prev[n], next[n]), n)
             /\ prev' = FreedIn(Redirect(prev, next[n], prev[n]), n)

RemoveAt(i) == IF head = NULL THEN UNCHANGED heap
               ELSE LET n == ReferenceAtIndex(i)
                    IN /\ Unlink(n)
                       /\ elem' = FreedIn(elem, n)
                       /\ used' = used \ {n}

InsertAtIndex(k, i) == call' = <<"insert_at_index", k, i>> /\ Insert(k, i)

InsertSorted(k) == /\ call' = <<"insert_sorted", k>>
                   /\ Insert(k, FirstOnWalk(LAMBDA c : k <= elem[c], Size))

InsertAtReference(k, r) ==
  /\ call' = <<"insert_at_reference", k, Named(r)>>
  /\ IF IndexOfReference(r) = -1 THEN UNCHANGED heap ELSE Insert(k, IndexOfReference(r))

RemoveAtIndex(i) == call' = <<"remove_at_index", i>> /\ RemoveAt(i)

\* Fault: an element that is not in the list removes the first one.
RemoveUnchecked(k) == call' = <<"remove_element", k>> /\ RemoveAt(IndexOfElement(k))

RemoveElement(k) ==
  /\ call' = <<"remove_element", k>>
  /\ IF IndexOfElement(k) = -1 THEN UNCHANGED heap ELSE RemoveAt(IndexOfElement(k))

RemoveAtReference(r) ==
  /\ call' = <<"remove_at_reference", Named(r)>>
  /\ IF IndexOfReference(r) = -1 THEN UNCHANGED heap ELSE RemoveAt(IndexOfReference(r))

-------------------------------------------------------------------------------
\* dpl_free: while there is a second node, move head on and free what it has as
\* its prev; then the last node, and the list itself.

StartFree == /\ status = "live"
             /\ status' = "freeing"
             /\ call' = <<"free">>
             /\ UNCHANGED heap

FreeHead == /\ status = "freeing"
            /\ head # NULL
            /\ head' = next[head]
            /\ LET n == IF next[head] # NULL THEN prev[next[head]] ELSE head
               IN /\ used' = used \ {n}
                  /\ next' = FreedIn(next, n)
                  /\ prev' = FreedIn(Redirect(prev, next[head], NULL), n)
                  /\ elem' = FreedIn(elem, n)
            /\ UNCHANGED <<status, call>>

EndFree == /\ status = "freeing"
           /\ head = NULL
           /\ status' = "null"
           /\ UNCHANGED <<heap, call>>

Finished == status = "aborted" /\ UNCHANGED vars

Call == /\ status = "live"
        /\ \/ \E k \in Keys : \/ \E i \in Indexes : InsertAtIndex(k, i)
                              \/ \E r \in Cells \cup {NULL} : InsertAtReference(k, r)
                              \/ InsertSorted(k)
                              \/ RemoveElement(k)
           \/ \E i \in Indexes : RemoveAtIndex(i)
           \/ \E r \in Cells \cup {NULL} : RemoveAtReference(r)
        /\ UNCHANGED status

Next == Create \/ Call \/ StartFree \/ FreeHead \/ EndFree \/ AssertFails \/ Finished

Spec == Init /\ [][Next]_vars
-------------------------------------------------------------------------------
TypeOK == /\ status \in {"null", "live", "freeing", "aborted"}
          /\ head \in Cells \cup {NULL}
          /\ prev \in [Cells -> Cells \cup {NULL, FREED}]
          /\ next \in [Cells -> Cells \cup {NULL, FREED}]
          /\ elem \in [Cells -> Keys \cup {FREED}]
          /\ used \subseteq Cells

\* Each call changes the elements as ListContract says: the right place for any
\* index, the first one of equal elements, nothing for an unknown reference.  One call
\* does not: insert_at_reference with NULL puts the element before the last one, and
\* into an empty list not at all, where dplist.h:123 says at the end.  Nothing is
\* demanded of what it makes of the elements.
Elements == [p \in 1 .. Size |-> elem[OnWalk[p - 1]]]
Contract == INSTANCE ListContract WITH
              status <- IF status = "freeing" THEN "null" ELSE status,
              seq <- IF status = "live" THEN Elements ELSE <<>>
InsertsAtNull == /\ status = "live" /\ UNCHANGED status
                 /\ \E k \in Keys : call' = <<"insert_at_reference", k, NULL>>
ImplementsContract == Contract!Init /\ [][Contract!Next \/ InsertsAtNull]_(Contract!vars)

\* The getters agree with the sequence and with each other: an element is found
\* where its index says, and stepping forth and back along references returns.
GettersAgree ==
  status = "live" =>
    /\ Size = Cardinality(used)
    /\ \A i \in Indexes : ElementAtIndex(i) = Contract!ElementAtIndex(i)
    /\ \A k \in Keys :
         /\ IndexOfElement(k) = Contract!IndexOfElement(k)
         /\ IndexOfElement(k) # -1 => ElementAtReference(ReferenceOfElement(k)) = k
    /\ \A r \in used : /\ ReferenceAtIndex(IndexOfReference(r)) = r
                       /\ NextReference(r) # NULL => PreviousReference(NextReference(r)) = r

\* Whatever calls were made, with whatever indices and stale references, the
\* prev pointers spell the walk along next backwards, and the nodes of the walk are
\* all that is allocated, also half-way through dpl_free.  dpl_remove_at_index and
\* dpl_free trust prev, which no other call reads back; and the getters agree.
ListIntact == /\ TypeOK /\ GettersAgree
              /\ head # NULL => prev[head] = NULL
              /\ \A k \in 0 .. Size - 2 : prev[OnWalk[k + 1]] = OnWalk[k]
              /\ used = {OnWalk[k] : k \in 0 .. Size - 1}
===============================================================================
