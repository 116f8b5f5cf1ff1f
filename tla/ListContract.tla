----------------------------- MODULE ListContract -----------------------------
(***************************************************************************)
(* What the list of lib/dplist.c promises its callers, without nodes or    *)
(* pointers: a sequence of elements, an effect on it for each call, and    *)
(* the conventions for indices outside it.  A reference is named by the    *)
(* index it stands for (-1 for one that is not in the list), or NULL.      *)
(***************************************************************************)
EXTENDS Integers, SequencesExt

CONSTANTS Keys,         \* what element_compare tells apart, with its order
          Indexes,      \* the indices callers use
          NULL

VARIABLES status,       \* "null" | "live" | "aborted"
          seq,          \* the elements of the list, in order
          call          \* the last call

vars == <<status, seq, call>>

Init == status = "null" /\ seq = <<>> /\ call = <<"none">>

\* How many elements are in front of index i: 0 or negative is the start, beyond
\* the last one is the end.
Before(i) == IF i <= 0 THEN 0 ELSE IF i >= Len(seq) THEN Len(seq) ELSE i

\* The index of the first element for which Test holds, or else d.
FirstIndex(Test(_), d) == LET p == SelectInSeq(seq, Test) IN IF p = 0 THEN d ELSE p - 1

IndexOfElement(k) == FirstIndex(LAMBDA x : x = k, -1)
ElementAtIndex(i) == IF seq = <<>> THEN NULL
                     ELSE seq[IF Before(i) = Len(seq) THEN Len(seq) ELSE Before(i) + 1]

Put(k, i) == seq' = InsertAt(seq, Before(i) + 1, k)
Take(i) == seq' = IF seq = <<>> THEN seq
                  ELSE RemoveAt(seq, IF Before(i) = Len(seq) THEN Len(seq) ELSE Before(i) + 1)

\* What remove_at_reference takes away: at NULL the last element, if there is one.
At(r) == IF r = NULL THEN Len(seq) - 1 ELSE r

Create == status = "null" /\ status' = "live" /\ seq' = <<>> /\ call' = <<"create">>
Free == status = "live" /\ status' = "null" /\ seq' = <<>> /\ call' = <<"free">>
Abort == status' = "aborted" /\ seq' = <<>> /\ call' = <<"abort">>

\* The calls that change a live list, but for the one below.
Effect ==
  \/ \E k \in Keys, i \in Indexes :
       call' = <<"insert_at_index", k, i>> /\ Put(k, i)
  \/ \E k \in Keys :
       /\ call' = <<"insert_sorted", k>>
       /\ Put(k, FirstIndex(LAMBDA x : k <= x, Len(seq)))
  \/ \E k \in Keys, r \in -1 .. Len(seq) - 1 :
       /\ call' = <<"insert_at_reference", k, r>>
       /\ IF r = -1 THEN UNCHANGED seq ELSE Put(k, r)
  \/ \E i \in Indexes :
       call' = <<"remove_at_index", i>> /\ Take(i)
  \/ \E k \in Keys :
       /\ call' = <<"remove_element", k>>
       /\ IF IndexOfElement(k) = -1 THEN UNCHANGED seq ELSE Take(IndexOfElement(k))
  \/ \E r \in -1 .. Len(seq) - 1 \cup {NULL} :
       /\ call' = <<"remove_at_reference", r>>
       /\ IF At(r) = -1 THEN UNCHANGED seq ELSE Take(At(r))

\* dplist.h:123: at NULL "the element is inserted at the end of 'list'".
InsertAtNull(k) == call' = <<"insert_at_reference", k, NULL>> /\ Put(k, Len(seq))

Next == \/ Create \/ Free \/ Abort
        \/ status = "live" /\ (Effect \/ \E k \in Keys : InsertAtNull(k)) /\ UNCHANGED status

Spec == Init /\ [][Next]_vars
===============================================================================
