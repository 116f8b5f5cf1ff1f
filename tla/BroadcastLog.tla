----------------------------- MODULE BroadcastLog -----------------------------
(***************************************************************************)
(* What the shared buffer of the gateway promises, without nodes, marks or *)
(* locks: one log that only grows, and every reader is handed the log from *)
(* its first item on, one item at a time, in order, at its own pace.       *)
(***************************************************************************)
EXTENDS Naturals, Sequences

CONSTANTS Readers,      \* the threads that read the buffer
          Data          \* the measurements that can be inserted

VARIABLES log,          \* everything inserted so far
          delivered     \* delivered[r]: what reader r has been handed so far

vars == <<log, delivered>>

Init == /\ log = <<>>
        /\ delivered = [r \in Readers |-> <<>>]

Insert(d) == /\ log' = Append(log, d)
             /\ UNCHANGED delivered

Deliver(r) == /\ Len(delivered[r]) < Len(log)
              /\ delivered' = [delivered EXCEPT ![r] = Append(@, log[Len(@) + 1])]
              /\ UNCHANGED log

Next == \/ \E d \in Data : Insert(d)
        \/ \E r \in Readers : Deliver(r)

Spec == Init /\ [][Next]_vars
===============================================================================
