--------------------------------- MODULE Lab9 ---------------------------------
(***************************************************************************)
(* The threads of lab_9 and their buffer: a writer that copies a file into *)
(* the buffer, two readers that each copy the buffer into a file of their  *)
(* own, and main.  A call of the buffer is one step, made under the mutex; *)
(* the test of the flag behind it is another one, made without.  A reader  *)
(* prints a line on every turn, also when there was nothing to read: its   *)
(* file is a sequence of runs of equal lines, which are counted up to MANY *)
(* so that polling an empty buffer has finitely many states.               *)
(***************************************************************************)
EXTENDS Naturals, SequencesExt

CONSTANTS Readers,      \* the ids of the reader threads
          File,         \* the measurements of the input file
          JUNK          \* what is in a variable that nobody has assigned

VARIABLES at,           \* where each thread is
          file,         \* what is left to read of the input file
          queue,        \* the buffer: measurements, each with who has read it
          flag,
          message, data,\* of each reader: what its last sbuffer_remove2 returned
          lines,        \* and its output file
          kept, handed   \* history: what was inserted, what each reader was handed

vars == <<at, file, queue, flag, message, data, lines, kept, handed>>

Threads == {"main", "writer"} \cup Readers

Init == /\ at = [t \in Threads |-> "start"]
        /\ file = File
        /\ queue = <<>> /\ flag = 0
        /\ message = [r \in Readers |-> JUNK]
        /\ data = [r \in Readers |-> JUNK]
        /\ lines = [r \in Readers |-> <<>>]
        /\ kept = <<>>
        /\ handed = [r \in Readers |-> <<>>]

Goto(t, from, to) == at[t] = from /\ at' = [at EXCEPT ![t] = to]

\* The runs of a file of lines: what was printed, and how many times in a row, where
\* MANY, the bound of the count, stands for itself and everything above.
MANY == 2
WithLine(runs, x) ==
  IF runs # <<>> /\ Last(runs).item = x
    THEN [runs EXCEPT ![Len(runs)].times = IF @ = MANY THEN MANY ELSE @ + 1]
    ELSE Append(runs, [item |-> x, times |-> 1])
RunItems(runs) == [i \in DOMAIN runs |-> runs[i].item]
-------------------------------------------------------------------------------
\* The mutex, the barrier, the buffer and the three threads; without the file or
\* the memory for the buffer main exits.
MainStarts == /\ at["main"] = "start"
              /\ at' = [t \in Threads |-> IF t = "main" THEN "barrier" ELSE "loop"]
              /\ UNCHANGED <<file, queue, flag, message, data, lines, kept, handed>>
MainExits == /\ Goto("main", "start", "done")
             /\ UNCHANGED <<file, queue, flag, message, data, lines, kept, handed>>

\* sbuffer_insert; its result is ignored, so without memory the measurement is lost.
Insert == /\ queue' = Append(queue, [data |-> Head(file), seen |-> {}])
          /\ kept' = Append(kept, Head(file))
InsertFails == UNCHANGED <<queue, kept>>

\* A turn of the writer's loop, up to the end of the file or a measurement that is
\* cut off, and the flag, which is set without the mutex.
Write == /\ at["writer"] = "loop" /\ file # <<>>
         /\ Insert \/ InsertFails
         /\ file' = Tail(file)
         /\ UNCHANGED <<at, flag, message, data, lines, handed>>

\* Fault: the flag is forgotten.
FinishUnflagged == /\ file = <<>>
                   /\ Goto("writer", "loop", "barrier")
                   /\ UNCHANGED <<file, queue, flag, message, data, lines, kept, handed>>

FinishWriting == /\ file = <<>>
                 /\ Goto("writer", "loop", "barrier")
                 /\ flag' = 1
                 /\ UNCHANGED <<file, queue, message, data, lines, kept, handed>>

-------------------------------------------------------------------------------
\* Fault: it goes once its first reader has it.
ReclaimEarly(q) == IF q # <<>> /\ q[1].seen # {} THEN Tail(q) ELSE q

\* The head goes once every reader has it.
Reclaim(q) == IF q # <<>> /\ q[1].seen = Readers THEN Tail(q) ELSE q

\* sbuffer_remove2, with data left alone when there is nothing to read; a node
\* behind the head is never freed.
Remove2(r) ==
  LET i == SelectInSeq(queue, LAMBDA n : r \notin n.seen)
  IN /\ at[r] = "loop"
     /\ at' = [at EXCEPT ![r] = "check"]
     /\ IF i = 0
          THEN /\ message' = [message EXCEPT ![r] = "NO_DATA"]
               /\ UNCHANGED <<queue, data, handed>>
          ELSE /\ message' = [message EXCEPT ![r] = "SUCCESS"]
               /\ data' = [data EXCEPT ![r] = queue[i].data]
               /\ queue' = LET marked == [queue EXCEPT ![i].seen = @ \cup {r}]
                           IN IF i = 1 THEN Reclaim(marked) ELSE marked
               /\ handed' = [handed EXCEPT ![r] = Append(@, queue[i].data)]
     /\ UNCHANGED <<file, flag, lines, kept>>

Leaves(r) == message[r] = "NO_DATA" /\ flag = 1

\* fprintf of whatever is in data, which is the last line again after NO_DATA.
PrintLine(r) == /\ ~Leaves(r)
                /\ Goto(r, "check", "loop")
                /\ lines' = [lines EXCEPT ![r] = WithLine(@, data[r])]
                /\ UNCHANGED <<file, queue, flag, message, data, kept, handed>>

FinishReading(r) == /\ Leaves(r)
                    /\ Goto(r, "check", "barrier")
                    /\ UNCHANGED <<file, queue, flag, message, data, lines, kept, handed>>
-------------------------------------------------------------------------------
\* pthread_barrier_wait of four threads.
PassBarrier(t) == /\ \A u \in Threads : at[u] \in {"barrier", "left"}
                  /\ Goto(t, "barrier", "left")
                  /\ UNCHANGED <<file, queue, flag, message, data, lines, kept, handed>>

\* The joins, and sbuffer_free of what nobody has read.
MainFrees == /\ \A t \in Threads : at[t] = "left"
             /\ Goto("main", "left", "done")
             /\ queue' = <<>>
             /\ UNCHANGED <<file, flag, message, data, lines, kept, handed>>

Finished == at["main"] = "done" /\ UNCHANGED vars

Reader(r) == Remove2(r) \/ PrintLine(r) \/ FinishReading(r) \/ PassBarrier(r)
Writer == Write \/ FinishWriting \/ PassBarrier("writer")
Main == MainStarts \/ MainExits \/ PassBarrier("main") \/ MainFrees

Next == Main \/ Writer \/ (\E r \in Readers : Reader(r)) \/ Finished

Spec == Init /\ [][Next]_vars

\* The scheduler runs every thread, and the mutex goes round.
Fairness == WF_vars(Main) /\ WF_vars(Writer) /\ \A r \in Readers : WF_vars(Reader(r))
FairSpec == Spec /\ Fairness
-------------------------------------------------------------------------------
Places == {"start", "loop", "check", "barrier", "left", "done"}
Items == ToSet(File)
TypeOK == /\ at \in [Threads -> Places]
          /\ file \in Seq(Items) /\ kept \in Seq(Items)
          /\ queue \in Seq([data : Items, seen : SUBSET Readers])
          /\ flag \in {0, 1}
          /\ message \in [Readers -> {JUNK, "SUCCESS", "NO_DATA"}]
          /\ data \in [Readers -> Items \cup {JUNK}]
          /\ lines \in [Readers -> Seq([item : Items \cup {JUNK}, times : 1 .. MANY])]
          /\ handed \in [Readers -> Seq(Items)]

\* sbuffer_remove2 (lab_9/sbuffer.c:86): however the readers take turns, a
\* measurement stays in the buffer until both have it, each gets them in the order
\* of the file, and has marked exactly those of the buffer that it has got.
Freed == Len(kept) - Len(queue)
NothingFreedUnread ==
  /\ \A r \in Readers : handed[r] = SubSeq(kept, 1, Len(handed[r]))
  /\ at["main"] # "done" =>
       /\ \A i \in DOMAIN queue : queue[i].data = kept[Freed + i]
       /\ \A r \in Readers :
            /\ Freed <= Len(handed[r])
            /\ \A i \in DOMAIN queue : r \in queue[i].seen <=> Freed + i <= Len(handed[r])

\* lab_9/main.c:56: however often a reader finds nothing to read and prints its last
\* line again, its file tells what it was handed: every measurement, in order, each on
\* one line or more in a row, behind any number of lines of a variable that was never
\* assigned, and nothing else.
FilesFollow ==
  \A r \in Readers :
    \E shown \in {handed[r]} \cup (IF at[r] = "check" /\ handed[r] # <<>>
                                    THEN {Front(handed[r])} ELSE {}) :
      RunItems(lines[r]) \in {shown, <<JUNK>> \o shown}

\* Every run ends: all four reach the barrier, main joins them and frees the buffer.
Ends == <>(at["main"] = "done")
===============================================================================
