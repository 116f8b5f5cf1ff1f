------------------------------ MODULE LabsProofs ------------------------------
(***************************************************************************)
(* Proofs about the programs of the labs, as MCLabs runs them, and about   *)
(* LogPipe, the final program's log, which grew out of lab 7's.            *)
(*                                                                         *)
(* Each step of MCLabs is one of the program that runs, and leaves the     *)
(* variables of the other ones alone, so each program has an invariant of  *)
(* its own.                                                                *)
(***************************************************************************)
EXTENDS LogPipe, MCLabs, SequenceTheorems, WellFoundedInduction, TLAPS

-------------------------------------------------------------------------------
(* The log of the final program, for any set of writing threads and any    *)
(* sizes of the stdio buffer and the pipe: nothing is lost, doubled or     *)
(* overtaken on the way of a message, and a gateway that ends normally     *)
(* leaves all of them in gateway.log.                                      *)
(*                                                                         *)
(* That the three pieces of the way spell out what was written, perhaps    *)
(* with "exiting_pipe" behind it, is not inductive: a thread could print   *)
(* behind "exiting_pipe", or the child take it for the end too early.      *)
(* Carried says at which stage of the gateway it is there, and Over that   *)
(* the child ends its loop only when nobody can write any more.            *)
InARow(r, s, t) == r \o s \o t

Way == InARow(log, pipe, stdio)

Carried ==
  /\ gateway \in {"opening", "running", "aborted"} => Way = written
  /\ gateway = "exiting" => Way = Append(written, EXIT)
  /\ gateway = "killed" => Way \in {written, Append(written, EXIT)}
  /\ gateway \in {"exited", "ended"} =>
       /\ stdio = <<>>
       /\ IF child = "done" THEN pipe = <<>> /\ log = written
                            ELSE Way = Append(written, EXIT)

Room == gateway \in {"opening", "running"} => Len(stdio) <= StdioCap

Over == /\ gateway = "opening" <=> child = "opening"
        /\ child = "done" => GatewayOver

IInv == TypeOK /\ Carried /\ Room /\ Over

-------------------------------------------------------------------------------
Added(s, e, t) == t = Append(s, e)
Moved(s, t, a, b) == t # <<>> /\ a = Append(s, Head(t)) /\ b = Tail(t)

(* Three sequences in a row: a new item at the end of the last one is the  *)
(* new end of the whole.                                                   *)
LEMMA AppendLast ==
  ASSUME NEW r \in Seq(Message), NEW s \in Seq(Message), NEW t \in Seq(Message),
         NEW e \in Message, NEW u, Added(t, e, u)
  PROVE  Added(InARow(r, s, t), e, InARow(r, s, u))
<1>1. r \o s \in Seq(Message) /\ r \o s \o t \in Seq(Message)
  BY ConcatProperties
<1>2. Append(t, e) = t \o <<e>> /\ Append(r \o s \o t, e) = r \o s \o t \o <<e>>
  BY <1>1, AppendIsConcat
<1> QED
  BY <1>1, <1>2, ConcatAssociative DEF InARow, Added

(* The head of the last one that goes to the end of the one before it      *)
(* leaves the three as they are.                                           *)
LEMMA HandOver ==
  ASSUME NEW r \in Seq(Message), NEW s \in Seq(Message), NEW t \in Seq(Message),
         NEW a, NEW b, Moved(s, t, a, b)
  PROVE  /\ a \in Seq(Message) /\ b \in Seq(Message)
         /\ a \o b = s \o t
         /\ InARow(r, a, b) = InARow(r, s, t)
<1>1. /\ Head(t) \in Message /\ Tail(t) \in Seq(Message) /\ Len(Tail(t)) = Len(t) - 1
      /\ \A i \in 1 .. Len(Tail(t)) : Tail(t)[i] = t[i + 1]
  BY HeadTailProperties DEF Moved
<1>2. a \in Seq(Message) /\ b \in Seq(Message)
  BY <1>1, AppendProperties DEF Moved
<1>3. a \o b = s \o t
  <2>1. t = <<Head(t)>> \o Tail(t)
    BY <1>1 DEF Moved
  <2>2. Append(s, Head(t)) = s \o <<Head(t)>> /\ <<Head(t)>> \in Seq(Message)
    BY <1>1, AppendIsConcat
  <2>3. (s \o <<Head(t)>>) \o Tail(t) = s \o (<<Head(t)>> \o Tail(t))
    BY <1>1, <2>2, ConcatAssociative
  <2> QED
    BY <2>1, <2>2, <2>3 DEF Moved
<1>4. InARow(r, a, b) = r \o (a \o b)
  BY SMTT(30), <1>2 DEF InARow
<1>5. InARow(r, s, t) = r \o (s \o t)
  BY DEF InARow
<1> QED
  BY <1>2, <1>3, <1>4, <1>5

(* So does the head of the middle one that goes to the end of the first.   *)
LEMMA TakeHead ==
  ASSUME NEW r \in Seq(Message), NEW s \in Seq(Message), NEW t \in Seq(Message),
         NEW a, NEW b, Moved(r, s, a, b)
  PROVE  InARow(a, b, t) = InARow(r, s, t)
<1>1. a \o b = r \o s
  BY SMTT(30), HandOver
<1> QED
  BY <1>1 DEF InARow

(* If the first item behind r is not one of Writers, r is all that was     *)
(* written, and that item the last one.                                    *)
Ending(s, q) == s # <<>> /\ Head(s) = EXIT /\ q = Tail(s)

LEMMA ExitIsLast ==
  ASSUME NEW r \in Seq(Writers), NEW s \in Seq(Message), NEW t \in Seq(Message),
         NEW w \in Seq(Writers), NEW q, Ending(s, q)
  PROVE  /\ InARow(r, s, t) # w
         /\ Added(w, EXIT, InARow(r, s, t)) => r = w /\ q = <<>> /\ t = <<>>
<1> DEFINE n == Len(r) + 1
           a == InARow(r, s, t)
<1>0. r \in Seq(Message) /\ w \in Seq(Message) /\ EXIT \in Message
  BY SeqMonotonic DEF Message
<1>1. /\ Len(r) \in Nat /\ Len(t) \in Nat /\ Len(w) \in Nat /\ Len(s) \in Nat \ {0}
      /\ s[1] = EXIT
  BY <1>0 DEF Ending
<1>2. /\ a \in Seq(Message) /\ Len(a) = Len(r) + Len(s) + Len(t)
      /\ a[n] = EXIT
      /\ \A i \in 1 .. Len(r) : a[i] = r[i]
  <2>1. /\ r \o s \in Seq(Message) /\ Len(r \o s) = Len(r) + Len(s)
        /\ (r \o s)[n] = EXIT
        /\ \A i \in 1 .. Len(r) : (r \o s)[i] = r[i]
    BY <1>0, <1>1, ConcatProperties
  <2> QED
    BY <1>1, <2>1, ConcatProperties DEF InARow
<1> HIDE DEF a
<1>3. a # w
  BY <1>1, <1>2, ElementOfSeq, ExitAssumption
<1>4. ASSUME a = Append(w, EXIT) PROVE r = w /\ q = <<>> /\ t = <<>>
  <2>1. /\ Len(a) = Len(w) + 1
        /\ \A i \in 1 .. Len(w) : a[i] = w[i]
    BY <1>0, <1>4, AppendProperties
  <2>2. n = Len(w) + 1
    <3>1. n \in 1 .. Len(w) => a[n] \in Writers
      BY <2>1, ElementOfSeq
    <3> QED
      BY <1>1, <1>2, <2>1, <3>1, ExitAssumption
  <2>3. Len(r) = Len(w) /\ Len(s) <= 1 /\ Len(t) <= 0
    <3>1. Len(r) + Len(s) + Len(t) = Len(r) + 1 /\ Len(r) + 1 = Len(w) + 1
      BY <1>2, <2>1, <2>2
    <3> QED
      BY <1>1, <3>1
  <2>4. r = w
    BY <1>1, <1>2, <2>1, <2>3, SeqEqual
  <2>5. q \in Seq(Message) /\ Len(q) = Len(s) - 1
    BY HeadTailProperties DEF Ending
  <2>6. ~(q # <<>>) /\ ~(t # <<>>)
    BY <1>1, <2>3, <2>5, EmptySeq
  <2> QED
    BY <2>4, <2>6
<1> QED
  BY <1>3, <1>4 DEF a, Added

-------------------------------------------------------------------------------
LEMMA IInvInit == Init => IInv
<1> SUFFICES ASSUME Init PROVE IInv
  OBVIOUS
<1>1. TypeOK
  BY LogPipeAssumption DEF Init, TypeOK
<1>2. Way = written
  BY DEF Init, Way, InARow
<1> QED
  BY <1>1, <1>2, LogPipeAssumption DEF Init, IInv, Carried, Room, Over

(* Every step keeps TypeOK and Room: only a fprintf that finds room in the *)
(* buffer fills it, and "exiting_pipe" comes once.                         *)
LEMMA TypeKept ==
  ASSUME TypeOK, Room, [Next]_vars PROVE TypeOK' /\ Room'
<1> USE LogPipeAssumption DEF TypeOK, Room
<1>0. EXIT \in Message /\ Writers \subseteq Message
  BY DEF Message
<1>1. CASE UNCHANGED vars \/ Finished
  BY <1>1 DEF vars, Finished
<1>2. CASE OpenFifo \/ BrokenPipe \/ Abort \/ CloseFifo \/ WaitForChild \/ OpenLog
           \/ EndOfFile
  BY <1>2 DEF OpenFifo, BrokenPipe, Abort, CloseFifo, WaitForChild, OpenLog, EndOfFile
<1>3. CASE \E w \in Writers : Call(w) \/ Lock(w)
  BY <1>3 DEF Call, Lock
<1>4. CASE \E w \in Writers : PrintLine(w)
  <2>1. PICK w \in Writers : PrintLine(w)
    BY <1>4
  <2>2. /\ Append(stdio, w) \in Seq(Message) /\ Append(written, w) \in Seq(Writers)
        /\ Len(Append(stdio, w)) = Len(stdio) + 1 /\ Len(stdio) \in Nat
    BY <1>0, AppendProperties
  <2> QED
    BY <2>1, <2>2 DEF PrintLine
<1>5. CASE PrintExit
  <2>1. /\ Append(stdio, EXIT) \in Seq(Message)
        /\ Len(Append(stdio, EXIT)) = Len(stdio) + 1 /\ Len(stdio) \in Nat
    BY <1>0, AppendProperties
  <2> QED
    BY <1>5, <2>1 DEF PrintExit
<1>6. CASE Flush
  <2>1. stdio # <<>> /\ Len(stdio) \in Nat /\ Len(pipe) \in Nat
    BY <1>6 DEF Flush
  <2>2. /\ Head(stdio) \in Message /\ Tail(stdio) \in Seq(Message)
        /\ Len(Tail(stdio)) = Len(stdio) - 1
    BY <2>1, HeadTailProperties
  <2>3. /\ Append(pipe, Head(stdio)) \in Seq(Message)
        /\ Len(Append(pipe, Head(stdio))) = Len(pipe) + 1
    BY <2>2, AppendProperties
  <2> QED
    BY <1>6, <2>1, <2>2, <2>3 DEF Flush
<1>7. CASE ReadLine
  <2>1. /\ Head(pipe) \in Message /\ Tail(pipe) \in Seq(Message)
        /\ Len(Tail(pipe)) = Len(pipe) - 1 /\ Len(pipe) \in Nat
    BY <1>7, HeadTailProperties DEF ReadLine
  <2>2. Head(pipe) # EXIT => Append(log, Head(pipe)) \in Seq(Writers)
    BY <2>1, AppendProperties DEF Message
  <2>3. CASE Head(pipe) = EXIT
    BY <1>7, <2>1, <2>3 DEF ReadLine
  <2>4. CASE Head(pipe) # EXIT
    <3>1. /\ log' = Append(log, Head(pipe)) /\ pipe' = Tail(pipe)
          /\ UNCHANGED <<gateway, child, mutex, pc, stdio, written>>
      BY <1>7, <2>4 DEF ReadLine
    <3>2. log' \in Seq(Writers) /\ pipe' \in Seq(Message) /\ Len(pipe') <= PipeCap
      BY <2>1, <2>2, <2>4, <3>1
    <3> QED
      BY <3>1, <3>2
  <2> QED
    BY <2>3, <2>4
<1> QED
  BY <1>1, <1>2, <1>3, <1>4, <1>5, <1>6, <1>7 DEF Next, MainStep, ChildStep

(* Every step keeps what the way of a message carries.                     *)
LEMMA CarriedKept ==
  ASSUME IInv, [Next]_vars PROVE Carried'
<1> USE DEF IInv, Carried, Way
<1>0. /\ log \in Seq(Writers) /\ log \in Seq(Message) /\ pipe \in Seq(Message)
      /\ stdio \in Seq(Message) /\ written \in Seq(Writers) /\ EXIT \in Message
      /\ Writers \subseteq Message
  BY SeqMonotonic DEF TypeOK, Message
<1>1. CASE UNCHANGED vars \/ Finished
  BY <1>1 DEF vars, Finished
<1>2. CASE \/ OpenFifo \/ BrokenPipe \/ Abort \/ WaitForChild \/ OpenLog
           \/ \E w \in Writers : Call(w) \/ Lock(w)
  BY <1>2 DEF OpenFifo, BrokenPipe, Flushing, Abort, WaitForChild, OpenLog, Call, Lock
<1>3. CASE CloseFifo
  BY <1>3 DEF CloseFifo, Over, GatewayOver
<1>4. CASE \E w \in Writers : PrintLine(w)
  <2>1. PICK w \in Writers : PrintLine(w)
    BY <1>4
  <2>2. Way' = Append(Way, w)
    <3>1. log' = log /\ pipe' = pipe /\ Added(stdio, w, stdio')
      BY <2>1 DEF PrintLine, Added
    <3>2. Added(InARow(log, pipe, stdio), w, InARow(log, pipe, stdio'))
      BY <1>0, <3>1, AppendLast
    <3> QED
      BY <3>1, <3>2 DEF Added
  <2> QED
    BY <2>1, <2>2 DEF PrintLine
<1>5. CASE PrintExit
  <2>1. Way' = Append(Way, EXIT)
    <3>1. log' = log /\ pipe' = pipe /\ Added(stdio, EXIT, stdio')
      BY <1>5 DEF PrintExit, Added
    <3>2. Added(InARow(log, pipe, stdio), EXIT, InARow(log, pipe, stdio'))
      BY <1>0, <3>1, AppendLast
    <3> QED
      BY <3>1, <3>2 DEF Added
  <2> QED
    BY <1>5, <2>1 DEF PrintExit
<1>6. CASE Flush
  <2>1. /\ gateway \in {"running", "exiting"} /\ stdio # <<>>
        /\ pipe' = Append(pipe, Head(stdio)) /\ stdio' = Tail(stdio)
        /\ UNCHANGED <<gateway, log, written>>
    BY <1>0, <1>6, LogPipeAssumption DEF Flush, Flushing
  <2>2. Way' = Way
    <3>1. Moved(pipe, stdio, pipe', stdio')
      BY <2>1 DEF Moved
    <3> QED
      BY <1>0, <2>1, <3>1, HandOver
  <2> QED
    BY <2>1, <2>2
<1>7. CASE ReadLine
  <2>1. /\ pipe # <<>> /\ pipe' = Tail(pipe) /\ child = "reading"
        /\ UNCHANGED <<gateway, stdio, written>>
    BY <1>7 DEF ReadLine
  <2>2. CASE Head(pipe) = EXIT
    <3>1. log' = log /\ child' = "done" /\ ~WriteEndOpen
      BY <1>7, <2>2 DEF ReadLine
    <3>2. /\ Way # written
          /\ Way = Append(written, EXIT) =>
               log = written /\ pipe' = <<>> /\ stdio = <<>>
      <4>1. Ending(pipe, pipe')
        BY <2>1, <2>2 DEF Ending
      <4>2. /\ Way # written
            /\ Added(written, EXIT, Way) => log = written /\ pipe' = <<>> /\ stdio = <<>>
        BY <1>0, <4>1, ExitIsLast
      <4> QED
        BY <4>2 DEF Added
    <3>3. gateway \in {"killed", "exited", "ended"}
      BY <2>1, <3>1, <3>2 DEF TypeOK, WriteEndOpen
    <3>4. log = written /\ pipe' = <<>> /\ stdio = <<>>
      BY <2>1, <3>2, <3>3
    <3>5. Way' = written
      BY <1>0, <2>1, <3>1, <3>4, ConcatEmptySeq DEF InARow
    <3> QED
      BY <2>1, <3>1, <3>3, <3>4, <3>5
  <2>3. CASE Head(pipe) # EXIT
    <3>1. log' = Append(log, Head(pipe)) /\ child' = child
      BY <1>7, <2>3 DEF ReadLine
    <3>2. Way' = Way
      <4>1. Moved(log, pipe, log', pipe')
        BY <2>1, <3>1 DEF Moved
      <4> QED
        BY <1>0, <2>1, <4>1, TakeHead
    <3> QED
      BY <2>1, <3>1, <3>2
  <2> QED
    BY <2>2, <2>3
<1>8. CASE EndOfFile
  <2>1. /\ pipe = <<>> /\ child = "reading" /\ child' = "done" /\ ~WriteEndOpen
        /\ UNCHANGED <<gateway, pipe, stdio, log, written>>
    BY <1>8 DEF EndOfFile
  <2>2. ASSUME gateway \in {"exited", "ended"} PROVE FALSE
    <3>1. stdio = <<>> /\ Way = Append(written, EXIT)
      BY <2>1, <2>2
    <3>2. log = Append(written, EXIT)
      BY <1>0, <2>1, <3>1, ConcatEmptySeq DEF InARow
    <3>3. /\ Len(log) = Len(written) + 1 /\ log[Len(written) + 1] = EXIT
          /\ Len(written) \in Nat
      BY <1>0, <3>2, SeqMonotonic, AppendProperties
    <3> QED
      BY <1>0, <3>3, ElementOfSeq, ExitAssumption
  <2> QED
    BY <2>1, <2>2
<1> QED
  BY <1>1, <1>2, <1>3, <1>4, <1>5, <1>6, <1>7, <1>8 DEF Next, MainStep, ChildStep

(* The child ends its loop only when nobody can write any more.            *)
LEMMA OverKept ==
  ASSUME TypeOK, Over, [Next]_vars PROVE Over'
<1> USE DEF TypeOK, Over, GatewayOver
<1>1. CASE UNCHANGED vars \/ Finished
  BY <1>1 DEF vars, Finished
<1>2. CASE \/ OpenFifo \/ Flush \/ BrokenPipe \/ Abort
           \/ \E w \in Writers : Call(w) \/ Lock(w) \/ PrintLine(w)
  BY <1>2 DEF OpenFifo, Flush, BrokenPipe, Flushing, Abort, Call, Lock, PrintLine
<1>3. CASE MainStep
  BY <1>3 DEF MainStep, PrintExit, CloseFifo, WaitForChild
<1>4. CASE OpenLog \/ EndOfFile
  BY <1>4 DEF OpenLog, EndOfFile, WriteEndOpen
<1>5. CASE ReadLine
  BY <1>5 DEF ReadLine, WriteEndOpen
<1> QED
  BY <1>1, <1>2, <1>3, <1>4, <1>5 DEF Next, ChildStep

LEMMA Invariance == Spec => []IInv
<1>1. IInv /\ [Next]_vars => IInv'
  BY TypeKept, CarriedKept, OverKept DEF IInv
<1> QED
  BY <1>1, IInvInit, PTL DEF Spec

(* What was printed is what is logged, then what is in the pipe, then what *)
(* is in the buffer, with "exiting_pipe" at most as the last message; and  *)
(* every variable keeps its type.                                          *)
THEOREM NothingIsDropped == Spec => []NothingDropped
<1>1. IInv => NothingDropped
  <2> SUFFICES ASSUME IInv PROVE NothingDropped
    OBVIOUS
  <2>1. gateway \in {"exited", "ended"} /\ child = "done" => Way = written
    <3>1. log \in Seq(Message) /\ written \in Seq(Writers) /\ written \in Seq(Message)
      BY SeqMonotonic DEF IInv, TypeOK, Message
    <3> QED
      BY <3>1, ConcatEmptySeq DEF IInv, Carried, Way, InARow
  <2> QED
    BY <2>1 DEF IInv, TypeOK, Carried, NothingDropped, Way, InARow
<1> QED
  BY <1>1, Invariance, PTL

(* A gateway that has ended, with a child that has not failed, leaves all  *)
(* messages in gateway.log in the order they were printed.                 *)
THEOREM LogIsComplete == Spec => []CompleteAtEnd
<1>1. IInv => CompleteAtEnd
  BY DEF IInv, Carried, CompleteAtEnd
<1> QED
  BY <1>1, Invariance, PTL

-------------------------------------------------------------------------------
(* Lab 9.                                                                  *)
(*                                                                         *)
(* What was inserted are measurements of the file, each at most once and   *)
(* none of those still to read (Inserted); so a reader's next measurement  *)
(* differs from its last one, and its line is not one more of the run      *)
(* before it.  Shown says for which readings of the buffer a reader has    *)
(* already printed a line.                                                 *)
Items == Lab9!Items

Started == /\ at["main"] = "start" => \A t \in Lab9!Threads : at[t] = "start"
           /\ at["main"] = "done" => \A t \in Lab9!Threads \ {"main"} :
                                       at[t] \in {"start", "left"}

\* How many measurements of the file were read.
Read == Len(File) - Len(file)
Inserted == /\ Len(file) <= Len(File)
            /\ \A j \in 1 .. Len(file) : file[j] = File[Read + j]
            /\ \A i \in 1 .. Len(kept) : \E m \in 1 .. Read : kept[i] = File[m]
            /\ \A i, j \in 1 .. Len(kept) : kept[i] = kept[j] => i = j

Handed == /\ Len(queue) <= Len(kept)
          /\ \A r \in Readers :
               /\ Len(handed[r]) <= Len(kept)
               /\ \A i \in 1 .. Len(handed[r]) : handed[r][i] = kept[i]
          /\ at["main"] # "done" =>
               /\ \A i \in 1 .. Len(queue) : queue[i].data = kept[Lab9!Freed + i]
               /\ \A r \in Readers :
                    /\ Lab9!Freed <= Len(handed[r])
                    /\ \A i \in 1 .. Len(queue) :
                         r \in queue[i].seen <=> Lab9!Freed + i <= Len(handed[r])

Newest(h) == IF h = <<>> THEN JUNK ELSE h[Len(h)]
Shows(l, h) == l = h \/ l = <<JUNK>> \o h
Printed(r) == IF at[r] = "check" /\ message[r] = "SUCCESS"
                THEN /\ handed[r] # <<>>
                     /\ Shows(Lab9!RunItems(lines[r]), Lab9!Front(handed[r]))
                ELSE Shows(Lab9!RunItems(lines[r]), handed[r])
Shown == \A r \in Readers : data[r] = Newest(handed[r]) /\ Printed(r)

Inv9 == Lab9!TypeOK /\ Started /\ Inserted /\ Handed /\ Shown

(* What is in a reader's file, run by run: a line for the measurement that *)
(* it was handed last is a run of its own, unless the file ends with that  *)
(* measurement already.                                                    *)
WithItem(l, x) == IF l # <<>> /\ l[Len(l)] = x THEN l ELSE Append(l, x)

Runs == [item : Items \cup {JUNK}, times : 1 .. Lab9!MANY]

LEMMA LineOfRuns ==
  ASSUME NEW l \in Seq(Runs), NEW x \in Items \cup {JUNK}
  PROVE  /\ Lab9!WithLine(l, x) \in Seq(Runs)
         /\ Lab9!RunItems(Lab9!WithLine(l, x)) = WithItem(Lab9!RunItems(l), x)
<1> DEFINE S == Items \cup {JUNK}
           run == [item |-> x, times |-> 1]
           f == Lab9!RunItems(l)
<1>1. /\ Len(l) \in Nat /\ DOMAIN l = 1 .. Len(l) /\ (l # <<>> <=> Len(l) > 0)
      /\ \A i \in 1 .. Len(l) : l[i] \in Runs
  BY EmptySeq, ElementOfSeq
<1>2. f = [i \in 1 .. Len(l) |-> l[i].item] /\ \A i \in 1 .. Len(l) : l[i].item \in S
  BY <1>1 DEF Lab9!RunItems, Runs
<1>3. f \in Seq(S) /\ Len(f) = Len(l) /\ \A i \in 1 .. Len(l) : f[i] = l[i].item
  <2> HIDE DEF S
  <2> QED
    BY <1>1, <1>2
<1>4. f # <<>> <=> l # <<>>
  BY <1>1, <1>3, EmptySeq
<1>5. CASE l # <<>> /\ l[Len(l)].item = x
  <2> DEFINE last == l[Len(l)]
             again == [last EXCEPT !.times = IF @ = Lab9!MANY THEN Lab9!MANY ELSE @ + 1]
             more == [l EXCEPT ![Len(l)] = again]
  <2>1. last \in Runs /\ last.item = x
    BY <1>1, <1>5
  <2>2. again \in Runs /\ again.item = x
    <3> HIDE DEF last
    <3> QED
      BY <2>1 DEF Runs, Lab9!MANY
  <2>3. Lab9!WithLine(l, x) = more
    BY <1>5 DEF Lab9!WithLine, Lab9!Last
  <2>4. /\ more \in Seq(Runs) /\ Len(more) = Len(l) /\ DOMAIN more = 1 .. Len(l)
        /\ \A i \in 1 .. Len(l) : more[i] = IF i = Len(l) THEN again ELSE l[i]
    <3> HIDE DEF again
    <3> QED
      BY <1>1, <1>5, <2>2, ExceptSeq
  <2>5. Lab9!RunItems(more) = f
    <3>1. \A i \in 1 .. Len(l) : more[i].item = l[i].item
      BY <1>1, <1>5, <2>2, <2>4
    <3> HIDE DEF more
    <3> QED
      BY <1>1, <2>4, <3>1 DEF Lab9!RunItems
  <2>6. WithItem(f, x) = f
    BY <1>1, <1>3, <1>4, <1>5 DEF WithItem
  <2> QED
    BY <2>3, <2>4, <2>5, <2>6
<1>6. CASE ~(l # <<>> /\ l[Len(l)].item = x)
  <2> DEFINE more == Append(l, run)
  <2>1. run \in Runs
    BY DEF Runs, Lab9!MANY
  <2>2. Lab9!WithLine(l, x) = more
    BY <1>6 DEF Lab9!WithLine, Lab9!Last
  <2>3. /\ more \in Seq(Runs) /\ Len(more) = Len(l) + 1 /\ DOMAIN more = 1 .. Len(l) + 1
        /\ more[Len(l) + 1].item = x /\ \A i \in 1 .. Len(l) : more[i] = l[i]
    <3>1. run.item = x
      OBVIOUS
    <3> HIDE DEF run
    <3> QED
      BY <1>1, <2>1, <3>1, AppendProperties
  <2>4. Lab9!RunItems(more) = [i \in 1 .. Len(l) + 1 |-> more[i].item]
    <3> HIDE DEF more
    <3> QED
      BY <2>3 DEF Lab9!RunItems
  <2>5. WithItem(f, x) = Append(f, x)
    BY <1>1, <1>3, <1>4, <1>6 DEF WithItem
  <2>6. /\ Append(f, x) \in Seq(S) /\ Len(Append(f, x)) = Len(l) + 1
        /\ Append(f, x)[Len(l) + 1] = x
        /\ \A i \in 1 .. Len(l) : Append(f, x)[i] = f[i]
    <3> HIDE DEF f, S
    <3> QED
      BY <1>3, AppendProperties DEF S
  <2>7. /\ Lab9!RunItems(more) \in Seq(S) /\ Len(Lab9!RunItems(more)) = Len(l) + 1
        /\ \A i \in 1 .. Len(l) + 1 : Lab9!RunItems(more)[i] = more[i].item
    <3>1. \A i \in 1 .. Len(l) + 1 : more[i].item \in S
      BY <1>1, <1>2, <2>3
    <3> DEFINE n == Len(l) + 1
               g == Lab9!RunItems(more)
    <3>2. n \in Nat /\ g = [i \in 1 .. n |-> more[i].item]
      BY <1>1, <2>4
    <3> HIDE DEF more, S, n
    <3>3. g \in [1 .. n -> S] /\ \A i \in 1 .. n : g[i] = more[i].item
      BY <3>1, <3>2 DEF n
    <3> HIDE DEF g
    <3>4. g \in Seq(S) /\ Len(g) = n
      BY <3>2, <3>3
    <3> QED
      BY <3>3, <3>4 DEF g, n
  <2>8. \A i \in 1 .. Len(l) + 1 : Lab9!RunItems(more)[i] = Append(f, x)[i]
    <3> HIDE DEF more, f
    <3> QED
      BY <1>1, <1>3, <2>3, <2>6, <2>7
  <2>9. Lab9!RunItems(more) = Append(f, x)
    <3> HIDE DEF more, f, S
    <3> QED
      BY <1>1, <2>6, <2>7, <2>8, SeqEqual
  <2> QED
    BY <2>2, <2>3, <2>5, <2>9
<1> QED
  BY <1>5, <1>6

LEMMA BehindJunk ==
  ASSUME NEW S, JUNK \in S, NEW h \in Seq(S)
  PROVE  /\ <<JUNK>> \o h \in Seq(S) /\ Len(<<JUNK>> \o h) = Len(h) + 1
         /\ (<<JUNK>> \o h)[1] = JUNK
         /\ \A i \in 1 .. Len(h) : (<<JUNK>> \o h)[i + 1] = h[i]
<1>1. <<JUNK>> \in Seq(S) /\ Len(<<JUNK>>) = 1 /\ Len(h) \in Nat /\ <<JUNK>>[1] = JUNK
  OBVIOUS
<1> QED
  BY <1>1, ConcatProperties

LEMMA LineAgain ==
  ASSUME NEW S, JUNK \in S, NEW h \in Seq(S), NEW l, Shows(l, h)
  PROVE  Shows(WithItem(l, Newest(h)), h)
<1>1. Len(h) \in Nat /\ (h # <<>> => Len(h) > 0)
  BY EmptySeq
<1>2. CASE l = h
  <2>1. CASE h = <<>>
    <3>1. Append(<<>>, JUNK) = <<JUNK>> /\ <<JUNK>> \o <<>> = <<JUNK>>
      OBVIOUS
    <3> QED
      BY <1>2, <2>1, <3>1 DEF WithItem, Newest, Shows
  <2>2. CASE h # <<>>
    BY <1>2, <2>2 DEF WithItem, Newest, Shows
  <2> QED
    BY <2>1, <2>2
<1>3. CASE l = <<JUNK>> \o h
  <2>1. /\ l \in Seq(S) /\ Len(l) = Len(h) + 1 /\ l[1] = JUNK
        /\ \A i \in 1 .. Len(h) : l[i + 1] = h[i]
    BY <1>3, BehindJunk
  <2>2. l # <<>>
    BY <1>1, <2>1, EmptySeq
  <2>3. l[Len(l)] = Newest(h)
    <3>1. CASE h = <<>>
      BY <2>1, <3>1, EmptySeq DEF Newest
    <3>2. CASE h # <<>>
      BY <1>1, <2>1, <3>2 DEF Newest
    <3> QED
      BY <3>1, <3>2
  <2> QED
    BY <1>3, <2>2, <2>3 DEF WithItem, Shows
<1> QED
  BY <1>2, <1>3 DEF Shows

LEMMA LineMore ==
  ASSUME NEW S, JUNK \in S, NEW h \in Seq(S), NEW l, Shows(l, h),
         NEW x \in S, x # JUNK, x # Newest(h)
  PROVE  Shows(WithItem(l, x), Append(h, x))
<1>1. Len(h) \in Nat /\ (h # <<>> => Len(h) > 0)
  BY EmptySeq
<1>2. CASE l = h
  <2>1. ~(l # <<>> /\ l[Len(l)] = x)
    BY <1>2 DEF Newest
  <2> QED
    BY <1>2, <2>1 DEF WithItem, Shows
<1>3. CASE l = <<JUNK>> \o h
  <2>1. /\ l \in Seq(S) /\ Len(l) = Len(h) + 1 /\ l[1] = JUNK
        /\ \A i \in 1 .. Len(h) : l[i + 1] = h[i]
    BY <1>3, BehindJunk
  <2>2. l[Len(l)] # x
    <3>1. CASE h = <<>>
      BY <2>1, <3>1, EmptySeq
    <3>2. CASE h # <<>>
      BY <1>1, <2>1, <3>2 DEF Newest
    <3> QED
      BY <3>1, <3>2
  <2>3. WithItem(l, x) = Append(l, x)
    BY <2>2 DEF WithItem
  <2>4. Append(l, x) = <<JUNK>> \o Append(h, x)
    <3>1. <<JUNK>> \in Seq(S) /\ <<x>> \in Seq(S)
      OBVIOUS
    <3>2. Append(l, x) = l \o <<x>> /\ Append(h, x) = h \o <<x>>
      BY <2>1, AppendIsConcat
    <3> QED
      BY <1>3, <3>1, <3>2, ConcatAssociative
  <2> QED
    BY <2>3, <2>4 DEF Shows
<1> QED
  BY <1>2, <1>3 DEF Shows

(* The first node that r has not marked is the one behind those handed to  *)
(* it, or there is none because it has them all.                           *)
NextUnread(r) == Lab9!SelectInSeq(queue, LAMBDA n : r \notin n.seen)

LEMMA Least ==
  ASSUME NEW I, I \subseteq Nat, NEW m \in I, \A k \in I : m <= k
  PROVE  m = Lab9!Min(I)
<1>1. \A x \in I : (\A y \in I : x <= y) => x = m
  OBVIOUS
<1> QED
  BY <1>1 DEF Lab9!Min

LEMMA UnreadIsNext ==
  ASSUME Lab9!TypeOK, Handed, at["main"] # "done", NEW r \in Readers
  PROVE  IF Len(handed[r]) = Len(kept)
           THEN NextUnread(r) = 0
           ELSE /\ NextUnread(r) \in 1 .. Len(queue)
                /\ NextUnread(r) = Len(handed[r]) - Lab9!Freed + 1
                /\ queue[NextUnread(r)].data = kept[Len(handed[r]) + 1]
<1> DEFINE I == {i \in 1 .. Len(queue) : r \notin queue[i].seen}
           m == Len(handed[r]) - Lab9!Freed + 1
<1>1. NextUnread(r) = IF I # {} THEN Lab9!Min(I) ELSE 0
  BY DEF NextUnread, Lab9!SelectInSeq
<1>2. /\ Len(queue) \in Nat /\ Len(kept) \in Nat /\ Len(handed[r]) \in Nat
      /\ Lab9!Freed \in Nat /\ Lab9!Freed = Len(kept) - Len(queue)
      /\ Lab9!Freed <= Len(handed[r]) /\ Len(handed[r]) <= Len(kept)
  BY DEF Lab9!TypeOK, Handed, Lab9!Freed
<1>3. I = {i \in 1 .. Len(queue) : ~(Lab9!Freed + i <= Len(handed[r]))}
  BY DEF Handed
<1>4. CASE Len(handed[r]) = Len(kept)
  <2>1. I = {}
    BY <1>2, <1>3, <1>4
  <2> QED
    BY <1>1, <1>4, <2>1
<1>5. CASE Len(handed[r]) # Len(kept)
  <2>1. m \in I /\ I \subseteq Nat /\ (\A k \in I : m <= k) /\ m \in 1 .. Len(queue)
    <3>1. m \in 1 .. Len(queue) /\ ~(Lab9!Freed + m <= Len(handed[r]))
      BY <1>2, <1>5
    <3>2. \A k \in I : k \in Nat /\ ~(Lab9!Freed + k <= Len(handed[r]))
      BY <1>2, <1>3
    <3> HIDE DEF I
    <3>3. \A k \in I : m <= k
      BY <1>2, <3>2
    <3> QED
      BY <1>3, <3>1, <3>2, <3>3
  <2>2. NextUnread(r) = m
    <3> HIDE DEF I, m
    <3> QED
      BY <1>1, <2>1, Least
  <2>3. queue[m].data = kept[Lab9!Freed + m]
    BY <1>2, <2>1 DEF Handed
  <2> QED
    BY <1>2, <1>5, <2>1, <2>2, <2>3
<1> QED
  BY <1>4, <1>5

LEMMA Inv9Init == Lab9!Init => Inv9
<1> SUFFICES ASSUME Lab9!Init PROVE Inv9
  OBVIOUS
<1> USE DEF Lab9!Init
<1>1. File \in Seq(Items)
  BY Lab9Assumption DEF Items, Lab9!Items, Lab9!ToSet
<1>2. Lab9!TypeOK
  BY <1>1 DEF Lab9!TypeOK, Lab9!Places, Items, Lab9!Threads
<1>3. Started
  BY DEF Started, Lab9!Threads
<1>4. Inserted
  <2>1. Len(File) \in Nat /\ Read = 0
    BY <1>1 DEF Read
  <2> QED
    BY <2>1 DEF Inserted
<1>5. Handed
  <2>1. Lab9!Freed = 0 /\ \A r \in Readers : handed[r] = <<>>
    BY DEF Lab9!Freed
  <2> QED
    BY <2>1 DEF Handed
<1>6. Shown
  <2>1. Lab9!RunItems(<<>>) = <<>>
    BY DEF Lab9!RunItems
  <2> QED
    BY <2>1 DEF Shown, Newest, Printed, Shows, Lab9!Threads
<1> QED
  BY <1>2, <1>3, <1>4, <1>5, <1>6 DEF Inv9

(* Who is where.                                                           *)
LEMMA StartedKept ==
  ASSUME Inv9, [Lab9!Next]_vars9 PROVE Started'
<1> USE DEF Inv9, Lab9!TypeOK, Started, Lab9!Threads, Lab9!Goto
<1>0. at \in [{"main", "writer"} \cup Readers -> Lab9!Places]
      /\ "main" \notin Readers /\ "writer" \notin Readers
  BY Lab9Assumption
<1>1. CASE UNCHANGED vars9 \/ Lab9!Finished
  BY <1>1 DEF vars9, Lab9!Finished, Lab9!vars
<1>2. CASE Lab9!Main
  BY <1>0, <1>2 DEF Lab9!Main, Lab9!MainStarts, Lab9!MainExits, Lab9!PassBarrier,
                    Lab9!MainFrees
<1>3. CASE Lab9!Writer
  BY <1>0, <1>3 DEF Lab9!Writer, Lab9!Write, Lab9!FinishWriting, Lab9!PassBarrier
<1>4. CASE \E r \in Readers : Lab9!Reader(r)
  <2>1. PICK r \in Readers : Lab9!Reader(r)
    BY <1>4
  <2>2. /\ at["main"] \notin {"start", "done"}
        /\ \E to \in Lab9!Places : at' = [at EXCEPT ![r] = to]
    BY <1>0, <2>1 DEF Lab9!Reader, Lab9!Remove2, Lab9!PrintLine, Lab9!FinishReading,
                      Lab9!PassBarrier, Lab9!Places
  <2> QED
    BY <1>0, <2>2
<1> QED
  BY <1>1, <1>2, <1>3, <1>4 DEF Lab9!Next

(* Every step but that of Write and Remove2 leaves the buffer's history    *)
(* alone, and empties the buffer at most.                                  *)
Otherwise9 == \/ UNCHANGED vars9 \/ Lab9!Finished \/ Lab9!Main \/ Lab9!FinishWriting
              \/ Lab9!PassBarrier("writer")
              \/ \E r \in Readers : \/ Lab9!PrintLine(r) \/ Lab9!FinishReading(r)
                                    \/ Lab9!PassBarrier(r)

LEMMA Steps9 ==
  [Lab9!Next]_vars9 => Otherwise9 \/ Lab9!Write \/ \E r \in Readers : Lab9!Remove2(r)
BY DEF Lab9!Next, Lab9!Reader, Lab9!Writer, Otherwise9

LEMMA OtherwiseBuffer ==
  ASSUME Inv9, Otherwise9
  PROVE  /\ UNCHANGED <<file, kept, handed, data, message>>
         /\ queue' = queue \/ (queue' = <<>> /\ at'["main"] = "done")
         /\ at["main"] = "done" => at'["main"] = "done"
<1> USE DEF Inv9, Lab9!TypeOK, Started, Lab9!Threads, Lab9!Goto
<1>0. at \in [{"main", "writer"} \cup Readers -> Lab9!Places]
      /\ "main" \notin Readers /\ "writer" \notin Readers
  BY Lab9Assumption
<1>1. CASE UNCHANGED vars9 \/ Lab9!Finished
  BY <1>1 DEF vars9, Lab9!Finished, Lab9!vars
<1>2. CASE Lab9!Main
  BY <1>0, <1>2 DEF Lab9!Main, Lab9!MainStarts, Lab9!MainExits, Lab9!PassBarrier,
                    Lab9!MainFrees
<1>3. CASE Lab9!FinishWriting \/ Lab9!PassBarrier("writer")
  BY <1>0, <1>3 DEF Lab9!FinishWriting, Lab9!PassBarrier
<1>4. CASE \E r \in Readers : \/ Lab9!PrintLine(r) \/ Lab9!FinishReading(r)
                              \/ Lab9!PassBarrier(r)
  BY <1>0, <1>4 DEF Lab9!PrintLine, Lab9!FinishReading, Lab9!PassBarrier
<1> QED
  BY <1>1, <1>2, <1>3, <1>4 DEF Otherwise9

(* The writer's next measurement is none of those inserted before.         *)
LEMMA WriteStep ==
  ASSUME Inv9, Lab9!Write
  PROVE  /\ UNCHANGED <<at, flag, message, data, lines, handed>>
         /\ at["main"] # "done"
         /\ file' \in Seq(Items) /\ Len(file') = Len(file) - 1 /\ Len(file) > 0
         /\ \A j \in 1 .. Len(file') : file'[j] = file[j + 1]
         /\ \/ UNCHANGED <<queue, kept>>
            \/ /\ queue' = Append(queue, [data |-> file[1], seen |-> {}])
               /\ kept' = Append(kept, file[1]) /\ file[1] \in Items
<1> USE DEF Inv9, Lab9!TypeOK, Lab9!Write, Lab9!Insert, Lab9!InsertFails, Items
<1>1. file # <<>> /\ file' = Tail(file) /\ at["writer"] = "loop"
      /\ UNCHANGED <<at, flag, message, data, lines, handed>>
  OBVIOUS
<1>2. at["main"] # "done"
  BY <1>1, Lab9Assumption DEF Started, Lab9!Threads
<1>3. /\ Len(file) > 0 /\ Len(file) \in Nat /\ Head(file) = file[1] /\ file[1] \in Items
      /\ Tail(file) \in Seq(Items) /\ Len(Tail(file)) = Len(file) - 1
      /\ \A j \in 1 .. Len(Tail(file)) : Tail(file)[j] = file[j + 1]
  BY <1>1, EmptySeq, HeadTailProperties
<1> QED
  BY <1>1, <1>2, <1>3

LEMMA InsertedKept ==
  ASSUME Inv9, [Lab9!Next]_vars9 PROVE Inserted'
<1>1. CASE Otherwise9
  BY <1>1, OtherwiseBuffer DEF Inv9, Inserted, Read
<1>2. CASE Lab9!Write
  <2>0. /\ Len(file) \in Nat /\ Len(File) \in Nat /\ Len(file) <= Len(File)
        /\ Len(kept) \in Nat /\ kept \in Seq(Items)
        /\ Len(file') = Len(file) - 1 /\ Len(file) > 0
        /\ \A j \in 1 .. Len(file') : file'[j] = file[j + 1]
    <3>1. Len(file) \in Nat /\ Len(kept) \in Nat /\ kept \in Seq(Items)
      BY DEF Inv9, Lab9!TypeOK, Items
    <3>2. Len(File) \in Nat
      BY Lab9Assumption
    <3> QED
      BY <1>2, <3>1, <3>2, WriteStep DEF Inv9, Inserted
  <2>1. /\ Read \in Nat /\ Read' = Read + 1 /\ Read < Len(File)
        /\ Len(file') \in Nat /\ Len(file') <= Len(File)
    BY <2>0 DEF Read
  <2>2. \A j \in 1 .. Len(file') : file'[j] = File[Read' + j]
    <3> SUFFICES ASSUME NEW j \in 1 .. Len(file') PROVE file'[j] = File[Read' + j]
      OBVIOUS
    <3>1. file'[j] = file[j + 1] /\ j + 1 \in 1 .. Len(file)
      BY <2>0
    <3>2. file[j + 1] = File[Read + (j + 1)]
      BY <3>1 DEF Inv9, Inserted
    <3> QED
      BY <2>1, <3>1, <3>2
  <2>3. CASE UNCHANGED <<queue, kept>>
    <3>1. \A i \in 1 .. Len(kept) : \E m \in 1 .. Read' : kept[i] = File[m]
      BY <2>1 DEF Inv9, Inserted
    <3> QED
      BY <2>1, <2>2, <2>3, <3>1 DEF Inv9, Inserted
  <2>4. CASE kept' = Append(kept, file[1]) /\ file[1] \in Items
    <3>1. /\ Len(kept') = Len(kept) + 1
          /\ \A i \in 1 .. Len(kept) : kept'[i] = kept[i]
          /\ kept'[Len(kept) + 1] = file[1]
      BY <2>0, <2>4, AppendProperties
    <3>2. file[1] = File[Read + 1]
      BY <2>0 DEF Inv9, Inserted
    <3>3. ASSUME NEW i \in 1 .. Len(kept) PROVE kept[i] # File[Read + 1]
      <4>1. PICK m \in 1 .. Read : kept[i] = File[m]
        BY DEF Inv9, Inserted
      <4>2. m \in DOMAIN File /\ Read + 1 \in DOMAIN File /\ m # Read + 1
        BY <2>1, Lab9Assumption
      <4> QED
        BY <4>1, <4>2, Lab9Assumption
    <3>4. \A i \in 1 .. Len(kept') : \E m \in 1 .. Read' : kept'[i] = File[m]
      <4>1. ASSUME NEW i \in 1 .. Len(kept) PROVE \E m \in 1 .. Read' : kept'[i] = File[m]
        BY <2>1, <3>1 DEF Inv9, Inserted
      <4>2. Read + 1 \in 1 .. Read' /\ kept'[Len(kept) + 1] = File[Read + 1]
        BY <2>1, <3>1, <3>2
      <4>3. ASSUME NEW i \in 1 .. Len(kept') PROVE \E m \in 1 .. Read' : kept'[i] = File[m]
        <5>1. i \in 1 .. Len(kept) \/ i = Len(kept) + 1
          BY <2>0, <3>1
        <5> QED
          BY <4>1, <4>2, <5>1
      <4> QED
        BY <4>3
    <3>5. \A i, j \in 1 .. Len(kept) : kept[i] = kept[j] => i = j
      BY DEF Inv9, Inserted
    <3>6. \A i, j \in 1 .. Len(kept') : kept'[i] = kept'[j] => i = j
      BY <2>0, <3>1, <3>2, <3>3, <3>5
    <3> QED
      BY <2>1, <2>2, <3>4, <3>6 DEF Inserted
  <2> QED
    BY <1>2, <2>3, <2>4, WriteStep
<1>3. CASE \E r \in Readers : Lab9!Remove2(r)
  BY <1>3 DEF Inv9, Inserted, Read, Lab9!Remove2
<1> QED
  BY <1>1, <1>2, <1>3, Steps9

(* What sbuffer_remove2 hands to r, if it has not everything yet, is the   *)
(* measurement behind its last one; its node is marked, and it goes only   *)
(* when it is the head and everybody has marked it.                        *)
Nodes == [data : Items, seen : SUBSET Readers]
Marked(q, i, r) == [q EXCEPT ![i].seen = @ \cup {r}]

LEMMA RemoveStep ==
  ASSUME Inv9, NEW r \in Readers, Lab9!Remove2(r)
  PROVE  /\ at[r] = "loop" /\ at["main"] # "done" /\ at' = [at EXCEPT ![r] = "check"]
         /\ UNCHANGED <<file, flag, lines, kept>>
         /\ IF Len(handed[r]) = Len(kept)
              THEN /\ message' = [message EXCEPT ![r] = "NO_DATA"]
                   /\ UNCHANGED <<queue, data, handed>>
              ELSE LET i == NextUnread(r)
                       x == kept[Len(handed[r]) + 1]
                       q == Marked(queue, i, r)
                   IN /\ message' = [message EXCEPT ![r] = "SUCCESS"]
                      /\ data' = [data EXCEPT ![r] = x]
                      /\ handed' = [handed EXCEPT ![r] = Append(handed[r], x)]
                      /\ \/ queue' = q
                         \/ i = 1 /\ q[1].seen = Readers /\ queue' = Tail(q)
<1>1. /\ at[r] = "loop" /\ at' = [at EXCEPT ![r] = "check"]
      /\ UNCHANGED <<file, flag, lines, kept>>
  BY DEF Lab9!Remove2
<1>2. at["main"] # "done"
  BY <1>1, Lab9Assumption DEF Inv9, Started, Lab9!Threads
<1>3. IF NextUnread(r) = 0
        THEN /\ message' = [message EXCEPT ![r] = "NO_DATA"]
             /\ UNCHANGED <<queue, data, handed>>
        ELSE LET i == NextUnread(r)
                 q == Marked(queue, i, r)
             IN /\ message' = [message EXCEPT ![r] = "SUCCESS"]
                /\ data' = [data EXCEPT ![r] = queue[i].data]
                /\ handed' = [handed EXCEPT ![r] = Append(handed[r], queue[i].data)]
                /\ \/ queue' = q
                   \/ i = 1 /\ q[1].seen = Readers /\ queue' = Tail(q)
  BY DEF Lab9!Remove2, NextUnread, Marked, Lab9!Reclaim
<1>4. CASE Len(handed[r]) = Len(kept)
  <2>1. NextUnread(r) = 0
    BY <1>2, <1>4, UnreadIsNext DEF Inv9
  <2> QED
    BY <1>1, <1>2, <1>3, <1>4, <2>1
<1>5. CASE Len(handed[r]) # Len(kept)
  <2>1. /\ NextUnread(r) \in 1 .. Len(queue)
        /\ queue[NextUnread(r)].data = kept[Len(handed[r]) + 1]
    BY <1>2, <1>5, UnreadIsNext DEF Inv9
  <2>2. NextUnread(r) # 0
    BY <2>1
  <2> QED
    BY <1>1, <1>2, <1>3, <1>5, <2>1, <2>2
<1> QED
  BY <1>4, <1>5

LEMMA MarkedQueue ==
  ASSUME NEW q \in Seq(Nodes), NEW i \in 1 .. Len(q), NEW r \in Readers
  PROVE  /\ Marked(q, i, r) \in Seq(Nodes) /\ Len(Marked(q, i, r)) = Len(q)
         /\ Len(q) \in Nat
         /\ \A j \in 1 .. Len(q) :
              /\ Marked(q, i, r)[j].data = q[j].data
              /\ \A u : u \in Marked(q, i, r)[j].seen <=> u \in q[j].seen \/ (j = i /\ u = r)
<1>1. Len(q) \in Nat /\ q[i] \in Nodes
  BY ElementOfSeq
<1> DEFINE e == [q[i] EXCEPT !.seen = @ \cup {r}]
<1>2. e \in Nodes /\ e.data = q[i].data /\ e.seen = q[i].seen \cup {r}
  BY <1>1 DEF Nodes
<1>3. Marked(q, i, r) = [q EXCEPT ![i] = e]
  BY DEF Marked
<1>4. /\ Marked(q, i, r) \in Seq(Nodes) /\ Len(Marked(q, i, r)) = Len(q)
      /\ \A j \in 1 .. Len(q) : Marked(q, i, r)[j] = IF j = i THEN e ELSE q[j]
  <2> HIDE DEF e
  <2> QED
    BY <1>2, <1>3, ExceptSeq
<1> QED
  BY <1>1, <1>2, <1>4

LEMMA Type9Kept ==
  ASSUME Inv9, [Lab9!Next]_vars9 PROVE Lab9!TypeOK'
<1> USE DEF Inv9, Lab9!TypeOK
<1>0. queue \in Seq(Nodes) /\ Items = Lab9!Items
  BY DEF Nodes, Items
<1>1. CASE Otherwise9
  <2>1. /\ file' \in Seq(Items) /\ kept' \in Seq(Items) /\ queue' \in Seq(Nodes)
        /\ message' = message /\ data' = data /\ handed' = handed
    <3>1. <<>> \in Seq(Nodes)
      OBVIOUS
    <3>2. queue' \in Seq(Nodes)
      BY <1>0, <1>1, <3>1, OtherwiseBuffer
    <3> QED
      BY <1>0, <1>1, <3>2, OtherwiseBuffer
  <2>2. at' \in [Lab9!Threads -> Lab9!Places] /\ flag' \in {0, 1}
    BY <1>1 DEF Otherwise9, vars9, Lab9!Finished, Lab9!vars, Lab9!Main, Lab9!MainStarts,
       Lab9!MainExits, Lab9!MainFrees, Lab9!FinishWriting, Lab9!PassBarrier,
       Lab9!PrintLine, Lab9!FinishReading, Lab9!Goto, Lab9!Places
  <2>3. lines' \in [Readers -> Seq(Runs)]
    <3>1. CASE \E r \in Readers : Lab9!PrintLine(r)
      <4>1. PICK r \in Readers : Lab9!PrintLine(r)
        BY <3>1
      <4>2. lines[r] \in Seq(Runs) /\ data[r] \in Items \cup {JUNK}
        BY <1>0 DEF Runs
      <4>3. Lab9!WithLine(lines[r], data[r]) \in Seq(Runs)
        BY <4>2, LineOfRuns
      <4> QED
        BY <1>0, <4>1, <4>3 DEF Lab9!PrintLine, Runs
    <3>2. CASE ~\E r \in Readers : Lab9!PrintLine(r)
      BY <1>1, <3>2 DEF Otherwise9, vars9, Lab9!Finished, Lab9!vars, Lab9!Main,
         Lab9!MainStarts, Lab9!MainExits, Lab9!MainFrees, Lab9!FinishWriting,
         Lab9!PassBarrier, Lab9!FinishReading, Runs, Items
    <3> QED
      BY <3>1, <3>2
  <2> QED
    BY <1>0, <2>1, <2>2, <2>3 DEF Nodes, Runs
<1>2. CASE Lab9!Write
  <2>1. CASE UNCHANGED <<queue, kept>>
    BY <1>2, <2>1, WriteStep DEF Items
  <2>2. CASE /\ queue' = Append(queue, [data |-> file[1], seen |-> {}])
             /\ kept' = Append(kept, file[1]) /\ file[1] \in Items
    <3>1. [data |-> file[1], seen |-> {}] \in Nodes
      BY <2>2 DEF Nodes
    <3>2. queue' \in Seq(Nodes) /\ kept' \in Seq(Items)
      BY <1>0, <2>2, <3>1, AppendProperties
    <3> QED
      BY <1>2, <3>2, WriteStep DEF Nodes, Items
  <2> QED
    BY <1>2, <2>1, <2>2, WriteStep
<1>3. CASE \E r \in Readers : Lab9!Remove2(r)
  <2>1. PICK r \in Readers : Lab9!Remove2(r)
    BY <1>3
  <2>2. /\ at' \in [Lab9!Threads -> Lab9!Places] /\ UNCHANGED <<file, flag, lines, kept>>
        /\ message' \in [Readers -> {JUNK, "SUCCESS", "NO_DATA"}]
    BY <2>1, RemoveStep DEF Lab9!Places
  <2>3. CASE Len(handed[r]) = Len(kept)
    BY <2>1, <2>2, <2>3, RemoveStep
  <2>4. CASE Len(handed[r]) # Len(kept)
    <3> DEFINE i == NextUnread(r)
               x == kept[Len(handed[r]) + 1]
               q == Marked(queue, i, r)
    <3>1. /\ data' = [data EXCEPT ![r] = x]
          /\ handed' = [handed EXCEPT ![r] = Append(handed[r], x)]
          /\ queue' = q \/ queue' = Tail(q)
      BY <2>1, <2>4, RemoveStep
    <3>2. i \in 1 .. Len(queue) /\ x \in Items
      <4>1. i \in 1 .. Len(queue) /\ queue[i].data = x
        BY <2>1, <2>4, UnreadIsNext, RemoveStep
      <4>2. queue[i] \in Nodes
        BY <1>0, <4>1, ElementOfSeq
      <4> QED
        BY <4>1, <4>2 DEF Nodes
    <3> HIDE DEF i, x
    <3>3. q \in Seq(Nodes) /\ q # <<>>
      <4>1. /\ Marked(queue, i, r) \in Seq(Nodes)
            /\ Len(Marked(queue, i, r)) = Len(queue) /\ Len(queue) \in Nat
        BY <1>0, <3>2, MarkedQueue
      <4>2. Len(queue) # 0
        BY ONLY <3>2, <4>1
      <4> HIDE DEF q
      <4>3. q \in Seq(Nodes) /\ Len(q) # 0
        BY ONLY <4>1, <4>2 DEF q
      <4> QED
        BY ONLY <4>3, EmptySeq
    <3>4. queue' \in Seq(Nodes)
      <4> HIDE DEF q
      <4>1. Tail(q) \in Seq(Nodes)
        BY ONLY <3>3, HeadTailProperties
      <4> QED
        BY ONLY <3>1, <3>3, <4>1
    <3>5. Append(handed[r], x) \in Seq(Items)
      BY <1>0, <3>2, AppendProperties
    <3>6. data \in [Readers -> Items \cup {JUNK}] /\ handed \in [Readers -> Seq(Items)]
      BY <1>0
    <3>7. data' \in [Readers -> Items \cup {JUNK}]
      BY ONLY <3>1, <3>2, <3>6
    <3>8. handed' \in [Readers -> Seq(Items)]
      BY ONLY <3>1, <3>5, <3>6
    <3> QED
      BY <1>0, <2>2, <3>4, <3>7, <3>8 DEF Nodes
  <2> QED
    BY <2>3, <2>4
<1> QED
  BY <1>1, <1>2, <1>3, Steps9

LEMMA Counts9 ==
  ASSUME Inv9
  PROVE  /\ Len(queue) \in Nat /\ Len(kept) \in Nat /\ Len(queue) <= Len(kept)
         /\ queue \in Seq(Nodes) /\ kept \in Seq(Items)
         /\ Lab9!Freed \in Nat /\ Lab9!Freed = Len(kept) - Len(queue)
         /\ \A r \in Readers : /\ handed[r] \in Seq(Items) /\ Len(handed[r]) \in Nat
                               /\ Len(handed[r]) <= Len(kept)
<1>1. /\ queue \in Seq(Nodes) /\ kept \in Seq(Items)
      /\ \A r \in Readers : handed[r] \in Seq(Items)
  BY DEF Inv9, Lab9!TypeOK, Items, Nodes
<1> QED
  BY <1>1 DEF Inv9, Handed, Lab9!Freed

LEMMA HandedKept ==
  ASSUME Inv9, [Lab9!Next]_vars9 PROVE Handed'
<1>1. CASE Otherwise9
  <2>1. Handed
    BY DEF Inv9
  <2>2. CASE queue' = queue
    BY <1>1, <2>1, <2>2, OtherwiseBuffer DEF Handed, Lab9!Freed
  <2>3. CASE queue' = <<>> /\ at'["main"] = "done"
    BY <1>1, <2>1, <2>3, OtherwiseBuffer, Counts9 DEF Handed
  <2> QED
    BY <1>1, <2>2, <2>3, OtherwiseBuffer
<1>2. CASE Lab9!Write
  <2>1. Handed /\ UNCHANGED <<at, handed>>
    BY <1>2, WriteStep DEF Inv9
  <2>2. CASE UNCHANGED <<queue, kept>>
    BY <2>1, <2>2 DEF Handed, Lab9!Freed
  <2>3. CASE /\ queue' = Append(queue, [data |-> file[1], seen |-> {}])
             /\ kept' = Append(kept, file[1]) /\ file[1] \in Items
    <3> DEFINE n == Len(queue)
               k == Len(kept)
    <3>1. [data |-> file[1], seen |-> {}] \in Nodes
      BY <2>3 DEF Nodes
    <3>2. /\ Len(queue') = n + 1 /\ \A i \in 1 .. n : queue'[i] = queue[i]
          /\ queue'[n + 1].data = file[1] /\ queue'[n + 1].seen = {}
      BY <2>3, <3>1, Counts9, AppendProperties
    <3>3. /\ Len(kept') = k + 1 /\ \A i \in 1 .. k : kept'[i] = kept[i]
          /\ kept'[k + 1] = file[1]
      BY <2>3, Counts9, AppendProperties
    <3>4. n \in Nat /\ k \in Nat /\ n <= k /\ Lab9!Freed = k - n /\ Lab9!Freed' = k - n
      BY <3>2, <3>3, Counts9 DEF Lab9!Freed
    <3> HIDE DEF n, k
    <3>5. \A r \in Readers : /\ Len(handed[r]) \in Nat /\ Len(handed[r]) <= k
                             /\ \A i \in 1 .. Len(handed[r]) : handed[r][i] = kept'[i]
      BY <2>1, <3>3, <3>4, Counts9 DEF Handed, k
    <3>6. ASSUME at["main"] # "done", NEW i \in 1 .. n + 1
          PROVE  /\ queue'[i].data = kept'[k - n + i]
                 /\ \A r \in Readers : /\ k - n <= Len(handed[r])
                                       /\ r \in queue'[i].seen <=> k - n + i <= Len(handed[r])
      <4>1. CASE i = n + 1
        <5>1. k - n + i = k + 1
          BY <3>4, <4>1
        <5> QED
          BY <2>1, <3>2, <3>3, <3>4, <3>5, <3>6, <4>1, <5>1 DEF Handed
      <4>2. CASE i \in 1 .. n
        <5>1. k - n + i \in 1 .. k
          BY <3>4, <4>2
        <5>2. queue[i].data = kept[k - n + i]
          BY <2>1, <3>4, <3>6, <4>2 DEF Handed, n
        <5>3. \A r \in Readers : /\ k - n <= Len(handed[r])
                                 /\ r \in queue[i].seen <=> k - n + i <= Len(handed[r])
          BY <2>1, <3>4, <3>6, <4>2 DEF Handed, n
        <5> QED
          BY <3>2, <3>3, <4>2, <5>1, <5>2, <5>3
      <4> QED
        BY <3>4, <4>1, <4>2
    <3>7. n + 1 \in 1 .. n + 1
      BY <3>4
    <3>8. Len(queue') <= Len(kept')
      BY <3>2, <3>3, <3>4
    <3>9. \A r \in Readers : Len(handed'[r]) <= Len(kept')
      BY <2>1, <3>3, <3>4, <3>5
    <3>10. ASSUME at'["main"] # "done"
           PROVE  /\ \A i \in 1 .. Len(queue') : queue'[i].data = kept'[Lab9!Freed' + i]
                  /\ \A r \in Readers :
                       /\ Lab9!Freed' <= Len(handed'[r])
                       /\ \A i \in 1 .. Len(queue') :
                            r \in queue'[i].seen <=> Lab9!Freed' + i <= Len(handed'[r])
      BY <2>1, <3>2, <3>4, <3>6, <3>7, <3>10
    <3> QED
      BY <2>1, <3>5, <3>8, <3>9, <3>10 DEF Handed
  <2> QED
    BY <1>2, <2>2, <2>3, WriteStep
<1>3. CASE \E r \in Readers : Lab9!Remove2(r)
  <2>1. PICK r \in Readers : Lab9!Remove2(r)
    BY <1>3
  <2> DEFINE i == NextUnread(r)
             x == kept[Len(handed[r]) + 1]
             q == Marked(queue, i, r)
  <2>2. /\ Handed /\ at["main"] # "done" /\ kept' = kept
        /\ Lab9!TypeOK /\ at \in [Lab9!Threads -> Lab9!Places]
    BY <2>1, RemoveStep DEF Inv9, Lab9!TypeOK
  <2>3. CASE Len(handed[r]) = Len(kept)
    <3>1. UNCHANGED <<queue, handed>>
      BY <2>1, <2>3, RemoveStep
    <3>2. at'["main"] = at["main"]
      BY <2>1, <2>2, RemoveStep, Lab9Assumption DEF Lab9!Threads
    <3> QED
      BY <2>2, <3>1, <3>2 DEF Handed, Lab9!Freed
  <2>4. CASE Len(handed[r]) # Len(kept)
    <3>1. /\ handed' = [handed EXCEPT ![r] = Append(handed[r], x)]
          /\ queue' = q \/ (i = 1 /\ q[1].seen = Readers /\ queue' = Tail(q))
      BY <2>1, <2>4, RemoveStep
    <3>2. i \in 1 .. Len(queue) /\ i = Len(handed[r]) - Lab9!Freed + 1
      BY <2>2, <2>4, UnreadIsNext
    <3> HIDE DEF i
    <3>3. /\ q \in Seq(Nodes) /\ Len(q) = Len(queue) /\ Len(q) \in Nat
          /\ \A j \in 1 .. Len(q) :
               /\ q[j].data = queue[j].data
               /\ \A u : u \in q[j].seen <=> u \in queue[j].seen \/ (j = i /\ u = r)
      <4>1. queue \in Seq(Nodes) /\ i \in 1 .. Len(queue)
        BY <3>2, Counts9
      <4>2. /\ q \in Seq(Nodes) /\ Len(q) = Len(queue) /\ Len(queue) \in Nat
            /\ \A j \in 1 .. Len(queue) :
                 /\ q[j].data = queue[j].data
                 /\ \A u : u \in q[j].seen <=> u \in queue[j].seen \/ (j = i /\ u = r)
        BY <4>1, MarkedQueue
      <4> HIDE DEF q
      <4> QED
        BY <4>2
    <3> HIDE DEF q
    <3>4. x \in Items /\ Len(handed[r]) + 1 <= Len(kept)
      BY <2>4, Counts9, ElementOfSeq
    <3>5. /\ Len(handed'[r]) = Len(handed[r]) + 1
          /\ \A j \in 1 .. Len(handed[r]) : handed'[r][j] = handed[r][j]
          /\ handed'[r][Len(handed[r]) + 1] = x
          /\ \A u \in Readers : u # r => handed'[u] = handed[u]
      <4>1. handed'[r] = Append(handed[r], x) /\ \A u \in Readers : u # r => handed'[u] = handed[u]
        BY <3>1 DEF Inv9, Lab9!TypeOK
      <4> QED
        BY <3>4, <4>1, Counts9, AppendProperties
    <3>6. \A u \in Readers :
            /\ Len(handed'[u]) <= Len(kept')
            /\ \A j \in 1 .. Len(handed'[u]) : handed'[u][j] = kept'[j]
      <4>1. \A u \in Readers : /\ Len(handed[u]) <= Len(kept)
                               /\ \A j \in 1 .. Len(handed[u]) : handed[u][j] = kept[j]
        BY <2>2 DEF Handed
      <4>2. /\ Len(handed'[r]) <= Len(kept)
            /\ \A j \in 1 .. Len(handed'[r]) : handed'[r][j] = kept[j]
        <5>1. Len(handed[r]) \in Nat /\ Len(kept) \in Nat
          BY Counts9
        <5>2. ASSUME NEW j \in 1 .. Len(handed'[r])
              PROVE  handed'[r][j] = kept[j]
          <6>1. j \in 1 .. Len(handed[r]) \/ j = Len(handed[r]) + 1
            BY <3>5, <5>1
          <6> QED
            BY <3>5, <4>1, <6>1
        <5> QED
          BY <3>4, <3>5, <5>1, <5>2
      <4> QED
        BY <2>2, <3>5, <4>1, <4>2
    <3>7. \A u \in Readers : /\ Len(handed[u]) \in Nat
                             /\ u # r => Len(handed'[u]) = Len(handed[u])
                             /\ u = r => Len(handed'[u]) = Len(handed[u]) + 1
      BY <3>5, Counts9
    <3>8. \A j \in 1 .. Len(q) :
            /\ q[j].data = kept[Lab9!Freed + j]
            /\ \A u \in Readers : u \in q[j].seen <=> Lab9!Freed + j <= Len(handed'[u])
      <4> SUFFICES ASSUME NEW j \in 1 .. Len(q)
                   PROVE  /\ q[j].data = kept[Lab9!Freed + j]
                          /\ \A u \in Readers :
                               u \in q[j].seen <=> Lab9!Freed + j <= Len(handed'[u])
        OBVIOUS
      <4>1. /\ queue[j].data = kept[Lab9!Freed + j]
            /\ \A u \in Readers : u \in queue[j].seen <=> Lab9!Freed + j <= Len(handed[u])
        BY <2>2, <3>3 DEF Handed
      <4>2. ASSUME NEW u \in Readers
            PROVE  u \in q[j].seen <=> Lab9!Freed + j <= Len(handed'[u])
        <5>1. j = i <=> Lab9!Freed + j = Len(handed[r]) + 1
          BY <3>2, <3>3, Counts9
        <5>2. u \in q[j].seen <=> Lab9!Freed + j <= Len(handed[u]) \/ (j = i /\ u = r)
          BY <3>3, <4>1
        <5>3. Lab9!Freed \in Nat /\ j \in Nat
          BY <3>3, Counts9
        <5> QED
          BY <3>7, <5>1, <5>2, <5>3
      <4> QED
        BY <3>3, <4>1, <4>2
    <3>9. \A u \in Readers : Lab9!Freed <= Len(handed'[u])
      <4>1. \A u \in Readers : Lab9!Freed <= Len(handed[u]) /\ Lab9!Freed \in Nat
        BY <2>2, Counts9 DEF Handed
      <4> QED
        BY <3>7, <4>1
    <3>10. CASE queue' = q
      <4>1. Lab9!Freed' = Lab9!Freed
        BY <2>2, <3>3, <3>10 DEF Lab9!Freed
      <4>2. Len(queue') <= Len(kept')
        BY <2>2, <3>3, <3>10, Counts9
      <4> QED
        BY <2>2, <3>6, <3>8, <3>9, <3>10, <4>1, <4>2 DEF Handed
    <3>11. CASE i = 1 /\ q[1].seen = Readers /\ queue' = Tail(q)
      <4>1. /\ Len(queue') = Len(q) - 1
            /\ \A j \in 1 .. Len(queue') : queue'[j] = q[j + 1]
        BY <3>2, <3>3, <3>11, HeadTailProperties, EmptySeq
      <4>2. Lab9!Freed' = Lab9!Freed + 1 /\ Len(queue') <= Len(kept')
        BY <2>2, <3>3, <4>1, Counts9 DEF Lab9!Freed
      <4>3. \A u \in Readers : Lab9!Freed' <= Len(handed'[u])
        <5>1. 1 \in 1 .. Len(q)
          BY <3>2, <3>3, <3>11
        <5> QED
          BY <3>8, <3>11, <4>2, <5>1
      <4>4. ASSUME NEW j \in 1 .. Len(queue')
            PROVE  /\ queue'[j].data = kept'[Lab9!Freed' + j]
                   /\ \A u \in Readers :
                        u \in queue'[j].seen <=> Lab9!Freed' + j <= Len(handed'[u])
        <5>1. j + 1 \in 1 .. Len(q) /\ Lab9!Freed + (j + 1) = Lab9!Freed' + j
          BY <3>3, <4>1, <4>2, Counts9
        <5>2. queue'[j] = q[j + 1]
          BY <4>1
        <5> QED
          BY <2>2, <3>8, <5>1, <5>2
      <4> QED
        BY <3>6, <4>2, <4>3, <4>4 DEF Handed
    <3> QED
      BY <3>1, <3>10, <3>11
  <2> QED
    BY <2>3, <2>4
<1> QED
  BY <1>1, <1>2, <1>3, Steps9

(* Whatever a reader prints, its file goes on showing what it was handed.  *)
LEMMA ShownKept ==
  ASSUME Inv9, [Lab9!Next]_vars9 PROVE Shown'
<1> DEFINE S == Items \cup {JUNK}
<1>0. /\ JUNK \in S /\ JUNK \notin Items
      /\ \A r \in Readers : /\ handed[r] \in Seq(S) /\ data[r] = Newest(handed[r])
                            /\ r \in DOMAIN at /\ r \in DOMAIN message /\ r \in DOMAIN lines
                            /\ r \in DOMAIN data /\ r \in DOMAIN handed
                            /\ Printed(r)
      /\ DOMAIN at = Lab9!Threads /\ Readers \subseteq Lab9!Threads \ {"main", "writer"}
  <2>1. JUNK \in S /\ JUNK \notin Items
    BY Lab9Assumption DEF Items, Lab9!Items, Lab9!ToSet
  <2>2. \A r \in Readers : handed[r] \in Seq(S)
    <3> SUFFICES ASSUME NEW r \in Readers PROVE handed[r] \in Seq(S)
      OBVIOUS
    <3>1. handed[r] \in Seq(Items) /\ Items \subseteq S
      BY Counts9
    <3> QED
      BY <3>1, SeqMonotonic
  <2> QED
    BY <2>1, <2>2, Lab9Assumption DEF Inv9, Shown, Lab9!TypeOK, Lab9!Threads
<1> HIDE DEF S
<1>1. CASE Otherwise9
  <2>1. UNCHANGED <<handed, data, message>>
    BY <1>1, OtherwiseBuffer
  <2>2. ASSUME NEW r \in Readers, ~Lab9!PrintLine(r)
        PROVE  lines'[r] = lines[r] /\ (at'[r] = "check" => at[r] = "check")
               /\ (at[r] = "check" /\ message[r] = "SUCCESS" => at'[r] = "check")
    <3>1. CASE \E u \in Readers : Lab9!PrintLine(u)
      BY <1>0, <2>2, <3>1 DEF Lab9!PrintLine, Lab9!Goto
    <3>2. CASE ~\E u \in Readers : Lab9!PrintLine(u)
      BY <1>0, <1>1, <2>2, <3>2 DEF Otherwise9, vars9, Lab9!Finished, Lab9!vars, Lab9!Main,
         Lab9!MainStarts, Lab9!MainExits, Lab9!MainFrees, Lab9!FinishWriting, Started, Inv9,
         Lab9!PassBarrier, Lab9!FinishReading, Lab9!Leaves, Lab9!Goto
    <3> QED
      BY <3>1, <3>2
  <2>3. ASSUME NEW r \in Readers, Lab9!PrintLine(r)
        PROVE  Printed(r)'
    <3> DEFINE l == Lab9!RunItems(lines[r])
    <3>1. l' = WithItem(l, data[r]) /\ at[r] = "check" /\ at'[r] = "loop"
      <4>1. lines'[r] = Lab9!WithLine(lines[r], data[r]) /\ at[r] = "check" /\ at'[r] = "loop"
        BY <1>0, <2>3 DEF Lab9!PrintLine, Lab9!Goto
      <4>2. lines[r] \in Seq(Runs) /\ data[r] \in Items \cup {JUNK}
        BY DEF Inv9, Lab9!TypeOK, Runs, Items
      <4> QED
        BY <4>1, <4>2, LineOfRuns
    <3>2. Shows(l', handed[r])
      <4>1. CASE message[r] = "SUCCESS"
        <5> DEFINE h == Lab9!Front(handed[r])
        <5>1. handed[r] # <<>> /\ Shows(l, h)
          BY <1>0, <3>1, <4>1 DEF Printed
        <5>2. /\ Len(handed[r]) \in Nat \ {0} /\ data[r] = handed[r][Len(handed[r])]
              /\ handed[r] \in Seq(Items)
          BY <1>0, <5>1, Counts9, EmptySeq DEF Newest
        <5>3. /\ h \in Seq(S) /\ h \in Seq(Items) /\ Len(h) = Len(handed[r]) - 1
              /\ \A i \in 1 .. Len(h) : h[i] = handed[r][i]
          <6>1. /\ SubSeq(handed[r], 1, Len(handed[r]) - 1) \in Seq(Items)
                /\ Len(SubSeq(handed[r], 1, Len(handed[r]) - 1)) = Len(handed[r]) - 1
                /\ \A i \in 1 .. Len(handed[r]) - 1 :
                     SubSeq(handed[r], 1, Len(handed[r]) - 1)[i] = handed[r][i]
            BY <5>2
          <6>2. h \in Seq(Items) /\ Items \subseteq S
            BY <6>1 DEF Lab9!Front, S
          <6>3. h \in Seq(S)
            BY <6>2, SeqMonotonic
          <6> QED
            BY <6>1, <6>2, <6>3 DEF Lab9!Front
        <5>4. handed[r] = Append(h, data[r]) /\ data[r] \in Items
          <6>1. data[r] \in Items
            BY <5>2, ElementOfSeq
          <6>2. /\ Append(h, data[r]) \in Seq(Items)
                /\ Len(Append(h, data[r])) = Len(h) + 1
                /\ \A i \in 1 .. Len(h) : Append(h, data[r])[i] = h[i]
                /\ Append(h, data[r])[Len(h) + 1] = data[r]
            BY <5>3, <6>1, AppendProperties
          <6>3. \A i \in 1 .. Len(handed[r]) : handed[r][i] = Append(h, data[r])[i]
            BY <5>2, <5>3, <6>2
          <6>4. Len(handed[r]) = Len(Append(h, data[r]))
            BY <5>2, <5>3, <6>2
          <6> QED
            BY <5>2, <6>1, <6>2, <6>3, <6>4, SeqEqual
        <5>5. data[r] # Newest(h) /\ data[r] # JUNK /\ data[r] \in S
          <6>1. data[r] # JUNK /\ data[r] \in S
            BY <1>0, <5>4 DEF S
          <6>2. CASE h = <<>>
            BY <6>1, <6>2 DEF Newest
          <6>3. CASE h # <<>>
            <7>1. Len(h) \in 1 .. Len(handed[r]) /\ Len(handed[r]) \in 1 .. Len(handed[r])
                  /\ Len(h) # Len(handed[r])
              BY <5>2, <5>3, <6>3, EmptySeq
            <7>2. handed[r][Len(h)] # handed[r][Len(handed[r])]
              <8>1. /\ \A i \in 1 .. Len(handed[r]) : handed[r][i] = kept[i]
                    /\ \A i, j \in 1 .. Len(kept) : kept[i] = kept[j] => i = j
                BY DEF Inv9, Handed, Inserted
              <8>2. Len(h) \in 1 .. Len(kept) /\ Len(handed[r]) \in 1 .. Len(kept)
                BY <5>2, <7>1, Counts9
              <8> QED
                BY <7>1, <8>1, <8>2
            <7>3. h[Len(h)] = handed[r][Len(h)]
              BY <5>2, <5>3, <7>1
            <7> HIDE DEF h
            <7> QED
              BY <5>2, <6>1, <6>3, <7>2, <7>3 DEF Newest
          <6> QED
            BY <6>1, <6>2, <6>3
        <5> HIDE DEF h
        <5>6. Shows(WithItem(l, data[r]), Append(h, data[r]))
          BY <1>0, <5>1, <5>3, <5>5, LineMore
        <5> QED
          BY <3>1, <5>4, <5>6
      <4>2. CASE message[r] # "SUCCESS"
        <5>1. Shows(l, handed[r]) /\ handed[r] \in Seq(S) /\ data[r] = Newest(handed[r])
          BY <1>0, <4>2 DEF Printed
        <5> QED
          BY <1>0, <3>1, <5>1, LineAgain
      <4> QED
        BY <4>1, <4>2
    <3> QED
      BY <2>1, <3>1, <3>2 DEF Printed
  <2>4. ASSUME NEW r \in Readers PROVE Printed(r)'
    BY <1>0, <2>1, <2>2, <2>3 DEF Printed
  <2> QED
    BY <1>0, <2>1, <2>4 DEF Shown
<1>2. CASE Lab9!Write
  BY <1>0, <1>2, WriteStep DEF Shown, Printed
<1>3. CASE \E r \in Readers : Lab9!Remove2(r)
  <2>1. PICK r \in Readers : Lab9!Remove2(r)
    BY <1>3
  <2>2. /\ at[r] = "loop" /\ at' = [at EXCEPT ![r] = "check"] /\ lines' = lines
    BY <2>1, RemoveStep
  <2>3. Shows(Lab9!RunItems(lines[r]), handed[r])
    BY <1>0, <2>2 DEF Printed
  <2>4. CASE Len(handed[r]) = Len(kept)
    <3>1. /\ message' = [message EXCEPT ![r] = "NO_DATA"] /\ UNCHANGED <<data, handed>>
      BY <2>1, <2>4, RemoveStep
    <3> QED
      BY <1>0, <2>2, <2>3, <3>1 DEF Shown, Printed
  <2>5. CASE Len(handed[r]) # Len(kept)
    <3> DEFINE x == kept[Len(handed[r]) + 1]
    <3>1. /\ message' = [message EXCEPT ![r] = "SUCCESS"]
          /\ data' = [data EXCEPT ![r] = x]
          /\ handed' = [handed EXCEPT ![r] = Append(handed[r], x)]
      BY <2>1, <2>5, RemoveStep
    <3>2. x \in Items /\ handed[r] \in Seq(Items)
      BY <2>5, Counts9, ElementOfSeq
    <3> HIDE DEF x
    <3>3. /\ Append(handed[r], x) # <<>> /\ Lab9!Front(Append(handed[r], x)) = handed[r]
          /\ Newest(Append(handed[r], x)) = x
      <4>1. /\ Append(handed[r], x) \in Seq(Items) /\ Append(handed[r], x) # <<>>
            /\ Len(Append(handed[r], x)) = Len(handed[r]) + 1 /\ Len(handed[r]) \in Nat
            /\ Append(handed[r], x)[Len(handed[r]) + 1] = x
            /\ \A i \in 1 .. Len(handed[r]) : Append(handed[r], x)[i] = handed[r][i]
        BY <3>2, AppendProperties
      <4> DEFINE f == SubSeq(Append(handed[r], x), 1, Len(handed[r]))
      <4>2. /\ f \in Seq(Items) /\ Len(f) = Len(handed[r])
            /\ \A i \in 1 .. Len(handed[r]) : f[i] = handed[r][i]
        BY <4>1
      <4>3. f = handed[r]
        <5> HIDE DEF f
        <5> QED
          BY <3>2, <4>2, SeqEqual
      <4> QED
        BY <4>1, <4>3 DEF Lab9!Front, Newest
    <3>4. data'[r] = x /\ handed'[r] = Append(handed[r], x) /\ message'[r] = "SUCCESS"
          /\ \A u \in Readers : u # r => /\ data'[u] = data[u] /\ handed'[u] = handed[u]
                                         /\ message'[u] = message[u] /\ at'[u] = at[u]
      BY <1>0, <2>2, <3>1
    <3>5. Printed(r)' /\ data'[r] = Newest(handed'[r])
      BY <1>0, <2>2, <2>3, <3>3, <3>4 DEF Printed
    <3>6. \A u \in Readers : u # r => Printed(u)' /\ data'[u] = Newest(handed'[u])
      BY <1>0, <2>2, <3>4 DEF Printed
    <3> QED
      BY <3>5, <3>6 DEF Shown
  <2> QED
    BY <2>4, <2>5
<1> QED
  BY <1>1, <1>2, <1>3, Steps9

LEMMA Inv9Kept == Inv9 /\ [Lab9!Next]_vars9 => Inv9'
<1>1. ASSUME Inv9, [Lab9!Next]_vars9 PROVE Inv9'
  BY <1>1, Type9Kept, StartedKept, InsertedKept, HandedKept, ShownKept DEF Inv9
<1> QED
  BY <1>1

(* A measurement stays in lab 9's buffer until both readers have it, each  *)
(* is handed what was inserted, once and in order, and its file tells just *)
(* that: each measurement on one line or more in a row, behind any number  *)
(* of lines of an unassigned variable.                                     *)
THEOREM FilesAreRight == LabsSpec => []Lab9Files
<1>1. Inv9 => Lab9Files
  <2> SUFFICES ASSUME Inv9 PROVE Lab9Files
    OBVIOUS
  <2>1. Lab9!NothingFreedUnread
    <3>1. ASSUME NEW r \in Readers PROVE handed[r] = SubSeq(kept, 1, Len(handed[r]))
      <4> DEFINE p == SubSeq(kept, 1, Len(handed[r]))
      <4>1. handed[r] \in Seq(Items) /\ Len(handed[r]) \in Nat /\ Len(handed[r]) <= Len(kept)
        BY Counts9
      <4>2. p \in Seq(Items) /\ Len(p) = Len(handed[r])
            /\ \A i \in 1 .. Len(handed[r]) : p[i] = kept[i]
        BY <4>1, Counts9
      <4>3. \A i \in 1 .. Len(handed[r]) : handed[r][i] = p[i]
        BY <4>2 DEF Inv9, Handed
      <4> HIDE DEF p
      <4>4. handed[r] = p
        BY <4>1, <4>2, <4>3, SeqEqual
      <4> QED
        BY <4>4 DEF p
    <3>2. DOMAIN queue = 1 .. Len(queue)
      BY Counts9
    <3> QED
      BY <3>1, <3>2 DEF Inv9, Handed, Lab9!NothingFreedUnread
  <2>2. Lab9!FilesFollow
    BY DEF Inv9, Shown, Printed, Shows, Lab9!FilesFollow
  <2> QED
    BY <2>1, <2>2 DEF Inv9, Lab9Files
<1>2. LabsInit => Inv9
  BY Inv9Init DEF LabsInit
<1>3. [LabsNext]_labvars => [Lab9!Next]_vars9
  BY DEF LabsNext, Runs9, Runs8, Runs7, Runs6, labvars
<1> QED
  BY <1>1, <1>2, <1>3, Inv9Kept, PTL DEF LabsSpec

-------------------------------------------------------------------------------
(* Lab 7.                                                                  *)
(*                                                                         *)
(* The lines that were printed, perhaps with "exit" behind them, are those *)
(* in gateway.log and then those on their way (Carries); where the parent  *)
(* is decides which lines these are (Tells).  Places says how far the two  *)
(* processes, the stream and the database have come with each other; that  *)
(* the child cannot have ended while the stream is open is what makes a    *)
(* line printed then a line that arrives.                                  *)
Rows7 == {Rows[i] : i \in DOMAIN Rows}
Plain == Rows7 \cup {"opened", "can't open", "created"}
Lines7 == Plain \cup {"insertion failed", "closed"}
Exit7 == <<Lab7!EXIT>>
Ends7 == {<<>>, Exit7}
Early == parent \in {"start", "waiting", "alone"}

Places ==
  /\ Early => /\ dbpc = "open" /\ stream = "none" /\ child7 \in {"none", "waiting"}
              /\ log7 = <<>> /\ fifo = <<>>
  /\ parent = "running" => /\ child7 \in {"running", "over"} /\ dbpc # "over"
                           /\ \/ stream = "open" /\ child7 = "running"
                              \/ stream = "closed" /\ dbpc = "disconnect"
  /\ parent \in {"over", "crashed"} => /\ dbpc = "over" /\ stream = "closed"
                                       /\ child7 \in {"running", "over"}
  /\ dbpc \in {"open", "drop", "create", "file"} => unread = Rows
  /\ dbpc = "create" => table = Lab7!NoTable
  /\ dbpc = "file" => table = <<>>
  /\ dbpc \in {"insert", "disconnect"} => table \in Seq(Rows7) /\ table \o unread = Rows
  /\ dbpc = "disconnect" /\ stream = "open" => unread = <<>>

Open7(l) == \/ dbpc = "open" /\ l = <<>>
            \/ dbpc \in {"drop", "create"} /\ l = <<"opened">>
            \/ dbpc = "file" /\ l = Lab7!Heading
            \/ dbpc \in {"insert", "disconnect"} /\ l = Lab7!Heading \o table

Gone7(l, x) == \/ x = <<>> /\ l \in {<<"opened">>, Lab7!Heading}
               \/ x = Exit7 /\ l = <<"can't open">>
               \/ /\ x = Exit7 /\ unread = <<>>
                  /\ l = Lab7!Heading \o Rows \o <<"closed">>
               \/ /\ x = Exit7 /\ table \in Seq(Rows7) /\ table \o unread = Rows
                  /\ l = Lab7!Heading \o table \o Lab7!Failed

Tells(l, x) ==
  /\ Early => l = <<>> /\ x = <<>>
  /\ parent = "running" /\ stream = "open" => Open7(l) /\ x = <<>>
  /\ parent = "running" /\ stream = "closed" =>
       x = Exit7 /\ l = Lab7!Heading \o table \o Lab7!Failed
  /\ parent \in {"over", "crashed"} => Gone7(l, x)

Carries(l, x) == IF child7 = "over" THEN log7 = l /\ fifo = <<>>
                                    ELSE log7 \o fifo = l \o x

Told == \E l \in Seq(Lines7), x \in Ends7 : Tells(l, x) /\ Carries(l, x)

Inv7 == /\ Lab7!Lab7TypeOK
        /\ log7 \in Seq(Lines7) /\ fifo \in Seq(Lines7 \cup {Lab7!EXIT})
        /\ Places /\ Told

Joined(a, b, w) == w = a \o b

LEMMA JoinedParts ==
  ASSUME NEW T, NEW a \in Seq(T), NEW b \in Seq(T), NEW w, Joined(a, b, w)
  PROVE  /\ w \in Seq(T) /\ Len(w) = Len(a) + Len(b)
         /\ \A i \in 1 .. Len(a) : w[i] = a[i]
         /\ \A i \in 1 .. Len(b) : w[Len(a) + i] = b[i]
BY ConcatProperties DEF Joined

(* The line "exit" is the last one that was printed, and no other.         *)

TwoWays(S, e, l, x, s, t) ==
  /\ e \notin S /\ l \in Seq(S) /\ (x = <<>> \/ x = <<e>>)
  /\ s \in Seq(S) /\ t \in Seq(S \cup {e})
  /\ s \o t = l \o x

LEMMA ExitEnds ==
  ASSUME NEW S, NEW e, NEW l, NEW x, NEW s, NEW t, TwoWays(S, e, l, x, s, t)
  PROVE  /\ t # <<>> /\ Head(t) = e => x = <<e>> /\ s = l /\ Tail(t) = <<>>
         /\ t = <<>> => x = <<>> /\ s = l
         /\ Len(s) <= Len(l) /\ \A i \in 1 .. Len(s) : s[i] = l[i]
<1> DEFINE T == S \cup {e}
           w == s \o t
<1>0. /\ l \in Seq(T) /\ s \in Seq(T) /\ t \in Seq(T) /\ e \in T
      /\ l \in Seq(S) /\ s \in Seq(S) /\ e \notin S /\ (x = <<>> \/ x = <<e>>)
      /\ Joined(s, t, w) /\ Joined(l, x, w)
  BY SeqMonotonic DEF TwoWays, Joined
<1> HIDE DEF T, w
<1>1. /\ x \in Seq(T) /\ Len(x) \in Nat /\ Len(x) <= 1
      /\ Len(x) = 1 => x = <<e>>
      /\ Len(x) = 0 => x = <<>>
      /\ Len(l) \in Nat /\ Len(s) \in Nat /\ Len(t) \in Nat
  <2>1. <<>> \in Seq(T) /\ Len(<<>>) = 0 /\ <<e>> \in Seq(T) /\ Len(<<e>>) = 1
    BY <1>0
  <2>2. x = <<>> \/ x = <<e>>
    BY <1>0
  <2>3. CASE x = <<>>
    BY <2>1, <2>3
  <2>4. CASE x = <<e>>
    BY <2>1, <2>4
  <2>5. Len(l) \in Nat /\ Len(s) \in Nat /\ Len(t) \in Nat
    BY <1>0
  <2> QED
    BY <2>2, <2>3, <2>4, <2>5
<1>2. /\ Len(w) = Len(l) + Len(x)
      /\ \A i \in 1 .. Len(l) : w[i] = l[i]
      /\ \A i \in 1 .. Len(x) : w[Len(l) + i] = x[i]
  BY <1>0, <1>1, JoinedParts
<1>3. /\ Len(w) = Len(s) + Len(t)
      /\ \A i \in 1 .. Len(s) : w[i] = s[i]
      /\ \A i \in 1 .. Len(t) : w[Len(s) + i] = t[i]
  BY <1>0, <1>1, JoinedParts
<1>4. Len(s) <= Len(l)
  <2> SUFFICES ASSUME Len(s) > Len(l) PROVE FALSE
    BY <1>0, <1>1
  <2>1. Len(s) = Len(l) + 1 /\ Len(x) = 1
    BY <1>0, <1>1, <1>2, <1>3
  <2>2. w[Len(l) + 1] = e
    BY <1>0, <1>1, <1>2, <2>1
  <2>3. s[Len(s)] \in S /\ w[Len(s)] = s[Len(s)]
    BY <1>0, <1>1, <1>3, <2>1, ElementOfSeq
  <2> QED
    BY <1>0, <2>1, <2>2, <2>3
<1>5. \A i \in 1 .. Len(s) : s[i] = l[i]
  BY <1>0, <1>1, <1>2, <1>3, <1>4
<1>6. Len(s) = Len(l) => s = l
  BY <1>0, <1>1, <1>5, SeqEqual
<1>7. ASSUME t # <<>>, Head(t) = e PROVE x = <<e>> /\ s = l /\ Tail(t) = <<>>
  <2>1. Len(t) >= 1 /\ t[1] = e /\ Len(Tail(t)) = Len(t) - 1 /\ Tail(t) \in Seq(T)
    BY <1>0, <1>1, <1>7, HeadTailProperties
  <2>2. w[Len(s) + 1] = e
    BY <1>0, <1>1, <1>3, <2>1
  <2>3. Len(s) + 1 \in 1 .. Len(l) => w[Len(s) + 1] \in S
    BY <1>0, <1>1, <1>2, ElementOfSeq
  <2>4. Len(s) = Len(l)
    BY <1>0, <1>1, <1>4, <2>2, <2>3
  <2>5. Len(x) = 1 /\ Len(t) = 1
    BY <1>0, <1>1, <1>2, <1>3, <2>1, <2>4
  <2>6. Tail(t) = <<>>
    <3>1. Tail(t) \in Seq(T) /\ Len(Tail(t)) = 0
      BY <2>1, <2>5
    <3> QED
      BY <3>1, EmptySeq
  <2> QED
    BY <1>0, <1>1, <1>6, <2>4, <2>5, <2>6
<1>8. ASSUME t = <<>> PROVE x = <<>> /\ s = l
  <2>1. Len(s) = Len(l) /\ Len(x) = 0
    BY <1>0, <1>1, <1>2, <1>3, <1>4, <1>8
  <2> QED
    BY <1>0, <1>1, <1>6, <2>1
<1> QED
  BY <1>4, <1>5, <1>7, <1>8

LEMMA NoExit == Lab7!EXIT \notin Lines7
BY Lab7Assumption DEF Lab7!EXIT, Lines7, Plain, Rows7

LEMMA Words == /\ Rows \in Seq(Rows7) /\ Rows7 \subseteq Plain /\ Plain \subseteq Lines7
               /\ Lab7!Heading \in Seq(Plain) /\ Lab7!Failed \in Seq(Lines7)
               /\ <<>> \in Seq(Lines7) /\ Exit7 \in Seq(Lines7 \cup {Lab7!EXIT})
               /\ \A w \in Lines7 : <<w>> \in Seq(Lines7)
<1>1. Rows \in Seq(Rows7) /\ Rows7 \subseteq Plain /\ Plain \subseteq Lines7
  BY Lab7Assumption DEF Rows7, Plain, Lines7
<1>2. /\ "opened" \in Plain /\ "created" \in Plain /\ "insertion failed" \in Lines7
  BY DEF Plain, Lines7
<1>3. Lab7!Heading \in Seq(Plain)
  <2>1. \A a, b \in Plain : <<a, b>> \in Seq(Plain)
    OBVIOUS
  <2> QED
    BY <1>2, <2>1, Zenon DEF Lab7!Heading
<1>4. Lab7!Failed \in Seq(Lines7)
  <2>1. \A a \in Lines7 : <<a>> \in Seq(Lines7)
    OBVIOUS
  <2> QED
    BY <1>2, <2>1, Zenon DEF Lab7!Failed
<1>5. /\ <<>> \in Seq(Lines7) /\ \A w \in Lines7 : <<w>> \in Seq(Lines7)
  OBVIOUS
<1>6. Exit7 \in Seq(Lines7 \cup {Lab7!EXIT})
  BY DEF Exit7
<1> QED
  BY <1>1, <1>3, <1>4, <1>5, <1>6

LEMMA Inv7Init == Lab7!Lab7Init => Inv7
<1> SUFFICES ASSUME Lab7!Lab7Init PROVE Inv7
  OBVIOUS
<1> USE DEF Lab7!Lab7Init, Lab7!InitDb
<1>1. Lab7!Lab7TypeOK
  <2>1. <<Old>> \in Seq(Rows7 \cup {Old}) /\ <<>> \in Seq(Rows7 \cup {Old})
    OBVIOUS
  <2> QED
    BY <2>1, Words DEF Lab7!Lab7TypeOK, Lab7!DbTypeOK, Rows7
<1>2. Places
  BY DEF Places, Early
<1>3. Told
  <2>1. Tells(<<>>, <<>>) /\ Carries(<<>>, <<>>)
    BY DEF Tells, Early, Carries
  <2> QED
    BY <2>1, Words DEF Told, Ends7
<1>4. log7 \in Seq(Lines7) /\ fifo \in Seq(Lines7 \cup {Lab7!EXIT})
  OBVIOUS
<1> QED
  BY <1>1, <1>2, <1>3, <1>4 DEF Inv7

(* The child takes a line off the FIFO.                                    *)
LEMMA ChildKept ==
  ASSUME Inv7, Lab7!Child PROVE Inv7'
<1> USE DEF Lab7!Child, Lab7!GatewayLine, Lab7!GatewayExit, Lab7!EndOfFifo
<1>1. /\ UNCHANGED <<dbpc, table, unread, parent, stream>>
      /\ child7 = "running" /\ child7' \in {"running", "over"} /\ ~Early
  <2>1. CASE Lab7!GatewayLine
    BY <2>1 DEF Inv7, Places, Early, Lab7!dbvars
  <2>2. CASE Lab7!GatewayExit
    BY <2>2 DEF Inv7, Places, Early, Lab7!dbvars
  <2>3. CASE Lab7!EndOfFifo
    BY <2>3 DEF Inv7, Places, Early, Lab7!dbvars
  <2> QED
    BY <2>1, <2>2, <2>3
<1>2. /\ log7 \in Seq(Lines7) /\ fifo \in Seq(Lines7 \cup {Lab7!EXIT})
  BY DEF Inv7
<1>3. Lab7!Lab7TypeOK'
  BY <1>1 DEF Inv7, Lab7!Lab7TypeOK, Lab7!DbTypeOK
<1>4. PICK l \in Seq(Lines7), x \in Ends7 : Tells(l, x) /\ log7 \o fifo = l \o x
  BY <1>1 DEF Inv7, Told, Carries
<1>5. x = Exit7 => stream = "closed"
  BY <1>1, <1>4 DEF Tells, Exit7, Inv7, Places, Early, Lab7!Lab7TypeOK
<1>6. Tells(l, x)'
  BY <1>1, <1>4 DEF Tells, Early, Open7, Gone7
<1>7. CASE Lab7!GatewayLine
  <2>1. Head(fifo) \in Lines7 /\ Tail(fifo) \in Seq(Lines7 \cup {Lab7!EXIT})
        /\ fifo = <<Head(fifo)>> \o Tail(fifo)
    BY <1>2, <1>7, HeadTailProperties
  <2>2. log7' \in Seq(Lines7) /\ fifo' \in Seq(Lines7 \cup {Lab7!EXIT})
    BY <1>2, <1>7, <2>1, AppendProperties
  <2>3. log7' \o fifo' = log7 \o fifo
    <3>1. log7 \o <<Head(fifo)>> = Append(log7, Head(fifo))
      BY <1>2, <2>1, AppendIsConcat
    <3>2. /\ log7 \in Seq(Lines7 \cup {Lab7!EXIT})
          /\ <<Head(fifo)>> \in Seq(Lines7 \cup {Lab7!EXIT})
      BY <1>2, <2>1, SeqMonotonic
    <3>3. (log7 \o <<Head(fifo)>>) \o Tail(fifo) = log7 \o (<<Head(fifo)>> \o Tail(fifo))
      BY <2>1, <3>2, ConcatAssociative
    <3> QED
      BY <1>7, <2>1, <3>1, <3>3
  <2>4. Told'
    BY <1>1, <1>4, <1>6, <1>7, <2>3 DEF Told, Carries
  <2>5. Places'
    BY <1>1, <1>7 DEF Inv7, Places, Early
  <2> QED
    BY <1>3, <2>2, <2>4, <2>5 DEF Inv7
<1>8. CASE Lab7!GatewayExit \/ Lab7!EndOfFifo
  <2>1. child7' = "over" /\ log7' = log7
        /\ \/ fifo # <<>> /\ Head(fifo) = Lab7!EXIT /\ fifo' = Tail(fifo)
           \/ fifo = <<>> /\ fifo' = <<>> /\ stream = "closed"
    BY <1>8
  <2>2. /\ fifo # <<>> /\ Head(fifo) = Lab7!EXIT => x = Exit7 /\ log7 = l /\ Tail(fifo) = <<>>
        /\ fifo = <<>> => x = <<>> /\ log7 = l
    <3>1. x \in {<<>>, <<Lab7!EXIT>>} /\ l \in Seq(Lines7)
      BY <1>4 DEF Exit7, Ends7
    <3>2. /\ fifo # <<>> /\ Head(fifo) = Lab7!EXIT =>
               x = <<Lab7!EXIT>> /\ log7 = l /\ Tail(fifo) = <<>>
          /\ fifo = <<>> => x = <<>> /\ log7 = l
      <4>1. TwoWays(Lines7, Lab7!EXIT, l, x, log7, fifo)
        BY <1>2, <1>4, <3>1, NoExit DEF TwoWays
      <4> QED
        BY <4>1, ExitEnds
    <3> QED
      BY <3>2 DEF Exit7
  <2>3. log7' = l /\ fifo' = <<>> /\ stream = "closed"
    BY <1>5, <2>1, <2>2
  <2>4. Told'
    BY <1>4, <1>6, <2>1, <2>3 DEF Told, Carries
  <2>5. Places'
    BY <1>1, <2>1, <2>3 DEF Inv7, Places, Early
  <2> QED
    BY <1>2, <1>3, <2>1, <2>3, <2>4, <2>5 DEF Inv7
<1> QED
  BY <1>7, <1>8

(* The parent prints the lines q, and x behind them, to the open stream.   *)
Says(q, x) == /\ parent = "running" /\ stream = "open" /\ fifo' = fifo \o (q \o x)
              /\ UNCHANGED <<child7, log7>>

Triple(r, s, t, T) == r \in Seq(T) /\ s \in Seq(T) /\ t \in Seq(T)

LEMMA Regroup ==
  ASSUME NEW T, NEW r, NEW s, NEW t, Triple(r, s, t, T)
  PROVE  r \o (s \o t) = (r \o s) \o t
<1>1. r \in Seq(T) /\ s \in Seq(T) /\ t \in Seq(T)
  BY DEF Triple
<1>2. (r \o s) \o t = r \o (s \o t)
  BY <1>1, ConcatAssociative
<1> QED
  BY <1>2

LEMMA SaysCarried ==
  ASSUME Inv7, NEW q \in Seq(Lines7), NEW x \in Ends7, Says(q, x)
  PROVE  /\ fifo' \in Seq(Lines7 \cup {Lab7!EXIT}) /\ log7' \in Seq(Lines7)
         /\ child7 = "running" /\ dbpc # "over"
         /\ \E l \in Seq(Lines7) : /\ Open7(l) /\ l \o q \in Seq(Lines7)
                                   /\ Carries(l \o q, x)'
<1> DEFINE T == Lines7 \cup {Lab7!EXIT}
<1>1. child7 = "running" /\ dbpc # "over" /\ ~Early
  BY DEF Inv7, Places, Says, Early
<1>2. PICK l \in Seq(Lines7), y \in Ends7 : Tells(l, y) /\ log7 \o fifo = l \o y
  BY <1>1 DEF Inv7, Told, Carries
<1>3. Open7(l) /\ y = <<>>
  BY <1>2 DEF Tells, Says
<1>4. /\ q \in Seq(T) /\ x \in Seq(T) /\ l \in Seq(T) /\ log7 \in Seq(T) /\ fifo \in Seq(T)
      /\ log7 \in Seq(Lines7)
  <2>1. /\ Lines7 \subseteq T /\ log7 \in Seq(Lines7) /\ fifo \in Seq(T)
        /\ <<>> \in Seq(T) /\ Exit7 \in Seq(T)
    BY Words DEF Inv7
  <2>2. x \in Seq(T)
    BY <2>1 DEF Ends7
  <2> QED
    BY <2>1, <2>2, SeqMonotonic
<1>5. log7 \o fifo = l
  <2>1. l \o <<>> = l
    BY ConcatEmptySeq
  <2> QED
    BY <1>2, <1>3, <2>1
<1>6. q \o x \in Seq(T) /\ l \o q \in Seq(Lines7)
  BY <1>4, ConcatProperties
<1> HIDE DEF T
<1>7. log7 \o (fifo \o (q \o x)) = (l \o q) \o x
  <2>1. log7 \o (fifo \o (q \o x)) = (log7 \o fifo) \o (q \o x)
    <3>1. Triple(log7, fifo, q \o x, T)
      BY <1>4, <1>6 DEF Triple
    <3> QED
      BY SMTT(30), <3>1, Regroup
  <2>2. l \o (q \o x) = (l \o q) \o x
    <3>1. Triple(l, q, x, T)
      BY <1>4 DEF Triple
    <3> QED
      BY <3>1, Regroup
  <2> QED
    BY <1>5, <2>1, <2>2
<1>8. fifo \o (q \o x) \in Seq(T)
  BY <1>4, <1>6, ConcatProperties
<1>9. child7' = "running" /\ fifo' = fifo \o (q \o x) /\ log7' = log7
  BY <1>1 DEF Says
<1>10. Carries(l \o q, x)'
  BY <1>7, <1>9 DEF Carries
<1> QED
  BY <1>1, <1>3, <1>4, <1>6, <1>8, <1>9, <1>10 DEF T

LEMMA Pairs == /\ <<>> \o <<>> = <<>>
               /\ \A a, b : /\ <<a>> \o <<>> = <<a>> /\ <<>> \o <<a>> = <<a>>
                           /\ <<a>> \o <<b>> = <<a, b>>
<1>1. <<>> \o <<>> = <<>>
  BY EmptySeq, ConcatEmptySeq
<1>2. ASSUME NEW a, NEW b
      PROVE  <<a>> \o <<>> = <<a>> /\ <<>> \o <<a>> = <<a>> /\ <<a>> \o <<b>> = <<a, b>>
  <2>1. PICK S : a \in S /\ b \in S
    <3>1. a \in {a, b} /\ b \in {a, b}
      OBVIOUS
    <3> QED
      BY <3>1
  <2>2. <<a>> \in Seq(S) /\ <<b>> \in Seq(S)
    BY <2>1
  <2>3. Append(<<a>>, b) = <<a>> \o <<b>>
    BY <2>1, <2>2, AppendIsConcat
  <2>4. Append(<<a>>, b) = <<a, b>>
    <3>1. /\ Append(<<a>>, b) \in Seq(S) /\ Len(Append(<<a>>, b)) = 2
          /\ Append(<<a>>, b)[1] = a /\ Append(<<a>>, b)[2] = b
      BY <2>1, <2>2, AppendProperties
    <3>2. <<a, b>> \in Seq(S) /\ Len(<<a, b>>) = 2 /\ <<a, b>>[1] = a /\ <<a, b>>[2] = b
      BY <2>1
    <3>3. \A i \in 1 .. 2 : Append(<<a>>, b)[i] = <<a, b>>[i]
      BY <3>1, <3>2
    <3> QED
      BY <3>1, <3>2, <3>3, SeqEqual
  <2> QED
    BY <2>2, <2>3, <2>4, ConcatEmptySeq
<1> QED
  BY <1>1, <1>2

(* Every step of the parent that prints, and what it prints.               *)
LEMMA Printing7 ==
  ASSUME Inv7, Lab7!LogInit \/ Lab7!LogFile \/ Lab7!LogInsert \/ Lab7!LogInsertFails
                 \/ Lab7!LogDisconnect
  PROVE  \/ Lab7!OpenDb /\ Says(<<"opened">>, <<>>) /\ UNCHANGED <<parent, stream>>
         \/ /\ Lab7!OpenFails /\ Says(<<"can't open">>, Exit7)
            /\ parent' = "over" /\ stream' = "closed"
         \/ /\ Lab7!DropTable \/ Lab7!OpenFile \/ Lab7!AllInserted
            /\ Says(<<>>, <<>>) /\ UNCHANGED <<parent, stream>>
         \/ /\ Lab7!DropFails \/ Lab7!CreateFails \/ Lab7!NoDataFile
            /\ Says(<<>>, <<>>) /\ parent' = "over" /\ stream' = "closed"
         \/ Lab7!CreateTable /\ Says(<<"created">>, <<>>) /\ UNCHANGED <<parent, stream>>
         \/ Lab7!InsertRow /\ Says(<<Head(unread)>>, <<>>) /\ UNCHANGED <<parent, stream>>
         \/ /\ Lab7!InsertFails /\ Says(Lab7!Failed, Exit7)
            /\ UNCHANGED parent /\ stream' = "closed"
         \/ /\ Lab7!Disconnect /\ Says(<<"closed">>, Exit7)
            /\ parent' = "over" /\ stream' = "closed"
         \/ /\ Lab7!Disconnect /\ parent = "running" /\ stream = "closed"
            /\ parent' \in {"over", "crashed"} /\ UNCHANGED <<child7, stream, fifo, log7>>
<1> USE DEF Lab7!LogInit, Lab7!LogFile, Lab7!LogInsert, Lab7!LogInsertFails,
            Lab7!LogDisconnect, Lab7!Prints, Lab7!PrintsAndCloses, Lab7!Ends
<1>1. parent = "running" /\ (dbpc # "disconnect" => stream = "open")
      /\ stream \in {"open", "closed"}
  BY DEF Inv7, Places
<1>3. CASE Lab7!OpenDb /\ Lab7!Prints(<<"opened">>)
  BY <1>1, <1>3, Pairs DEF Says, Lab7!OpenDb, Lab7!DbGoes
<1>4. CASE Lab7!OpenFails /\ Lab7!Ends(<<"can't open", Lab7!EXIT>>)
  BY <1>1, <1>4, Pairs DEF Says, Lab7!OpenFails, Lab7!DbGoes, Exit7
<1>5. CASE Lab7!DropTable /\ Lab7!Prints(<<>>)
  BY <1>1, <1>5, Pairs DEF Says, Lab7!DropTable, Lab7!DbGoes
<1>6. CASE Lab7!OpenFile /\ Lab7!Prints(<<>>)
  BY <1>1, <1>6, Pairs DEF Says, Lab7!OpenFile, Lab7!DbGoes
<1>7. CASE Lab7!AllInserted /\ Lab7!Prints(<<>>)
  BY <1>1, <1>7, Pairs DEF Says, Lab7!AllInserted, Lab7!DbGoes
<1>8. CASE Lab7!DropFails /\ Lab7!Ends(<<>>)
  BY <1>1, <1>8, Pairs DEF Says, Lab7!DropFails, Lab7!DbGoes
<1>9. CASE Lab7!CreateFails /\ Lab7!Ends(<<>>)
  BY <1>1, <1>9, Pairs DEF Says, Lab7!CreateFails, Lab7!DbGoes
<1>10. CASE Lab7!NoDataFile /\ Lab7!Ends(<<>>)
  BY <1>1, <1>10, Pairs DEF Says, Lab7!NoDataFile, Lab7!DbGoes
<1>11. CASE Lab7!CreateTable /\ Lab7!Prints(<<"created">>)
  BY <1>1, <1>11, Pairs DEF Says, Lab7!CreateTable, Lab7!DbGoes
<1>12. CASE Lab7!InsertRow /\ Lab7!Prints(<<Head(unread)>>)
  BY <1>1, <1>12, Pairs DEF Says, Lab7!InsertRow, Lab7!DbGoes
<1>13. CASE Lab7!LogInsertFails
  BY <1>1, <1>13, Pairs DEF Says, Lab7!InsertFails, Lab7!DbGoes, Exit7, Lab7!Failed
<1>14. CASE Lab7!LogDisconnect /\ stream = "open"
  BY <1>1, <1>14, Pairs DEF Says, Exit7
<1>15. CASE Lab7!LogDisconnect /\ stream # "open"
  BY <1>1, <1>15
<1> QED
  BY <1>1, <1>3, <1>4, <1>5, <1>6, <1>7, <1>8, <1>9, <1>10, <1>11, <1>12, <1>13, <1>14, <1>15

LEMMA Type7Kept ==
  ASSUME Inv7, Lab7!Parent PROVE Lab7!Lab7TypeOK'
<1> USE DEF Inv7, Lab7!Lab7TypeOK, Lab7!DbTypeOK
<1>1. CASE Lab7!Fork \/ Lab7!OpenFifo
  BY <1>1 DEF Lab7!Fork, Lab7!OpenFifo, Lab7!dbvars
<1>2. CASE Lab7!LogInit \/ Lab7!LogFile \/ Lab7!LogInsert \/ Lab7!LogInsertFails
             \/ Lab7!LogDisconnect
  <2>1. /\ parent' \in {"running", "over", "crashed"} /\ child7' = child7
        /\ stream' \in {"none", "open", "closed"}
    BY <1>2, Printing7 DEF Says
  <2>2. CASE Lab7!InsertRow
    <3>1. unread # <<>> /\ unread \in Seq(Rows7) /\ table \in Seq(Rows7)
      BY <2>2 DEF Lab7!InsertRow, Lab7!DbGoes, Places, Rows7
    <3>2. Head(unread) \in Rows7 /\ Tail(unread) \in Seq(Rows7)
      BY <3>1, HeadTailProperties
    <3>3. Append(table, Head(unread)) \in Seq(Rows7)
      BY <3>1, <3>2, AppendProperties
    <3>4. /\ table' \in Seq({Rows[i] : i \in DOMAIN Rows} \cup {Old})
          /\ unread' \in Seq({Rows[i] : i \in DOMAIN Rows})
      BY <2>2, <3>2, <3>3, SeqMonotonic DEF Lab7!InsertRow, Rows7
    <3> QED
      BY <2>1, <2>2, <3>4 DEF Lab7!InsertRow, Lab7!DbGoes
  <2>3. CASE Lab7!OpenDb \/ Lab7!OpenFails \/ Lab7!DropTable \/ Lab7!DropFails
               \/ Lab7!CreateFails
    BY <2>1, <2>3 DEF Lab7!OpenDb, Lab7!OpenFails, Lab7!DropTable, Lab7!DropFails,
                      Lab7!CreateFails, Lab7!DbGoes
  <2>4. CASE Lab7!CreateTable
    BY <2>1, <2>4 DEF Lab7!CreateTable, Lab7!DbGoes
  <2>5. CASE Lab7!OpenFile \/ Lab7!NoDataFile \/ Lab7!InsertFails \/ Lab7!AllInserted
               \/ Lab7!Disconnect
    BY <2>1, <2>5 DEF Lab7!OpenFile, Lab7!NoDataFile, Lab7!InsertFails, Lab7!AllInserted,
                      Lab7!Disconnect, Lab7!DbGoes
  <2> QED
    BY <1>2, <2>2, <2>3, <2>4, <2>5, Printing7
<1> QED
  BY <1>1, <1>2 DEF Lab7!Parent

(* A step of the parent before the database is closed, or when it is.      *)
LEMMA SaysKept ==
  ASSUME Inv7, Lab7!Lab7TypeOK', NEW q \in Seq(Lines7), NEW x \in Ends7, Says(q, x),
         parent' \in {"running", "over"}, Places',
         \A l \in Seq(Lines7) : Open7(l) => Tells(l \o q, x)'
  PROVE  Inv7'
<1>1. fifo' \in Seq(Lines7 \cup {Lab7!EXIT}) /\ log7' \in Seq(Lines7)
  BY SaysCarried
<1>2. PICK l \in Seq(Lines7) : /\ Open7(l) /\ l \o q \in Seq(Lines7)
                               /\ Carries(l \o q, x)'
  BY SaysCarried
<1>3. Tells(l \o q, x)'
  BY <1>2
<1>4. Told'
  BY <1>2, <1>3 DEF Told
<1> QED
  BY <1>1, <1>4 DEF Inv7

(* A row goes from what is to read into the table, and is told.            *)
LEMMA RowMoves ==
  ASSUME NEW t \in Seq(Rows7), NEW u \in Seq(Rows7), u # <<>>
  PROVE  /\ Head(u) \in Rows7 /\ Tail(u) \in Seq(Rows7) /\ Append(t, Head(u)) \in Seq(Rows7)
         /\ Append(t, Head(u)) \o Tail(u) = t \o u
         /\ Lab7!Heading \o Append(t, Head(u)) = (Lab7!Heading \o t) \o <<Head(u)>>
<1>1. /\ Head(u) \in Rows7 /\ Tail(u) \in Seq(Rows7) /\ u = <<Head(u)>> \o Tail(u)
      /\ <<Head(u)>> \in Seq(Rows7)
  BY HeadTailProperties
<1>2. /\ Append(t, Head(u)) \in Seq(Rows7) /\ Append(t, Head(u)) = t \o <<Head(u)>>
  BY <1>1, AppendProperties, AppendIsConcat
<1>3. t \o (<<Head(u)>> \o Tail(u)) = (t \o <<Head(u)>>) \o Tail(u)
  <2>1. Triple(t, <<Head(u)>>, Tail(u), Rows7)
    BY <1>1 DEF Triple
  <2> QED
    BY <2>1, Regroup
<1>4. Lab7!Heading \o (t \o <<Head(u)>>) = (Lab7!Heading \o t) \o <<Head(u)>>
  <2>1. Triple(Lab7!Heading, t, <<Head(u)>>, Plain)
    BY <1>1, Words, SeqMonotonic DEF Triple
  <2> QED
    BY <2>1, Regroup
<1> QED
  BY <1>1, <1>2, <1>3, <1>4

LEMMA ParentKept ==
  ASSUME Inv7, Lab7!Parent PROVE Inv7'
<1>0. /\ \A l \in Seq(Lines7) : l \o <<>> = l
      /\ unread \in Seq(Rows7) /\ Lab7!Lab7TypeOK'
      /\ <<>> \in Ends7 /\ Exit7 \in Ends7
  BY ConcatEmptySeq, Type7Kept DEF Inv7, Lab7!Lab7TypeOK, Lab7!DbTypeOK, Rows7, Ends7
<1>a. /\ <<"opened">> \in Seq(Lines7) /\ <<"can't open">> \in Seq(Lines7)
      /\ <<"created">> \in Seq(Lines7) /\ <<"closed">> \in Seq(Lines7)
  <2>1. /\ "opened" \in Lines7 /\ "can't open" \in Lines7 /\ "created" \in Lines7
        /\ "closed" \in Lines7
    BY DEF Lines7, Plain
  <2> QED
    BY <2>1, Words, Zenon
<1>b. Places
  BY DEF Inv7
<1>1. CASE Lab7!Fork
  <2>1. Places'
    BY <1>1, <1>b DEF Lab7!Fork, Places, Early, Lab7!dbvars
  <2>2. Told'
    <3>1. PICK l \in Seq(Lines7), x \in Ends7 : Tells(l, x) /\ Carries(l, x)
      BY DEF Inv7, Told
    <3>2. Tells(l, x)' /\ Carries(l, x)'
      BY <1>1, <1>b, <3>1 DEF Lab7!Fork, Places, Early, Tells, Carries
    <3> QED
      BY <3>2 DEF Told
  <2> QED
    BY <1>0, <1>1, <2>1, <2>2 DEF Lab7!Fork, Inv7
<1>2. CASE Lab7!OpenFifo
  <2>1. Places'
    BY <1>2, <1>b DEF Lab7!OpenFifo, Places, Early, Lab7!dbvars
  <2>2. Told'
    <3>1. PICK l \in Seq(Lines7), x \in Ends7 : Tells(l, x) /\ Carries(l, x)
      BY DEF Inv7, Told
    <3>2. Tells(l, x)' /\ Carries(l, x)'
      BY <1>2, <1>b, <3>1 DEF Lab7!OpenFifo, Places, Early, Tells, Carries, Open7, Lab7!dbvars
    <3> QED
      BY <3>2 DEF Told
  <2> QED
    BY <1>0, <1>2, <2>1, <2>2 DEF Lab7!OpenFifo, Inv7
<1>3. CASE Lab7!OpenDb /\ Says(<<"opened">>, <<>>) /\ UNCHANGED <<parent, stream>>
  <2> USE <1>3 DEF Lab7!OpenDb, Lab7!DbGoes, Says
  <2>1. Places'
    BY <1>b DEF Places, Early
  <2>2. ASSUME NEW l \in Seq(Lines7), Open7(l) PROVE Tells(l \o <<"opened">>, <<>>)'
    <3>1. l \o <<"opened">> = <<"opened">>
      BY <2>2, Pairs DEF Open7
    <3> QED
      BY <3>1 DEF Tells, Early, Open7
  <2> QED
    BY <1>0, <1>3, <1>a, <2>1, <2>2, SaysKept
<1>4. CASE /\ Lab7!OpenFails /\ Says(<<"can't open">>, Exit7)
           /\ parent' = "over" /\ stream' = "closed"
  <2> USE <1>4 DEF Lab7!OpenFails, Lab7!DbGoes, Says
  <2>1. Places'
    BY <1>b DEF Places, Early
  <2>2. ASSUME NEW l \in Seq(Lines7), Open7(l) PROVE Tells(l \o <<"can't open">>, Exit7)'
    <3>1. l \o <<"can't open">> = <<"can't open">>
      BY <2>2, Pairs DEF Open7
    <3> QED
      BY <3>1 DEF Tells, Early, Gone7
  <2> QED
    BY <1>0, <1>4, <1>a, <2>1, <2>2, SaysKept
<1>5. CASE /\ Lab7!DropTable \/ Lab7!OpenFile \/ Lab7!AllInserted
           /\ Says(<<>>, <<>>) /\ UNCHANGED <<parent, stream>>
  <2>0. dbpc = "file" => <<>> \o Rows = Rows /\ Lab7!Heading \o <<>> = Lab7!Heading
    BY Words, SeqMonotonic, ConcatEmptySeq
  <2> USE <1>5 DEF Lab7!DropTable, Lab7!OpenFile, Lab7!AllInserted, Lab7!DbGoes, Says
  <2>1. Places'
    <3>1. <<>> \in Seq(Rows7)
      OBVIOUS
    <3> QED
      BY <1>b, <2>0, <3>1 DEF Places, Early
  <2>2. ASSUME NEW l \in Seq(Lines7), Open7(l) PROVE Tells(l \o <<>>, <<>>)'
    <3>1. l \o <<>> = l
      BY <1>0
    <3> QED
      BY <1>b, <2>0, <2>2, <3>1 DEF Tells, Early, Open7, Places
  <2> QED
    BY <1>0, <1>5, Words, <2>1, <2>2, SaysKept
<1>6. CASE /\ Lab7!DropFails \/ Lab7!CreateFails \/ Lab7!NoDataFile
           /\ Says(<<>>, <<>>) /\ parent' = "over" /\ stream' = "closed"
  <2> USE <1>6 DEF Lab7!DropFails, Lab7!CreateFails, Lab7!NoDataFile, Lab7!DbGoes, Says
  <2>1. Places'
    BY <1>b DEF Places, Early
  <2>2. ASSUME NEW l \in Seq(Lines7), Open7(l) PROVE Tells(l \o <<>>, <<>>)'
    <3>1. l \o <<>> = l
      BY <1>0
    <3> QED
      BY <2>2, <3>1 DEF Tells, Early, Open7, Gone7
  <2> QED
    BY <1>0, <1>6, Words, <2>1, <2>2, SaysKept
<1>7. CASE Lab7!CreateTable /\ Says(<<"created">>, <<>>) /\ UNCHANGED <<parent, stream>>
  <2> USE <1>7 DEF Lab7!CreateTable, Lab7!DbGoes, Says
  <2>1. Places'
    BY <1>b DEF Places, Early
  <2>2. ASSUME NEW l \in Seq(Lines7), Open7(l) PROVE Tells(l \o <<"created">>, <<>>)'
    <3>1. l \o <<"created">> = Lab7!Heading
      BY <2>2, Pairs DEF Open7, Lab7!Heading
    <3> QED
      BY <3>1 DEF Tells, Early, Open7
  <2> QED
    BY <1>0, <1>7, <1>a, <2>1, <2>2, SaysKept
<1>8. CASE Lab7!InsertRow /\ Says(<<Head(unread)>>, <<>>) /\ UNCHANGED <<parent, stream>>
  <2> USE <1>8 DEF Lab7!InsertRow, Lab7!DbGoes, Says
  <2>1. table \in Seq(Rows7) /\ table \o unread = Rows
    BY <1>b DEF Places
  <2>2. /\ Head(unread) \in Rows7 /\ table' \in Seq(Rows7) /\ table' \o unread' = Rows
        /\ Lab7!Heading \o table' = (Lab7!Heading \o table) \o <<Head(unread)>>
    BY <1>0, <2>1, RowMoves
  <2>3. Places'
    BY <1>b, <2>2 DEF Places, Early
  <2>4. PICK h \in Rows7 : h = Head(unread)
    BY <2>2
  <2>5. ASSUME NEW l \in Seq(Lines7), Open7(l) PROVE Tells(l \o <<h>>, <<>>)'
    <3>1. l \o <<h>> = Lab7!Heading \o table'
      BY <2>2, <2>4, <2>5 DEF Open7
    <3> QED
      BY <3>1 DEF Tells, Early, Open7
  <2>6. <<h>> \in Seq(Lines7) /\ Says(<<h>>, <<>>)
    BY <2>4, Words
  <2> QED
    BY <1>0, <1>8, <2>3, <2>5, <2>6, SaysKept
<1>9. CASE /\ Lab7!InsertFails /\ Says(Lab7!Failed, Exit7)
           /\ UNCHANGED parent /\ stream' = "closed"
  <2> USE <1>9 DEF Lab7!InsertFails, Lab7!DbGoes, Says
  <2>1. Places'
    BY <1>b DEF Places, Early
  <2>2. ASSUME NEW l \in Seq(Lines7), Open7(l) PROVE Tells(l \o Lab7!Failed, Exit7)'
    BY <2>2 DEF Tells, Early, Open7
  <2> QED
    BY <1>0, <1>9, Words, <2>1, <2>2, SaysKept
<1>10. CASE /\ Lab7!Disconnect /\ Says(<<"closed">>, Exit7)
            /\ parent' = "over" /\ stream' = "closed"
  <2> USE <1>10 DEF Lab7!Disconnect, Lab7!DbGoes, Says
  <2>1. Places'
    BY <1>b DEF Places, Early
  <2>2. table = Rows /\ unread = <<>>
    <3>1. table \in Seq(Rows7) /\ table \o unread = Rows /\ unread = <<>>
      BY <1>b DEF Places
    <3> QED
      BY <3>1, ConcatEmptySeq
  <2>3. ASSUME NEW l \in Seq(Lines7), Open7(l) PROVE Tells(l \o <<"closed">>, Exit7)'
    BY <2>2, <2>3 DEF Tells, Early, Open7, Gone7
  <2> QED
    BY <1>0, <1>10, <1>a, <2>1, <2>3, SaysKept
<1>11. CASE /\ Lab7!Disconnect /\ parent = "running" /\ stream = "closed"
            /\ parent' \in {"over", "crashed"} /\ UNCHANGED <<child7, stream, fifo, log7>>
  <2> USE <1>11 DEF Lab7!Disconnect, Lab7!DbGoes
  <2>1. Places'
    BY <1>b DEF Places, Early
  <2>2. Told'
    <3>1. PICK l \in Seq(Lines7), x \in Ends7 : Tells(l, x) /\ Carries(l, x)
      BY DEF Inv7, Told
    <3>2. Tells(l, x)' /\ Carries(l, x)'
      BY <1>b, <3>1 DEF Places, Early, Tells, Carries, Gone7
    <3> QED
      BY <3>2 DEF Told
  <2> QED
    BY <1>0, <2>1, <2>2 DEF Inv7
<1>12. CASE Lab7!LogInit \/ Lab7!LogFile \/ Lab7!LogInsert \/ Lab7!LogInsertFails
              \/ Lab7!LogDisconnect
  BY ZenonT(40), <1>12, <1>3, <1>4, <1>5, <1>6, <1>7, <1>8, <1>9, <1>10, <1>11, Printing7
<1> QED
  BY <1>1, <1>2, <1>12 DEF Lab7!Parent

(* The lines of a run: plain ones, and a last one that tells how it ended. *)
Kinds(l) ==
  \/ l \in Seq(Plain)
  \/ /\ table \in Seq(Rows7) /\ table \o unread = Rows
     /\ l = (Lab7!Heading \o table) \o <<"insertion failed">>
  \/ unread = <<>> /\ l = (Lab7!Heading \o Rows) \o <<"closed">>

LEMMA KindsOf7 ==
  ASSUME Inv7, NEW l \in Seq(Lines7), NEW x \in Ends7, Tells(l, x) PROVE Kinds(l)
<1>1. Places
  BY DEF Inv7
<1>2. /\ <<>> \in Seq(Plain) /\ <<"opened">> \in Seq(Plain) /\ <<"can't open">> \in Seq(Plain)
  <2>1. "opened" \in Plain /\ "can't open" \in Plain
    BY DEF Plain
  <2>2. \A p \in Plain : <<p>> \in Seq(Plain)
    OBVIOUS
  <2> QED
    BY <2>1, <2>2, EmptySeq, Zenon
<1>3. table \in Seq(Rows7) => Lab7!Heading \o table \in Seq(Plain)
  BY Words, SeqMonotonic, ConcatProperties
<1>4. parent = "running" => stream \in {"open", "closed"}
  BY <1>1 DEF Places
<1>5. CASE Early
  BY <1>2, <1>5 DEF Tells, Kinds
<1>6. CASE parent = "running" /\ stream = "open"
  <2>1. Open7(l)
    BY <1>6 DEF Tells
  <2>2. dbpc \in {"insert", "disconnect"} => table \in Seq(Rows7)
    BY <1>1 DEF Places
  <2> QED
    BY <1>2, <1>3, <2>1, <2>2, Words DEF Open7, Kinds
<1>7. CASE parent = "running" /\ stream = "closed"
  <2>1. table \in Seq(Rows7) /\ table \o unread = Rows
    BY <1>1, <1>7 DEF Places
  <2>2. l = (Lab7!Heading \o table) \o <<"insertion failed">>
    BY <1>7 DEF Tells, Lab7!Failed
  <2> QED
    BY <2>1, <2>2 DEF Kinds
<1>8. CASE parent \in {"over", "crashed"}
  <2>1. Gone7(l, x)
    BY <1>8 DEF Tells
  <2> QED
    BY <1>2, <2>1, Words DEF Gone7, Kinds, Lab7!Failed
<1> QED
  BY <1>4, <1>5, <1>6, <1>7, <1>8 DEF Inv7, Lab7!Lab7TypeOK, Early

(* So the log that has one of the last lines has all of them.              *)
EndsIn(l, p, w) == p \in Seq(Plain) /\ w \in Lines7 \ Plain /\ l = p \o <<w>>

Reaches(s, l, i) == /\ s \in Seq(Lines7) /\ Len(s) <= Len(l)
                    /\ \A j \in 1 .. Len(s) : s[j] = l[j]
                    /\ i \in 1 .. Len(s) /\ s[i] \notin Plain

LEMMA LastLine ==
  ASSUME NEW p, NEW w, NEW l, EndsIn(l, p, w), NEW s, NEW i, Reaches(s, l, i)
  PROVE  s = l /\ s[i] = w
<1>0. /\ s \in Seq(Lines7) /\ Len(s) <= Len(l) /\ \A j \in 1 .. Len(s) : s[j] = l[j]
      /\ i \in 1 .. Len(s) /\ s[i] \notin Plain
  BY DEF Reaches
<1>1. /\ l \in Seq(Lines7) /\ Len(l) = Len(p) + 1 /\ Len(p) \in Nat /\ Len(s) \in Nat
      /\ \A j \in 1 .. Len(p) : l[j] = p[j]
      /\ l[Len(p) + 1] = w
  <2>1. p \in Seq(Lines7) /\ w \in Lines7 /\ l = p \o <<w>>
    BY Words, SeqMonotonic DEF EndsIn
  <2>2. l = Append(p, w)
    BY <2>1, AppendIsConcat
  <2> QED
    BY <1>0, <2>1, <2>2, AppendProperties
<1>2. i \notin 1 .. Len(p)
  BY <1>0, <1>1, ElementOfSeq DEF EndsIn
<1>3. i = Len(p) + 1 /\ Len(s) = Len(l)
  BY <1>0, <1>1, <1>2
<1> QED
  BY <1>0, <1>1, <1>3, SeqEqual

(* Whatever fails in lab 7's storage, and wherever the two processes are:  *)
(* from the first insert on the table and the rest of the file are the     *)
(* file, the lines in gateway.log and on their way tell the rows of the    *)
(* table, a failed insert and the closing come last, and the child ends    *)
(* when it has read everything.                                            *)
THEOREM LogTellsWhatIsStored == LabsSpec => []Lab7Log
<1>1. Inv7 => Lab7Log
  <2> SUFFICES ASSUME Inv7 PROVE Lab7Log
    OBVIOUS
  <2>1. PICK l \in Seq(Lines7), x \in Ends7 : Tells(l, x) /\ Carries(l, x)
    BY DEF Inv7, Told
  <2>2. log7 \in Seq(Lines7) /\ Places /\ Kinds(l)
    BY <2>1, KindsOf7 DEF Inv7
  <2>3. Len(log7) <= Len(l) /\ \A i \in 1 .. Len(log7) : log7[i] = l[i]
    <3>1. CASE child7 = "over"
      BY <2>1, <2>2, <3>1 DEF Carries
    <3>2. CASE child7 # "over"
      <4>1. TwoWays(Lines7, Lab7!EXIT, l, x, log7, fifo)
        BY <2>1, <2>2, <3>2, NoExit DEF Inv7, TwoWays, Carries, Ends7, Exit7
      <4> QED
        BY <4>1, ExitEnds
    <3> QED
      BY <3>1, <3>2
  <2>4. /\ "insertion failed" \in Lines7 \ Plain /\ "closed" \in Lines7 \ Plain
    BY Lab7Assumption DEF Lines7, Plain, Rows7
  <2>5. ASSUME NEW i \in DOMAIN log7, log7[i] \in {"insertion failed", "closed"}
        PROVE  \/ /\ log7[i] = "insertion failed" /\ table \o unread = Rows
                  /\ log7 = (Lab7!Heading \o table) \o <<"insertion failed">>
               \/ /\ log7[i] = "closed" /\ unread = <<>>
                  /\ log7 = (Lab7!Heading \o Rows) \o <<"closed">>
    <3>1. i \in 1 .. Len(log7) /\ log7[i] \notin Plain
      <4>1. DOMAIN log7 = 1 .. Len(log7)
        BY <2>2
      <4> QED
        BY <2>4, <2>5, <4>1
    <3>2. l \notin Seq(Plain)
      <4>1. i \in 1 .. Len(l) /\ log7[i] = l[i]
        BY <2>2, <2>3, <3>1
      <4> QED
        BY <3>1, <4>1, ElementOfSeq
    <3>5. Reaches(log7, l, i)
      BY <2>2, <2>3, <3>1 DEF Reaches
    <3>3. CASE /\ table \in Seq(Rows7) /\ table \o unread = Rows
               /\ l = (Lab7!Heading \o table) \o <<"insertion failed">>
      <4>1. Lab7!Heading \o table \in Seq(Plain)
        BY <3>3, Words, SeqMonotonic, ConcatProperties
      <4>2. log7 = l /\ log7[i] = "insertion failed"
        <5> DEFINE p == Lab7!Heading \o table
        <5>1. EndsIn(l, p, "insertion failed")
          BY <2>4, <3>3, <4>1 DEF EndsIn
        <5> HIDE DEF p
        <5> QED
          BY <3>5, <5>1, LastLine
      <4> QED
        BY <3>3, <4>2
    <3>4. CASE unread = <<>> /\ l = (Lab7!Heading \o Rows) \o <<"closed">>
      <4>1. Lab7!Heading \o Rows \in Seq(Plain)
        BY Words, SeqMonotonic, ConcatProperties
      <4>2. log7 = l /\ log7[i] = "closed"
        <5>1. EndsIn(l, Lab7!Heading \o Rows, "closed")
          BY <2>4, <3>4, <4>1 DEF EndsIn
        <5> QED
          BY <3>5, <5>1, LastLine
      <4> QED
        BY <3>4, <4>2
    <3> QED
      BY <2>2, <3>2, <3>3, <3>4 DEF Kinds
  <2>6. ASSUME dbpc \in {"insert", "disconnect"}
        PROVE  log7 \o fifo \in
                 {Lab7!Heading \o table \o end :
                    end \in IF stream = "open" THEN {<<>>}
                            ELSE {Lab7!Failed, Lab7!Failed \o <<Lab7!EXIT>>}}
    <3> DEFINE h == Lab7!Heading \o table
    <3>1. parent = "running" /\ table \in Seq(Rows7)
          /\ \/ stream = "open" /\ child7 = "running"
             \/ stream = "closed"
      BY <2>2, <2>6 DEF Inv7, Lab7!Lab7TypeOK, Places, Early
    <3>2. h \in Seq(Plain)
      BY <3>1, Words, SeqMonotonic, ConcatProperties
    <3>3. ASSUME stream = "open" PROVE log7 \o fifo = h \o <<>>
      BY <2>1, <2>6, <3>1, <3>3 DEF Tells, Open7, Carries
    <3>4. ASSUME stream # "open"
          PROVE  \/ log7 \o fifo = h \o Lab7!Failed
                 \/ log7 \o fifo = h \o (Lab7!Failed \o <<Lab7!EXIT>>)
      <4>1. l = h \o Lab7!Failed /\ x = <<Lab7!EXIT>>
        BY <2>1, <3>1, <3>4 DEF Tells, Exit7
      <4>2. CASE child7 = "over"
        <5>1. log7 = l /\ fifo = <<>>
          BY <2>1, <4>2 DEF Carries
        <5>2. log7 \o <<>> = log7
          BY <2>2, ConcatEmptySeq
        <5> QED
          BY <4>1, <5>1, <5>2
      <4>3. CASE child7 # "over"
        <5>1. log7 \o fifo = (h \o Lab7!Failed) \o <<Lab7!EXIT>>
          BY <2>1, <4>1, <4>3 DEF Carries
        <5>2. Triple(h, Lab7!Failed, <<Lab7!EXIT>>, Lines7 \cup {Lab7!EXIT})
          <6>1. <<Lab7!EXIT>> \in Seq(Lines7 \cup {Lab7!EXIT})
            BY Words DEF Exit7
          <6> HIDE DEF h
          <6> QED
            BY <3>2, <6>1, Words, SeqMonotonic DEF Triple
        <5> QED
          <6>1. h \o (Lab7!Failed \o <<Lab7!EXIT>>) = (h \o Lab7!Failed) \o <<Lab7!EXIT>>
            BY <5>2, Regroup
          <6> QED
            BY <5>1, <6>1
      <4> QED
        BY <4>2, <4>3
    <3> HIDE DEF h
    <3>5. log7 \o fifo \in
                 {h \o end : end \in IF stream = "open" THEN {<<>>}
                                     ELSE {Lab7!Failed, Lab7!Failed \o <<Lab7!EXIT>>}}
      BY <3>3, <3>4
    <3> QED
      BY <3>5 DEF h
  <2>7. Lab7!LogTellsTable
    BY <2>5, <2>6 DEF Lab7!LogTellsTable, Lab7!Failed
  <2>8. Lab7!TableIsFile /\ Lab7!ChildReadsAll
    BY <2>1, <2>2 DEF Lab7!TableIsFile, Lab7!ChildReadsAll, Places, Carries
  <2> QED
    BY <2>7, <2>8 DEF Inv7, Lab7Log
<1>2. LabsInit => Inv7
  BY Inv7Init DEF LabsInit
<1>3. [LabsNext]_labvars => [Lab7!Lab7Next]_vars7
  BY DEF LabsNext, Runs9, Runs8, Runs7, Runs6, labvars
<1>4. ASSUME Inv7, [Lab7!Lab7Next]_vars7 PROVE Inv7'
  <2>1. CASE Lab7!Parent
    BY <1>4, <2>1, ParentKept
  <2>2. CASE Lab7!Child
    BY <1>4, <2>2, ChildKept
  <2>3. CASE UNCHANGED vars7 \/ Lab7!Lab7Over
    <3>1. UNCHANGED <<dbpc, table, unread, parent, child7, stream, fifo, log7>>
      BY <2>3 DEF vars7, Lab7!Lab7Over, Lab7!lab7vars, Lab7!dbvars, Lab7!logvars
    <3>2. Places'
      BY <1>4, <3>1 DEF Inv7, Places, Early
    <3>3. Told'
      <4>1. PICK l \in Seq(Lines7), x \in Ends7 : Tells(l, x) /\ Carries(l, x)
        BY <1>4 DEF Inv7, Told
      <4>2. Tells(l, x)' /\ Carries(l, x)'
        BY <3>1, <4>1 DEF Tells, Early, Open7, Gone7, Carries
      <4> QED
        BY <4>2 DEF Told
    <3> QED
      BY <1>4, <3>1, <3>2, <3>3 DEF Inv7, Lab7!Lab7TypeOK, Lab7!DbTypeOK
  <2> QED
    BY <1>4, <2>1, <2>2, <2>3 DEF Lab7!Lab7Next
<1> QED
  BY <1>1, <1>2, <1>3, <1>4, PTL DEF LabsSpec

-------------------------------------------------------------------------------
(* Lab 6.  Its data manager is that of the final program, so that the      *)
(* proof is in DataMgrProofs; what is left is that the program which       *)
(* MCLabs runs is the one of that proof.                                   *)
D == INSTANCE DataMgrProofs WITH pc <- pc6, file <- file6

LEMMA Assumed6 == D!DataMgrAssumption /\ D!FieldsInPlace
BY Lab6Assumption DEF Lab6Assumption, D!DataMgrAssumption, D!FieldsInPlace, Lab6!FieldsInPlace

LEMMA SameLists ==
  /\ \A s, x, i : Lab6!InsertAt(s, i, x) = D!InsertAt(s, i, x)
  /\ \A s, x : Lab6!DplInsertSorted(s, x) = D!DplInsertSorted(s, x)
  /\ \A id : Lab6!GetDataFromList(id) = D!GetDataFromList(id)
  /\ \A s : Lab6!Last(s) = D!Last(s)
<1>1. \A S : Lab6!Min(S) = D!Min(S)
  BY DEF Lab6!Min, D!Min
<1>2. \A s, x, i : Lab6!InsertAt(s, i, x) = D!InsertAt(s, i, x)
  BY DEF Lab6!InsertAt, D!InsertAt
<1>3. \A s, x : Lab6!DplInsertSorted(s, x) = D!DplInsertSorted(s, x)
  BY <1>1, <1>2 DEF Lab6!DplInsertSorted, D!DplInsertSorted, Lab6!SelectInSeq, D!SelectInSeq,
                    Lab6!DplInsertAtIndex, D!DplInsertAtIndex
<1>4. \A id : Lab6!GetDataFromList(id) = D!GetDataFromList(id)
  BY <1>1 DEF Lab6!GetDataFromList, D!GetDataFromList, Lab6!SelectInSeq, D!SelectInSeq
<1>5. \A s : Lab6!Last(s) = D!Last(s)
  BY DEF Lab6!Last, D!Last
<1> QED
  BY <1>2, <1>3, <1>4, <1>5

LEMMA SameWindows ==
  /\ \A s : Lab6!Total(s) = D!Total(s)
  /\ \A h : Lab6!Recent(h) = D!Recent(h)
  /\ \A s, v, ts : Lab6!Updated(s, v, ts) = D!Updated(s, v, ts)
<1>1. \A s : Lab6!Total(s) = D!Total(s)
  BY DEF Lab6!Total, D!Total
<1>2. \A h : Lab6!Recent(h) = D!Recent(h)
  BY DEF Lab6!Recent, D!Recent
<1>3. \A s, v, ts : Lab6!Updated(s, v, ts) = D!Updated(s, v, ts)
  BY <1>1 DEF Lab6!Updated, D!Updated, Lab6!Shift, D!Shift
<1> QED
  BY <1>1, <1>2, <1>3

LEMMA SameInit6 == Lab6!Lab6Init <=> D!Lab6Init
BY DEF Lab6!Lab6Init, D!Lab6Init, Lab6!Init, D!Init

LEMMA SameNext6 == [Lab6!Lab6Next]_vars6 => [D!Lab6Next]_(D!lab6vars)
<1>1. Lab6!MissingFile => D!MissingFile
  BY DEF Lab6!MissingFile, D!MissingFile
<1>2. Lab6!Lab6ParseLine => D!Lab6ParseLine
  BY SameLists DEF Lab6!Lab6ParseLine, D!Lab6ParseLine, Lab6!Scanned, D!Scanned,
                   Lab6!NewSensor, D!NewSensor
<1>3. Lab6!Lab6Reading => D!Lab6Reading
  BY SameLists, SameWindows
     DEF Lab6!Lab6Reading, D!Lab6Reading, Lab6!ReadFields, D!ReadFields, Lab6!Alarm, D!Alarm,
         Lab6!Ended, D!Ended
<1>4. Lab6!Lab6Free => D!Lab6Free
  BY DEF Lab6!Lab6Free, D!Lab6Free, Lab6!DplFree, D!DplFree
<1>5. Lab6!Lab6Finished \/ UNCHANGED vars6 => UNCHANGED D!lab6vars
  BY DEF Lab6!Lab6Finished, Lab6!lab6vars, Lab6!vars, vars6, D!lab6vars, D!vars
<1> QED
  BY <1>1, <1>2, <1>3, <1>4, <1>5 DEF Lab6!Lab6Next, D!Lab6Next

LEMMA SameAverages ==
  D!Lab6TypeOK /\ D!RoomsAscend /\ D!LastCountedTwice /\ D!ExitsOnUnknown => Lab6Averages
<1>1. Lab6!Counted = D!Counted
  <2>1. \A f, old : Lab6!ReadFields(f, old) = D!ReadFields(f, old)
    BY DEF Lab6!ReadFields, D!ReadFields
  <2>2. Lab6!Whole = D!Whole
    BY DEF Lab6!Whole, D!Whole
  <2>3. Lab6!LastWhole = D!LastWhole /\ Lab6!CutOff = D!CutOff
    BY <2>1, <2>2, SameLists DEF Lab6!LastWhole, D!LastWhole, Lab6!CutOff, D!CutOff
  <2> QED
    BY <2>1, <2>2, <2>3 DEF Lab6!Counted, D!Counted
<1>2. \A id : Lab6!CountedFor(id) = D!CountedFor(id)
  BY <1>1 DEF Lab6!CountedFor, D!CountedFor
<1>3. D!Lab6TypeOK => Lab6!Lab6TypeOK
  BY DEF Lab6!Lab6TypeOK, D!Lab6TypeOK, Lab6!Sensor, D!Sensor
<1>4. D!RoomsAscend => Lab6!RoomsAscend
  BY DEF Lab6!RoomsAscend, D!RoomsAscend
<1>7. \A id : Lab6!ReadingsOf(id) = D!ReadingsOf(id)
  <2>1. Lab6!Whole = D!Whole
    BY DEF Lab6!Whole, D!Whole
  <2> QED
    BY <2>1 DEF Lab6!ReadingsOf, D!ReadingsOf, Lab6!Cardinality, D!Cardinality
<1>5. D!LastCountedTwice => Lab6!LastCountedTwice
  BY <1>2, <1>7, SameLists, SameWindows
     DEF Lab6!LastCountedTwice, D!LastCountedTwice, Lab6!Lab6Avg, D!Lab6Avg,
         Lab6!Lab6LastModified, D!Lab6LastModified
<1>6. D!ExitsOnUnknown => Lab6!ExitsOnUnknown
  BY <1>1, SameLists DEF Lab6!ExitsOnUnknown, D!ExitsOnUnknown
<1> QED
  BY <1>3, <1>4, <1>5, <1>6 DEF Lab6Averages

(* Whatever is in the map and the data file of lab 6, its loop exits at    *)
(* the first reading of a sensor that is not in the list, or ends with the *)
(* averages and times of the readings in the file, the last of which it    *)
(* counts twice, or mixes with what is cut off (lab_6/datamgr.c:53).       *)
THEOREM LoopEndsWithAverages == LabsSpec => []Lab6Averages
<1>1. LabsInit => D!Inv6
  BY Assumed6, SameInit6, D!InitInv6 DEF LabsInit
<1>2. D!Inv6 /\ [LabsNext]_labvars => D!Inv6'
  <2>1. [LabsNext]_labvars => [Lab6!Lab6Next]_vars6
    BY DEF LabsNext, labvars, Runs9, Runs8, Runs7, Runs6
  <2> QED
    BY <2>1, Assumed6, SameNext6, D!NextInv6
<1>3. D!Inv6 => Lab6Averages
  BY Assumed6, SameAverages, D!Inv6Averages
<1> QED
  BY <1>1, <1>2, <1>3, PTL DEF LabsSpec


-------------------------------------------------------------------------------
(* Lab 8.  In the same way, the proof is in ConnMgrProofs.                 *)
C == INSTANCE ConnMgrProofs WITH pc <- pc8

LEMMA Assumed8 == C!ConnMgrAssumption
BY Lab8Assumption DEF Lab8Assumption, C!ConnMgrAssumption, C!SERVER, C!REMOVE_FD

LEMMA SameConstants8 ==
  /\ Lab8!SERVER = C!SERVER /\ Lab8!REMOVE_FD = C!REMOVE_FD /\ Lab8!None = C!None
  /\ Lab8!Over = C!Over
BY DEF Lab8!SERVER, C!SERVER, Lab8!REMOVE_FD, C!REMOVE_FD, Lab8!None, C!None,
       Lab8!Over, C!Over

LEMMA SamePoll8 ==
  /\ \A fd : Lab8!Event(fd) = C!Event(fd)
  /\ Lab8!Polled = C!Polled /\ Lab8!Ready = C!Ready
  /\ \A ev, i : Lab8!NextEvent(ev, i) = C!NextEvent(ev, i)
  /\ \A ev : Lab8!Calm(ev) = C!Calm(ev)
<1>1. \A fd : Lab8!Event(fd) = C!Event(fd)
  BY SameConstants8 DEF Lab8!Event, C!Event
<1>2. Lab8!Polled = C!Polled
  BY <1>1 DEF Lab8!Polled, C!Polled
<1>3. Lab8!Ready = C!Ready
  BY <1>1, SameConstants8 DEF Lab8!Ready, C!Ready
<1>4. \A ev, i : Lab8!NextEvent(ev, i) = C!NextEvent(ev, i)
  BY SameConstants8 DEF Lab8!NextEvent, C!NextEvent
<1>5. \A ev : Lab8!Calm(ev) = C!Calm(ev)
  BY SameConstants8 DEF Lab8!Calm, C!Calm
<1> QED
  BY <1>1, <1>2, <1>3, <1>4, <1>5

LEMMA SameLists8 ==
  /\ \A q, i : Lab8!GetElementAt(q, i) = C!GetElementAt(q, i)
  /\ \A q, x, i : Lab8!InsertAtIndex(q, x, i) = C!InsertAtIndex(q, x, i)
  /\ \A q, i : Lab8!RemoveAtIndex(q, i) = C!RemoveAtIndex(q, i)
  /\ \A q, n : Lab8!CompressPass(q, n) = C!CompressPass(q, n)
<1>1. \A q, i : Lab8!ReferenceAt(q, i) = C!ReferenceAt(q, i)
  BY DEF Lab8!ReferenceAt, C!ReferenceAt
<1>2. \A q, i : Lab8!GetElementAt(q, i) = C!GetElementAt(q, i)
  BY <1>1 DEF Lab8!GetElementAt, C!GetElementAt
<1>3. \A q, x, i : Lab8!InsertAtIndex(q, x, i) = C!InsertAtIndex(q, x, i)
  BY DEF Lab8!InsertAtIndex, C!InsertAtIndex, Lab8!InsertAt, C!InsertAt
<1>4. \A q, i : Lab8!RemoveAtIndex(q, i) = C!RemoveAtIndex(q, i)
  BY <1>1 DEF Lab8!RemoveAtIndex, C!RemoveAtIndex, Lab8!RemoveAt, C!RemoveAt
<1>5. \A q, i, n : Lab8!Shift(q, i, n) = C!Shift(q, i, n)
  BY SameConstants8 DEF Lab8!Shift, C!Shift
<1>6. \A q, n : Lab8!CompressPass(q, n) = C!CompressPass(q, n)
  BY <1>5 DEF Lab8!CompressPass, C!CompressPass
<1> QED
  BY <1>2, <1>3, <1>4, <1>6

LEMMA SameInit8 == Lab8!InitServer <=> C!InitServer
BY SameConstants8 DEF Lab8!InitServer, C!InitServer, Lab8!Init, C!Init

LEMMA SameHalves8 == (UNCHANGED Lab8!halves) <=> (UNCHANGED C!halves)
BY DEF Lab8!halves, C!halves

LEMMA SameNodes8 == \A s \in Sensors : Lab8!SensorNode(s) => C!SensorNode(s)
<1> SUFFICES ASSUME NEW s \in Sensors, Lab8!SensorNode(s) PROVE C!SensorNode(s)
  OBVIOUS
<1>1. Lab8!Connect(s) => C!Connect(s)
  BY SameConstants8 DEF Lab8!Connect, C!Connect
<1>2. Lab8!SendField(s) => C!SendField(s)
  BY SameConstants8 DEF Lab8!SendField, C!SendField
<1>3. Lab8!Leave(s) => C!Leave(s)
  BY SameConstants8 DEF Lab8!Leave, C!Leave
<1> QED
  BY <1>1, <1>2, <1>3, SameHalves8
     DEF Lab8!SensorNode, C!SensorNode, Lab8!GoesOn, C!GoesOn

LEMMA SameNext8 == [Lab8!Lab8Next]_vars8 => [C!Lab8Next]_(C!lab8vars)
<1>1. (Lab8!Scanning <=> C!Scanning) /\ (Lab8!Scanned <=> C!Scanned)
  BY DEF Lab8!Scanning, C!Scanning, Lab8!Scanned, C!Scanned
<1>2. Lab8!Continue => C!Continue
  BY SamePoll8, SameConstants8 DEF Lab8!Continue, C!Continue
<1>3. Lab8!CloseEntry => C!CloseEntry
  <2>1. \A i : Lab8!CalmClosing(i) = C!CalmClosing(i)
    BY SameConstants8 DEF Lab8!CalmClosing, C!CalmClosing
  <2> QED
    BY <2>1, SameLists8, SameConstants8
       DEF Lab8!CloseEntry, C!CloseEntry, Lab8!Closed, C!Closed
<1>4. \A n : Lab8!TcpReceive(n) => C!TcpReceive(n)
  BY DEF Lab8!TcpReceive, C!TcpReceive, Lab8!Received, C!Received
<1>5. Lab8!PollFds => C!PollFds
  BY <1>1, SamePoll8, SameHalves8
     DEF Lab8!net, C!net, Lab8!PollFds, C!PollFds, Lab8!Poll, C!Poll
<1>6. Lab8!CloseReported => C!CloseReported
  BY <1>1, <1>2, <1>3, SameHalves8 DEF Lab8!net, C!net, Lab8!CloseReported, C!CloseReported
<1>7. Lab8!InsertClient => C!InsertClient
  BY <1>1, <1>2, SameLists8, SameHalves8
     DEF Lab8!net, C!net, Lab8!InsertClient, C!InsertClient, Lab8!TcpWait, C!TcpWait
<1>14. Lab8!InsertOverruns => C!InsertOverruns
  BY <1>1, SameHalves8 DEF Lab8!net, C!net, Lab8!InsertOverruns, C!InsertOverruns
<1>8. Lab8!StartReading => C!StartReading
  BY <1>1, SameLists8, SameHalves8
     DEF Lab8!net, C!net, Lab8!StartReading, C!StartReading
<1>9. Lab8!ReadMeasurement => C!ReadMeasurement
  BY <1>1, <1>2, <1>4 DEF Lab8!net, C!net, Lab8!ReadMeasurement, C!ReadMeasurement
<1>10. Lab8!ReadCutOff => C!ReadCutOff
  BY <1>1, <1>2, <1>3, <1>4
     DEF Lab8!net, C!net, Lab8!ReadCutOff, C!ReadCutOff, Lab8!Received, C!Received
<1>11. Lab8!EndRound => C!EndRound
  BY <1>1, SameLists8, SameHalves8
     DEF Lab8!net, C!net, Lab8!EndRound, C!EndRound, Lab8!CompressEntries, C!CompressEntries,
         Lab8!HasRoom, C!HasRoom
<1>12. Lab8!EndListen => C!EndListen
  BY <1>1, SamePoll8, SameConstants8, SameHalves8
     DEF Lab8!net, C!net, Lab8!EndListen, C!EndListen, Lab8!DplFree, C!DplFree
<1>13. Lab8!Lab8Finished \/ UNCHANGED vars8 => UNCHANGED C!lab8vars
  BY DEF Lab8!Lab8Finished, Lab8!lab8vars, Lab8!vars, Lab8!net, Lab8!halves, vars8,
         C!lab8vars, C!vars, C!net, C!halves
<1> QED
  BY SameNodes8, <1>5, <1>6, <1>7, <1>8, <1>9, <1>10, <1>11, <1>12, <1>13, <1>14
     DEF Lab8!Lab8Next, C!Lab8Next, Lab8!Lab8Step, C!Lab8Step

LEMMA SameFds8 == C!Lab8InStep /\ C!WholeMeasurements => Lab8Fds
BY DEF Lab8Fds, Lab8!Lab8InStep, C!Lab8InStep, Lab8!WholeMeasurements, C!WholeMeasurements

(* The connection manager of lab 8, with any number of nodes and an array  *)
(* of any size: as long as the rounds are calm, fds and the list are in    *)
(* step, and the file has whole measurements only of every node none of    *)
(* whose receives was short (lab_8/connmgr.c:52 and 136).                  *)
THEOREM FdsStayInStep == LabsSpec => []Lab8Fds
<1>1. LabsInit => C!Inv8
  BY Assumed8, SameInit8, C!InitInv8 DEF LabsInit
<1>2. C!Inv8 /\ [LabsNext]_labvars => C!Inv8'
  <2>1. [LabsNext]_labvars => [Lab8!Lab8Next]_vars8
    BY DEF LabsNext, labvars, Runs9, Runs8, Runs7, Runs6
  <2> QED
    BY <2>1, Assumed8, SameNext8, C!NextInv8
<1>3. C!Inv8 => Lab8Fds
  BY Assumed8, SameFds8, C!Inv8Fds
<1> QED
  BY <1>1, <1>2, <1>3, PTL DEF LabsSpec
===============================================================================
