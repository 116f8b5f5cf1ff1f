------------------------------- MODULE LogPipe --------------------------------
(***************************************************************************)
(* The way of a log message in src/final/main.c: write_to_fifo prints it   *)
(* under the mutex into the stdio buffer of fifo_write; stdio writes a     *)
(* full buffer to the named pipe, and blocks while the pipe is full; the   *)
(* child process takes lines out of the pipe and numbers them in           *)
(* gateway.log.  The gateway ends by "exiting_pipe" and fclose, or dies in *)
(* the middle: abort does not flush stdio.                                 *)
(***************************************************************************)
EXTENDS Naturals, Sequences

CONSTANTS Writers,      \* the threads that call write_to_fifo
          StdioCap,     \* messages the stdio buffer holds
          PipeCap,      \* messages the pipe holds
          MaxMessages   \* bound on the calls of write_to_fifo

ASSUME LogPipeAssumption == /\ StdioCap \in Nat \ {0} /\ PipeCap \in Nat \ {0}
                            /\ MaxMessages \in Nat

EXIT == "exiting_pipe"
ASSUME ExitAssumption == EXIT \notin Writers

VARIABLES gateway,      \* "opening", "running", "exiting", "exited",
                        \* "aborted", "killed" (by SIGPIPE), "ended"
          child,        \* "opening", "opened", "reading", "done", "aborted"
          mutex,        \* the writer that holds it, or "free"
          pc,           \* "idle", "lock", "print"
          stdio, pipe,  \* the messages in the buffer and in the pipe
          log,          \* gateway.log: message i has sequence number i
          written       \* history: the messages printed; a message is the
                        \* thread that wrote it

vars == <<gateway, child, mutex, pc, stdio, pipe, log, written>>

Init == /\ gateway = "opening" /\ child = "opening"
        /\ mutex = "free"
        /\ pc = [w \in Writers |-> "idle"]
        /\ stdio = <<>> /\ pipe = <<>> /\ log = <<>> /\ written = <<>>

\* init_fifo_write and init_fifo_read: each fopen waits for the other.
OpenFifo == /\ gateway = "opening" /\ child = "opening"
            /\ gateway' = "running" /\ child' = "opened"
            /\ UNCHANGED <<mutex, pc, stdio, pipe, log, written>>

WriteEndOpen == gateway \in {"running", "exiting"}
ReadEndOpen == child \in {"opened", "reading"}

-------------------------------------------------------------------------------
\* write_to_fifo

Call(w) == /\ gateway = "running"
           /\ pc[w] = "idle"
           /\ Len(written) < MaxMessages
           /\ pc' = [pc EXCEPT ![w] = "lock"]
           /\ UNCHANGED <<gateway, child, mutex, stdio, pipe, log, written>>

Lock(w) == /\ gateway = "running"
           /\ pc[w] = "lock"
           /\ mutex = "free"
           /\ mutex' = w
           /\ pc' = [pc EXCEPT ![w] = "print"]
           /\ UNCHANGED <<gateway, child, stdio, pipe, log, written>>

\* Fault: the buffer keeps only the newest message when it is full.
PrintOver(w) == /\ gateway = "running"
                /\ pc[w] = "print"
                /\ stdio' = IF Len(stdio) < StdioCap THEN Append(stdio, w) ELSE <<w>>
                /\ written' = Append(written, w)
                /\ mutex' = "free"
                /\ pc' = [pc EXCEPT ![w] = "idle"]
                /\ UNCHANGED <<gateway, child, pipe, log>>
\* Fault: the mutex is not given back.
PrintHolding(w) == /\ gateway = "running"
                   /\ pc[w] = "print"
                   /\ Len(stdio) < StdioCap
                   /\ stdio' = Append(stdio, w)
                   /\ written' = Append(written, w)
                   /\ pc' = [pc EXCEPT ![w] = "idle"]
                   /\ UNCHANGED <<gateway, child, mutex, pipe, log>>

\* fprintf that finds room in the buffer, and the unlock.
PrintLine(w) == /\ gateway = "running"
            /\ pc[w] = "print"
            /\ Len(stdio) < StdioCap
            /\ stdio' = Append(stdio, w)
            /\ written' = Append(written, w)
            /\ mutex' = "free"
            /\ pc' = [pc EXCEPT ![w] = "idle"]
            /\ UNCHANGED <<gateway, child, pipe, log>>

\* The buffer is being written out: by a fprintf that found it full, which holds
\* the mutex all the while, or by fclose.  The write waits while the pipe is full.
Flushing == \/ gateway = "exiting"
            \/ \E w \in Writers : gateway = "running" /\ pc[w] = "print"

Flush == /\ Flushing /\ ReadEndOpen
         /\ Len(stdio) > (IF gateway = "exiting" THEN 0 ELSE StdioCap - 1)
         /\ Len(pipe) < PipeCap
         /\ pipe' = Append(pipe, Head(stdio))
         /\ stdio' = Tail(stdio)
         /\ UNCHANGED <<gateway, child, mutex, pc, log, written>>

\* Writing to a pipe nobody reads any more: SIGPIPE.
BrokenPipe == /\ Flushing /\ ~ReadEndOpen
              /\ Len(stdio) > (IF gateway = "exiting" THEN 0 ELSE StdioCap - 1)
              /\ gateway' = "killed"
              /\ UNCHANGED <<child, mutex, pc, stdio, pipe, log, written>>

\* An assertion fails in some thread: what is in the stdio buffer is gone.
Abort == /\ gateway = "running"
         /\ gateway' = "aborted"
         /\ UNCHANGED <<child, mutex, pc, stdio, pipe, log, written>>

\* main after the joins: print "exiting_pipe" behind what is buffered, and fclose.
PrintExit == /\ gateway = "running"
             /\ \A w \in Writers : pc[w] = "idle"
             /\ gateway' = "exiting"
             /\ stdio' = Append(stdio, EXIT)
             /\ UNCHANGED <<child, mutex, pc, pipe, log, written>>

\* Fault: the pipe is closed without writing out the buffer.
CloseUnflushed == /\ gateway = "exiting"
                  /\ gateway' = "exited"
                  /\ UNCHANGED <<child, mutex, pc, stdio, pipe, log, written>>

CloseFifo == /\ gateway = "exiting"
             /\ stdio = <<>>
             /\ gateway' = "exited"
             /\ UNCHANGED <<child, mutex, pc, stdio, pipe, log, written>>

\* waitpid
WaitForChild == /\ gateway = "exited"
                /\ child \in {"done", "aborted"}
                /\ gateway' = "ended"
                /\ UNCHANGED <<child, mutex, pc, stdio, pipe, log, written>>

-------------------------------------------------------------------------------
\* The child process.

\* fopen of gateway.log, and its assertion.
OpenLog == /\ child = "opened"
           /\ child' \in {"reading", "aborted"}
           /\ UNCHANGED <<gateway, mutex, pc, stdio, pipe, log, written>>

\* One iteration of read_from_fifo.  The line "exiting_pipe" has no newline, so
\* fgets returns it only when the write end is closed.
ReadLine == /\ child = "reading"
            /\ pipe # <<>>
            /\ Head(pipe) = EXIT => ~WriteEndOpen
            /\ pipe' = Tail(pipe)
            /\ IF Head(pipe) = EXIT
                 THEN child' = "done" /\ UNCHANGED log
                 ELSE log' = Append(log, Head(pipe)) /\ UNCHANGED child
            /\ UNCHANGED <<gateway, mutex, pc, stdio, written>>

\* Fault: only "exiting_pipe" ends the loop.
EndOfFileIgnored == /\ child = "reading"
                    /\ pipe = <<>> /\ ~WriteEndOpen
                    /\ UNCHANGED vars

\* The pipe is empty and its write end closed: fgets returns NULL.
EndOfFile == /\ child = "reading"
             /\ pipe = <<>> /\ ~WriteEndOpen
             /\ child' = "done"
             /\ UNCHANGED <<gateway, mutex, pc, stdio, pipe, log, written>>

-------------------------------------------------------------------------------
GatewayOver == gateway \in {"exited", "aborted", "killed", "ended"}
ChildOver == child \in {"done", "aborted"}
Finished == /\ gateway \in {"aborted", "killed", "ended"} /\ ChildOver
            /\ UNCHANGED vars

ChildStep == OpenLog \/ ReadLine \/ EndOfFile
MainStep == PrintExit \/ CloseFifo \/ WaitForChild

Next == \/ OpenFifo
        \/ \E w \in Writers : Call(w) \/ Lock(w) \/ PrintLine(w)
        \/ Flush \/ BrokenPipe \/ Abort
        \/ MainStep \/ ChildStep \/ Finished

Spec == Init /\ [][Next]_vars

\* Both processes are scheduled, a blocked write goes on when there is room, and a
\* thread that finds the mutex free again and again gets it.  No thread need
\* write, nor need the gateway end.
Fairness == /\ WF_vars(OpenFifo) /\ WF_vars(ChildStep)
            /\ WF_vars(Flush \/ BrokenPipe \/ CloseFifo \/ WaitForChild)
            /\ \A w \in Writers : SF_vars(Lock(w)) /\ WF_vars(PrintLine(w))
FairSpec == Spec /\ Fairness
-------------------------------------------------------------------------------
Message == Writers \cup {EXIT}

TypeOK == /\ gateway \in {"opening", "running", "exiting", "exited", "aborted",
                          "killed", "ended"}
          /\ child \in {"opening", "opened", "reading", "done", "aborted"}
          /\ mutex \in Writers \cup {"free"}
          /\ pc \in [Writers -> {"idle", "lock", "print"}]
          /\ stdio \in Seq(Message) /\ Len(stdio) <= StdioCap + 1
          /\ pipe \in Seq(Message) /\ Len(pipe) <= PipeCap
          /\ log \in Seq(Writers)
          /\ written \in Seq(Writers)

\* Nothing is dropped, doubled or overtaken on the way: what was printed is what is
\* logged, then what is in the pipe, then what is (or died) in the buffer; and
\* "exiting_pipe" comes last, so it ends the child's loop before no message.
NothingDropped == TypeOK /\ log \o pipe \o stdio \in {written, Append(written, EXIT)}

\* A normal end loses nothing: when main returns from waitpid and the child has not
\* failed, gateway.log holds every message, in the order of the calls.
CompleteAtEnd == gateway = "ended" /\ child = "done" => log = written

\* The child never outlives the gateway for good, however the gateway ends.
ChildEnds == GatewayOver ~> ChildOver

\* A thread that logs is held up only while the child is slow: the mutex comes back
\* although fprintf may block in it, or the gateway is over.
LoggingReturns == \A w \in Writers : pc[w] = "lock" ~> pc[w] = "idle" \/ GatewayOver
===============================================================================
