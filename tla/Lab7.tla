--------------------------------- MODULE Lab7 ---------------------------------
(***************************************************************************)
(* Exercise 3 of lab_7: the storage of Lab7Db, and a child process that    *)
(* numbers the lines it gets through a FIFO and writes them to             *)
(* gateway.log.  A line is named by what it tells; the stdio buffer and    *)
(* the pipe are one sequence, which nothing is lost from before the        *)
(* parent has ended.                                                       *)
(***************************************************************************)
EXTENDS Lab7Db

EXIT == "exit"

VARIABLES parent,       \* "start", "waiting" for the other end of the FIFO,
                        \* "running", "over", "crashed"; "alone" without a child
          child,        \* "none", "waiting", "running", "over"
          stream,       \* fd of the parent: "none", "open", "closed"
          fifo,         \* lines on their way
          log           \* gateway.log; the number of a line is its index

logvars == <<parent, child, stream, fifo, log>>
lab7vars == <<dbvars, logvars>>

Lab7Init == /\ InitDb
            /\ parent = "start" /\ child = "none"
            /\ stream = "none" /\ fifo = <<>> /\ log = <<>>
-------------------------------------------------------------------------------
\* main forks; with no child it takes the branch of the child itself.
Fork == /\ parent = "start"
        /\ \/ parent' = "waiting" /\ child' = "waiting"
           \/ parent' = "alone" /\ UNCHANGED child
        /\ UNCHANGED <<dbvars, stream, fifo, log>>

\* Both opens of the FIFO wait for each other.
OpenFifo == /\ parent = "waiting" /\ child = "waiting"
            /\ parent' = "running" /\ child' = "running"
            /\ stream' = "open"
            /\ UNCHANGED <<dbvars, fifo, log>>

Prints(lines) == fifo' = fifo \o lines /\ UNCHANGED <<stream, parent, child, log>>
PrintsAndCloses(lines) == /\ fifo' = fifo \o lines
                          /\ stream' = "closed"
                          /\ UNCHANGED <<child, log>>
\* main returns: exit closes the stream, if nobody has.
Ends(lines) == parent' = "over" /\ PrintsAndCloses(lines)

\* insert_sensor_from_file closes the stream that disconnect will print to.
LogInsertFails == /\ parent = "running" /\ InsertFails
                  /\ PrintsAndCloses(<<"insertion failed", EXIT>>)
                  /\ UNCHANGED parent

\* init_connection(1).
LogInit == /\ parent = "running"
           /\ \/ OpenDb /\ Prints(<<"opened">>)
              \/ OpenFails /\ Ends(<<"can't open", EXIT>>)
              \/ DropTable /\ Prints(<<>>)
              \/ DropFails /\ Ends(<<>>)
              \/ CreateTable /\ Prints(<<"created">>)
              \/ CreateFails /\ Ends(<<>>)

\* file_to_db and insert_sensor.
LogFile == /\ parent = "running"
           /\ \/ OpenFile /\ Prints(<<>>)
              \/ NoDataFile /\ Ends(<<>>)

\* Fault: the line comes before the row, whether or not it gets into the table.
InsertAnnounced == /\ parent = "running"
                   /\ InsertRow \/ InsertFails
                   /\ Prints(<<Head(unread)>>)
LogInsert == /\ parent = "running"
             /\ \/ InsertRow /\ Prints(<<Head(unread)>>)
                \/ AllInserted /\ Prints(<<>>)

\* disconnect.  Printing to a closed stream is undefined: the process crashes, or
\* nothing is printed.
LogDisconnect == /\ parent = "running"
                 /\ Disconnect
                 /\ IF stream = "open"
                      THEN Ends(<<"closed", EXIT>>)
                      ELSE /\ parent' \in {"over", "crashed"}
                           /\ UNCHANGED <<child, stream, fifo, log>>

\* Fault: the end of file is taken for a line that is not there yet.
EndOfFifoUnseen == /\ child = "running"
                   /\ fifo = <<>> /\ stream = "closed"
                   /\ UNCHANGED lab7vars

\* gateway: one line, "exit", or the end of file.
GatewayLine == /\ child = "running"
               /\ fifo # <<>> /\ Head(fifo) # EXIT
               /\ log' = Append(log, Head(fifo)) /\ fifo' = Tail(fifo)
               /\ UNCHANGED <<dbvars, parent, child, stream>>
GatewayExit == /\ child = "running"
               /\ fifo # <<>> /\ Head(fifo) = EXIT
               /\ child' = "over" /\ fifo' = Tail(fifo)
               /\ UNCHANGED <<dbvars, parent, stream, log>>
EndOfFifo == /\ child = "running"
             /\ fifo = <<>> /\ stream = "closed"
             /\ child' = "over"
             /\ UNCHANGED <<dbvars, parent, stream, fifo, log>>

\* Nobody opens the other end for a parent that is alone.
Lab7Over == /\ parent = "alone" \/ (parent \in {"over", "crashed"} /\ child = "over")
            /\ UNCHANGED lab7vars

Parent == Fork \/ OpenFifo \/ LogInit \/ LogFile \/ LogInsert \/ LogInsertFails \/ LogDisconnect
Child == GatewayLine \/ GatewayExit \/ EndOfFifo

Lab7Next == Parent \/ Child \/ Lab7Over

Lab7Spec == Lab7Init /\ [][Lab7Next]_lab7vars
\* Both processes run.
Lab7Fairness == WF_lab7vars(Parent) /\ WF_lab7vars(Child)
-------------------------------------------------------------------------------
Lab7TypeOK == /\ DbTypeOK
              /\ parent \in {"start", "waiting", "running", "over", "crashed", "alone"}
              /\ child \in {"none", "waiting", "running", "over"}
              /\ stream \in {"none", "open", "closed"}

\* The lines of a run, as far as a reader of gateway.log has them.
Heading == <<"opened", "created">>
Failed == <<"insertion failed">>

\* exercise_3/sensor_db.c:64: the lines in gateway.log and on their way tell the rows of the
\* table, each once and in order, and a failed insert is the last thing they tell.
LogTellsTable ==
  /\ dbpc \in {"insert", "disconnect"} =>
       log \o fifo \in {Heading \o table \o end :
                         end \in IF stream = "open" THEN {<<>>}
                                                    ELSE {Failed, Failed \o <<EXIT>>}}
  /\ \A i \in DOMAIN log :
       /\ log[i] = "insertion failed" => /\ log = Heading \o table \o Failed
                                        /\ table \o unread = Rows
       /\ log[i] = "closed" => /\ log = Heading \o Rows \o <<"closed">>
                              /\ unread = <<>>

\* exercise_3/sensor_db.c:143: the child has read all that was printed when it ends, and it ends
\* however the parent does, with "exit" or without.
ChildReadsAll == child = "over" => fifo = <<>>
ChildFollows == child = "waiting" ~> child = "over" /\ parent \in {"over", "crashed"}
===============================================================================
