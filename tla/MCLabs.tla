-------------------------------- MODULE MCLabs --------------------------------
(* The programs of labs 6 to 9, which have nothing in common but the course: each *)
(* behaviour runs one of them, and leaves the variables of the others alone.      *)
(* Lab 9: three measurements, so that one can come between a reader's last look   *)
(* and the flag with another one unread.  Lab 8: three nodes and an array for two *)
(* of them.  Lab 7: two readings, so that the first one or a later one can fail.  *)
(* Lab 6: a window of two; files of no, one and two readings, whole and cut off.  *)
EXTENDS Integers, Sequences

CONSTANTS JUNK,
          Readers, File,                                        \* lab 9
          Sensors, Measurements, MaxConn,                       \* lab 8
          Rows, Old,                                            \* lab 7
          Maps, DataFiles, Rooms, Ids, Values, Times, Length,   \* lab 6
          MinTemp, MaxTemp, MaxReadings

\* Each line of the file is a measurement of its own, and none is the unassigned one.
ASSUME Lab9Assumption ==
  /\ File \in Seq({File[i] : i \in DOMAIN File})
  /\ \A i, j \in DOMAIN File : File[i] = File[j] => i = j
  /\ \A i \in DOMAIN File : File[i] # JUNK
  /\ {"main", "writer"} \cap Readers = {}

\* No node has the descriptor of the server, or of nothing.
ASSUME Lab8Assumption ==
  /\ {"server", "-1"} \cap Sensors = {}
  /\ Measurements \in Nat \ {0} /\ MaxConn \in Nat

\* No row of the data is taken for one of the other lines of the log.
ASSUME Lab7Assumption ==
  /\ Rows \in Seq({Rows[i] : i \in DOMAIN Rows})
  /\ \A i \in DOMAIN Rows :
       Rows[i] \notin {"opened", "can't open", "created", "insertion failed", "closed", "exit"}

VARIABLES program,
          at, file, queue, flag, message, data, lines, kept, handed,
          peer, sent, backlog, side, list, fds, events, index, pc8, cur, taken,
          buffered, calm, part, whole,
          dbpc, table, unread, parent, child7, stream, fifo, log7,
          pc6, file6, dataMap, sensors, msg, map, recorded, dataFile, reading, given

Lab9 == INSTANCE Lab9
Lab8 == INSTANCE Lab8 WITH pc <- pc8
Lab7 == INSTANCE Lab7 WITH child <- child7, log <- log7
Lab6 == INSTANCE Lab6 WITH pc <- pc6, file <- file6

\* The files of lab 6 have their numbers in the columns they belong to.
ASSUME Lab6Assumption ==
  /\ Rooms \subseteq Nat /\ Ids \subseteq Nat /\ Values \subseteq Int
  /\ Maps \subseteq Seq(Rooms \cup Ids)
  /\ \A m \in Maps : \A i \in DOMAIN m : m[i] \in IF i % 2 = 1 THEN Rooms ELSE Ids
  /\ Length \in Nat \ {0} /\ MaxReadings \in Nat
  /\ MinTemp \in Int /\ MaxTemp \in Int
  /\ Lab6!FieldsInPlace

vars9 == <<at, file, queue, flag, message, data, lines, kept, handed>>
vars8 == <<peer, sent, backlog, side, list, fds, events, index, pc8, cur, taken,
           buffered, calm, part, whole>>
vars7 == <<dbpc, table, unread, parent, child7, stream, fifo, log7>>
vars6 == <<pc6, file6, dataMap, sensors, msg, map, recorded, dataFile, reading, given>>
labvars == <<program, vars9, vars8, vars7, vars6>>

LabsInit == /\ program \in {"lab 6", "lab 7", "lab 8", "lab 9"}
            /\ Lab9!Init /\ Lab8!InitServer /\ Lab7!Lab7Init /\ Lab6!Lab6Init
            /\ program # "lab 7" => table = Lab7!NoTable
            /\ program # "lab 6" => /\ file6 = <<>> /\ dataFile = <<>>
                                   /\ dataMap = [room |-> 1, id |-> 10]
                                   /\ reading = [id |-> 10, value |-> 0, ts |-> 1]

Runs9(A) == program = "lab 9" /\ A /\ UNCHANGED <<program, vars8, vars7, vars6>>
Runs8(A) == program = "lab 8" /\ A /\ UNCHANGED <<program, vars9, vars7, vars6>>
Runs7(A) == program = "lab 7" /\ A /\ UNCHANGED <<program, vars9, vars8, vars6>>
Runs6(A) == program = "lab 6" /\ A /\ UNCHANGED <<program, vars9, vars8, vars7>>

LabsNext == Runs9(Lab9!Next) \/ Runs8(Lab8!Lab8Next) \/ Runs7(Lab7!Lab7Next)
          \/ Runs6(Lab6!Lab6Next)

LabsSpec == /\ LabsInit /\ [][LabsNext]_labvars
            /\ WF_labvars(Runs9(Lab9!Main)) /\ WF_labvars(Runs9(Lab9!Writer))
            /\ \A r \in Readers : WF_labvars(Runs9(Lab9!Reader(r)))
            /\ WF_labvars(Runs8(Lab8!Lab8Step))
            /\ \A s \in Sensors : WF_labvars(Runs8(Lab8!GoesOn(s)))
            /\ WF_labvars(Runs7(Lab7!Parent)) /\ WF_labvars(Runs7(Lab7!Child))
-------------------------------------------------------------------------------
Lab9Files == Lab9!TypeOK /\ Lab9!NothingFreedUnread /\ Lab9!FilesFollow
Lab9Ends == program = "lab 9" => Lab9!Ends

Lab8Fds == Lab8!Lab8InStep /\ Lab8!WholeMeasurements
Lab8GoneRemoved == program = "lab 8" => Lab8!Lab8GoneRemoved

Lab7Log == /\ Lab7!Lab7TypeOK /\ Lab7!TableIsFile
           /\ Lab7!LogTellsTable /\ Lab7!ChildReadsAll
Lab7ChildEnds == Lab7!ChildFollows

Lab6Averages == /\ Lab6!Lab6TypeOK /\ Lab6!RoomsAscend
                /\ Lab6!LastCountedTwice /\ Lab6!ExitsOnUnknown
-------------------------------------------------------------------------------
MCReaders == {"r0", "r1"}
MCFile == <<"m1", "m2", "m3">>
MCSensors == {"s1", "s2", "s3"}
MCRows == <<"row1", "row2">>
MCMaps == {<<>>, <<1, 10>>, <<2, 10, 1, 11>>, <<1, 10, 2>>}
MCDataFiles == {<<>>, <<10, 40>>}
                 \cup {<<i, v, t>> : i \in {10, 12}, v \in {10, 40}, t \in {1, 2}}
                 \cup {<<i, v, 1, j, 40, 2>> : i, j \in {10, 11}, v \in {0, 40}}
                 \cup {<<10, 40, 1, 11>>, <<10, 40, 1, 11, 10>>}
MCRooms == {1, 2}
MCIds == {10, 11, 12}
MCValues == {0, 10, 40}
MCTimes == {1, 2}

\* As in MCConnMgr, and one node with short receives.
MCFirstFree(s) == peer[s] = "off"
MCScope == /\ calm
           /\ \A s \in Sensors \ {"s1"} : whole[s]
           /\ MCFirstFree("s1") => MCFirstFree("s2")
           /\ MCFirstFree("s2") => MCFirstFree("s3")
===============================================================================
