--------------------------------- MODULE Lab6 ---------------------------------
(***************************************************************************)
(* The data manager of lab_6, which reads the readings from a file instead *)
(* of a buffer.  The sensors, windows and alarms are those of DataMgr.     *)
(* The data file is the sequence of the fields in it, three for a reading; *)
(* it may end within one.  None of its three freads looks at its result.   *)
(***************************************************************************)
EXTENDS DataMgr

CONSTANT DataFiles      \* the sensor_data files

VARIABLES dataFile,     \* what is left to read of sensor_data
          reading,      \* read_id, read_value and read_time_stamp
          given         \* history: the whole file, and the variables before it

lab6vars == <<vars, dataFile, reading, given>>

\* What the fields of a data file are, wherever it is cut off.
FieldsInPlace == \A f \in DataFiles :
  /\ f \in Seq(Ids \cup Values \cup Times)
  /\ \A i \in DOMAIN f : f[i] \in IF i % 3 = 1 THEN Ids ELSE IF i % 3 = 2 THEN Values ELSE Times

\* The three variables of the loop are not initialised.
Lab6Init == /\ Init
            /\ dataFile \in DataFiles
            /\ reading \in [id : Ids, value : Values, ts : Times]
            /\ given = [file |-> dataFile, before |-> reading]

-------------------------------------------------------------------------------
\* The list functions that it calls (lab_6/lib/dplist.c); the first index is 1.
DplInsertAtIndex(s, x, i) == InsertAt(s, IF i > Len(s) THEN Len(s) + 1 ELSE i, x)

DplInsertSorted(s, x) ==
  LET i == SelectInSeq(s, LAMBDA old : x.room <= old.room)
  IN DplInsertAtIndex(s, x, IF i = 0 THEN Len(s) + 1 ELSE i)

\* get_data_from_list; 0 stands for its exit with "sensor_id is invalid".
GetDataFromList(id) == SelectInSeq(sensors, LAMBDA s : s.id = id)
Lab6Avg(id) == sensors[GetDataFromList(id)].avg
Lab6LastModified(id) == sensors[GetDataFromList(id)].ts

\* main without one of its files returns at once.
MissingFile == /\ pc = "parse" /\ file = map
               /\ pc' = "freed"
               /\ UNCHANGED <<file, dataMap, sensors, msg, map, recorded,
                              dataFile, reading, given>>

\* A turn of the first loop: fscanf, the cleared window, dpl_insert_sorted.
Lab6ParseLine == /\ pc = "parse"
                 /\ dataMap' = Scanned
                 /\ sensors' = DplInsertSorted(sensors, NewSensor(Scanned))
                 /\ file' = SubSeq(file, 3, Len(file))
                 /\ pc' = IF Len(file) <= 2 THEN "receive" ELSE "parse"
                 /\ UNCHANGED <<msg, map, recorded, dataFile, reading, given>>

\* Three freads; a field that is not there leaves its variable as it is.
ReadFields(f, old) == [id    |-> IF Len(f) > 0 THEN f[1] ELSE old.id,
                       value |-> IF Len(f) > 1 THEN f[2] ELSE old.value,
                       ts    |-> IF Len(f) > 2 THEN f[3] ELSE old.ts]

\* Fault: a turn that meets the end of the file counts nothing.
EndedLate(f) == Len(f) <= 3

\* feof holds only after a fread that ran into the end.
Ended(f) == Len(f) < 3

\* A turn of the second loop.  An unknown sensor ends the program: the branch that
\* would skip it is behind the exit of get_data_from_list.
Lab6Reading ==
  /\ pc = "receive"
  /\ LET new == ReadFields(dataFile, reading)
         i   == GetDataFromList(new.id)
     IN /\ reading' = new
        /\ IF i = 0
             THEN /\ pc' = "exited"
                  /\ UNCHANGED <<sensors, msg, recorded>>
             ELSE /\ sensors' = [sensors EXCEPT ![i] = Updated(@, new.value, new.ts)]
                  /\ msg' = Alarm(sensors'[i])
                  /\ recorded' = [recorded EXCEPT ![new.id] =
                                    Append(@, [value |-> new.value, ts |-> new.ts])]
                  /\ pc' = IF Ended(dataFile) THEN "done" ELSE "receive"
  /\ dataFile' = SubSeq(dataFile, 4, Len(dataFile))
  /\ UNCHANGED <<file, dataMap, map, given>>

\* dpl_free with the elements takes one node after the other off the head.
DplFree == sensors' = <<>>

\* datamgr_free of main
Lab6Free == /\ pc = "done"
            /\ pc' = "freed"
            /\ DplFree
            /\ UNCHANGED <<file, dataMap, msg, map, recorded, dataFile, reading, given>>

Lab6Finished == pc \in {"freed", "exited"} /\ UNCHANGED lab6vars

Lab6Next == MissingFile \/ Lab6ParseLine \/ Lab6Reading \/ Lab6Free \/ Lab6Finished

Lab6Spec == Lab6Init /\ [][Lab6Next]_lab6vars
-------------------------------------------------------------------------------
Lab6TypeOK == /\ pc \in {"parse", "receive", "done", "freed", "exited"}
              /\ sensors \in Seq(Sensor)
              /\ reading \in [id : Ids, value : Values, ts : Times]
              /\ dataFile \in Seq(Ids \cup Values \cup Times)

\* The readings that the data file amounts to: the whole ones in it, and one more
\* made of the rest of it and the fields of the last one, or of the variables that
\* nobody assigned.
Whole == [k \in 1 .. Len(given.file) \div 3 |-> SubSeq(given.file, 3 * k - 2, 3 * k)]
LastWhole == IF Whole = <<>> THEN given.before
             ELSE ReadFields(Last(Whole), given.before)
CutOff == SubSeq(given.file, 3 * Len(Whole) + 1, Len(given.file))
Counted == [k \in 1 .. Len(Whole) |-> ReadFields(Whole[k], given.before)]
             \o <<ReadFields(CutOff, LastWhole)>>
CountedFor(id) ==
  LET c[k \in 0 .. Len(Counted)] ==
        IF k = 0 THEN <<>>
        ELSE IF Counted[k].id = id
               THEN Append(c[k - 1], [value |-> Counted[k].value, ts |-> Counted[k].ts])
               ELSE c[k - 1]
  IN c[Len(Counted)]

\* lab_6/datamgr.c:53: when the loop has ended, the time of each sensor and, if the file
\* has RUN_AVG_LENGTH readings of it, its average are those of its readings, with the
\* last reading of the file counted twice, or mixed with what is cut off behind it.
\* Nothing is demanded of the average of fewer: lab_6/datamgr.h:52 says 0, and the code
\* has the sum of them over RUN_AVG_LENGTH.
ReadingsOf(id) == Cardinality({k \in DOMAIN Whole : Whole[k][1] = id})
LastCountedTwice ==
  pc = "done" =>
    \A id \in Ids : CountedFor(id) # <<>> =>
      /\ Lab6LastModified(id) = Last(CountedFor(id)).ts
      /\ ReadingsOf(id) >= Length => Lab6Avg(id) = Total(Recent(CountedFor(id)))

\* lab_6/datamgr.c:110: the program exits within the loop exactly when the file has
\* a sensor that is not in the map, and then none of the readings behind it counts.
ExitsOnUnknown ==
  /\ pc = "exited" => GetDataFromList(reading.id) = 0
  /\ pc = "done" => \A k \in DOMAIN Counted : GetDataFromList(Counted[k].id) # 0

\* The rooms of the list are in ascending order, whatever the order of the map.
RoomsAscend == \A i, j \in DOMAIN sensors : i < j => sensors[i].room <= sensors[j].room
===============================================================================
