------------------------------- MODULE DataMgr --------------------------------
(***************************************************************************)
(* datamgr.c: the sensors read from the map file, and for each of them the *)
(* window of its last RUN_AVG_LENGTH temperatures, their average and the   *)
(* alarms.  One thread runs it; Gateway has its use of the buffer and of   *)
(* the mutex, Dplist the list.  An average is kept as the sum it is        *)
(* RUN_AVG_LENGTH times of, so no rounding is modelled.                    *)
(***************************************************************************)
EXTENDS Integers, SequencesExt

CONSTANTS Maps,         \* the map files: sequences of the numbers in them
          Rooms, Ids,   \* the numbers in either column of them
          Values,       \* temperatures
          Times,        \* timestamps
          Length,       \* RUN_AVG_LENGTH
          MinTemp, MaxTemp,
          MaxReadings,  \* bound on the readings of sensors in the map
          JUNK          \* what is in a variable that nobody has assigned

ASSUME DataMgrAssumption ==
  /\ Rooms \subseteq Nat /\ Ids \subseteq Nat /\ Values \subseteq Int
  /\ Maps \subseteq Seq(Rooms \cup Ids)
  /\ \A m \in Maps : \A i \in DOMAIN m : m[i] \in IF i % 2 = 1 THEN Rooms ELSE Ids
  /\ Length \in Nat \ {0} /\ MaxReadings \in Nat
  /\ MinTemp \in Int /\ MaxTemp \in Int

VARIABLES pc,           \* where the datamgr thread is
          file,         \* what is left to read of the map file
          dataMap,      \* the local data_map of init_list_from_map
          sensors,      \* datamgr_list
          msg,          \* the message that the last reading caused, or <<>>
          map, recorded \* history: the whole map file, and what was received

vars == <<pc, file, dataMap, sensors, msg, map, recorded>>

\* The fields of data_map are not initialised: its numbers can be any.
Init == /\ pc = "parse"
        /\ file \in Maps
        /\ dataMap \in [room : Rooms, id : Ids]
        /\ sensors = <<>>
        /\ msg = <<>>
        /\ map = file
        /\ recorded = [i \in Ids |-> <<>>]

-------------------------------------------------------------------------------
\* init_list_from_map.  One fscanf reads two numbers, or what is left of them; a
\* field that it does not reach keeps the value of the line before.
Scanned == [room |-> IF Len(file) > 0 THEN file[1] ELSE dataMap.room,
            id   |-> IF Len(file) > 1 THEN file[2] ELSE dataMap.id]

\* values is cleared, running_avg and ts are copied as they are.
NewSensor(line) == [room |-> line.room, id |-> line.id,
                    values |-> [k \in 1 .. Length |-> 0], avg |-> JUNK, ts |-> JUNK]

\* Fault: a room goes in front of the first one that is smaller.
InsertDescending(s, new) ==
  LET p == SelectInSeq(s, LAMBDA old : new.room >= old.room)
  IN InsertAt(s, IF p = 0 THEN Len(s) + 1 ELSE p, new)

\* dpl_insert_sorted by compare_Data, which compares the rooms.
InsertSorted(s, new) ==
  LET p == SelectInSeq(s, LAMBDA old : new.room <= old.room)
  IN InsertAt(s, IF p = 0 THEN Len(s) + 1 ELSE p, new)

\* feof holds once fscanf has run into the end, also behind the last line.
ParseLine == /\ pc = "parse"
             /\ dataMap' = Scanned
             /\ sensors' = InsertSorted(sensors, NewSensor(Scanned))
             /\ file' = SubSeq(file, 3, Len(file))
             /\ pc' = IF Len(file) <= 2 THEN "receive" ELSE "parse"
             /\ UNCHANGED <<msg, map, recorded>>

-------------------------------------------------------------------------------
\* get_data_from_list: the first sensor with that id, or 0.
Find(id) == SelectInSeq(sensors, LAMBDA s : s.id = id)

RoomId(id) == sensors[Find(id)].room
Avg(id) == sensors[Find(id)].avg
LastModified(id) == sensors[Find(id)].ts
TotalSensors == Len(sensors)

Readings == SumFunction([i \in Ids |-> Len(recorded[i])])
Total(s) == LET sum[k \in 0 .. Len(s)] == IF k = 0 THEN 0 ELSE sum[k - 1] + s[k]
            IN sum[Len(s)]

\* Fault: the shift overwrites the last place before it is moved.
ShiftLate(w, v) == SubSeq(w, 2, Length - 1) \o <<v, v>>

\* The loop of calc_running_avg over the window.
Shift(w, v) == Append(Tail(w), v)

\* Fault: alarms before the window is full.
AlarmEarly(s) == IF s.avg < Length * MinTemp THEN <<"cold", s.id>>
                 ELSE IF s.avg > Length * MaxTemp THEN <<"hot", s.id>>
                 ELSE <<>>

\* The timestamp and calc_running_avg.
Updated(s, v, ts) == [s EXCEPT !.ts = ts, !.values = Shift(@, v),
                               !.avg = Total(Shift(s.values, v))]

\* The oldest place of the window is 0 until RUN_AVG_LENGTH readings are in.
Alarm(s) == IF s.avg < Length * MinTemp /\ s.values[1] # 0 THEN <<"cold", s.id>>
            ELSE IF s.avg > Length * MaxTemp /\ s.values[1] # 0 THEN <<"hot", s.id>>
            ELSE <<>>

\* One turn of the loop with data: ts, window, average, and perhaps a message.
Receive(id, value, ts) ==
  /\ pc = "receive"
  /\ IF Find(id) = 0
     THEN /\ msg' = <<"invalid", id>>
          /\ UNCHANGED <<sensors, recorded>>
     ELSE LET s == Updated(sensors[Find(id)], value, ts)
          IN /\ Readings < MaxReadings
             /\ sensors' = [sensors EXCEPT ![Find(id)] = s]
             /\ msg' = Alarm(s)
             /\ recorded' = [recorded EXCEPT ![id] = Append(@, [value |-> value, ts |-> ts])]
  /\ UNCHANGED <<pc, file, dataMap, map>>

\* CONFIG_THREAD_TERMINATE ends the loop, and main.c calls datamgr_free.
Terminate == /\ pc = "receive"
             /\ pc' = "done"
             /\ msg' = <<>>
             /\ UNCHANGED <<file, dataMap, sensors, map, recorded>>

DatamgrFree == /\ pc = "done"
               /\ pc' = "freed"
               /\ sensors' = <<>>
               /\ UNCHANGED <<file, dataMap, msg, map, recorded>>

\* malloc fails in dplist.c or copy_Data: an assertion.
AssertFails == /\ pc = "parse"
               /\ pc' = "aborted"
               /\ UNCHANGED <<file, dataMap, sensors, msg, map, recorded>>

Finished == pc \in {"freed", "aborted"} /\ UNCHANGED vars

Next == \/ ParseLine
        \/ \E id \in Ids, v \in Values, t \in Times : Receive(id, v, t)
        \/ Terminate \/ DatamgrFree \/ AssertFails
        \/ Finished

Spec == Init /\ [][Next]_vars
-------------------------------------------------------------------------------
Sensor == [room : Rooms, id : Ids, values : Seq(Int), avg : Int \cup {JUNK},
           ts : Times \cup {JUNK}]

TypeOK == /\ pc \in {"parse", "receive", "done", "freed", "aborted"}
          /\ file \in Seq(Rooms \cup Ids)
          /\ dataMap \in [room : Rooms, id : Ids]
          /\ sensors \in Seq(Sensor)
          /\ \A i \in DOMAIN sensors : Len(sensors[i].values) = Length
          /\ msg \in {<<>>} \cup ({"invalid", "cold", "hot"} \X Ids)
          /\ recorded \in [Ids -> Seq([value : Values, ts : Times])]

\* Once the map is read, every line of it has its sensor, there are no others, and the
\* rooms are in ascending order.  The others are counted where a map is whole and has no
\* id twice.  For an id that is there twice, a last half line or an empty file
\* datamgr_get_total_sensors has more than the "unique sensor ID's" of datamgr.h:46, and
\* nothing is demanded of it.
Lines == {<<map[2 * k - 1], map[2 * k]>> : k \in 1 .. Len(map) \div 2}
NoIdTwice == /\ map # <<>> /\ Len(map) % 2 = 0
             /\ \A j, k \in 1 .. Len(map) \div 2 : map[2 * j] = map[2 * k] => j = k
MapLoaded ==
  /\ TypeOK
  /\ pc = "receive" =>
       /\ \A l \in Lines : \E i \in DOMAIN sensors : <<sensors[i].room, sensors[i].id>> = l
       /\ NoIdTwice => TotalSensors = Len(map) \div 2
       /\ \A i, j \in DOMAIN sensors : i < j => sensors[i].room <= sensors[j].room

\* The temperatures of a sensor that count: its last RUN_AVG_LENGTH readings, with
\* zeros in front while there are fewer.
Recent(h) == [k \in 1 .. Length |-> LET j == Len(h) - Length + k
                                    IN IF j < 1 THEN 0 ELSE h[j].value]

\* Sensor i is the one that the lookup finds, and readings of it are in.
Heard(i) == i = Find(sensors[i].id) /\ recorded[sensors[i].id] # <<>>

\* After any interleaving of readings of all sensors, each one that the lookup can
\* find has the window and the timestamp of its own readings, and from RUN_AVG_LENGTH of
\* them on their average; one behind another with the same id has got none of them.
\* Nothing is demanded of the average before: datamgr.h:32 says 0, and the code has the
\* sum of the readings over RUN_AVG_LENGTH, or what nobody assigned.
FollowsReadings ==
  pc \in {"receive", "done"} =>
    /\ \A id \in Ids : recorded[id] # <<>> =>
         /\ sensors[Find(id)].values = Recent(recorded[id])
         /\ LastModified(id) = Last(recorded[id]).ts
         /\ Len(recorded[id]) >= Length => Avg(id) = Total(Recent(recorded[id]))
    /\ \A i \in DOMAIN sensors : ~Heard(i) => sensors[i].values = Recent(<<>>)

\* A reading writes an alarm exactly when RUN_AVG_LENGTH readings of its sensor are
\* in, their average is out of range, and the oldest of them is not 0 degrees.
Full(h) == Len(h) >= Length /\ Recent(h)[1] # 0
Cold(h) == Full(h) /\ Total(Recent(h)) < Length * MinTemp
Hot(h) == Full(h) /\ Total(Recent(h)) > Length * MaxTemp
AlarmsExact ==
  [][\A id \in Ids : recorded'[id] # recorded[id] =>
       /\ msg' = <<"cold", id>> <=> Cold(recorded'[id])
       /\ msg' = <<"hot", id>> <=> Hot(recorded'[id]) /\ ~Cold(recorded'[id])]_vars
===============================================================================
