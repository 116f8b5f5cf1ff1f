---------------------------- MODULE DataMgrProofs -----------------------------
(***************************************************************************)
(* Proofs about DataMgr for any map file, any temperatures, any length of  *)
(* the window and any number of readings.                                  *)
(*                                                                         *)
(* FollowsReadings needs three more facts to be inductive: the average of  *)
(* fewer readings is that of them and zeros; a sensor whose readings have  *)
(* not begun has a window of zeros, which is what Recent makes of no       *)
(* readings; and a sensor with readings is in the list.                    *)
(***************************************************************************)
EXTENDS Lab6, SequenceTheorems, WellFoundedInduction, TLAPS

Windows == {w \in Seq(Int) : Len(w) = Length}
Zeros == [k \in 1 .. Length |-> 0]
AnySensor == [room : Rooms, id : Ids, values : Windows,
              avg : {Total(w) : w \in Windows} \cup {JUNK}, ts : Times \cup {JUNK}]
Fresh == {s \in AnySensor : s.values = Zeros /\ s.avg = JUNK}
Record == [value : Values, ts : Times]

Parsing == /\ sensors \in Seq(Fresh)
           /\ recorded = [i \in Ids |-> <<>>]
Serving == /\ sensors \in Seq(AnySensor)
           /\ \A i \in DOMAIN sensors : ~Heard(i) => sensors[i] \in Fresh
           /\ \A id \in Ids : recorded[id] # <<>> => Find(id) # 0

\* The average follows the readings from the first one on.
Followed ==
  pc \in {"receive", "done"} =>
    /\ \A id \in Ids : recorded[id] # <<>> =>
         /\ sensors[Find(id)].values = Recent(recorded[id])
         /\ Avg(id) = Total(Recent(recorded[id]))
         /\ LastModified(id) = Last(recorded[id]).ts
    /\ \A i \in DOMAIN sensors : ~Heard(i) => sensors[i].avg = JUNK

MapLeft == /\ dataMap \in [room : Rooms, id : Ids]
           /\ file \in Seq(Rooms \cup Ids)
           /\ \A i \in 1 .. Len(file) : file[i] \in IF i % 2 = 1 THEN Rooms ELSE Ids

IInv == /\ MapLeft
        /\ recorded \in [Ids -> Seq(Record)]
        /\ pc \in {"parse", "receive", "done", "freed", "aborted"}
        /\ pc = "parse" => Parsing
        /\ pc \in {"receive", "done"} => Serving
        /\ Followed

-------------------------------------------------------------------------------
(* The lookup returns a sensor with the id it looks for, the first one, or *)
(* 0 when there is none.                                                   *)
LEMMA LeastIndex ==
  ASSUME NEW I, I \subseteq Nat, I # {}
  PROVE  Min(I) \in I /\ \A k \in I : Min(I) <= k
<1>1. IsWellFoundedOn({p \in Nat \X Nat : p[1] < p[2]}, Nat)
  BY NatLessThanWellFounded, Zenon DEF OpToRel
<1>2. PICK m \in I : \A k \in I : ~(<<k, m>> \in {p \in Nat \X Nat : p[1] < p[2]})
  BY <1>1, WFMin, Zenon
<1>3. ASSUME NEW k \in I PROVE m <= k
  <2>1. m \in Nat /\ k \in Nat
    OBVIOUS
  <2>2. ~(k < m)
    BY <1>2, <2>1
  <2> QED
    BY <2>1, <2>2
<1>4. Min(I) = CHOOSE x \in I : \A y \in I : x <= y
  BY DEF Min
<1> QED
  BY <1>3, <1>4

LEMMA FindFirst ==
  ASSUME sensors \in Seq(AnySensor), NEW id
  PROVE  /\ Find(id) \in 0 .. Len(sensors)
         /\ Find(id) # 0 => sensors[Find(id)].id = id
         /\ Find(id) = 0 <=> \A k \in 1 .. Len(sensors) : sensors[k].id # id
<1> DEFINE I == {i \in 1 .. Len(sensors) : sensors[i].id = id}
<1>1. Find(id) = IF I # {} THEN Min(I) ELSE 0
  BY DEF Find, SelectInSeq
<1>2. Len(sensors) \in Nat
  BY LenProperties
<1>3. I # {} => Min(I) \in I
  <2>1. I \subseteq Nat
    BY <1>2
  <2> HIDE DEF I
  <2> QED
    BY <2>1, LeastIndex
<1> QED
  BY <1>1, <1>2, <1>3

(* Shifting the window of some readings by one more makes the window of    *)
(* them all.                                                               *)
LEMMA RecentIsWindow ==
  ASSUME NEW h \in Seq(Record)
  PROVE  Recent(h) \in Windows
<1>1. Len(h) \in Nat /\ Length \in Nat /\ Values \subseteq Int
  BY LenProperties, DataMgrAssumption DEF DataMgrAssumption
<1>2. \A j \in 1 .. Len(h) : h[j].value \in Int
  <2>1. \A j \in 1 .. Len(h) : h[j] \in Record
    BY ElementOfSeq
  <2> QED
    BY <1>1, <2>1 DEF Record
<1>3. \A k \in 1 .. Length :
        (IF Len(h) - Length + k < 1 THEN 0 ELSE h[Len(h) - Length + k].value) \in Int
  BY <1>1, <1>2
<1>4. Recent(h) \in [1 .. Length -> Int]
  BY <1>3 DEF Recent
<1>5. Recent(h) \in Seq(Int) /\ Len(Recent(h)) = Length
  BY <1>1, <1>4
<1> QED
  BY <1>5 DEF Windows

LEMMA ShiftIsWindow ==
  ASSUME NEW w \in Windows, NEW v \in Int
  PROVE  /\ Shift(w, v) \in Windows
         /\ \A k \in 1 .. Length : Shift(w, v)[k] = IF k < Length THEN w[k + 1] ELSE v
<1>1. w \in Seq(Int) /\ Len(w) = Length /\ Length \in Nat \ {0}
  BY DataMgrAssumption DEF DataMgrAssumption, Windows
<1>2. /\ Tail(w) \in Seq(Int) /\ Len(Tail(w)) = Length - 1
      /\ \A k \in 1 .. Length - 1 : Tail(w)[k] = w[k + 1]
  BY <1>1, HeadTailProperties, EmptySeq
<1>3. /\ Append(Tail(w), v) \in Seq(Int) /\ Len(Append(Tail(w), v)) = Length
      /\ \A k \in 1 .. Length - 1 : Append(Tail(w), v)[k] = Tail(w)[k]
      /\ Append(Tail(w), v)[Length] = v
  BY <1>1, <1>2, AppendProperties
<1> QED
  BY <1>1, <1>2, <1>3 DEF Shift, Windows

LEMMA ShiftRecent ==
  ASSUME NEW h \in Seq(Record), NEW r \in Record
  PROVE  Shift(Recent(h), r.value) = Recent(Append(h, r))
<1>1. /\ Len(h) \in Nat /\ Length \in Nat \ {0} /\ r.value \in Int
      /\ Append(h, r) \in Seq(Record) /\ Len(Append(h, r)) = Len(h) + 1
      /\ \A k \in 1 .. Len(h) : Append(h, r)[k] = h[k]
      /\ Append(h, r)[Len(h) + 1] = r
  <2>1. Len(h) \in Nat /\ Length \in Nat \ {0} /\ r.value \in Int
    BY DataMgrAssumption, LenProperties DEF DataMgrAssumption, Record
  <2>2. /\ Append(h, r) \in Seq(Record) /\ Len(Append(h, r)) = Len(h) + 1
        /\ \A k \in 1 .. Len(h) : Append(h, r)[k] = h[k]
        /\ Append(h, r)[Len(h) + 1] = r
    BY AppendProperties
  <2> QED
    BY <2>1, <2>2
<1>2. Recent(h) \in Windows /\ Recent(Append(h, r)) \in Windows
  BY <1>1, RecentIsWindow
<1>3. Shift(Recent(h), r.value) \in Windows
  BY <1>1, <1>2, ShiftIsWindow
<1>4. ASSUME NEW k \in 1 .. Length
      PROVE  Shift(Recent(h), r.value)[k] = Recent(Append(h, r))[k]
  <2>1. CASE k = Length
    <3>1. \A j \in 1 .. Length : Shift(Recent(h), r.value)[j] =
                                 IF j < Length THEN Recent(h)[j + 1] ELSE r.value
      BY <1>1, <1>2, ShiftIsWindow
    <3>2. Length \in 1 .. Length /\ ~(Length < Length)
      BY <1>1
    <3>3. Shift(Recent(h), r.value)[Length] = r.value
      BY <3>1, <3>2
    <3>4. Recent(Append(h, r))[Length] = IF Len(h) + 1 < 1 THEN 0
                                         ELSE Append(h, r)[Len(h) + 1].value
      BY <1>1 DEF Recent
    <3> QED
      BY <1>1, <2>1, <3>3, <3>4
  <2>2. CASE k < Length
    <3>1. Shift(Recent(h), r.value)[k] = Recent(h)[k + 1]
      BY <1>1, <1>2, <2>2, ShiftIsWindow
    <3>2. Recent(h)[k + 1] = IF Len(h) - Length + (k + 1) < 1 THEN 0
                             ELSE h[Len(h) - Length + (k + 1)].value
      BY <1>1, <2>2 DEF Recent
    <3>3. Recent(Append(h, r))[k] = IF Len(h) + 1 - Length + k < 1 THEN 0
                                    ELSE Append(h, r)[Len(h) + 1 - Length + k].value
      BY <1>1 DEF Recent
    <3> QED
      BY <1>1, <2>2, <3>1, <3>2, <3>3
  <2> QED
    BY <1>1, <2>1, <2>2
<1> QED
  BY <1>2, <1>3, <1>4, SeqEqual DEF Windows
(* A window nobody has written to is that of no readings.                  *)
LEMMA RecentOfNone == Recent(<<>>) = Zeros
<1>1. Length \in Nat /\ Len(<<>>) = 0
  BY DataMgrAssumption, EmptySeq DEF DataMgrAssumption
<1>2. \A k \in 1 .. Length : Len(<<>>) - Length + k < 1
  BY <1>1
<1> QED
  BY <1>2 DEF Recent, Zeros

-------------------------------------------------------------------------------
(* The first state has an empty list.                                      *)
LEMMA InitHolds == Init => IInv
<1> SUFFICES ASSUME Init PROVE IInv
  OBVIOUS
<1>1. /\ file \in Seq(Rooms \cup Ids)
      /\ \A i \in DOMAIN file : file[i] \in IF i % 2 = 1 THEN Rooms ELSE Ids
  BY DataMgrAssumption DEF Init, DataMgrAssumption
<1>2. DOMAIN file = 1 .. Len(file)
  BY <1>1, LenProperties
<1>3. sensors \in Seq(Fresh) /\ <<>> \in Seq(Record)
  BY EmptySeq DEF Init
<1> QED
  BY <1>1, <1>2, <1>3 DEF Init, IInv, MapLeft, Parsing, Followed

(* Where dpl_insert_sorted puts a sensor: behind the ones with a smaller   *)
(* room, and in front of the first that is not.                            *)
Inserted(s, new, q, t) ==
  /\ t \in Seq(Fresh) /\ Len(t) = Len(s) + 1
  /\ \A i \in 1 .. Len(t) : t[i] = IF i < q THEN s[i] ELSE IF i = q THEN new ELSE s[i - 1]
  /\ \A i \in 1 .. q - 1 : ~(new.room <= s[i].room)
  /\ q <= Len(s) => new.room <= s[q].room

LEMMA InsertionPlace ==
  ASSUME NEW s \in Seq(Fresh), NEW new \in Fresh
  PROVE  \E q \in 1 .. Len(s) + 1 : Inserted(s, new, q, InsertSorted(s, new))
<1> DEFINE I == {i \in 1 .. Len(s) : new.room <= s[i].room}
           p == SelectInSeq(s, LAMBDA old : new.room <= old.room)
           q == IF p = 0 THEN Len(s) + 1 ELSE p
           a == SubSeq(s, 1, q - 1)
           b == SubSeq(s, q, Len(s))
<1>1. Len(s) \in Nat /\ \A i \in 1 .. Len(s) : s[i] \in Fresh
  BY LenProperties, ElementOfSeq
<1>2. p = IF I # {} THEN Min(I) ELSE 0
  BY DEF SelectInSeq
<1>3. I # {} => Min(I) \in I /\ \A k \in I : Min(I) <= k
  <2>1. I \subseteq Nat
    BY <1>1
  <2> HIDE DEF I
  <2> QED
    BY <2>1, LeastIndex
<1>4. /\ q \in 1 .. Len(s) + 1
      /\ \A i \in 1 .. q - 1 : ~(new.room <= s[i].room)
      /\ q <= Len(s) => new.room <= s[q].room
  <2>1. CASE I = {}
    <3>1. q = Len(s) + 1
      BY <1>2, <2>1
    <3> HIDE DEF q, p
    <3> QED
      BY <1>1, <2>1, <3>1
  <2>2. CASE I # {}
    <3>1. q \in I /\ \A k \in I : q <= k
      <4> HIDE DEF p
      <4>1. p \in I /\ \A k \in I : p <= k
        BY <1>2, <1>3, <2>2
      <4>2. p # 0
        BY <1>1, <4>1
      <4>3. q = p
        BY <4>2
      <4> HIDE DEF q, I
      <4> QED
        BY <4>1, <4>3
    <3> HIDE DEF q, p
    <3>2. q \in 1 .. Len(s) /\ new.room <= s[q].room
      BY <3>1
    <3>3. \A i \in 1 .. q - 1 : i \in 1 .. Len(s) /\ ~(q <= i)
      BY <1>1, <3>2
    <3> QED
      BY <1>1, <3>1, <3>2, <3>3
  <2> QED
    BY <2>1, <2>2
<1>5. InsertSorted(s, new) = a \o <<new>> \o b
  BY DEF InsertSorted, InsertAt
<1> HIDE DEF p, q, I
<1>6. /\ a \in Seq(Fresh) /\ Len(a) = q - 1 /\ \A i \in 1 .. q - 1 : a[i] = s[i]
      /\ b \in Seq(Fresh) /\ Len(b) = Len(s) - q + 1
      /\ \A i \in 1 .. Len(s) - q + 1 : b[i] = s[q + i - 1]
  BY <1>1, <1>4, SubSeqProperties
<1>7. <<new>> \in Seq(Fresh) /\ Len(<<new>>) = 1 /\ <<new>>[1] = new
  OBVIOUS
<1> HIDE DEF a, b
<1>8. /\ a \o <<new>> \in Seq(Fresh) /\ Len(a \o <<new>>) = q
      /\ \A i \in 1 .. q : (a \o <<new>>)[i] = IF i < q THEN s[i] ELSE new
  <2>1. /\ a \o <<new>> \in Seq(Fresh) /\ Len(a \o <<new>>) = Len(a) + 1
        /\ \A i \in 1 .. Len(a) + 1 :
             (a \o <<new>>)[i] = IF i <= Len(a) THEN a[i] ELSE <<new>>[i - Len(a)]
    BY <1>6, <1>7, ConcatProperties
  <2> QED
    BY <1>4, <1>6, <1>7, <2>1
<1> DEFINE c == a \o <<new>>
<1> HIDE DEF c
<1>9. /\ c \o b \in Seq(Fresh) /\ Len(c \o b) = Len(s) + 1
      /\ \A i \in 1 .. Len(s) + 1 :
           (c \o b)[i] = IF i < q THEN s[i] ELSE IF i = q THEN new ELSE s[i - 1]
  <2>1. /\ c \in Seq(Fresh) /\ Len(c) = q
        /\ \A i \in 1 .. q : c[i] = IF i < q THEN s[i] ELSE new
    BY <1>8 DEF c
  <2>2. /\ c \o b \in Seq(Fresh) /\ Len(c \o b) = Len(c) + Len(b)
        /\ \A i \in 1 .. Len(c) + Len(b) :
             (c \o b)[i] = IF i <= Len(c) THEN c[i] ELSE b[i - Len(c)]
    BY <1>6, <2>1, ConcatProperties
  <2> QED
    BY SMTT(30), <1>1, <1>4, <1>6, <2>1, <2>2
<1>10. InsertSorted(s, new) = c \o b
  BY <1>5 DEF c
<1> QED
  BY <1>4, <1>9, <1>10 DEF Inserted

(* A line makes one more sensor without readings, wherever it is inserted. *)
LEMMA InsertKeepsFresh ==
  ASSUME NEW s \in Seq(Fresh), NEW new \in Fresh
  PROVE  InsertSorted(s, new) \in Seq(Fresh)
BY InsertionPlace DEF Inserted

(* What a line of the map file makes a sensor of is of the types of the map*)
(* file, half a line and an empty file included.                           *)
LEMMA ScannedIsFresh ==
  ASSUME MapLeft
  PROVE  Scanned \in [room : Rooms, id : Ids] /\ NewSensor(Scanned) \in Fresh
<1>1. Len(file) \in Nat
  BY LenProperties DEF MapLeft
<1>2. Scanned \in [room : Rooms, id : Ids]
  <2>1. Len(file) > 0 => 1 \in 1 .. Len(file) /\ 1 % 2 = 1
    BY <1>1
  <2>2. Len(file) > 1 => 2 \in 1 .. Len(file) /\ 2 % 2 # 1
    BY <1>1
  <2>3. (Len(file) > 0 => file[1] \in Rooms) /\ (Len(file) > 1 => file[2] \in Ids)
    BY <2>1, <2>2 DEF MapLeft
  <2> QED
    BY <2>3 DEF Scanned, MapLeft
<1>3. NewSensor(Scanned) \in Fresh
  <2>1. Zeros \in Windows
    <3>1. Length \in Nat /\ Zeros \in [1 .. Length -> Int]
      BY DataMgrAssumption DEF DataMgrAssumption, Zeros
    <3> QED
      BY <3>1 DEF Windows
  <2> QED
    BY <1>2, <2>1 DEF NewSensor, Fresh, AnySensor, Zeros
<1> QED
  BY <1>2, <1>3

(* The rest of the file behind the two numbers that fscanf has read.       *)
LEMMA FileAdvances ==
  ASSUME MapLeft, dataMap' = Scanned, file' = SubSeq(file, 3, Len(file))
  PROVE  /\ MapLeft' /\ Len(file) \in Nat
         /\ Len(file') = IF 3 <= Len(file) THEN Len(file) - 2 ELSE 0
         /\ \A i \in 1 .. Len(file) - 2 : file'[i] = file[i + 2]
<1>1. Len(file) \in Nat /\ \A i \in 1 .. Len(file) : file[i] \in Rooms \cup Ids
  BY LenProperties, ElementOfSeq DEF MapLeft
<1>2. /\ file' \in Seq(Rooms \cup Ids)
      /\ Len(file') = IF 3 <= Len(file) THEN Len(file) - 2 ELSE 0
      /\ \A i \in 1 .. Len(file) - 2 : file'[i] = file[i + 2]
  <2>1. \A i \in 3 .. Len(file) : file[i] \in Rooms \cup Ids
    BY <1>1
  <2>2. /\ SubSeq(file, 3, Len(file)) \in Seq(Rooms \cup Ids)
        /\ Len(SubSeq(file, 3, Len(file))) = IF 3 <= Len(file) THEN Len(file) - 3 + 1 ELSE 0
        /\ \A i \in 1 .. Len(file) - 3 + 1 : SubSeq(file, 3, Len(file))[i] = file[3 + i - 1]
    BY <1>1, <2>1, SubSeqProperties
  <2> QED
    BY <1>1, <2>2
<1>3. \A i \in 1 .. Len(file') : file'[i] \in IF i % 2 = 1 THEN Rooms ELSE Ids
  <2> SUFFICES ASSUME NEW i \in 1 .. Len(file')
               PROVE  file'[i] \in IF i % 2 = 1 THEN Rooms ELSE Ids
    OBVIOUS
  <2>1. i + 2 \in 1 .. Len(file) /\ (i + 2) % 2 = i % 2 /\ file'[i] = file[i + 2]
    BY <1>1, <1>2
  <2> QED
    BY <2>1 DEF MapLeft
<1>4. dataMap' \in [room : Rooms, id : Ids]
  BY ScannedIsFresh
<1> QED
  BY <1>1, <1>2, <1>3, <1>4 DEF MapLeft

(* When a line has made a sensor, nothing is received yet, so the lookup   *)
(* of any reading would find a sensor without one.                         *)
LEMMA NewSensorServes ==
  ASSUME MapLeft, Parsing, sensors' = InsertSorted(sensors, NewSensor(Scanned)),
         recorded' = recorded
  PROVE  (/\ Parsing /\ Serving /\ Followed
          /\ recorded \in [Ids -> Seq(Record)])'
<1>1. NewSensor(Scanned) \in Fresh
  BY ScannedIsFresh
<1>2. sensors' \in Seq(Fresh) /\ recorded' = [i \in Ids |-> <<>>]
  BY <1>1, InsertKeepsFresh DEF Parsing
<1>3. sensors' \in Seq(AnySensor) /\ \A i \in DOMAIN sensors' : sensors'[i] \in Fresh
  BY <1>2, SeqMonotonic, LenProperties, ElementOfSeq DEF Fresh
<1>4. recorded' \in [Ids -> Seq(Record)]
  BY <1>2, EmptySeq
<1>5. Parsing' /\ Serving'
  BY <1>2, <1>3 DEF Parsing, Serving
<1>6. Followed'
  BY <1>2, <1>3 DEF Followed, Fresh, AnySensor
<1> QED
  BY <1>4, <1>5, <1>6

LEMMA ParseLineKeeps == IInv /\ ParseLine => IInv'
<1> SUFFICES ASSUME IInv, ParseLine PROVE IInv'
  OBVIOUS
<1>1. MapLeft'
  BY FileAdvances DEF IInv, ParseLine
<1>2. (/\ Parsing /\ Serving /\ Followed
       /\ recorded \in [Ids -> Seq(Record)])'
  BY NewSensorServes DEF IInv, ParseLine
<1>3. pc' \in {"parse", "receive"}
  BY DEF ParseLine
<1> QED
  BY <1>1, <1>2, <1>3 DEF IInv
-------------------------------------------------------------------------------
(* What a reading of a sensor in the list changes: that sensor, its window *)
(* by one place and its history by one reading, and nothing else.          *)
Serves == /\ Serving /\ Followed
          /\ recorded \in [Ids -> Seq(Record)]

Takes(id, value, ts) ==
  /\ pc = "receive" /\ Find(id) # 0
  /\ sensors' = [sensors EXCEPT ![Find(id)] = Updated(sensors[Find(id)], value, ts)]
  /\ recorded' = [recorded EXCEPT ![id] = Append(@, [value |-> value, ts |-> ts])]

LEMMA ReadingKnown ==
  ASSUME Serves, NEW id \in Ids, NEW value \in Values, NEW ts \in Times,
         Takes(id, value, ts)
  PROVE  /\ Find(id) \in 1 .. Len(sensors) /\ sensors[Find(id)].id = id
         /\ sensors' = [sensors EXCEPT ![Find(id)] = Updated(sensors[Find(id)], value, ts)]
         /\ recorded' = [recorded EXCEPT ![id] = Append(@, [value |-> value, ts |-> ts])]
         /\ sensors[Find(id)].values = Recent(recorded[id])
         /\ Shift(sensors[Find(id)].values, value) = Recent(recorded'[id])
         /\ Recent(recorded'[id]) \in Windows
         /\ recorded'[id] \in Seq(Record) /\ recorded'[id] # <<>>
         /\ Last(recorded'[id]).ts = ts
<1> DEFINE f == Find(id)
           r == [value |-> value, ts |-> ts]
<1>1. Serving /\ Followed /\ recorded \in [Ids -> Seq(Record)]
  BY DEF Serves
<1>2. Find(id) \in 1 .. Len(sensors) /\ sensors[Find(id)].id = id
  <2>1. Len(sensors) \in Nat
    BY <1>1, LenProperties DEF Serving
  <2> QED
    BY <1>1, <2>1, FindFirst DEF Serving, Takes
<1>3. /\ sensors' = [sensors EXCEPT ![Find(id)] = Updated(sensors[Find(id)], value, ts)]
      /\ recorded' = [recorded EXCEPT ![id] = Append(@, r)]
  BY DEF Takes
<1>4. r \in Record /\ r.value = value /\ r.ts = ts /\ recorded[id] \in Seq(Record)
  BY <1>1 DEF Record
<1>5. recorded'[id] = Append(recorded[id], r)
  BY <1>1, <1>3
<1>6. sensors[Find(id)].values = Recent(recorded[id])
  <2>1. CASE recorded[id] = <<>>
    <3>1. f \in DOMAIN sensors /\ ~Heard(f)
      BY <1>1, <1>2, <2>1, LenProperties DEF Heard, Serving
    <3>2. sensors[f].values = Zeros
      BY <1>1, <3>1 DEF Serving, Fresh
    <3> QED
      BY <2>1, <3>2, RecentOfNone
  <2>2. CASE recorded[id] # <<>>
    BY <1>1, <2>2 DEF Followed, Takes
  <2> QED
    BY <2>1, <2>2
<1>7. Shift(sensors[Find(id)].values, value) = Recent(recorded'[id])
  BY <1>4, <1>5, <1>6, ShiftRecent
<1>8. recorded'[id] \in Seq(Record) /\ recorded'[id] # <<>> /\ Last(recorded'[id]) = r
  <2>1. /\ Append(recorded[id], r) \in Seq(Record)
        /\ Len(Append(recorded[id], r)) = Len(recorded[id]) + 1
        /\ Append(recorded[id], r)[Len(recorded[id]) + 1] = r
    BY <1>4, AppendProperties
  <2>2. Len(recorded[id]) \in Nat /\ Len(<<>>) = 0
    BY <1>4, LenProperties
  <2> QED
    BY <1>5, <2>1, <2>2 DEF Last
<1>9. Recent(recorded'[id]) \in Windows
  BY <1>8, RecentIsWindow
<1> QED
  BY <1>2, <1>3, <1>4, <1>6, <1>7, <1>8, <1>9

(* A reading leaves the rooms and the ids as they are, and so what the     *)
(* lookup returns.                                                         *)
SameSensors ==
  /\ Len(sensors') = Len(sensors)
  /\ \A i \in 1 .. Len(sensors) : /\ sensors'[i].room = sensors[i].room
                                  /\ sensors'[i].id = sensors[i].id
  /\ \A x : Find(x)' = Find(x)

LEMMA ReadingKeeps ==
  ASSUME Serves, NEW id \in Ids, NEW value \in Values, NEW ts \in Times,
         Takes(id, value, ts)
  PROVE  Serves' /\ SameSensors
<1>0. PICK f \in 1 .. Len(sensors) : f = Find(id)
  BY ReadingKnown
<1> DEFINE new == Updated(sensors[f], value, ts)
<1>1. /\ f \in 1 .. Len(sensors) /\ sensors[f].id = id
      /\ sensors' = [sensors EXCEPT ![f] = new]
      /\ recorded' = [recorded EXCEPT ![id] = Append(@, [value |-> value, ts |-> ts])]
      /\ Shift(sensors[f].values, value) = Recent(recorded'[id])
      /\ Recent(recorded'[id]) \in Windows
      /\ recorded'[id] \in Seq(Record) /\ recorded'[id] # <<>>
      /\ Last(recorded'[id]).ts = ts
  BY <1>0, ReadingKnown
<1>2. /\ sensors \in Seq(AnySensor) /\ recorded \in [Ids -> Seq(Record)]
      /\ Serving /\ Followed
      /\ pc = "receive" /\ Find(id) # 0
  BY DEF Serves, Takes, Serving
<1>3. sensors[f] \in AnySensor
  BY <1>1, <1>2, ElementOfSeq
<1>4. /\ new.id = id /\ new.values = Recent(recorded'[id])
      /\ new.avg = Total(Recent(recorded'[id])) /\ new.ts = ts
      /\ new \in AnySensor
  BY <1>1, <1>3 DEF Updated, AnySensor
<1> HIDE DEF new
<1>5. /\ sensors' \in Seq(AnySensor) /\ Len(sensors') = Len(sensors)
      /\ \A i \in 1 .. Len(sensors) : sensors'[i] = IF i = f THEN new ELSE sensors[i]
  BY <1>1, <1>2, <1>4, ExceptSeq
<1>6. DOMAIN sensors = 1 .. Len(sensors) /\ DOMAIN sensors' = 1 .. Len(sensors)
  BY <1>2, <1>5, LenProperties
<1>7. \A i \in 1 .. Len(sensors) : sensors'[i].id = sensors[i].id
  BY <1>1, <1>4, <1>5
<1>8. \A x : Find(x)' = Find(x)
  <2> SUFFICES ASSUME NEW x PROVE Find(x)' = Find(x)
    OBVIOUS
  <2>1. {i \in 1 .. Len(sensors') : sensors'[i].id = x} = {i \in 1 .. Len(sensors) : sensors[i].id = x}
    BY <1>5, <1>7
  <2> QED
    BY <2>1 DEF Find, SelectInSeq
<1>9. /\ recorded' \in [Ids -> Seq(Record)]
      /\ \A y \in Ids : y # id => recorded'[y] = recorded[y]
  BY <1>1, <1>2
<1>10. \A i \in 1 .. Len(sensors) : i # f /\ ~Heard(i)' => sensors'[i] = sensors[i] /\ sensors[i] \in Fresh
  <2> SUFFICES ASSUME NEW i \in 1 .. Len(sensors), i # f, ~Heard(i)'
               PROVE  sensors'[i] = sensors[i] /\ sensors[i] \in Fresh
    OBVIOUS
  <2>1. sensors[i].id \in Ids
    <3>1. sensors[i] \in AnySensor
      BY <1>2, ElementOfSeq
    <3> QED
      BY <3>1 DEF AnySensor
  <2>2. ~Heard(i)
    <3>1. CASE sensors[i].id = id
      BY <1>0, <3>1 DEF Heard
    <3>2. CASE sensors[i].id # id
      BY <1>7, <1>8, <1>9, <2>1, <3>2 DEF Heard
    <3> QED
      BY <3>1, <3>2
  <2> QED
    BY <1>2, <1>5, <1>6, <2>2 DEF Serving
<1>11. Heard(f)'
  BY <1>0, <1>1, <1>7, <1>8 DEF Heard
<1>12. Serving'
  <2>1. \A i \in DOMAIN sensors' : ~Heard(i)' => sensors'[i] \in Fresh
    BY <1>6, <1>10, <1>11
  <2>2. \A y \in Ids : recorded'[y] # <<>> => Find(y)' # 0
    BY <1>2, <1>8, <1>9 DEF Serving
  <2> QED
    BY <1>5, <2>1, <2>2 DEF Serving
<1>13. ASSUME NEW y \in Ids, recorded'[y] # <<>>
       PROVE  /\ sensors'[Find(y)'].values = Recent(recorded'[y])
              /\ sensors'[Find(y)'].avg = Total(Recent(recorded'[y]))
              /\ sensors'[Find(y)'].ts = Last(recorded'[y]).ts
  <2>1. CASE y = id
    BY <1>0, <1>1, <1>4, <1>5, <1>8, <2>1
  <2>2. CASE y # id
    <3>1. recorded'[y] = recorded[y] /\ Find(y) # 0
      BY <1>2, <1>9, <1>13, <2>2 DEF Serving
    <3>2. Find(y) \in 1 .. Len(sensors) /\ sensors[Find(y)].id = y
      BY <1>2, <3>1, FindFirst, LenProperties
    <3>3. sensors'[Find(y)'] = sensors[Find(y)]
      BY <1>0, <1>1, <1>5, <1>8, <2>2, <3>2
    <3> QED
      BY <1>2, <1>13, <3>1, <3>3 DEF Followed, Avg, LastModified
  <2> QED
    BY <2>1, <2>2
<1>14. ASSUME NEW i \in DOMAIN sensors', ~Heard(i)'
       PROVE  sensors'[i].avg = JUNK
  BY <1>12, <1>14 DEF Serving, Fresh
<1>15. Followed'
  <2>1. \A y \in Ids : recorded'[y] # <<>> =>
           /\ sensors'[Find(y)'].values = Recent(recorded'[y])
           /\ Avg(y)' = Total(Recent(recorded'[y]))
           /\ LastModified(y)' = Last(recorded'[y]).ts
    BY <1>13 DEF Avg, LastModified
  <2> QED
    BY <1>14, <2>1 DEF Followed
<1>16. \A i \in 1 .. Len(sensors) : sensors'[i].room = sensors[i].room
  <2>1. new.room = sensors[f].room
    BY <1>3 DEF new, Updated, AnySensor
  <2> QED
    BY <1>5, <2>1
<1> QED
  BY <1>5, <1>7, <1>8, <1>9, <1>12, <1>15, <1>16 DEF Serves, SameSensors

LEMMA ReceiveKnown ==
  ASSUME IInv, NEW id \in Ids, NEW value \in Values, NEW ts \in Times,
         Receive(id, value, ts), Find(id) # 0
  PROVE  Serves /\ Takes(id, value, ts)
BY DEF Receive, IInv, Serves, Takes

LEMMA ReceiveKeeps ==
  ASSUME IInv, NEW id \in Ids, NEW value \in Values, NEW ts \in Times,
         Receive(id, value, ts)
  PROVE  IInv'
<1>1. CASE Find(id) = 0
  <2>1. UNCHANGED <<pc, file, dataMap, sensors, recorded>>
    BY <1>1 DEF Receive
  <2>2. \A x : Find(x)' = Find(x)
    <3> SUFFICES ASSUME NEW x PROVE Find(x)' = Find(x)
      OBVIOUS
    <3>1. {i \in 1 .. Len(sensors') : sensors'[i].id = x} = {i \in 1 .. Len(sensors) : sensors[i].id = x}
      BY <2>1
    <3> QED
      BY <3>1 DEF Find, SelectInSeq
  <2>3. /\ \A i : Heard(i)' <=> Heard(i)
        /\ \A x : Avg(x)' = Avg(x) /\ LastModified(x)' = LastModified(x)
    BY <2>1, <2>2 DEF Heard, Avg, LastModified
  <2>4. pc = "receive" /\ Serving /\ Followed
    BY DEF Receive, IInv
  <2>5. Serving'
    BY <2>1, <2>2, <2>3, <2>4 DEF Serving
  <2>6. Followed'
    BY <2>1, <2>2, <2>3, <2>4 DEF Followed
  <2> QED
    BY <2>1, <2>4, <2>5, <2>6 DEF IInv, MapLeft
<1>2. CASE Find(id) # 0
  <2>1. Serves' /\ MapLeft' /\ pc' = "receive"
    <3>1. Serves /\ Takes(id, value, ts) /\ UNCHANGED <<pc, file, dataMap>>
      BY <1>2, ReceiveKnown DEF Receive
    <3> QED
      BY <3>1, ReadingKeeps DEF IInv, MapLeft, Receive
  <2> QED
    BY <2>1 DEF IInv, Serves
<1> QED
  BY <1>1, <1>2
LEMMA NextKeeps == IInv /\ [Next]_vars => IInv'
<1> SUFFICES ASSUME IInv, [Next]_vars PROVE IInv'
  OBVIOUS
<1>1. CASE ParseLine
  BY <1>1, ParseLineKeeps
<1>2. ASSUME NEW id \in Ids, NEW v \in Values, NEW t \in Times, Receive(id, v, t)
      PROVE  IInv'
  BY <1>2, ReceiveKeeps
<1>3. CASE Terminate \/ UNCHANGED vars
  <2>1. /\ UNCHANGED <<file, dataMap, sensors, recorded>>
        /\ pc' = pc \/ (pc = "receive" /\ pc' = "done")
    BY <1>3 DEF Terminate, vars
  <2>2. \A x : Find(x)' = Find(x)
    <3> SUFFICES ASSUME NEW x PROVE Find(x)' = Find(x)
      OBVIOUS
    <3>1. {i \in 1 .. Len(sensors') : sensors'[i].id = x} = {i \in 1 .. Len(sensors) : sensors[i].id = x}
      BY <2>1
    <3> QED
      BY <3>1 DEF Find, SelectInSeq
  <2>3. /\ \A i : Heard(i)' <=> Heard(i)
        /\ \A x : Avg(x)' = Avg(x) /\ LastModified(x)' = LastModified(x)
    BY <2>1, <2>2 DEF Heard, Avg, LastModified
  <2>4. pc' = "parse" => Parsing'
    BY <2>1 DEF IInv, Parsing
  <2>5. pc' \in {"receive", "done"} => Serving'
    BY <2>1, <2>2, <2>3 DEF IInv, Serving
  <2>6. Followed'
    BY <2>1, <2>2, <2>3 DEF IInv, Followed
  <2> QED
    BY <2>1, <2>4, <2>5, <2>6 DEF IInv, MapLeft
<1>4. CASE DatamgrFree \/ AssertFails
  BY <1>4 DEF DatamgrFree, AssertFails, IInv, MapLeft, Followed
<1> QED
  BY <1>1, <1>2, <1>3, <1>4 DEF Next, Finished

LEMMA Invariant == Spec => []IInv
BY InitHolds, NextKeeps, PTL DEF Spec

-------------------------------------------------------------------------------
(* However the readings of all the sensors are interleaved, each sensor    *)
(* that the lookup of datamgr.c finds has the window and the timestamp of  *)
(* its own readings, and from RUN_AVG_LENGTH of them on their average; the *)
(* others have got none.                                                   *)
THEOREM SensorsFollowReadings == Spec => []FollowsReadings
<1>1. IInv => FollowsReadings
  <2> SUFFICES ASSUME IInv, pc \in {"receive", "done"}
               PROVE  /\ \A id \in Ids : recorded[id] # <<>> =>
                           /\ sensors[Find(id)].values = Recent(recorded[id])
                           /\ LastModified(id) = Last(recorded[id]).ts
                           /\ Avg(id) = Total(Recent(recorded[id]))
                      /\ \A i \in DOMAIN sensors : ~Heard(i) => sensors[i].values = Recent(<<>>)
    BY DEF FollowsReadings
  <2>1. \A i \in DOMAIN sensors : ~Heard(i) => sensors[i].values = Zeros
    BY DEF IInv, Serving, Fresh
  <2> QED
    BY <2>1, RecentOfNone DEF IInv, Followed
<1> QED
  BY <1>1, Invariant, PTL

(* The oldest place of the window is not 0 only if the window is full.     *)
LEMMA NonzeroIsFull ==
  ASSUME NEW h \in Seq(Record)
  PROVE  Full(h) <=> Recent(h)[1] # 0
<1>1. Len(h) \in Nat /\ Length \in Nat \ {0} /\ 1 \in 1 .. Length
  BY LenProperties, DataMgrAssumption DEF DataMgrAssumption
<1>2. Recent(h)[1] = IF Len(h) - Length + 1 < 1 THEN 0 ELSE h[Len(h) - Length + 1].value
  BY <1>1 DEF Recent
<1> QED
  BY <1>1, <1>2 DEF Full

LEMMA AlarmStep ==
  ASSUME IInv, Next, NEW id \in Ids, recorded'[id] # recorded[id]
  PROVE  /\ msg' = <<"cold", id>> <=> Cold(recorded'[id])
         /\ msg' = <<"hot", id>> <=> Hot(recorded'[id]) /\ ~Cold(recorded'[id])
<1>1. PICK i \in Ids, v \in Values, t \in Times : Receive(i, v, t)
  BY DEF Next, ParseLine, Terminate, DatamgrFree, AssertFails, Finished, vars
<1>2. Find(i) # 0
  BY <1>1 DEF Receive
<1>3. i = id
  <2>1. recorded' = [recorded EXCEPT ![i] = Append(@, [value |-> v, ts |-> t])]
    BY <1>1, <1>2, ReceiveKnown DEF Takes
  <2> QED
    BY <2>1 DEF IInv
<1> DEFINE h == recorded'[id]
           s == Updated(sensors[Find(id)], v, t)
<1>4. /\ s.avg = Total(Recent(h)) /\ s.values = Recent(h) /\ s.id = id
      /\ h \in Seq(Record)
  <2>1. /\ Find(id) \in 1 .. Len(sensors) /\ sensors[Find(id)].id = id
        /\ Shift(sensors[Find(id)].values, v) = Recent(h) /\ h \in Seq(Record)
    <3>1. Serves /\ Takes(id, v, t)
      BY <1>1, <1>2, <1>3, ReceiveKnown
    <3> HIDE DEF h, s
    <3>2. /\ Find(id) \in 1 .. Len(sensors) /\ sensors[Find(id)].id = id
          /\ Shift(sensors[Find(id)].values, v) = Recent(recorded'[id])
          /\ recorded'[id] \in Seq(Record)
      BY <3>1, ReadingKnown
    <3> QED
      BY ONLY <3>2 DEF h
  <2>2. sensors \in Seq(AnySensor)
    BY <1>1 DEF Receive, IInv, Serving
  <2>3. sensors[Find(id)] \in AnySensor
    BY <2>1, <2>2, ElementOfSeq
  <2> QED
    BY <2>1, <2>3 DEF Updated, AnySensor
<1>5. msg' = Alarm(s)
  BY <1>1, <1>2, <1>3 DEF Receive
<1> HIDE DEF h, s
<1>6. Full(h) <=> s.values[1] # 0
  BY <1>4, NonzeroIsFull
<1>7. msg' = IF Cold(h) THEN <<"cold", id>> ELSE IF Hot(h) THEN <<"hot", id>> ELSE <<>>
  BY <1>4, <1>5, <1>6 DEF Alarm, Cold, Hot
<1>8. /\ <<"cold", id>> # <<"hot", id>>
      /\ <<>> # <<"cold", id>> /\ <<>> # <<"hot", id>>
  OBVIOUS
<1>9. msg' = <<"cold", id>> <=> Cold(h)
  BY <1>7, <1>8
<1>10. msg' = <<"hot", id>> <=> Hot(h) /\ ~Cold(h)
  BY <1>7, <1>8
<1> QED
  BY <1>9, <1>10 DEF h

(* A reading causes the message that calc_running_avg writes exactly when  *)
(* the average of a full window is out of range and the oldest temperature *)
(* in it is not 0; "too cold" goes before "too hot".                       *)
THEOREM AlarmsAreExact == Spec => AlarmsExact
<1>1. IInv /\ [Next]_vars =>
        [\A id \in Ids : recorded'[id] # recorded[id] =>
           /\ msg' = <<"cold", id>> <=> Cold(recorded'[id])
           /\ msg' = <<"hot", id>> <=> Hot(recorded'[id]) /\ ~Cold(recorded'[id])]_vars
  BY AlarmStep
<1> QED
  BY <1>1, Invariant, PTL DEF Spec, AlarmsExact
-------------------------------------------------------------------------------
(* The sums of a window are integers.  The sum is a function defined by    *)
(* recursion: that there is one is shown from the least place at which     *)
(* there would be none, and that its values are integers from the least    *)
(* place at which one would not be.                                        *)
SumStep(s, f, n) == [k \in 0 .. n |-> IF k = 0 THEN 0 ELSE f[k - 1] + s[k]]

LEMMA SumExists ==
  ASSUME NEW s \in Seq(Int)
  PROVE  \E f : f = SumStep(s, f, Len(s))
<1> DEFINE Summed(n) == \E f \in [0 .. n -> Int] : f = SumStep(s, f, n)
           Bad == {n \in 0 .. Len(s) : ~Summed(n)}
<1>1. Len(s) \in Nat /\ \A k \in 1 .. Len(s) : s[k] \in Int
  BY LenProperties, ElementOfSeq
<1>2. Summed(0)
  <2> DEFINE f == [k \in 0 .. 0 |-> 0]
  <2>1. f \in [0 .. 0 -> Int] /\ f = SumStep(s, f, 0)
    BY DEF SumStep
  <2> QED
    BY <2>1
<1>3. ASSUME NEW n \in 1 .. Len(s), Summed(n - 1) PROVE Summed(n)
  <2>1. PICK f \in [0 .. n - 1 -> Int] : f = SumStep(s, f, n - 1)
    BY <1>3
  <2> DEFINE g == [k \in 0 .. n |-> IF k < n THEN f[k] ELSE f[n - 1] + s[n]]
  <2>2. g \in [0 .. n -> Int]
    BY <1>1, <2>1
  <2>3. ASSUME NEW k \in 0 .. n
        PROVE  g[k] = IF k = 0 THEN 0 ELSE g[k - 1] + s[k]
    <3>1. CASE k < n
      <4>1. k \in 0 .. n - 1 /\ (k # 0 => k - 1 \in 0 .. n - 1)
        BY <1>1, <3>1
      <4>2. f[k] = IF k = 0 THEN 0 ELSE f[k - 1] + s[k]
        BY <2>1, <4>1 DEF SumStep
      <4>3. g[k] = f[k] /\ (k # 0 => g[k - 1] = f[k - 1])
        BY <1>1, <3>1, <4>1
      <4> QED
        BY <4>2, <4>3
    <3>2. CASE k = n
      <4>1. n - 1 \in 0 .. n /\ n - 1 < n /\ n # 0 /\ ~(n < n)
        BY <1>1
      <4> QED
        BY <3>2, <4>1
    <3> QED
      BY <1>1, <3>1, <3>2
  <2>4. g = SumStep(s, g, n)
    BY <2>3 DEF SumStep
  <2> HIDE DEF g
  <2> QED
    BY <2>2, <2>4
<1> HIDE DEF Summed
<1>4. Bad = {}
  <2> SUFFICES ASSUME Bad # {} PROVE FALSE
    OBVIOUS
  <2>1. Bad \subseteq Nat
    BY <1>1
  <2> DEFINE n == Min(Bad)
  <2>2. n \in Bad /\ \A k \in Bad : n <= k
    <3> HIDE DEF Bad
    <3> QED
      BY <2>1, LeastIndex
  <2> HIDE DEF n
  <2>3. n \in 1 .. Len(s) /\ n - 1 \in 0 .. Len(s) /\ ~(n <= n - 1)
    BY <1>1, <1>2, <2>2
  <2>4. Summed(n - 1)
    BY <2>2, <2>3
  <2> QED
    BY <1>3, <2>2, <2>3, <2>4
<1>5. Summed(Len(s))
  BY <1>1, <1>4
<1> QED
  BY <1>5 DEF Summed

LEMMA TotalIsInt ==
  ASSUME NEW s \in Seq(Int)
  PROVE  Total(s) \in Int
<1> DEFINE f == CHOOSE f : f = SumStep(s, f, Len(s))
           Bad == {k \in 0 .. Len(s) : f[k] \notin Int}
<1>1. Len(s) \in Nat /\ \A k \in 1 .. Len(s) : s[k] \in Int
  BY LenProperties, ElementOfSeq
<1>2. f = SumStep(s, f, Len(s))
  BY SumExists
<1>3. Total(s) = f[Len(s)]
  BY DEF Total, SumStep
<1> HIDE DEF f
<1>4. \A k \in 0 .. Len(s) : f[k] = IF k = 0 THEN 0 ELSE f[k - 1] + s[k]
  BY <1>2 DEF SumStep
<1>5. Bad = {}
  <2> SUFFICES ASSUME Bad # {} PROVE FALSE
    OBVIOUS
  <2>1. Bad \subseteq Nat
    BY <1>1
  <2> DEFINE n == Min(Bad)
  <2>2. n \in Bad /\ \A k \in Bad : n <= k
    <3> HIDE DEF Bad
    <3> QED
      BY <2>1, LeastIndex
  <2> HIDE DEF n
  <2>3. n # 0
    BY <1>1, <1>4, <2>2
  <2>4. n - 1 \in 0 .. Len(s) /\ ~(n <= n - 1) /\ n \in 1 .. Len(s)
    BY <1>1, <2>2, <2>3
  <2>5. f[n - 1] \in Int /\ f[n] = f[n - 1] + s[n]
    BY <1>4, <2>2, <2>3, <2>4
  <2> QED
    BY <1>1, <2>2, <2>4, <2>5
<1> QED
  BY <1>1, <1>3, <1>5
-------------------------------------------------------------------------------
(* MapLoaded.  While the map is read, the sensors are as many as the lines *)
(* read so far, and what is left of the file begins behind them; there is  *)
(* a next turn only if something is left, so an empty file makes one       *)
(* sensor of what is in data_map and any other file one for each line.     *)
HasSensor(s, room, id) == \E i \in 1 .. Len(s) : s[i].room = room /\ s[i].id = id
Ascending(s) == \A i, j \in 1 .. Len(s) : i < j => s[i].room <= s[j].room
HasLines(s, n) == \A k \in 1 .. n : HasSensor(s, map[2 * k - 1], map[2 * k])

Loading == /\ Len(map) = 2 * Len(sensors) + Len(file)
           /\ \A i \in 1 .. Len(file) : file[i] = map[2 * Len(sensors) + i]
           /\ Len(sensors) > 0 => Len(file) > 0
           /\ HasLines(sensors, Len(sensors))
Loaded == /\ HasLines(sensors, Len(map) \div 2)
          /\ Len(sensors) = IF Len(map) = 0 THEN 1 ELSE (Len(map) + 1) \div 2

LInv == /\ map \in Seq(Rooms \cup Ids)
        /\ sensors \in Seq(AnySensor)
        /\ msg \in {<<>>} \cup ({"invalid", "cold", "hot"} \X Ids)
        /\ Ascending(sensors)
        /\ pc = "parse" => Loading
        /\ pc = "receive" => Loaded

LEMMA InitLInv == Init => LInv
<1> SUFFICES ASSUME Init PROVE LInv
  OBVIOUS
<1>1. map \in Seq(Rooms \cup Ids) /\ file = map /\ sensors = <<>> /\ Len(sensors) = 0
  BY DataMgrAssumption DEF Init
<1>2. Len(map) \in Nat
  BY <1>1, LenProperties
<1>3. sensors \in Seq(AnySensor)
  BY <1>1, EmptySeq
<1> QED
  BY <1>1, <1>2, <1>3 DEF Init, LInv, Loading, Ascending, HasLines

(* What was in the list is still in it, the new sensor is, too, and the    *)
(* rooms stay in ascending order.                                          *)
LEMMA InsertedSensor ==
  ASSUME NEW s \in Seq(Fresh), NEW new \in Fresh, NEW q \in 1 .. Len(s) + 1, NEW t,
         Inserted(s, new, q, t), Ascending(s)
  PROVE  /\ Ascending(t) /\ Len(t) = Len(s) + 1
         /\ HasSensor(t, new.room, new.id)
         /\ \A room, id : HasSensor(s, room, id) => HasSensor(t, room, id)
<1>1. /\ Len(s) \in Nat /\ new.room \in Nat
      /\ \A i \in 1 .. Len(s) : s[i].room \in Nat
  <2>1. Len(s) \in Nat /\ \A i \in 1 .. Len(s) : s[i] \in Fresh
    BY LenProperties, ElementOfSeq
  <2> QED
    BY <2>1, DataMgrAssumption DEF Fresh, AnySensor
<1>2. /\ Len(t) = Len(s) + 1
      /\ \A i \in 1 .. Len(s) + 1 : t[i] = IF i < q THEN s[i] ELSE IF i = q THEN new ELSE s[i - 1]
  BY DEF Inserted
<1>3. HasSensor(t, new.room, new.id)
  <2>1. q \in 1 .. Len(t) /\ t[q] = new
    BY <1>1, <1>2
  <2> QED
    BY <2>1 DEF HasSensor
<1>4. ASSUME NEW room, NEW id, HasSensor(s, room, id) PROVE HasSensor(t, room, id)
  <2>1. PICK i \in 1 .. Len(s) : s[i].room = room /\ s[i].id = id
    BY <1>4 DEF HasSensor
  <2>2. CASE i < q
    <3>1. i \in 1 .. Len(t) /\ t[i] = s[i]
      BY <1>1, <1>2, <2>2
    <3> QED
      BY <2>1, <3>1 DEF HasSensor
  <2>3. CASE ~(i < q)
    <3>1. i + 1 \in 1 .. Len(t) /\ t[i + 1] = s[i]
      BY <1>1, <1>2, <2>3
    <3> QED
      BY <2>1, <3>1 DEF HasSensor
  <2> QED
    BY <2>2, <2>3
<1>5. ASSUME NEW i \in 1 .. q - 1 PROVE i \in 1 .. Len(s) /\ s[i].room <= new.room
  <2>1. i \in 1 .. Len(s) /\ ~(new.room <= s[i].room)
    BY <1>1 DEF Inserted
  <2> QED
    BY <1>1, <2>1
<1>6. ASSUME NEW i \in q .. Len(s) PROVE i \in 1 .. Len(s) /\ new.room <= s[i].room
  <2>1. q \in 1 .. Len(s) /\ i \in 1 .. Len(s) /\ new.room <= s[q].room
    BY <1>1 DEF Inserted
  <2>2. q = i \/ s[q].room <= s[i].room
    BY <2>1 DEF Ascending
  <2> QED
    BY <1>1, <2>1, <2>2
<1>7. ASSUME NEW i \in 1 .. Len(t), NEW j \in 1 .. Len(t), i < j
      PROVE  t[i].room <= t[j].room
  <2>1. CASE j < q
    <3>1. i \in 1 .. Len(s) /\ j \in 1 .. Len(s) /\ t[i] = s[i] /\ t[j] = s[j]
      BY <1>1, <1>2, <1>7, <2>1
    <3> QED
      BY <1>7, <3>1 DEF Ascending
  <2>2. CASE j = q
    <3>1. i \in 1 .. q - 1 /\ t[i] = s[i] /\ t[j] = new
      BY <1>1, <1>2, <1>7, <2>2
    <3> QED
      BY <1>5, <3>1
  <2>3. CASE j > q /\ i = q
    <3>1. j - 1 \in q .. Len(s) /\ t[i] = new /\ t[j] = s[j - 1]
      BY <1>1, <1>2, <1>7, <2>3
    <3> QED
      BY <1>6, <3>1
  <2>4. CASE j > q /\ i > q
    <3>1. /\ i - 1 \in 1 .. Len(s) /\ j - 1 \in 1 .. Len(s) /\ i - 1 < j - 1
          /\ t[i] = s[i - 1] /\ t[j] = s[j - 1]
      BY <1>1, <1>2, <1>7, <2>4
    <3> QED
      BY <3>1 DEF Ascending
  <2>5. CASE j > q /\ i < q
    <3>1. /\ i \in 1 .. q - 1 /\ j - 1 \in q .. Len(s)
          /\ t[i] = s[i] /\ t[j] = s[j - 1]
      BY <1>1, <1>2, <1>7, <2>5
    <3>2. s[i].room <= new.room /\ new.room <= s[j - 1].room
      BY <1>5, <1>6, <3>1
    <3>3. s[i].room \in Nat /\ s[j - 1].room \in Nat
      BY <1>1, <1>5, <1>6, <3>1
    <3> QED
      BY SMTT(30), <1>1, <3>1, <3>2, <3>3
  <2> QED
    BY <1>1, <2>1, <2>2, <2>3, <2>4, <2>5
<1> QED
  BY <1>2, <1>3, <1>4, <1>7 DEF Ascending

LEMMA ParseLineLoads == IInv /\ LInv /\ ParseLine => LInv'
<1> SUFFICES ASSUME IInv, LInv, ParseLine PROVE LInv'
  OBVIOUS
<1> DEFINE n == Len(sensors)
           line == NewSensor(Scanned)
<1>1. /\ sensors \in Seq(Fresh) /\ n \in Nat /\ Len(file) \in Nat /\ Len(map) \in Nat
      /\ Loading /\ line \in Fresh /\ UNCHANGED <<map, msg>>
  BY ScannedIsFresh, LenProperties DEF IInv, LInv, ParseLine, Parsing
<1>2. /\ sensors' \in Seq(Fresh) /\ Ascending(sensors') /\ Len(sensors') = n + 1
      /\ HasSensor(sensors', line.room, line.id)
      /\ \A room, id : HasSensor(sensors, room, id) => HasSensor(sensors', room, id)
  <2>1. PICK q \in 1 .. n + 1 : Inserted(sensors, line, q, InsertSorted(sensors, line))
    BY <1>1, InsertionPlace
  <2>2. sensors' = InsertSorted(sensors, line) /\ Ascending(sensors)
    BY DEF ParseLine, LInv
  <2>3. Inserted(sensors, line, q, sensors')
    BY <2>1, <2>2
  <2>4. sensors' \in Seq(Fresh)
    BY <2>3 DEF Inserted
  <2> HIDE DEF line
  <2> QED
    BY <1>1, <2>2, <2>3, <2>4, InsertedSensor
<1>3. /\ Len(file') = IF 3 <= Len(file) THEN Len(file) - 2 ELSE 0
      /\ \A i \in 1 .. Len(file) - 2 : file'[i] = file[i + 2]
  BY FileAdvances DEF IInv, ParseLine
<1>4. HasLines(sensors', n)
  BY <1>1, <1>2 DEF Loading, HasLines
<1>5. ASSUME Len(file) > 1 PROVE HasLines(sensors', n + 1)
  <2>1. line.room = file[1] /\ line.id = file[2]
    BY <1>1, <1>5 DEF NewSensor, Scanned
  <2>2. file[1] = map[2 * n + 1] /\ file[2] = map[2 * n + 2]
    BY <1>1, <1>5 DEF Loading
  <2>3. 2 * (n + 1) - 1 = 2 * n + 1 /\ 2 * (n + 1) = 2 * n + 2
    BY <1>1
  <2>4. HasSensor(sensors', map[2 * (n + 1) - 1], map[2 * (n + 1)])
    BY <1>2, <2>1, <2>2, <2>3
  <2>5. \A k \in 1 .. n + 1 : k = n + 1 \/ k \in 1 .. n
    BY <1>1
  <2> QED
    BY <1>4, <2>4, <2>5 DEF HasLines
<1>6. Len(map) = 2 * n + Len(file) /\ (n > 0 => Len(file) > 0)
  BY <1>1 DEF Loading
<1>7. ASSUME pc' = "parse" PROVE Loading'
  <2>1. Len(file) > 2
    BY <1>1, <1>7 DEF ParseLine
  <2>2. Len(map) = 2 * (n + 1) + Len(file') /\ Len(file') > 0
    <3>1. Len(file') = Len(file) - 2
      BY <1>1, <1>3, <2>1
    <3> HIDE DEF n
    <3> QED
      BY <1>1, <1>6, <2>1, <3>1
  <2>3. \A i \in 1 .. Len(file') : file'[i] = map[2 * (n + 1) + i]
    <3> SUFFICES ASSUME NEW i \in 1 .. Len(file')
                 PROVE  file'[i] = map[2 * (n + 1) + i]
      OBVIOUS
    <3>1. i \in 1 .. Len(file) - 2 /\ i + 2 \in 1 .. Len(file)
      BY <1>1, <1>3, <2>1
    <3>2. file'[i] = file[i + 2] /\ file[i + 2] = map[2 * n + (i + 2)]
      BY <1>1, <1>3, <3>1 DEF Loading
    <3>3. 2 * n + (i + 2) = 2 * (n + 1) + i
      BY <1>1
    <3> QED
      BY <3>2, <3>3
  <2>4. HasLines(sensors', n + 1) /\ Len(sensors') = n + 1 /\ map' = map
    BY <1>1, <1>2, <1>5, <2>1
  <2> QED
    BY <1>1, <2>2, <2>3, <2>4 DEF Loading, HasLines
<1>8. ASSUME pc' = "receive" PROVE Loaded'
  <2>1. Len(file) <= 2
    BY <1>1, <1>8 DEF ParseLine
  <2>2. HasLines(sensors', Len(map) \div 2)
    <3>1. CASE Len(file) = 2
      <4>1. Len(map) \div 2 = n + 1
        BY <1>1, <1>6, <3>1
      <4> QED
        BY <1>5, <3>1, <4>1
    <3>2. CASE Len(file) # 2
      <4>0. \A l, m, k \in Nat : l = 2 * m + k /\ k <= 2 /\ k # 2 => l \div 2 = m
        OBVIOUS
      <4>1. Len(map) \div 2 = n
        <5>1. Len(map) \in Nat /\ n \in Nat /\ Len(file) \in Nat
          BY <1>1
        <5> HIDE DEF n
        <5> QED
          BY <1>6, <2>1, <3>2, <4>0, <5>1, Zenon
      <4> QED
        BY <1>4, <4>1
    <3> QED
      BY <3>1, <3>2
  <2>3. n + 1 = IF Len(map) = 0 THEN 1 ELSE (Len(map) + 1) \div 2
    BY <1>1, <1>6, <2>1
  <2> QED
    BY <1>1, <1>2, <2>2, <2>3 DEF Loaded, HasLines
<1>9. sensors' \in Seq(AnySensor)
  BY <1>2, SeqMonotonic DEF Fresh
<1> QED
  BY <1>1, <1>2, <1>7, <1>8, <1>9 DEF LInv

(* A reading changes no room and no id.                                    *)
LEMMA ReceiveLoads ==
  ASSUME IInv, LInv, NEW id \in Ids, NEW value \in Values, NEW ts \in Times,
         Receive(id, value, ts)
  PROVE  LInv'
<1>1. pc = "receive" /\ pc' = pc /\ map' = map /\ Loaded
  BY DEF Receive, LInv
<1>2. CASE Find(id) = 0
  <2>1. UNCHANGED <<sensors, map>> /\ msg' = <<"invalid", id>>
    BY <1>2 DEF Receive
  <2> QED
    BY <1>1, <2>1 DEF LInv, Loaded, HasLines
<1>3. CASE Find(id) # 0
  <2>1. Serves /\ Takes(id, value, ts)
    BY <1>3, ReceiveKnown
  <2>2. Serves' /\ SameSensors
    BY <2>1, ReadingKeeps
  <2>3. msg' \in {<<>>, <<"cold", id>>, <<"hot", id>>}
    <3>1. /\ Find(id) \in 1 .. Len(sensors) /\ sensors[Find(id)].id = id
          /\ sensors \in Seq(AnySensor)
      BY <2>1, ReadingKnown DEF LInv
    <3>2. sensors[Find(id)] \in AnySensor
      BY <3>1, ElementOfSeq
    <3>3. Updated(sensors[Find(id)], value, ts).id = id
      BY <3>1, <3>2 DEF Updated, AnySensor
    <3>4. msg' = Alarm(Updated(sensors[Find(id)], value, ts))
      BY <1>3 DEF Receive
    <3> QED
      BY <3>3, <3>4 DEF Alarm
  <2>4. \A room, y : HasSensor(sensors, room, y) => HasSensor(sensors', room, y)
    BY <2>2 DEF HasSensor, SameSensors
  <2>5. Loaded'
    BY <1>1, <2>2, <2>4 DEF Loaded, HasLines, SameSensors
  <2>6. Ascending(sensors')
    BY <2>2 DEF LInv, Ascending, SameSensors
  <2>7. sensors' \in Seq(AnySensor)
    BY <1>1, <2>2 DEF Serves, Serving
  <2> QED
    BY <1>1, <2>3, <2>5, <2>6, <2>7 DEF LInv
<1> QED
  BY <1>2, <1>3

LEMMA NextLoads == IInv /\ LInv /\ [Next]_vars => LInv'
<1> SUFFICES ASSUME IInv, LInv, [Next]_vars PROVE LInv'
  OBVIOUS
<1>1. CASE ParseLine
  BY <1>1, ParseLineLoads
<1>2. ASSUME NEW id \in Ids, NEW v \in Values, NEW t \in Times, Receive(id, v, t)
      PROVE  LInv'
  BY <1>2, ReceiveLoads
<1>3. CASE Terminate \/ AssertFails
  <2>1. UNCHANGED <<sensors, map>> /\ pc' \in {"done", "aborted"} /\ msg' \in {<<>>, msg}
    BY <1>3 DEF Terminate, AssertFails
  <2> QED
    BY <2>1 DEF LInv
<1>4. CASE DatamgrFree
  <2>1. sensors' = <<>> /\ pc' = "freed" /\ UNCHANGED <<msg, map>>
    BY <1>4 DEF DatamgrFree
  <2>2. sensors' \in Seq(AnySensor) /\ Len(sensors') = 0
    BY <2>1, EmptySeq
  <2> QED
    BY <2>1, <2>2 DEF LInv, Ascending
<1>5. CASE UNCHANGED vars
  BY <1>5 DEF vars, LInv, Loading, Loaded, HasLines
<1> QED
  BY <1>1, <1>2, <1>3, <1>4, <1>5 DEF Next, Finished

(* Once the map file is read, whatever is in it and however it is cut off, *)
(* each of its lines has its sensor, a whole map without an id twice makes *)
(* no others, and the rooms are in ascending order.                        *)
THEOREM MapIsLoaded == Spec => []MapLoaded
<1>1. IInv /\ LInv => MapLoaded
  <2> SUFFICES ASSUME IInv, LInv PROVE MapLoaded
    OBVIOUS
  <2>1. DOMAIN sensors = 1 .. Len(sensors) /\ \A i \in 1 .. Len(sensors) : sensors[i] \in AnySensor
    BY LenProperties, ElementOfSeq DEF LInv
  <2>2. TypeOK
    <3>1. AnySensor \subseteq Sensor
      BY TotalIsInt DEF AnySensor, Sensor, Windows
    <3>2. sensors \in Seq(Sensor)
      BY <3>1, SeqMonotonic DEF LInv
    <3>3. \A i \in DOMAIN sensors : Len(sensors[i].values) = Length
      BY <2>1 DEF AnySensor, Windows
    <3> QED
      BY <3>2, <3>3 DEF TypeOK, IInv, MapLeft, LInv, Record
  <2>3. ASSUME pc = "receive"
        PROVE  /\ \A l \in Lines : \E i \in DOMAIN sensors : <<sensors[i].room, sensors[i].id>> = l
               /\ NoIdTwice => TotalSensors = Len(map) \div 2
               /\ \A i, j \in DOMAIN sensors : i < j => sensors[i].room <= sensors[j].room
    <3>1. \A l \in Lines : \E i \in DOMAIN sensors : <<sensors[i].room, sensors[i].id>> = l
      <4> SUFFICES ASSUME NEW k \in 1 .. Len(map) \div 2
                   PROVE  \E i \in DOMAIN sensors : <<sensors[i].room, sensors[i].id>> =
                                                    <<map[2 * k - 1], map[2 * k]>>
        BY DEF Lines
      <4>1. PICK i \in 1 .. Len(sensors) : /\ sensors[i].room = map[2 * k - 1]
                                           /\ sensors[i].id = map[2 * k]
        BY <2>3 DEF LInv, Loaded, HasLines, HasSensor
      <4> QED
        BY <2>1, <4>1
    <3>2. Len(map) \in Nat /\ (map = <<>> <=> Len(map) = 0)
      BY EmptySeq, LenProperties DEF LInv
    <3>3. NoIdTwice => TotalSensors = Len(map) \div 2
      BY <2>3, <3>2 DEF LInv, Loaded, TotalSensors, NoIdTwice
    <3>4. \A i, j \in DOMAIN sensors : i < j => sensors[i].room <= sensors[j].room
      BY <2>1 DEF LInv, Ascending
    <3> QED
      BY <3>1, <3>3, <3>4
  <2> QED
    BY <2>2, <2>3 DEF MapLoaded
<1> QED
  BY <1>1, InitLInv, NextLoads, Invariant, PTL DEF Spec

-------------------------------------------------------------------------------
(***************************************************************************)
(* Lab 6 reads the readings from a file.  Its loop makes a turn for each   *)
(* reading in Counted, the last of which has in it what is left in the     *)
(* variables; after n turns 3 * n fields of the file are read, and each    *)
(* sensor has received its own of the first n.  The rest is what the data  *)
(* manager promises of a reading.                                          *)
(***************************************************************************)
Fields == Ids \cup Values \cup Times
Reading == [id : Ids, value : Values, ts : Times]
InPlace(f) ==
  /\ f \in Seq(Fields)
  /\ \A i \in 1 .. Len(f) :
       f[i] \in IF i % 3 = 1 THEN Ids ELSE IF i % 3 = 2 THEN Values ELSE Times
Given == InPlace(given.file) /\ given.before \in Reading

\* The variables of the loop after n turns of it.
Before(n) == IF n = 0 THEN given.before ELSE Counted[n]

\* The readings among the first ones of c that are of sensor id.
CountStep(c, id, f, n) ==
  [k \in 0 .. n |->
     IF k = 0 THEN <<>>
     ELSE IF c[k].id = id THEN Append(f[k - 1], [value |-> c[k].value, ts |-> c[k].ts])
     ELSE f[k - 1]]
UpTo(c, id) == CHOOSE f : f = CountStep(c, id, f, Len(c))

LEMMA Thirds ==
  ASSUME NEW l \in Nat
  PROVE  \E m \in Nat : m = l \div 3 /\ 3 * m <= l /\ l < 3 * m + 3
<1>1. l \div 3 \in Nat
  OBVIOUS
<1>2. 3 * (l \div 3) <= l
  OBVIOUS
<1>3. l < 3 * (l \div 3) + 3
  OBVIOUS
<1> QED
  BY <1>1, <1>2, <1>3, Zenon

LEMMA PlaceOf ==
  ASSUME NEW m \in Nat
  PROVE  (3 * m + 1) % 3 = 1 /\ (3 * m + 2) % 3 = 2 /\ (3 * m + 3) % 3 = 0
OBVIOUS

(* The turns that the fields of a file make: each three of them one, and   *)
(* what is left one more.                                                  *)
LEMMA TurnsOfFile ==
  ASSUME Given
  PROVE  /\ Len(given.file) \in Nat /\ Len(Whole) \in Nat
         /\ Len(Whole) = Len(given.file) \div 3
         /\ Counted \in Seq(Reading) /\ Len(Counted) = Len(Whole) + 1
         /\ \A k \in 1 .. Len(Whole) :
              Counted[k] = [id |-> given.file[3 * k - 2], value |-> given.file[3 * k - 1],
                            ts |-> given.file[3 * k]]
         /\ Counted[Len(Whole) + 1] = ReadFields(CutOff, Before(Len(Whole)))
         /\ Len(CutOff) = Len(given.file) - 3 * Len(Whole)
         /\ \A i \in 1 .. Len(given.file) - 3 * Len(Whole) :
              CutOff[i] = given.file[3 * Len(Whole) + i]
<1>0. PICK f : f = given.file
  OBVIOUS
<1>1. /\ Len(f) \in Nat /\ f \in Seq(Fields) /\ \A i \in 1 .. Len(f) : f[i] \in Fields
      /\ InPlace(f) /\ given.before \in Reading
  BY <1>0, LenProperties, ElementOfSeq DEF Given, InPlace
<1>2. PICK m \in Nat : m = Len(f) \div 3 /\ 3 * m <= Len(f) /\ Len(f) < 3 * m + 3
  BY <1>1, Thirds
<1> DEFINE w == [k \in 1 .. m |-> SubSeq(f, 3 * k - 2, 3 * k)]
           c == [k \in 1 .. m |-> ReadFields(w[k], given.before)]
<1>3. ASSUME NEW k \in 1 .. m
      PROVE  /\ SubSeq(f, 3 * k - 2, 3 * k) \in Seq(Fields)
             /\ ReadFields(SubSeq(f, 3 * k - 2, 3 * k), given.before) =
                  [id |-> f[3 * k - 2], value |-> f[3 * k - 1], ts |-> f[3 * k]]
             /\ ReadFields(SubSeq(f, 3 * k - 2, 3 * k), given.before) \in Reading
  <2>1. /\ 3 * k - 2 \in 1 .. Len(f) /\ 3 * k - 1 \in 1 .. Len(f) /\ 3 * k \in 1 .. Len(f)
        /\ (3 * k - 2) % 3 = 1 /\ (3 * k - 1) % 3 = 2 /\ (3 * k) % 3 = 0
    <3>1. /\ k - 1 \in Nat /\ 3 * (k - 1) + 1 = 3 * k - 2 /\ 3 * (k - 1) + 2 = 3 * k - 1
          /\ 3 * (k - 1) + 3 = 3 * k
      BY <1>2
    <3>2. (3 * k - 2) % 3 = 1 /\ (3 * k - 1) % 3 = 2 /\ (3 * k) % 3 = 0
      BY ONLY <3>1, PlaceOf
    <3>3. /\ 3 * k - 2 \in 1 .. Len(f) /\ 3 * k - 1 \in 1 .. Len(f)
          /\ 3 * k \in 1 .. Len(f)
      BY <1>1, <1>2
    <3> QED
      BY <3>2, <3>3
  <2>2. f[3 * k - 2] \in Ids /\ f[3 * k - 1] \in Values /\ f[3 * k] \in Times
    BY <1>1, <2>1 DEF InPlace
  <2> DEFINE s == SubSeq(f, 3 * k - 2, 3 * k)
  <2>3. /\ s \in Seq(Fields) /\ Len(s) = 3
        /\ s[1] = f[3 * k - 2] /\ s[2] = f[3 * k - 1] /\ s[3] = f[3 * k]
    <3> DEFINE a == 3 * k - 2
               b == 3 * k
    <3>1. a \in Nat /\ b \in Nat /\ a >= 1 /\ b = a + 2 /\ b <= Len(f)
      BY <2>1
    <3>2. s = SubSeq(f, a, b) /\ 3 * k - 1 = a + 1 /\ 3 * k - 2 = a
      BY <3>1
    <3> HIDE DEF a, b, s
    <3>3. /\ s \in Seq(Fields) /\ Len(s) = b - a + 1
          /\ \A i \in 1 .. b - a + 1 : s[i] = f[a + i - 1]
      BY <1>1, <3>1, <3>2, SubSeqProperties
    <3>4. s[1] = f[a] /\ s[2] = f[a + 1] /\ s[3] = f[b]
      BY <3>1, <3>3
    <3> QED
      BY <3>1, <3>2, <3>3, <3>4
  <2> HIDE DEF s
  <2>4. ReadFields(s, given.before) =
          [id |-> f[3 * k - 2], value |-> f[3 * k - 1], ts |-> f[3 * k]]
    BY <2>3 DEF ReadFields
  <2>5. ReadFields(s, given.before) \in Reading
    <3>1. [id |-> f[3 * k - 2], value |-> f[3 * k - 1], ts |-> f[3 * k]] \in Reading
      BY ONLY <2>2 DEF Reading
    <3> QED
      BY ONLY <2>4, <3>1
  <2> QED
    BY ONLY <2>3, <2>4, <2>5 DEF s
<1>4. w \in Seq(Seq(Fields)) /\ Len(w) = m
  <2>1. \A k \in 1 .. m : SubSeq(f, 3 * k - 2, 3 * k) \in Seq(Fields)
    BY <1>3
  <2>2. w \in [1 .. m -> Seq(Fields)]
    BY <2>1
  <2> HIDE DEF w
  <2> QED
    BY <1>2, <2>2
<1>5. c \in Seq(Reading) /\ Len(c) = m
  <2>1. \A k \in 1 .. m : ReadFields(w[k], given.before) \in Reading
    BY <1>3
  <2>2. c \in [1 .. m -> Reading]
    BY <2>1
  <2> HIDE DEF c
  <2> QED
    BY <1>2, <2>2
<1>15. Whole = w /\ Len(w) = m
  BY <1>0, <1>2, <1>4 DEF Whole
<1>6. /\ CutOff \in Seq(Fields) /\ Len(CutOff) = Len(f) - 3 * m
      /\ \A i \in 1 .. Len(f) - 3 * m : CutOff[i] = f[3 * m + i]
  <2>1. CutOff = SubSeq(f, 3 * m + 1, Len(f))
    BY <1>0, <1>15 DEF CutOff
  <2>2. PICK a \in Nat : a = 3 * m + 1
    BY <1>2
  <2>3. /\ SubSeq(f, a, Len(f)) \in Seq(Fields)
        /\ Len(SubSeq(f, a, Len(f))) = IF a <= Len(f) THEN Len(f) - a + 1 ELSE 0
        /\ \A i \in 1 .. Len(f) - a + 1 : SubSeq(f, a, Len(f))[i] = f[a + i - 1]
    BY <1>1, <1>2, <2>2, SubSeqProperties
  <2>4. CutOff = SubSeq(f, a, Len(f))
    BY <2>1, <2>2
  <2>5. Len(CutOff) = Len(f) - 3 * m
    <3>1. Len(f) \in Nat /\ 3 * m <= Len(f)
      BY <1>1, <1>2
    <3>2. a <= Len(f) => Len(f) - a + 1 = Len(f) - 3 * m
      BY <2>2, <3>1
    <3>3. ~(a <= Len(f)) => 0 = Len(f) - 3 * m
      BY <2>2, <3>1
    <3> QED
      BY <2>3, <2>4, <3>2, <3>3
  <2>6. \A i \in 1 .. Len(f) - 3 * m : i \in 1 .. Len(f) - a + 1 /\ a + i - 1 = 3 * m + i
    BY <1>1, <1>2, <2>2
  <2> QED
    BY <2>3, <2>4, <2>5, <2>6
<1>7. LastWhole = IF m = 0 THEN given.before ELSE c[m]
  <2>1. w = <<>> <=> m = 0
    BY <1>4, EmptySeq
  <2>2. m # 0 => Last(w) = w[m] /\ c[m] = ReadFields(w[m], given.before)
    BY <1>2, <1>4 DEF Last
  <2> HIDE DEF w, c
  <2> QED
    BY <1>15, <2>1, <2>2 DEF LastWhole
<1>8. ReadFields(CutOff, LastWhole) \in Reading
  <2>1. LastWhole \in Reading
    <3>1. m # 0 => c[m] \in Reading
      BY <1>2, <1>5, ElementOfSeq
    <3> QED
      BY <1>1, <1>7, <3>1
  <2>2. /\ Len(CutOff) > 0 => CutOff[1] \in Ids
        /\ Len(CutOff) > 1 => CutOff[2] \in Values
        /\ ~(Len(CutOff) > 2)
    <3>1. (3 * m + 1) % 3 = 1 /\ (3 * m + 2) % 3 = 2
      BY PlaceOf
    <3>2. /\ Len(CutOff) > 0 => 3 * m + 1 \in 1 .. Len(f) /\ CutOff[1] = f[3 * m + 1]
          /\ Len(CutOff) > 1 => 3 * m + 2 \in 1 .. Len(f) /\ CutOff[2] = f[3 * m + 2]
      BY <1>1, <1>2, <1>6
    <3> QED
      BY <1>1, <1>2, <1>6, <3>1, <3>2 DEF InPlace
  <2> QED
    BY <2>1, <2>2 DEF ReadFields, Reading
<1>9. Counted = c \o <<ReadFields(CutOff, LastWhole)>>
  <2>1. c = [k \in 1 .. Len(w) |-> ReadFields(w[k], given.before)]
    BY <1>4
  <2> HIDE DEF c, w
  <2> QED
    BY <1>15, <2>1 DEF Counted
<1> DEFINE d == <<ReadFields(CutOff, LastWhole)>>
<1>10. d \in Seq(Reading) /\ Len(d) = 1 /\ d[1] = ReadFields(CutOff, LastWhole)
  BY <1>8
<1>11. /\ Counted \in Seq(Reading) /\ Len(Counted) = m + 1
       /\ \A k \in 1 .. m : Counted[k] = c[k]
       /\ Counted[m + 1] = ReadFields(CutOff, LastWhole)
  <2>0. Counted = c \o d
    BY <1>9
  <2> HIDE DEF c, d
  <2>1. /\ c \o d \in Seq(Reading) /\ Len(c \o d) = Len(c) + Len(d)
        /\ \A i \in 1 .. Len(c) + Len(d) :
             (c \o d)[i] = IF i <= Len(c) THEN c[i] ELSE d[i - Len(c)]
    BY <1>5, <1>10, ConcatProperties
  <2> QED
    BY <1>2, <1>5, <1>10, <2>0, <2>1
<1>13. \A k \in 1 .. m : c[k] = [id |-> f[3 * k - 2], value |-> f[3 * k - 1], ts |-> f[3 * k]]
  BY <1>3, <1>4
<1>14. Before(m) = LastWhole
  BY <1>2, <1>7, <1>11 DEF Before
<1> HIDE DEF c, w
<1> QED
  BY <1>0, <1>1, <1>2, <1>6, <1>11, <1>13, <1>14, <1>15

(* Counting the readings of a sensor is a recursion, too.                  *)
LEMMA CountExists ==
  ASSUME NEW c \in Seq(Reading), NEW id
  PROVE  \E f : f = CountStep(c, id, f, Len(c))
<1> DEFINE Has(n) == \E f \in [0 .. n -> Seq(Record)] : f = CountStep(c, id, f, n)
           Bad == {n \in 0 .. Len(c) : ~Has(n)}
           r(k) == [value |-> c[k].value, ts |-> c[k].ts]
<1>1. Len(c) \in Nat /\ \A k \in 1 .. Len(c) : r(k) \in Record
  <2>1. Len(c) \in Nat /\ \A k \in 1 .. Len(c) : c[k] \in Reading
    BY LenProperties, ElementOfSeq
  <2> QED
    BY <2>1 DEF Reading, Record
<1>2. Has(0)
  <2> DEFINE f == [k \in 0 .. 0 |-> <<>>]
  <2>1. f \in [0 .. 0 -> Seq(Record)] /\ f = CountStep(c, id, f, 0)
    BY EmptySeq DEF CountStep
  <2> QED
    BY <2>1
<1>3. ASSUME NEW n \in 1 .. Len(c), Has(n - 1) PROVE Has(n)
  <2>1. PICK f \in [0 .. n - 1 -> Seq(Record)] : f = CountStep(c, id, f, n - 1)
    BY <1>3
  <2> DEFINE last == IF c[n].id = id THEN Append(f[n - 1], r(n)) ELSE f[n - 1]
             g == [k \in 0 .. n |-> IF k < n THEN f[k] ELSE last]
  <2>2. g \in [0 .. n -> Seq(Record)]
    <3>1. f[n - 1] \in Seq(Record)
      BY <1>1, <2>1
    <3>2. last \in Seq(Record)
      BY <1>1, <3>1, AppendProperties
    <3> HIDE DEF last
    <3> QED
      BY <1>1, <2>1, <3>2
  <2> HIDE DEF r
  <2>3. ASSUME NEW k \in 0 .. n
        PROVE  g[k] = IF k = 0 THEN <<>>
                      ELSE IF c[k].id = id THEN Append(g[k - 1], r(k)) ELSE g[k - 1]
    <3>1. CASE k < n
      <4>1. k \in 0 .. n - 1 /\ (k # 0 => k - 1 \in 0 .. n - 1)
        BY <1>1, <3>1
      <4>2. f[k] = IF k = 0 THEN <<>>
                   ELSE IF c[k].id = id THEN Append(f[k - 1], r(k)) ELSE f[k - 1]
        BY <2>1, <4>1 DEF CountStep, r
      <4>3. g[k] = f[k] /\ (k # 0 => g[k - 1] = f[k - 1])
        BY <1>1, <3>1, <4>1
      <4> QED
        BY <4>2, <4>3
    <3>2. CASE k = n
      <4>1. n - 1 \in 0 .. n /\ n - 1 < n /\ n # 0 /\ ~(n < n)
        BY <1>1
      <4> QED
        BY <3>2, <4>1
    <3> QED
      BY <1>1, <3>1, <3>2
  <2>4. g = CountStep(c, id, g, n)
    BY <2>3 DEF CountStep, r
  <2> HIDE DEF g
  <2> QED
    BY <2>2, <2>4
<1> HIDE DEF Has
<1>4. Bad = {}
  <2> SUFFICES ASSUME Bad # {} PROVE FALSE
    OBVIOUS
  <2>1. Bad \subseteq Nat
    BY <1>1
  <2> DEFINE n == Min(Bad)
  <2>2. n \in Bad /\ \A k \in Bad : n <= k
    <3> HIDE DEF Bad
    <3> QED
      BY <2>1, LeastIndex
  <2> HIDE DEF n
  <2>3. n \in 1 .. Len(c) /\ n - 1 \in 0 .. Len(c) /\ ~(n <= n - 1)
    BY <1>1, <1>2, <2>2
  <2>4. Has(n - 1)
    BY <2>2, <2>3
  <2> QED
    BY <1>3, <2>2, <2>3, <2>4
<1>5. Has(Len(c))
  BY <1>1, <1>4
<1> QED
  BY <1>5 DEF Has

LEMMA CountsOn ==
  ASSUME NEW c \in Seq(Reading), NEW id
  PROVE  /\ UpTo(c, id)[0] = <<>>
         /\ \A k \in 1 .. Len(c) :
              UpTo(c, id)[k] =
                IF c[k].id = id
                  THEN Append(UpTo(c, id)[k - 1], [value |-> c[k].value, ts |-> c[k].ts])
                  ELSE UpTo(c, id)[k - 1]
<1>1. Len(c) \in Nat
  BY LenProperties
<1>2. PICK f : f = UpTo(c, id)
  OBVIOUS
<1>3. f = CountStep(c, id, f, Len(c))
  BY <1>2, CountExists DEF UpTo
<1>4. /\ 0 \in 0 .. Len(c)
      /\ \A k \in 1 .. Len(c) : k \in 0 .. Len(c) /\ k # 0
  BY <1>1
<1>5. \A k \in 0 .. Len(c) : f[k] = IF k = 0 THEN <<>>
                                    ELSE IF c[k].id = id
                                      THEN Append(f[k - 1], [value |-> c[k].value, ts |-> c[k].ts])
                                      ELSE f[k - 1]
  BY <1>3 DEF CountStep
<1> QED
  BY <1>2, <1>4, <1>5

LEMMA CountedForAll == \A id : CountedFor(id) = UpTo(Counted, id)[Len(Counted)]
BY DEF CountedFor, UpTo, CountStep

\* n turns are made: what is left of the file, and what the sensors received.
Ahead(n) == /\ n \in 0 .. Len(Whole) /\ reading = Before(n)
            /\ Len(dataFile) = Len(given.file) - 3 * n
            /\ \A i \in 1 .. Len(dataFile) : dataFile[i] = given.file[3 * n + i]
Turned(n) == /\ \A id \in Ids : recorded[id] = UpTo(Counted, id)[n]
             /\ \A k \in 1 .. n : Find(Counted[k].id) # 0

Inv6 == /\ pc \in {"parse", "receive", "done", "freed", "exited"}
        /\ Given /\ MapLeft
        /\ sensors \in Seq(AnySensor) /\ Ascending(sensors)
        /\ reading \in Reading /\ dataFile \in Seq(Fields)
        /\ pc = "parse" => Parsing /\ dataFile = given.file /\ reading = given.before
        /\ pc \in {"receive", "done"} => Serves
        /\ pc = "receive" => \E n \in Nat : Ahead(n) /\ Turned(n)
        /\ pc = "done" => Turned(Len(Counted))
        /\ pc = "exited" => Find(reading.id) = 0

(* A turn reads the next of the readings that count, and it is the last    *)
(* turn exactly when the whole ones are read.                              *)
LEMMA TurnReads ==
  ASSUME Given, reading \in Reading, NEW n \in Nat, Ahead(n)
  PROVE  /\ n + 1 \in 1 .. Len(Counted)
         /\ ReadFields(dataFile, reading) = Counted[n + 1]
         /\ ReadFields(dataFile, reading) \in Reading
         /\ Ended(dataFile) <=> n = Len(Whole)
         /\ ~Ended(dataFile) <=> 3 <= Len(dataFile)
<1> DEFINE f == given.file
           m == Len(Whole)
<1>1. /\ Len(f) \in Nat /\ m \in Nat /\ m = Len(f) \div 3
      /\ Counted \in Seq(Reading) /\ Len(Counted) = m + 1
      /\ \A k \in 1 .. m : Counted[k] = [id |-> f[3 * k - 2], value |-> f[3 * k - 1], ts |-> f[3 * k]]
      /\ Counted[m + 1] = ReadFields(CutOff, Before(m))
      /\ Len(CutOff) = Len(f) - 3 * m
      /\ \A i \in 1 .. Len(f) - 3 * m : CutOff[i] = f[3 * m + i]
  BY TurnsOfFile
<1>2. /\ n \in 0 .. m /\ reading = Before(n) /\ Len(dataFile) = Len(f) - 3 * n
      /\ \A i \in 1 .. Len(dataFile) : dataFile[i] = f[3 * n + i]
  BY DEF Ahead
<1>3. 3 * m <= Len(f) /\ Len(f) < 3 * m + 3
  BY <1>1, Thirds
<1> HIDE DEF f, m
<1>4. n + 1 \in 1 .. Len(Counted) /\ Counted[n + 1] \in Reading
  <2>1. n + 1 \in 1 .. Len(Counted)
    BY <1>1, <1>2
  <2> QED
    BY <1>1, <2>1, ElementOfSeq
<1>5. CASE n < m
  <2>1. Len(dataFile) \in Nat /\ 3 <= Len(dataFile) /\ n + 1 \in 1 .. m
    BY <1>1, <1>2, <1>3, <1>5
  <2>2. /\ 1 \in 1 .. Len(dataFile) /\ 2 \in 1 .. Len(dataFile) /\ 3 \in 1 .. Len(dataFile)
        /\ 3 * (n + 1) - 2 = 3 * n + 1 /\ 3 * (n + 1) - 1 = 3 * n + 2
        /\ 3 * (n + 1) = 3 * n + 3
    BY <2>1
  <2>3. Counted[n + 1] = [id |-> f[3 * n + 1], value |-> f[3 * n + 2], ts |-> f[3 * n + 3]]
    BY <1>1, <2>1, <2>2
  <2>4. dataFile[1] = f[3 * n + 1] /\ dataFile[2] = f[3 * n + 2] /\ dataFile[3] = f[3 * n + 3]
    BY <1>2, <2>2
  <2>5. ReadFields(dataFile, reading) = Counted[n + 1]
    BY <2>1, <2>3, <2>4 DEF ReadFields
  <2> QED
    BY <1>1, <1>4, <1>5, <2>1, <2>5 DEF Ended, m
<1>6. CASE n = m
  <2>1. Len(dataFile) = Len(CutOff) /\ Len(CutOff) \in Nat /\ Len(CutOff) < 3
    BY <1>1, <1>2, <1>3, <1>6
  <2>2. \A i \in 1 .. Len(CutOff) : dataFile[i] = CutOff[i]
    BY <1>1, <1>2, <1>6, <2>1
  <2>3. /\ Len(CutOff) > 0 => dataFile[1] = CutOff[1]
        /\ Len(CutOff) > 1 => dataFile[2] = CutOff[2]
    BY <2>1, <2>2
  <2>4. ReadFields(dataFile, reading) = ReadFields(CutOff, Before(m))
    BY <1>2, <1>6, <2>1, <2>3 DEF ReadFields
  <2> QED
    BY <1>1, <1>4, <1>6, <2>1, <2>4 DEF Ended, m
<1> QED
  BY <1>1, <1>2, <1>5, <1>6

(* The rest of the file behind the three fields of a turn.                 *)
LEMMA RestOfFile ==
  ASSUME dataFile \in Seq(Fields), dataFile' = SubSeq(dataFile, 4, Len(dataFile))
  PROVE  /\ dataFile' \in Seq(Fields) /\ Len(dataFile) \in Nat
         /\ 3 <= Len(dataFile) => Len(dataFile') = Len(dataFile) - 3
         /\ \A i \in 1 .. Len(dataFile) - 3 : dataFile'[i] = dataFile[i + 3]
<1> DEFINE f == dataFile
<1>1. Len(f) \in Nat /\ \A i \in 1 .. Len(f) : f[i] \in Fields
  BY LenProperties, ElementOfSeq
<1>2. \A i \in 4 .. Len(f) : f[i] \in Fields
  BY <1>1
<1>3. /\ SubSeq(f, 4, Len(f)) \in Seq(Fields)
      /\ Len(SubSeq(f, 4, Len(f))) = IF 4 <= Len(f) THEN Len(f) - 4 + 1 ELSE 0
      /\ \A i \in 1 .. Len(f) - 4 + 1 : SubSeq(f, 4, Len(f))[i] = f[4 + i - 1]
  BY <1>1, <1>2, SubSeqProperties
<1>4. \A i \in 1 .. Len(f) - 3 : i \in 1 .. Len(f) - 4 + 1 /\ 4 + i - 1 = i + 3
  BY <1>1
<1>5. /\ 4 <= Len(f) => Len(f) - 4 + 1 = Len(f) - 3
      /\ 3 <= Len(f) /\ ~(4 <= Len(f)) => 0 = Len(f) - 3
  <2>1. PICK l \in Nat : l = Len(f)
    BY <1>1
  <2>2. 4 <= l => l - 4 + 1 = l - 3
    OBVIOUS
  <2>3. 3 <= l /\ ~(4 <= l) => 0 = l - 3
    OBVIOUS
  <2> QED
    BY <2>1, <2>2, <2>3
<1> QED
  BY <1>1, <1>3, <1>4, <1>5

(* What the file amounts to does not change.                               *)
LEMMA SameCounted ==
  ASSUME given' = given
  PROVE  /\ Whole' = Whole /\ Counted' = Counted /\ Given' = Given
         /\ \A n : Before(n)' = Before(n)
<1>1. Whole' = Whole /\ Given' = Given
  BY DEF Whole, Given
<1>2. LastWhole' = LastWhole /\ CutOff' = CutOff
  BY <1>1 DEF LastWhole, CutOff
<1>3. Counted' = Counted
  BY <1>1, <1>2 DEF Counted
<1> QED
  BY <1>1, <1>3 DEF Before

-------------------------------------------------------------------------------
(* No turn is made in the first state.                                     *)
LEMMA InitInv6 == FieldsInPlace /\ Lab6Init => Inv6
<1> SUFFICES ASSUME FieldsInPlace, Lab6Init PROVE Inv6
  OBVIOUS
<1>1. IInv /\ pc = "parse" /\ sensors = <<>>
  BY InitHolds DEF Lab6Init, Init
<1>2. /\ dataFile \in Seq(Fields) /\ DOMAIN dataFile = 1 .. Len(dataFile)
      /\ \A i \in DOMAIN dataFile :
           dataFile[i] \in IF i % 3 = 1 THEN Ids ELSE IF i % 3 = 2 THEN Values ELSE Times
  <2>1. dataFile \in Seq(Fields)
    BY DEF Lab6Init, FieldsInPlace, Fields
  <2> QED
    BY <2>1, LenProperties DEF Lab6Init, FieldsInPlace
<1>3. Given
  BY <1>2 DEF Lab6Init, Given, InPlace, Reading
<1>4. sensors \in Seq(AnySensor) /\ Ascending(sensors)
  BY <1>1, EmptySeq DEF Ascending
<1> QED
  BY <1>1, <1>2, <1>3, <1>4 DEF Lab6Init, IInv, Inv6, Reading

(* The index at which dpl_insert_sorted inserts is never beyond the list.  *)
LEMMA SameInsert ==
  ASSUME NEW s \in Seq(Fresh), NEW x
  PROVE  DplInsertSorted(s, x) = InsertSorted(s, x)
<1> DEFINE I == {i \in 1 .. Len(s) : x.room <= s[i].room}
           p == SelectInSeq(s, LAMBDA old : x.room <= old.room)
           q == IF p = 0 THEN Len(s) + 1 ELSE p
<1>1. Len(s) \in Nat
  BY LenProperties
<1>2. p = IF I # {} THEN Min(I) ELSE 0
  BY DEF SelectInSeq
<1>3. I # {} => Min(I) \in I
  <2>1. I \subseteq Nat
    BY <1>1
  <2> HIDE DEF I
  <2> QED
    BY <2>1, LeastIndex
<1>4. DplInsertSorted(s, x) = InsertAt(s, IF q > Len(s) THEN Len(s) + 1 ELSE q, x)
  BY DEF DplInsertSorted, DplInsertAtIndex
<1>5. InsertSorted(s, x) = InsertAt(s, q, x)
  BY DEF InsertSorted
<1> HIDE DEF p
<1>6. p \in 0 .. Len(s)
  BY <1>1, <1>2, <1>3
<1>7. (IF q > Len(s) THEN Len(s) + 1 ELSE q) = q
  BY <1>1, <1>6
<1> QED
  BY <1>4, <1>5, <1>7

LEMMA Parse6 == Inv6 /\ Lab6ParseLine => Inv6'
<1> SUFFICES ASSUME Inv6, Lab6ParseLine PROVE Inv6'
  OBVIOUS
<1>1. /\ Given /\ MapLeft /\ Parsing /\ Ascending(sensors) /\ sensors \in Seq(Fresh)
      /\ dataFile \in Seq(Fields) /\ reading \in Reading
      /\ dataFile = given.file /\ reading = given.before
      /\ UNCHANGED <<recorded, dataFile, reading, given>>
  BY DEF Inv6, Lab6ParseLine, Parsing
<1>2. sensors' = InsertSorted(sensors, NewSensor(Scanned))
  BY <1>1, SameInsert DEF Lab6ParseLine
<1>3. Parsing' /\ Serves'
  BY <1>1, <1>2, NewSensorServes DEF Serves
<1>4. MapLeft'
  BY <1>1, FileAdvances DEF Lab6ParseLine
<1>5. Ascending(sensors')
  <2>1. NewSensor(Scanned) \in Fresh
    BY <1>1, ScannedIsFresh
  <2>2. PICK n : n = NewSensor(Scanned)
    OBVIOUS
  <2>3. PICK q \in 1 .. Len(sensors) + 1 : Inserted(sensors, n, q, sensors')
    BY <1>1, <1>2, <2>1, <2>2, InsertionPlace
  <2> QED
    BY <1>1, <2>1, <2>2, <2>3, InsertedSensor
<1>6. sensors' \in Seq(AnySensor)
  BY <1>3 DEF Serves, Serving
<1>7. Given' /\ Whole' = Whole /\ Counted' = Counted /\ \A n : Before(n)' = Before(n)
  BY <1>1, SameCounted
<1>8. Ahead(0)' /\ Turned(0)'
  <2>1. /\ Len(Whole) \in Nat /\ Counted \in Seq(Reading) /\ Len(given.file) \in Nat
    BY <1>1, TurnsOfFile
  <2>2. Before(0) = given.before
    BY DEF Before
  <2>3. Ahead(0)
    BY <1>1, <2>1, <2>2 DEF Ahead
  <2>4. \A id : UpTo(Counted, id)[0] = <<>>
    BY <2>1, CountsOn
  <2>5. \A id \in Ids : recorded[id] = <<>>
    BY <1>1 DEF Parsing
  <2> QED
    BY <1>1, <1>7, <2>3, <2>4, <2>5 DEF Ahead, Turned
<1>9. pc' \in {"parse", "receive"}
  BY DEF Lab6ParseLine
<1>10. reading' \in Reading /\ dataFile' \in Seq(Fields)
       /\ dataFile' = given'.file /\ reading' = given'.before
  BY <1>1
<1> QED
  BY <1>3, <1>4, <1>5, <1>6, <1>7, <1>8, <1>9, <1>10 DEF Inv6

(* A turn of the second loop.                                              *)
LEMMA Reading6 == Inv6 /\ Lab6Reading => Inv6'
<1> SUFFICES ASSUME Inv6, Lab6Reading PROVE Inv6'
  OBVIOUS
<1>1. /\ Given /\ MapLeft /\ Ascending(sensors) /\ sensors \in Seq(AnySensor)
      /\ dataFile \in Seq(Fields) /\ reading \in Reading /\ Serves /\ pc = "receive"
      /\ UNCHANGED <<file, dataMap, map, given>>
      /\ dataFile' = SubSeq(dataFile, 4, Len(dataFile))
  BY DEF Inv6, Lab6Reading
<1>2. PICK n \in Nat : Ahead(n) /\ Turned(n)
  BY <1>1 DEF Inv6
<1>3. PICK new : new = ReadFields(dataFile, reading)
  OBVIOUS
<1>4. /\ n + 1 \in 1 .. Len(Counted) /\ new = Counted[n + 1] /\ new \in Reading
      /\ Ended(dataFile) <=> n = Len(Whole)
      /\ ~Ended(dataFile) <=> 3 <= Len(dataFile)
  BY <1>1, <1>2, <1>3, TurnReads
<1>5. /\ Given' /\ MapLeft' /\ Whole' = Whole /\ Counted' = Counted
      /\ \A k : Before(k)' = Before(k)
  BY <1>1, SameCounted DEF MapLeft
<1>6. /\ dataFile' \in Seq(Fields) /\ Len(dataFile) \in Nat
      /\ 3 <= Len(dataFile) => Len(dataFile') = Len(dataFile) - 3
      /\ \A i \in 1 .. Len(dataFile) - 3 : dataFile'[i] = dataFile[i + 3]
  BY <1>1, RestOfFile
<1>7. /\ Counted \in Seq(Reading) /\ Len(Whole) \in Nat /\ Len(given.file) \in Nat
      /\ Len(Counted) = Len(Whole) + 1
  BY <1>1, TurnsOfFile
<1>8. reading' = new /\ new.id \in Ids /\ new.value \in Values /\ new.ts \in Times
  BY <1>3, <1>4 DEF Lab6Reading, Reading
<1>9. \A id : GetDataFromList(id) = Find(id)
  BY DEF GetDataFromList, Find
<1>10. CASE Find(new.id) = 0
  <2>1. pc' = "exited" /\ UNCHANGED <<sensors, recorded>>
    BY <1>3, <1>9, <1>10 DEF Lab6Reading
  <2>2. (Find(reading.id) = 0)'
    <3>1. PICK id : id = new.id
      OBVIOUS
    <3>2. Find(id)' = Find(id)
      BY <2>1 DEF Find, SelectInSeq
    <3> QED
      BY <1>8, <1>10, <3>1, <3>2
  <2>3. Ascending(sensors') /\ sensors' \in Seq(AnySensor)
    BY <1>1, <2>1
  <2> QED
    BY <1>4, <1>5, <1>6, <1>8, <2>1, <2>2, <2>3 DEF Inv6
<1>11. CASE Find(new.id) # 0
  <2>1. Takes(new.id, new.value, new.ts)
    BY <1>1, <1>3, <1>9, <1>11 DEF Lab6Reading, Takes
  <2>2. /\ pc' = IF Ended(dataFile) THEN "done" ELSE "receive"
        /\ recorded' = [recorded EXCEPT ![new.id] =
                          Append(@, [value |-> new.value, ts |-> new.ts])]
    BY <1>3, <1>9, <1>11 DEF Lab6Reading
  <2>3. Serves' /\ SameSensors
    BY <1>1, <1>8, <2>1, ReadingKeeps
  <2>4. sensors' \in Seq(AnySensor) /\ Ascending(sensors')
    BY <1>1, <2>3 DEF Serves, Serving, SameSensors, Ascending
  <2>5. Turned(n + 1)'
    <3>1. ASSUME NEW id \in Ids PROVE recorded'[id] = UpTo(Counted, id)[n + 1]
      <4>1. /\ UpTo(Counted, id)[n + 1] =
                 IF Counted[n + 1].id = id
                   THEN Append(UpTo(Counted, id)[n + 1 - 1],
                               [value |-> Counted[n + 1].value, ts |-> Counted[n + 1].ts])
                   ELSE UpTo(Counted, id)[n + 1 - 1]
        BY <1>4, <1>7, CountsOn
      <4>2. n + 1 - 1 = n /\ recorded[id] = UpTo(Counted, id)[n]
        BY <1>2 DEF Turned
      <4>3. recorded'[id] = IF new.id = id
                              THEN Append(recorded[id], [value |-> new.value, ts |-> new.ts])
                              ELSE recorded[id]
        BY <1>1, <1>8, <2>2 DEF Serves
      <4> QED
        BY <1>4, <4>1, <4>2, <4>3
    <3>2. ASSUME NEW k \in 1 .. n + 1 PROVE Find(Counted[k].id)' # 0
      <4>1. \A x : Find(x)' = Find(x)
        BY <2>3 DEF SameSensors
      <4>2. PICK id : id = Counted[k].id
        OBVIOUS
      <4>3. k = n + 1 \/ k \in 1 .. n
        BY <1>2
      <4>4. Find(id) # 0
        BY <1>2, <1>4, <1>11, <4>2, <4>3 DEF Turned
      <4> QED
        BY <1>5, <4>1, <4>2, <4>4
    <3> QED
      BY <1>5, <3>1, <3>2 DEF Turned
  <2>6. CASE Ended(dataFile)
    <3>1. Turned(Len(Counted))'
      BY <1>4, <1>5, <1>7, <2>5, <2>6
    <3> QED
      BY <1>4, <1>5, <1>6, <1>8, <2>2, <2>3, <2>4, <2>6, <3>1 DEF Inv6
  <2>7. CASE ~Ended(dataFile)
    <3>1. Ahead(n + 1)'
      <4>1. n + 1 \in 0 .. Len(Whole) /\ n + 1 # 0
        BY <1>2, <1>4, <1>7, <2>7
      <4>2. reading' = Before(n + 1)
        BY <1>4, <1>8, <4>1 DEF Before
      <4>3. Len(dataFile') = Len(given.file) - 3 * (n + 1)
        BY <1>2, <1>4, <1>6, <1>7, <2>7 DEF Ahead
      <4>4. ASSUME NEW i \in 1 .. Len(dataFile')
            PROVE  dataFile'[i] = given.file[3 * (n + 1) + i]
        <5>1. i \in 1 .. Len(dataFile) - 3 /\ i + 3 \in 1 .. Len(dataFile)
          BY <1>4, <1>6, <2>7
        <5>2. dataFile'[i] = given.file[3 * n + (i + 3)]
          BY <1>2, <1>6, <5>1 DEF Ahead
        <5>3. 3 * n + (i + 3) = 3 * (n + 1) + i
          BY <5>1
        <5> QED
          BY <5>2, <5>3
      <4> QED
        BY <1>1, <1>5, <4>1, <4>2, <4>3, <4>4 DEF Ahead
    <3>2. n + 1 \in Nat /\ pc' = "receive"
      BY <2>2, <2>7
    <3> QED
      BY <1>4, <1>5, <1>6, <1>8, <2>3, <2>4, <2>5, <3>1, <3>2 DEF Inv6
  <2> QED
    BY <2>6, <2>7
<1> QED
  BY <1>10, <1>11

LEMMA NextInv6 == Inv6 /\ [Lab6Next]_lab6vars => Inv6'
<1> SUFFICES ASSUME Inv6, [Lab6Next]_lab6vars PROVE Inv6'
  OBVIOUS
<1>1. CASE Lab6ParseLine
  BY <1>1, Parse6
<1>2. CASE Lab6Reading
  BY <1>2, Reading6
<1>3. CASE MissingFile
  BY <1>3, SameCounted DEF MissingFile, Inv6, MapLeft
<1>4. CASE Lab6Free
  <2>1. /\ sensors' = <<>> /\ pc' = "freed"
        /\ UNCHANGED <<file, dataMap, dataFile, reading, given>>
    BY <1>4 DEF Lab6Free, DplFree
  <2>2. sensors' \in Seq(AnySensor) /\ Ascending(sensors')
    BY <2>1, EmptySeq DEF Ascending
  <2> QED
    BY <2>1, <2>2, SameCounted DEF Inv6, MapLeft
<1>5. CASE UNCHANGED lab6vars
  <2>1. UNCHANGED <<pc, file, dataMap, sensors, recorded, dataFile, reading, given>>
    BY <1>5 DEF lab6vars, vars
  <2>2. \A x : Find(x)' = Find(x)
    BY <2>1 DEF Find, SelectInSeq
  <2>3. /\ Given' /\ Whole' = Whole /\ Counted' = Counted /\ MapLeft'
        /\ \A n : Before(n)' = Before(n)
    BY <2>1, SameCounted DEF Inv6, MapLeft
  <2>4. ASSUME Serves PROVE Serves'
    <3>1. \A i : Heard(i)' <=> Heard(i)
      BY <2>1, <2>2 DEF Heard
    <3>2. \A x : Avg(x)' = Avg(x) /\ LastModified(x)' = LastModified(x)
      BY <2>1, <2>2 DEF Avg, LastModified
    <3> QED
      BY <2>1, <2>2, <2>4, <3>1, <3>2 DEF Serves, Serving, Followed
  <2>5. ASSUME NEW n, Turned(n) PROVE Turned(n)'
    <3>1. ASSUME NEW k \in 1 .. n PROVE Find(Counted[k].id)' # 0
      <4>1. PICK id : id = Counted[k].id
        OBVIOUS
      <4>2. Find(id) # 0 /\ Find(id)' = Find(id)
        BY <2>2, <2>5, <4>1 DEF Turned
      <4> QED
        BY <2>3, <4>1, <4>2
    <3>2. \A id \in Ids : recorded'[id] = UpTo(Counted, id)[n]
      BY <2>1, <2>5 DEF Turned
    <3> QED
      BY <2>3, <3>1, <3>2 DEF Turned
  <2>6. ASSUME NEW n \in Nat, Ahead(n) PROVE Ahead(n)'
    BY <2>1, <2>3, <2>6 DEF Ahead
  <2>7. pc' = "parse" => Parsing' /\ dataFile' = given'.file /\ reading' = given'.before
    BY <2>1 DEF Inv6, Parsing
  <2>8. pc' = "exited" => (Find(reading.id) = 0)'
    <3>1. PICK id : id = reading.id
      OBVIOUS
    <3>2. Find(id)' = Find(id)
      BY <2>2
    <3> QED
      BY <2>1, <3>1, <3>2 DEF Inv6
  <2>9. pc' = "receive" => (\E n \in Nat : Ahead(n) /\ Turned(n))'
    BY <2>1, <2>5, <2>6 DEF Inv6
  <2>10. pc' = "done" => Turned(Len(Counted))'
    <3>1. PICK n : n = Len(Counted)
      OBVIOUS
    <3>2. pc' = "done" => Turned(n)'
      BY <2>1, <2>5, <3>1 DEF Inv6
    <3> QED
      BY <2>3, <3>1, <3>2
  <2>11. sensors' \in Seq(AnySensor) /\ Ascending(sensors')
         /\ reading' \in Reading /\ dataFile' \in Seq(Fields)
         /\ pc' \in {"parse", "receive", "done", "freed", "exited"}
    BY <2>1 DEF Inv6
  <2>12. pc' \in {"receive", "done"} => Serves'
    BY <2>1, <2>4 DEF Inv6
  <2> QED
    BY <2>3, <2>7, <2>8, <2>9, <2>10, <2>11, <2>12 DEF Inv6
<1> QED
  BY <1>1, <1>2, <1>3, <1>4, <1>5 DEF Lab6Next, Lab6Finished

(* What the run checks follows.                                            *)
LEMMA Inv6Averages ==
  Inv6 => Lab6TypeOK /\ RoomsAscend /\ LastCountedTwice /\ ExitsOnUnknown
<1> SUFFICES ASSUME Inv6
             PROVE  Lab6TypeOK /\ RoomsAscend /\ LastCountedTwice /\ ExitsOnUnknown
  OBVIOUS
<1>1. \A id : GetDataFromList(id) = Find(id)
  BY DEF GetDataFromList, Find
<1>2. DOMAIN sensors = 1 .. Len(sensors) /\ sensors \in Seq(AnySensor)
  BY LenProperties DEF Inv6
<1>3. Lab6TypeOK
  <2>1. AnySensor \subseteq Sensor
    BY TotalIsInt DEF AnySensor, Sensor, Windows
  <2>2. sensors \in Seq(Sensor)
    BY <1>2, <2>1, SeqMonotonic
  <2> QED
    BY <2>2 DEF Inv6, Lab6TypeOK, Reading, Fields
<1>4. RoomsAscend
  BY <1>2 DEF Inv6, RoomsAscend, Ascending
<1>5. LastCountedTwice
  <2> SUFFICES ASSUME pc = "done", NEW id \in Ids, CountedFor(id) # <<>>
               PROVE  /\ Lab6LastModified(id) = Last(CountedFor(id)).ts
                      /\ Lab6Avg(id) = Total(Recent(CountedFor(id)))
    BY DEF LastCountedTwice
  <2>1. recorded[id] = CountedFor(id)
    BY CountedForAll DEF Inv6, Turned
  <2>2. Followed
    BY DEF Inv6, Serves
  <2> QED
    BY <1>1, <2>1, <2>2
       DEF Followed, Avg, LastModified, Lab6Avg, Lab6LastModified
<1>6. ExitsOnUnknown
  <2>1. ASSUME pc = "done", NEW k \in DOMAIN Counted
        PROVE  GetDataFromList(Counted[k].id) # 0
    <3>1. k \in 1 .. Len(Counted)
      <4>1. Counted \in Seq(Reading)
        BY TurnsOfFile DEF Inv6
      <4> QED
        BY <4>1, LenProperties
    <3> QED
      BY <1>1, <2>1, <3>1 DEF Inv6, Turned
  <2>2. pc = "exited" => GetDataFromList(reading.id) = 0
    BY <1>1 DEF Inv6
  <2> QED
    BY <2>1, <2>2 DEF ExitsOnUnknown
<1> QED
  BY <1>3, <1>4, <1>5, <1>6

(* Whatever is in the map and the data file and wherever they are cut off, *)
(* the loop of lab 6 exits at the first reading of a sensor that is not in *)
(* the list, or ends with the averages and times of the readings in the    *)
(* file, the last of which it counts twice or mixes with what is cut off   *)
(* (lab_6/datamgr.c:53).                                                   *)
THEOREM LoopCountsLastTwice ==
  ASSUME FieldsInPlace
  PROVE  Lab6Spec => [](Lab6TypeOK /\ RoomsAscend /\ LastCountedTwice /\ ExitsOnUnknown)
<1>1. Lab6Init => Inv6
  BY InitInv6
<1> QED
  BY <1>1, NextInv6, Inv6Averages, PTL DEF Lab6Spec
===============================================================================
