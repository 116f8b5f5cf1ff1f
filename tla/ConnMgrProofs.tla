---------------------------- MODULE ConnMgrProofs -----------------------------
(***************************************************************************)
(* Proofs about ConnMgr for any number of nodes and of measurements.       *)
(*                                                                         *)
(* IInv holds in every round.  Its parts: the list begins with the server  *)
(* and goes on with connections that are open, each of them once; no close *)
(* of a round takes the server off it; and the entries that were polled    *)
(* are still there.  CInv adds what holds as long as the rounds are calm:  *)
(* what poll reported is still true of the descriptors the scan has yet to *)
(* look at, and fds is the list, but for a gap that the one close of the   *)
(* round leaves for compress.                                              *)
(*                                                                         *)
(* Then the same for the connection manager of lab 8, which has the nodes, *)
(* poll and compress in common with it.                                    *)
(***************************************************************************)
EXTENDS Lab8, SequenceTheorems, WellFoundedInduction, TLAPS

Fds == Sensors \cup {SERVER, REMOVE_FD}
Event3 == {None, "in", "other"}
InRound == pc \in {"scan", "readnew", "read"}
Running == pc = "poll" \/ InRound
Once(q) == \A i, j \in 1 .. Len(q) : q[i] = q[j] => i = j

Fields == /\ taken \in [Sensors -> Nat]
          /\ \A s \in Sensors : taken[s] = 3 * buffered[s]
Connections ==
  /\ \A s \in Sensors : peer[s] = "off" => side[s] = "none"
  /\ \A i \in 1 .. Len(backlog) : side[backlog[i]] = "backlog"
  /\ Once(backlog)
  /\ Running => /\ Once(list)
                /\ \A i \in 2 .. Len(list) : /\ list[i] \in Sensors
                                             /\ side[list[i]] = "accepted"
Places == Running => /\ 1 <= Len(list) /\ Len(list) <= Len(fds)
                     /\ list[1] = SERVER /\ fds[1] = SERVER
Round ==
  InRound => /\ 1 <= Len(events) /\ Len(events) <= Len(fds)
             /\ events[1] # "other"
             /\ index = 1 => Len(list) = Len(events) /\ events[1] = "in"
             /\ index > 1 => Len(events) + 2 <= Len(list) + index
Scan == pc = "scan" /\ index = 1 => backlog # <<>>
Read == Reading => /\ index <= Len(events) /\ events[index] = "in"
                   /\ cur \in Sensors
                   /\ pc = "readnew" <=> index = 1
New == pc = "readnew" => /\ side[cur] = "accepted" /\ Len(fds) = Len(events) + 1
                         /\ \A i \in 1 .. Len(list) : list[i] # cur

IInv == /\ TypeOK /\ Fields /\ Connections /\ Places /\ Round /\ Scan /\ Read /\ New

-------------------------------------------------------------------------------
Begun(s) == sent[s] > taken[s] \/ peer[s] = "closed"
Pending == \A i \in 2 .. Len(events) :
             i >= index => /\ events[i] = "in" => Begun(fds[i])
                           /\ events[i] = "other" => peer[fds[i]] = "closed"
InStep == \A i \in 1 .. Len(list) : fds[i] = list[i]
Kept == /\ InStep
        /\ \/ Len(list) = Len(events)
           \/ Len(list) = Len(events) + 1 /\ events[1] = "in"
GapAt(r) == /\ fds[r] = REMOVE_FD
            /\ \A i \in 1 .. r - 1 : fds[i] = list[i]
            /\ \A i \in r .. Len(list) : fds[i + 1] = list[i]
Gap == /\ pc = "scan" /\ index = Len(events) + 1 /\ Len(events) = Len(list) + 1
       /\ \E r \in 2 .. Len(events) : GapAt(r)

CalmRound == /\ Calm(events) /\ Pending /\ (Kept \/ Gap)
             /\ pc = "read" => cur = list[index]
             /\ pc = "readnew" => fds[Len(events) + 1] = cur

CInv == calm => /\ pc # "overflow"
                /\ pc = "poll" => InStep
                /\ InRound => CalmRound
-------------------------------------------------------------------------------
LEMMA LeastIndex ==
  ASSUME NEW I, I \subseteq Nat, I # {}
  PROVE  \E m \in I : \A k \in I : m <= k
<1>1. IsWellFoundedOn({p \in Nat \X Nat : p[1] < p[2]}, Nat)
  BY NatLessThanWellFounded, Zenon DEF OpToRel
<1>2. PICK m \in I : \A k \in I : ~(<<k, m>> \in {p \in Nat \X Nat : p[1] < p[2]})
  BY <1>1, WFMin, Zenon
<1>3. ASSUME NEW k \in I PROVE m <= k
  <2>1. m \in Nat /\ k \in Nat
    OBVIOUS
  <2>2. ~(k < m)
    BY <1>2, <2>1
  <2> QED
    BY <2>1, <2>2
<1> QED
  BY <1>3

(* The scan goes on behind i and stops at the first event, or behind the   *)
(* last entry.                                                             *)
LEMMA NextEventBehind ==
  ASSUME NEW ev \in Seq(Event3), NEW i \in 0 .. Len(ev)
  PROVE  /\ NextEvent(ev, i) \in i + 1 .. Len(ev) + 1
         /\ NextEvent(ev, i) <= Len(ev) => ev[NextEvent(ev, i)] # None
         /\ \A k \in i + 1 .. NextEvent(ev, i) - 1 : ev[k] = None
<1> DEFINE Stop(j) == j <= Len(ev) => ev[j] # None
           I == {j \in i + 1 .. Len(ev) + 1 : Stop(j)}
           IsNext(j) == Stop(j) /\ \A k \in i + 1 .. j - 1 : ev[k] = None
<1>1. Len(ev) \in Nat
  BY LenProperties
<1>2. I \subseteq Nat /\ Len(ev) + 1 \in I
  BY <1>1
<1> HIDE DEF I
<1>3. PICK m \in I : \A k \in I : m <= k
  BY <1>2, LeastIndex
<1>4. m \in i + 1 .. Len(ev) + 1 /\ Stop(m)
  BY <1>3 DEF I
<1>5. ASSUME NEW k \in i + 1 .. m - 1 PROVE ev[k] = None
  <2>1. k \in i + 1 .. Len(ev) + 1 /\ ~(m <= k) /\ k <= Len(ev)
    BY <1>1, <1>4
  <2>2. k \notin I
    BY <1>3, <2>1
  <2> QED
    BY <2>1, <2>2 DEF I
<1>6. \E j \in i + 1 .. Len(ev) + 1 : IsNext(j)
  BY <1>4, <1>5
<1>7. NextEvent(ev, i) = CHOOSE j \in i + 1 .. Len(ev) + 1 : IsNext(j)
  BY DEF NextEvent
<1> HIDE DEF IsNext
<1>8. NextEvent(ev, i) \in i + 1 .. Len(ev) + 1 /\ IsNext(NextEvent(ev, i))
  BY <1>6, <1>7
<1> QED
  BY <1>8 DEF IsNext

(* A list without one of its elements.                                     *)
Conns == Sensors \cup {SERVER}
Shorter(q, i, t) == /\ t \in Seq(Conns) /\ Len(t) = Len(q) - 1
                    /\ \A k \in 1 .. Len(q) - 1 : t[k] = IF k < i THEN q[k] ELSE q[k + 1]

LEMMA WithoutIsShorter ==
  ASSUME NEW q \in Seq(Conns), NEW i \in 1 .. Len(q)
  PROVE  Shorter(q, i, Without(q, i))
<1> DEFINE a == SubSeq(q, 1, i - 1)
           b == SubSeq(q, i + 1, Len(q))
<1>1. Len(q) \in Nat /\ \A k \in 1 .. Len(q) : q[k] \in Conns
  BY LenProperties, ElementOfSeq
<1>2. /\ a \in Seq(Conns) /\ Len(a) = i - 1 /\ \A k \in 1 .. i - 1 : a[k] = q[k]
      /\ b \in Seq(Conns) /\ Len(b) = Len(q) - i
      /\ \A k \in 1 .. Len(q) - i : b[k] = q[i + k]
  BY <1>1, SubSeqProperties
<1> HIDE DEF a, b
<1>3. /\ a \o b \in Seq(Conns) /\ Len(a \o b) = Len(a) + Len(b)
      /\ \A k \in 1 .. Len(a) + Len(b) :
           (a \o b)[k] = IF k <= Len(a) THEN a[k] ELSE b[k - Len(a)]
  BY <1>2, ConcatProperties
<1>4. Without(q, i) = a \o b
  BY DEF Without, a, b
<1> HIDE DEF Without
<1>5. ASSUME NEW k \in 1 .. Len(q) - 1
      PROVE  (a \o b)[k] = IF k < i THEN q[k] ELSE q[k + 1]
  <2>1. CASE k < i
    BY <1>1, <1>2, <1>3, <2>1
  <2>2. CASE ~(k < i)
    <3>1. (a \o b)[k] = b[k - (i - 1)]
      BY <1>1, <1>2, <1>3, <2>2
    <3>2. k - (i - 1) \in 1 .. Len(q) - i /\ i + (k - (i - 1)) = k + 1
      BY <1>1, <2>2
    <3> QED
      BY <1>2, <2>2, <3>1, <3>2
  <2> QED
    BY <2>1, <2>2
<1>6. Len(a \o b) = Len(q) - 1
  BY <1>1, <1>2, <1>3
<1> QED
  BY <1>3, <1>4, <1>5, <1>6 DEF Shorter

(* One removed entry is taken from its place i and put at the place old,   *)
(* which the ones in between make room for.                                *)
Shifted(q, i, old, t) ==
  /\ t \in Seq(Fds) /\ Len(t) = Len(q)
  /\ \A k \in 1 .. Len(q) : t[k] = IF k < i \/ k > old THEN q[k]
                                   ELSE IF k < old THEN q[k + 1] ELSE REMOVE_FD

Joined(a, b, t) ==
  /\ t \in Seq(Fds) /\ Len(t) = Len(a) + Len(b)
  /\ \A k \in 1 .. Len(a) + Len(b) : t[k] = IF k <= Len(a) THEN a[k] ELSE b[k - Len(a)]

LEMMA ConcatJoins ==
  ASSUME NEW a \in Seq(Fds), NEW b \in Seq(Fds)
  PROVE  Joined(a, b, a \o b)
BY ConcatProperties DEF Joined

LEMMA ShiftMoves ==
  ASSUME NEW q \in Seq(Fds), NEW old \in 1 .. Len(q), NEW i \in 1 .. old, q[i] = REMOVE_FD
  PROVE  Shifted(q, i, old, Shift(q, i, old))
<1> DEFINE a == SubSeq(q, 1, i - 1)
           b == SubSeq(q, i + 1, old)
           c == <<REMOVE_FD>>
           d == SubSeq(q, old + 1, Len(q))
           ab == a \o b
           abc == ab \o c
           abcd == abc \o d
<1>1. Len(q) \in Nat /\ \A k \in 1 .. Len(q) : q[k] \in Fds
  BY LenProperties, ElementOfSeq
<1>2. a \in Seq(Fds) /\ Len(a) = i - 1 /\ \A k \in 1 .. i - 1 : a[k] = q[k]
  BY <1>1, SubSeqProperties
<1>3. b \in Seq(Fds) /\ Len(b) = old - i /\ \A k \in 1 .. old - i : b[k] = q[i + k]
  BY <1>1, SubSeqProperties
<1>4. /\ d \in Seq(Fds) /\ Len(d) = Len(q) - old
      /\ \A k \in 1 .. Len(q) - old : d[k] = q[old + k]
  BY <1>1, SubSeqProperties
<1>5. c \in Seq(Fds) /\ Len(c) = 1 /\ c[1] = REMOVE_FD
  BY DEF Fds
<1>6. Shift(q, i, old) = abcd
  BY DEF Shift
<1> HIDE DEF a, b, c, d
<1>7. Joined(a, b, ab)
  BY <1>2, <1>3, ConcatJoins
<1> HIDE DEF ab
<1>8. /\ ab \in Seq(Fds) /\ Len(ab) = old - 1
      /\ \A k \in 1 .. old - 1 : ab[k] = IF k < i THEN q[k] ELSE q[k + 1]
  <2>1. ab \in Seq(Fds) /\ Len(ab) = old - 1
    BY <1>1, <1>2, <1>3, <1>7 DEF Joined
  <2>2. ASSUME NEW k \in 1 .. old - 1 PROVE ab[k] = IF k < i THEN q[k] ELSE q[k + 1]
    <3>1. CASE k < i
      BY <1>1, <1>2, <1>3, <1>7, <3>1 DEF Joined
    <3>2. CASE ~(k < i)
      <4>1. k \in 1 .. Len(a) + Len(b) /\ ~(k <= Len(a))
        BY <1>1, <1>2, <1>3, <3>2
      <4>2. ab[k] = b[k - Len(a)]
        BY <1>7, <4>1 DEF Joined
      <4>3. k - Len(a) \in 1 .. old - i /\ i + (k - Len(a)) = k + 1
        BY <1>1, <1>2, <3>2
      <4> QED
        BY <1>3, <3>2, <4>2, <4>3
    <3> QED
      BY <3>1, <3>2
  <2> QED
    BY <2>1, <2>2
<1>9. Joined(ab, c, abc)
  BY <1>5, <1>8, ConcatJoins
<1> HIDE DEF abc
<1>10. /\ abc \in Seq(Fds) /\ Len(abc) = old
       /\ \A k \in 1 .. old - 1 : abc[k] = ab[k]
       /\ abc[old] = REMOVE_FD
  <2>1. abc \in Seq(Fds) /\ Len(abc) = old
    BY <1>1, <1>5, <1>8, <1>9 DEF Joined
  <2>2. \A k \in 1 .. old - 1 : abc[k] = ab[k]
    BY <1>1, <1>5, <1>8, <1>9 DEF Joined
  <2>3. old \in 1 .. Len(ab) + Len(c) /\ ~(old <= Len(ab)) /\ old - Len(ab) = 1
    BY <1>1, <1>5, <1>8
  <2>4. abc[old] = c[old - Len(ab)]
    BY <1>9, <2>3 DEF Joined
  <2> QED
    BY <1>5, <2>1, <2>2, <2>3, <2>4
<1>11. Joined(abc, d, abcd)
  BY <1>4, <1>10, ConcatJoins
<1> HIDE DEF abcd
<1>12. abcd \in Seq(Fds) /\ Len(abcd) = Len(q)
  BY <1>1, <1>4, <1>10, <1>11 DEF Joined
<1>13. ASSUME NEW k \in 1 .. Len(q)
       PROVE  abcd[k] = IF k < i \/ k > old THEN q[k]
                        ELSE IF k < old THEN q[k + 1] ELSE REMOVE_FD
  <2>1. CASE k <= old
    <3>1. k \in 1 .. Len(abc) + Len(d) /\ k <= Len(abc)
      BY <1>1, <1>4, <1>10, <2>1
    <3>2. abcd[k] = abc[k]
      BY <1>11, <3>1 DEF Joined
    <3>3. k < old => k \in 1 .. old - 1
      BY <1>1
    <3> QED
      BY <1>1, <1>8, <1>10, <2>1, <3>2, <3>3
  <2>2. CASE ~(k <= old)
    <3>1. k \in 1 .. Len(abc) + Len(d) /\ ~(k <= Len(abc))
      BY <1>1, <1>4, <1>10, <2>2
    <3>2. abcd[k] = d[k - Len(abc)]
      BY <1>11, <3>1 DEF Joined
    <3>3. k - Len(abc) \in 1 .. Len(q) - old /\ old + (k - Len(abc)) = k
      BY <1>1, <1>10, <2>2
    <3> QED
      BY SMTT(30), <1>1, <1>4, <2>2, <3>2, <3>3
  <2> QED
    BY <2>1, <2>2
<1> QED
  BY <1>6, <1>12, <1>13 DEF Shifted

(* The pass is a function defined by recursion over the places it has come *)
(* to: that there is one, and what each of its values is, is shown from    *)
(* the least place where it would not hold.                                *)
PassStep(q, old, f, n) == [i \in 0 .. n |-> IF i = 0 THEN q ELSE Shift(f[i - 1], i, old)]

LEMMA PassExists ==
  ASSUME NEW q, NEW old \in Nat
  PROVE  \E f : f = PassStep(q, old, f, old)
<1> DEFINE Passed(n) == \E f : f = PassStep(q, old, f, n)
           Bad == {n \in 0 .. old : ~Passed(n)}
<1>1. Passed(0)
  <2>1. [i \in 0 .. 0 |-> q] = PassStep(q, old, [i \in 0 .. 0 |-> q], 0)
    BY DEF PassStep
  <2> QED
    BY <2>1
<1>2. ASSUME NEW n \in 1 .. old, Passed(n - 1) PROVE Passed(n)
  <2>1. PICK f : f = PassStep(q, old, f, n - 1)
    BY <1>2
  <2> DEFINE g == [k \in 0 .. n |-> IF k < n THEN f[k] ELSE Shift(f[n - 1], n, old)]
  <2>2. ASSUME NEW k \in 0 .. n
        PROVE  g[k] = IF k = 0 THEN q ELSE Shift(g[k - 1], k, old)
    <3>1. CASE k < n
      <4>1. k \in 0 .. n - 1 /\ (k # 0 => k - 1 \in 0 .. n - 1)
        BY <3>1
      <4>2. f[k] = IF k = 0 THEN q ELSE Shift(f[k - 1], k, old)
        BY <2>1, <4>1 DEF PassStep
      <4>3. g[k] = f[k] /\ (k # 0 => g[k - 1] = f[k - 1])
        BY <3>1, <4>1
      <4> QED
        BY <4>2, <4>3
    <3>2. CASE k = n
      <4>1. n - 1 \in 0 .. n /\ n - 1 < n /\ n # 0 /\ ~(n < n)
        OBVIOUS
      <4> QED
        BY <3>2, <4>1
    <3> QED
      BY <3>1, <3>2
  <2>3. g = PassStep(q, old, g, n)
    BY <2>2 DEF PassStep
  <2> HIDE DEF g
  <2> QED
    BY <2>3
<1> HIDE DEF Passed
<1>3. Bad = {}
  <2> SUFFICES ASSUME Bad # {} PROVE FALSE
    OBVIOUS
  <2>1. Bad \subseteq Nat
    OBVIOUS
  <2>2. PICK n \in Bad : \A k \in Bad : n <= k
    <3> HIDE DEF Bad
    <3> QED
      BY <2>1, LeastIndex
  <2>3. n \in 1 .. old /\ n - 1 \in 0 .. old /\ ~(n <= n - 1)
    BY <1>1, <2>2
  <2>4. Passed(n - 1)
    BY <2>2, <2>3
  <2> QED
    BY <1>2, <2>2, <2>3, <2>4
<1> QED
  BY <1>3 DEF Passed

LEMMA PassValues ==
  ASSUME NEW q, NEW old \in Nat
  PROVE  \E f : /\ f[0] = q /\ f[old] = CompressPass(q, old)
                /\ \A i \in 1 .. old : f[i] = Shift(f[i - 1], i, old)
<1> DEFINE f == CHOOSE f : f = PassStep(q, old, f, old)
<1>1. f = PassStep(q, old, f, old)
  BY PassExists
<1>2. CompressPass(q, old) = f[old]
  BY DEF CompressPass, PassStep
<1> HIDE DEF f
<1>3. f[0] = q /\ \A i \in 1 .. old : f[i] = Shift(f[i - 1], i, old)
  BY <1>1 DEF PassStep
<1> QED
  BY <1>2, <1>3

(* A pass keeps the number of entries and the server in front of them.     *)
SameShape(q, t) == /\ t \in Seq(Fds) /\ Len(t) = Len(q)
                   /\ q[1] = SERVER => t[1] = SERVER

LEMMA CompressKeepsShape ==
  ASSUME NEW q \in Seq(Fds), NEW old \in 0 .. Len(q)
  PROVE  SameShape(q, CompressPass(q, old))
<1>1. Len(q) \in Nat /\ old \in Nat
  BY LenProperties
<1>2. PICK f : /\ f[0] = q /\ f[old] = CompressPass(q, old)
               /\ \A i \in 1 .. old : f[i] = Shift(f[i - 1], i, old)
  BY <1>1, PassValues
<1> DEFINE Bad == {i \in 0 .. old : ~SameShape(q, f[i])}
<1>3. ASSUME NEW i \in 1 .. old, SameShape(q, f[i - 1]) PROVE SameShape(q, f[i])
  <2> DEFINE p == f[i - 1]
  <2>1. f[i] = Shift(p, i, old) /\ SameShape(q, p)
    BY <1>2, <1>3
  <2> HIDE DEF p
  <2>2. CASE p[i] # REMOVE_FD
    BY <2>1, <2>2 DEF Shift
  <2>3. CASE p[i] = REMOVE_FD
    <3>1. p \in Seq(Fds) /\ Len(p) = Len(q) /\ old \in 1 .. Len(p)
      BY <1>1, <2>1 DEF SameShape
    <3>2. Shifted(p, i, old, f[i])
      BY <2>1, <2>3, <3>1, ShiftMoves
    <3>3. q[1] = SERVER => f[i][1] = SERVER
      <4>1. CASE i = 1
        BY <2>1, <2>3, <4>1 DEF SameShape, SERVER, REMOVE_FD
      <4>2. CASE i # 1
        <5>1. 1 \in 1 .. Len(p) /\ 1 < i
          BY <1>1, <3>1, <4>2
        <5> QED
          BY <2>1, <3>2, <5>1 DEF SameShape, Shifted
      <4> QED
        BY <4>1, <4>2
    <3> QED
      BY <3>1, <3>2, <3>3 DEF SameShape, Shifted
  <2> QED
    BY <2>2, <2>3
<1>4. Bad = {}
  <2> SUFFICES ASSUME Bad # {} PROVE FALSE
    OBVIOUS
  <2>1. Bad \subseteq Nat
    OBVIOUS
  <2>2. PICK n \in Bad : \A k \in Bad : n <= k
    <3> HIDE DEF Bad
    <3> QED
      BY <2>1, LeastIndex
  <2>3. n # 0
    BY <1>2, <2>2 DEF SameShape
  <2>4. n \in 1 .. old /\ n - 1 \in 0 .. old /\ ~(n <= n - 1)
    BY <2>2, <2>3
  <2> QED
    BY <1>3, <2>2, <2>4
<1> QED
  BY <1>1, <1>2, <1>4

(* With nothing removed it changes nothing; one removed entry r goes to    *)
(* the end of the polled ones, and stays there when the pass comes to it.  *)
LEMMA CompressOne ==
  ASSUME NEW q \in Seq(Fds), NEW old \in 0 .. Len(q), NEW r \in 1 .. old + 1,
         \A i \in 1 .. old : i # r => q[i] # REMOVE_FD,
         r <= old => q[r] = REMOVE_FD
  PROVE  /\ r = old + 1 => CompressPass(q, old) = q
         /\ r <= old => Shifted(q, r, old, CompressPass(q, old))
<1>1. Len(q) \in Nat /\ old \in Nat
  BY LenProperties
<1>2. PICK f : /\ f[0] = q /\ f[old] = CompressPass(q, old)
               /\ \A i \in 1 .. old : f[i] = Shift(f[i - 1], i, old)
  BY <1>1, PassValues
<1> DEFINE Good(i) == /\ i < r => f[i] = q
                      /\ i >= r => Shifted(q, r, old, f[i])
           Bad == {i \in 0 .. old : ~Good(i)}
<1>3. ASSUME NEW i \in 1 .. old, Good(i - 1) PROVE Good(i)
  <2>1. f[i] = Shift(f[i - 1], i, old)
    BY <1>2
  <2>2. CASE i < r
    <3>1. f[i - 1] = q /\ q[i] # REMOVE_FD
      BY <1>1, <1>3, <2>2
    <3>2. f[i] = q
      BY <2>1, <3>1 DEF Shift
    <3> QED
      BY <2>2, <3>2
  <2>3. CASE i = r
    <3>1. f[i - 1] = q /\ q[i] = REMOVE_FD /\ old \in 1 .. Len(q)
      BY <1>1, <1>3, <2>3
    <3>2. Shifted(q, r, old, f[i])
      BY <2>1, <2>3, <3>1, ShiftMoves
    <3> QED
      BY <2>3, <3>2
  <2>4. CASE i > r
    <3> DEFINE p == f[i - 1]
    <3>1. Shifted(q, r, old, p) /\ f[i] = Shift(p, i, old)
      BY <1>1, <1>3, <2>1, <2>4
    <3> HIDE DEF p
    <3>2. p \in Seq(Fds) /\ Len(p) = Len(q) /\ old \in 1 .. Len(p)
      BY <1>1, <3>1 DEF Shifted
    <3>3. CASE i < old
      <4>1. i \in 1 .. Len(q) /\ i + 1 \in 1 .. old /\ i + 1 # r /\ ~(i < r) /\ ~(i > old)
        BY <1>1, <2>4, <3>3
      <4>2. p[i] = q[i + 1] /\ q[i + 1] # REMOVE_FD
        BY <3>1, <3>3, <4>1 DEF Shifted
      <4>3. f[i] = p
        BY <3>1, <4>2 DEF Shift
      <4> QED
        BY <2>4, <3>1, <4>3
    <3>4. CASE i = old
      <4>1. old \in 1 .. Len(q) /\ ~(old < r) /\ ~(old > old) /\ ~(old < old)
        BY <1>1, <2>4, <3>4
      <4>2. p[old] = REMOVE_FD
        BY <3>1, <4>1 DEF Shifted
      <4>3. Shifted(p, old, old, f[i])
        BY <3>1, <3>2, <3>4, <4>2, ShiftMoves
      <4>4. \A k \in 1 .. Len(p) : f[i][k] = p[k]
        <5> SUFFICES ASSUME NEW k \in 1 .. Len(p) PROVE f[i][k] = p[k]
          OBVIOUS
        <5>1. k < old \/ k > old \/ k = old
          BY <3>2
        <5> QED
          BY <4>2, <4>3, <5>1 DEF Shifted
      <4>5. f[i] \in Seq(Fds) /\ Len(f[i]) = Len(p)
        BY <4>3 DEF Shifted
      <4>6. f[i] = p
        BY <3>2, <4>4, <4>5, SeqEqual
      <4> QED
        BY <2>4, <3>1, <4>6
    <3> QED
      BY <3>3, <3>4
  <2> QED
    BY <1>1, <2>2, <2>3, <2>4
<1>4. Good(0)
  BY <1>2
<1> HIDE DEF Good
<1>5. Bad = {}
  <2> SUFFICES ASSUME Bad # {} PROVE FALSE
    OBVIOUS
  <2>1. Bad \subseteq Nat
    OBVIOUS
  <2>2. PICK n \in Bad : \A k \in Bad : n <= k
    <3> HIDE DEF Bad
    <3> QED
      BY <2>1, LeastIndex
  <2>3. n \in 1 .. old /\ n - 1 \in 0 .. old /\ ~(n <= n - 1)
    BY <1>4, <2>2
  <2> QED
    BY <1>3, <2>2, <2>3
<1>6. Good(old)
  BY <1>1, <1>5
<1> QED
  BY <1>1, <1>2, <1>6 DEF Good
-------------------------------------------------------------------------------
LEMMA InitHolds == Init => IInv /\ CInv
<1> SUFFICES ASSUME Init PROVE IInv /\ CInv
  OBVIOUS
<1>1. /\ list = <<SERVER>> /\ fds = <<SERVER>> /\ Len(list) = 1 /\ Len(fds) = 1
      /\ list[1] = SERVER /\ fds[1] = SERVER
      /\ backlog = <<>> /\ Len(backlog) = 0 /\ events = <<>> /\ Len(events) = 0
  BY DEF Init
<1>2. TypeOK
  <2>1. /\ backlog \in Seq(Sensors) /\ events \in Seq({None, "in", "other"})
        /\ list \in Seq(Sensors \cup {SERVER}) /\ fds \in Seq(Sensors \cup {SERVER, REMOVE_FD})
    BY <1>1
  <2>2. /\ peer \in [Sensors -> {"off", "open", "closed"}]
        /\ side \in [Sensors -> {"none", "backlog", "accepted", "closed"}]
        /\ sent \in [Sensors -> 0 .. 3 * Measurements]
        /\ \A s \in Sensors : taken[s] \in 0 .. sent[s]
        /\ buffered \in [Sensors -> 0 .. Measurements]
    BY ConnMgrAssumption DEF Init, ConnMgrAssumption
  <2>3. /\ index \in 1 .. Len(events) + 1 /\ pc = "poll" /\ cur \in Sensors \cup {None}
    BY <1>1 DEF Init
  <2> QED
    BY <2>1, <2>2, <2>3 DEF TypeOK
<1>3. Fields /\ (\A s \in Sensors : side[s] = "none") /\ pc = "poll"
  BY DEF Init, Fields
<1>4. Connections
  BY <1>1, <1>3 DEF Connections, Once
<1>5. Places /\ Round /\ Scan /\ Read /\ New
  BY <1>1, <1>3 DEF Places, Round, Scan, Read, New, InRound, Reading
<1>6. CInv
  BY <1>1, <1>3 DEF CInv, InStep, InRound
<1> QED
  BY <1>2, <1>3, <1>4, <1>5, <1>6 DEF IInv

(* The nodes change nothing of the gateway's own.                          *)
Gateway == <<list, fds, events, index, pc, cur, taken, buffered, calm>>

LEMMA ConnectKeeps ==
  ASSUME IInv, NEW s \in Sensors, Connect(s)
  PROVE  IInv'
<1>1. /\ peer[s] = "off" /\ side[s] = "none" /\ UNCHANGED Gateway /\ sent' = sent
      /\ peer' = [peer EXCEPT ![s] = "open"] /\ side' = [side EXCEPT ![s] = "backlog"]
      /\ backlog' = Append(backlog, s)
  BY DEF Connect, Gateway, IInv, Connections
<1>2. /\ backlog \in Seq(Sensors) /\ Len(backlog) \in Nat
      /\ side \in [Sensors -> {"none", "backlog", "accepted", "closed"}]
      /\ peer \in [Sensors -> {"off", "open", "closed"}]
  BY LenProperties DEF IInv, TypeOK
<1>3. /\ backlog' \in Seq(Sensors) /\ Len(backlog') = Len(backlog) + 1
      /\ \A i \in 1 .. Len(backlog) : backlog'[i] = backlog[i]
      /\ backlog'[Len(backlog) + 1] = s
  BY <1>1, <1>2, AppendProperties
<1>4. \A i \in 1 .. Len(backlog) : backlog[i] \in Sensors /\ backlog[i] # s
  BY <1>1, <1>2, ElementOfSeq DEF IInv, Connections
<1>5. TypeOK'
  <2>1. /\ peer' \in [Sensors -> {"off", "open", "closed"}]
        /\ side' \in [Sensors -> {"none", "backlog", "accepted", "closed"}]
    BY <1>1, <1>2
  <2>2. UNCHANGED <<sent, taken, buffered, list, fds, events, index, pc, cur>>
    BY <1>1 DEF Gateway
  <2> QED
    BY <1>3, <2>1, <2>2 DEF IInv, TypeOK
<1>6. Connections'
  <2>1. \A y \in Sensors : peer'[y] = "off" => side'[y] = "none"
    BY <1>1, <1>2 DEF IInv, Connections
  <2>2. ASSUME NEW i \in 1 .. Len(backlog') PROVE side'[backlog'[i]] = "backlog"
    <3>1. CASE i = Len(backlog) + 1
      BY <1>1, <1>2, <1>3, <3>1
    <3>2. CASE i # Len(backlog) + 1
      <4>1. i \in 1 .. Len(backlog)
        BY <1>2, <1>3, <3>2
      <4>2. backlog'[i] = backlog[i] /\ side[backlog[i]] = "backlog"
        BY <1>3, <4>1 DEF IInv, Connections
      <4> QED
        BY <1>1, <1>2, <1>4, <4>1, <4>2
    <3> QED
      BY <3>1, <3>2
  <2>3. ASSUME NEW i \in 1 .. Len(backlog'), NEW j \in 1 .. Len(backlog'),
               backlog'[i] = backlog'[j]
        PROVE  i = j
    <3>1. /\ i = Len(backlog) + 1 \/ i \in 1 .. Len(backlog)
          /\ j = Len(backlog) + 1 \/ j \in 1 .. Len(backlog)
      BY <1>2, <1>3
    <3> QED
      BY <1>3, <1>4, <2>3, <3>1 DEF IInv, Connections, Once
  <2>4. ASSUME Running'
        PROVE  /\ Once(list')
               /\ \A i \in 2 .. Len(list') : list'[i] \in Sensors /\ side'[list'[i]] = "accepted"
    <3>1. Running /\ list' = list
      BY <1>1, <2>4 DEF Gateway, Running, InRound
    <3> QED
      BY <1>1, <1>2, <3>1 DEF IInv, Connections, Once
  <2> QED
    BY <2>1, <2>2, <2>3, <2>4 DEF Connections, Once
<1>7. Fields' /\ Places' /\ Round'
  BY <1>1 DEF IInv, Fields, Places, Round, Running, InRound, Gateway
<1>8. Scan' /\ Read' /\ New'
  <2>1. backlog' # <<>>
    BY <1>2, <1>3, EmptySeq
  <2>2. New'
    BY <1>1, <1>2 DEF IInv, New, Read, Reading, Gateway
  <2> QED
    BY <1>1, <2>1, <2>2 DEF IInv, Scan, Read, Reading, Gateway
<1> QED
  BY <1>5, <1>6, <1>7, <1>8 DEF IInv

LEMMA SendFieldOrLeaveKeeps ==
  ASSUME IInv, NEW s \in Sensors, SendField(s) \/ Leave(s)
  PROVE  IInv'
<1>1. /\ UNCHANGED Gateway /\ UNCHANGED <<backlog, side>>
      /\ peer[s] = "open" /\ peer' \in {peer, [peer EXCEPT ![s] = "closed"]}
      /\ \/ sent' = sent
         \/ sent[s] < 3 * Measurements /\ sent' = [sent EXCEPT ![s] = @ + 1]
  BY DEF SendField, Leave, Gateway
<1>2. /\ peer \in [Sensors -> {"off", "open", "closed"}] /\ Measurements \in Nat
      /\ sent \in [Sensors -> 0 .. 3 * Measurements]
      /\ \A y \in Sensors : taken[y] \in 0 .. sent[y]
  BY ConnMgrAssumption DEF IInv, TypeOK, ConnMgrAssumption
<1>3. TypeOK'
  <2>1. peer' \in [Sensors -> {"off", "open", "closed"}]
    BY <1>1, <1>2
  <2>2. sent' \in [Sensors -> 0 .. 3 * Measurements]
    BY <1>1, <1>2
  <2>3. \A y \in Sensors : taken'[y] \in 0 .. sent'[y]
    BY <1>1, <1>2 DEF Gateway
  <2>4. UNCHANGED <<side, backlog, buffered, list, fds, events, index, pc, cur>>
    BY <1>1 DEF Gateway
  <2> QED
    BY <2>1, <2>2, <2>3, <2>4 DEF IInv, TypeOK
<1>4. Connections'
  <2>1. \A y \in Sensors : peer'[y] = "off" => peer[y] = "off"
    BY <1>1, <1>2
  <2> QED
    BY <1>1, <2>1 DEF IInv, Connections, Running, InRound, Once, Gateway
<1>5. Fields' /\ Places' /\ Round'
  BY <1>1 DEF IInv, Fields, Places, Round, Running, InRound, Gateway
<1>6. Scan' /\ Read' /\ New'
  BY <1>1 DEF IInv, Scan, Read, New, Reading, Gateway
<1> QED
  BY <1>3, <1>4, <1>5, <1>6 DEF IInv

(* What has been sent stays sent, and who has gone stays away.             *)
LEMMA SensorKeepsCalm ==
  ASSUME IInv, CInv, NEW s \in Sensors, SensorStep(s)
  PROVE  CInv'
<1>1. /\ UNCHANGED Gateway
      /\ \A y \in Sensors : Begun(y) => Begun(y)'
      /\ \A y \in Sensors : peer[y] = "closed" => peer'[y] = "closed"
  <2>1. /\ peer \in [Sensors -> {"off", "open", "closed"}] /\ Measurements \in Nat
        /\ sent \in [Sensors -> 0 .. 3 * Measurements]
        /\ \A y \in Sensors : taken[y] \in 0 .. sent[y]
    BY ConnMgrAssumption DEF IInv, TypeOK, ConnMgrAssumption
  <2>2. CASE Connect(s)
    BY <2>1, <2>2 DEF Connect, Gateway, Begun
  <2>3. CASE SendField(s)
    BY <2>1, <2>3 DEF SendField, Gateway, Begun
  <2>4. CASE Leave(s)
    BY <2>1, <2>4 DEF Leave, Gateway, Begun
  <2> QED
    BY <2>2, <2>3, <2>4 DEF SensorStep
<1>2. ASSUME calm, InRound PROVE CalmRound'
  <2>1. CalmRound
    BY <1>2 DEF CInv
  <2>2. Pending'
    <3> SUFFICES ASSUME NEW i \in 2 .. Len(events), i >= index
                 PROVE  /\ events[i] = "in" => Begun(fds[i])'
                        /\ events[i] = "other" => peer'[fds[i]] = "closed"
      BY <1>1 DEF Gateway, Pending
    <3>1. fds[i] \in Sensors
      <4>1. Len(events) \in Nat /\ Len(list) \in Nat
        BY LenProperties DEF IInv, TypeOK
      <4>2. Kept
        BY <2>1, <4>1 DEF CalmRound, Gap
      <4>3. i \in 2 .. Len(list)
        BY <4>1, <4>2 DEF Kept
      <4> QED
        BY <1>2, <4>1, <4>2, <4>3 DEF Kept, InStep, IInv, Connections, Running
    <3> QED
      BY <1>1, <2>1, <3>1 DEF CalmRound, Pending, Gateway
  <2> QED
    BY <1>1, <2>1, <2>2 DEF CalmRound, Kept, InStep, Gap, GapAt, Gateway
<1> QED
  BY <1>1, <1>2 DEF CInv, InRound, InStep, Gateway
-------------------------------------------------------------------------------
(* What the sequences are, and how long.                                   *)
LEMMA Sequences ==
  ASSUME TypeOK
  PROVE  /\ list \in Seq(Conns) /\ fds \in Seq(Fds) /\ events \in Seq(Event3)
         /\ backlog \in Seq(Sensors)
         /\ Len(list) \in Nat /\ Len(fds) \in Nat /\ Len(events) \in Nat
         /\ index \in 1 .. Len(events) + 1
BY LenProperties DEF TypeOK, Conns, Fds, Event3

LEMMA PolledEvents ==
  ASSUME IInv, pc = "poll"
  PROVE  /\ Polled \in Seq(Event3) /\ Len(Polled) = Len(list)
         /\ \A i \in 1 .. Len(list) : Polled[i] = Event(fds[i])
         /\ Polled[1] = IF backlog # <<>> THEN "in" ELSE None
<1>1. Len(list) \in Nat /\ 1 <= Len(list)
  BY Sequences DEF IInv, Places, Running
<1>2. \A x : Event(x) \in Event3
  BY DEF Event, Event3
<1>3. Polled \in Seq(Event3) /\ Len(Polled) = Len(list)
  BY <1>1, <1>2 DEF Polled
<1>4. \A i \in 1 .. Len(list) : Polled[i] = Event(fds[i])
  BY DEF Polled
<1>5. fds[1] = SERVER /\ SERVER # REMOVE_FD
  BY DEF IInv, Places, Running, SERVER, REMOVE_FD
<1>6. Event(SERVER) = IF backlog # <<>> THEN "in" ELSE None
  BY <1>5 DEF Event
<1> QED
  BY <1>1, <1>3, <1>4, <1>5, <1>6

LEMMA PollKeeps ==
  ASSUME IInv, Poll
  PROVE  IInv'
<1>1. /\ pc = "poll" /\ pc' = "scan" /\ events' = Polled /\ index' = NextEvent(Polled, 0)
      /\ UNCHANGED <<peer, sent, backlog, side, list, fds, cur, taken, buffered>>
  BY DEF Poll, net
<1>2. /\ events' \in Seq(Event3) /\ Len(events') = Len(list)
      /\ events'[1] = IF backlog # <<>> THEN "in" ELSE None
  BY <1>1, PolledEvents
<1>3. Len(list) \in Nat /\ 1 <= Len(list) /\ Len(list) <= Len(fds) /\ Len(fds) \in Nat
  BY <1>1, Sequences DEF IInv, Places, Running
<1>4. /\ index' \in 1 .. Len(events') + 1
      /\ index' <= Len(events') => events'[index'] # None
  <2>1. Polled \in Seq(Event3) /\ 0 \in 0 .. Len(Polled)
    BY <1>1, <1>2, <1>3
  <2>2. /\ NextEvent(Polled, 0) \in 0 + 1 .. Len(Polled) + 1
        /\ NextEvent(Polled, 0) <= Len(Polled) => Polled[NextEvent(Polled, 0)] # None
    BY <2>1, NextEventBehind
  <2> QED
    BY <1>1, <2>2
<1>5. TypeOK'
  BY <1>1, <1>2, <1>4 DEF IInv, TypeOK, Event3
<1>6. Fields' /\ Connections' /\ Places'
  BY <1>1 DEF IInv, Fields, Connections, Places, Running, InRound
<1>7. index' = 1 => events'[1] = "in" /\ backlog # <<>>
  BY <1>2, <1>3, <1>4
<1>8. events'[1] # "other"
  BY <1>2 DEF None
<1>9. Round'
  BY <1>1, <1>2, <1>3, <1>4, <1>7, <1>8 DEF Round
<1>10. Scan' /\ Read' /\ New'
  BY <1>1, <1>7 DEF Scan, Read, New, Reading
<1> QED
  BY <1>5, <1>6, <1>9, <1>10 DEF IInv

LEMMA StopKeeps ==
  ASSUME IInv, Timeout \/ ReadAborts
  PROVE  IInv'
<1>1. /\ UNCHANGED <<peer, sent, backlog, side, taken, buffered, cur>>
      /\ pc' \in {"done", "aborted"}
  BY DEF Timeout, ReadAborts, net
<1>2. \/ UNCHANGED <<list, fds, events, index>>
      \/ list' = <<>> /\ fds' = <<>> /\ events' = <<>> /\ index' = 1
  BY DEF Timeout, ReadAborts
<1>3. TypeOK'
  <2>1. CASE UNCHANGED <<list, fds, events, index>>
    BY <1>1, <2>1 DEF IInv, TypeOK
  <2>2. CASE list' = <<>> /\ fds' = <<>> /\ events' = <<>> /\ index' = 1
    <3>1. /\ list' \in Seq(Sensors \cup {SERVER}) /\ events' \in Seq({None, "in", "other"})
          /\ fds' \in Seq(Sensors \cup {SERVER, REMOVE_FD}) /\ Len(events') = 0
      BY <2>2
    <3>2. index' \in 1 .. Len(events') + 1
      BY <2>2, <3>1
    <3> QED
      BY <1>1, <3>1, <3>2 DEF IInv, TypeOK
  <2> QED
    BY <1>2, <2>1, <2>2
<1>4. Fields' /\ Connections'
  BY <1>1 DEF IInv, Fields, Connections, Running, InRound
<1>5. Places' /\ Round' /\ Scan' /\ Read' /\ New'
  BY <1>1 DEF Places, Round, Scan, Read, New, Running, InRound, Reading
<1> QED
  BY <1>3, <1>4, <1>5 DEF IInv

(* A close finds a connection behind the server, in calm rounds or not.    *)
LEMMA Closing ==
  ASSUME IInv, CloseConnection
  PROVE  /\ pc = "scan" /\ pc' = "scan" /\ index \in 2 .. Len(events)
         /\ Clamp(index) \in 2 .. Len(list) /\ ElementAt(index) = list[Clamp(index)]
         /\ ElementAt(index) \in Sensors
         /\ side' = [side EXCEPT ![ElementAt(index)] = "closed"]
         /\ Shorter(list, Clamp(index), list')
         /\ fds' = [fds EXCEPT ![index] = REMOVE_FD]
         /\ fds' \in Seq(Fds) /\ Len(fds') = Len(fds) /\ index <= Len(fds)
         /\ \A i \in 1 .. Len(fds) : fds'[i] = IF i = index THEN REMOVE_FD ELSE fds[i]
         /\ UNCHANGED <<peer, sent, backlog, events, cur, taken, buffered, calm>>
         /\ index' = NextEvent(events, index)
         /\ index' \in index + 1 .. Len(events) + 1
<1>1. /\ pc = "scan" /\ pc' = "scan" /\ index <= Len(events) /\ events[index] = "other"
      /\ fds' = [fds EXCEPT ![index] = REMOVE_FD]
      /\ side' = [side EXCEPT ![ElementAt(index)] = "closed"]
      /\ list' = Without(list, Clamp(index))
      /\ index' = NextEvent(events, index)
      /\ UNCHANGED <<peer, sent, backlog, events, cur, taken, buffered, calm>>
  BY DEF CloseConnection, Scanning, net
<1>2. /\ list \in Seq(Conns) /\ fds \in Seq(Fds) /\ events \in Seq(Event3)
      /\ Len(list) \in Nat /\ Len(fds) \in Nat /\ Len(events) \in Nat
      /\ index \in 1 .. Len(events) + 1
  BY Sequences DEF IInv
<1>3. /\ events[1] # "other" /\ Len(events) <= Len(fds)
      /\ index > 1 => Len(events) + 2 <= Len(list) + index
  BY <1>1 DEF IInv, Round, InRound
<1>4. index # 1
  BY <1>1, <1>3
<1>5. index \in 2 .. Len(events) /\ 2 <= Len(list) /\ index \in 1 .. Len(fds)
  BY <1>1, <1>2, <1>3, <1>4
<1>6. Clamp(index) \in 2 .. Len(list)
  BY <1>2, <1>5 DEF Clamp
<1>7. ElementAt(index) = list[Clamp(index)] /\ ElementAt(index) \in Sensors
  BY <1>1, <1>6 DEF ElementAt, IInv, Connections, Running, InRound
<1>8. Shorter(list, Clamp(index), list')
  BY <1>1, <1>2, <1>6, WithoutIsShorter
<1>9. /\ fds' \in Seq(Fds) /\ Len(fds') = Len(fds)
      /\ \A i \in 1 .. Len(fds) : fds'[i] = IF i = index THEN REMOVE_FD ELSE fds[i]
  <2>1. REMOVE_FD \in Fds
    BY DEF Fds
  <2> QED
    BY <1>1, <1>2, <1>5, <2>1, ExceptSeq
<1>10. index' \in index + 1 .. Len(events) + 1
  <2>1. index \in 0 .. Len(events)
    BY <1>5
  <2> QED
    BY <1>1, <1>2, <2>1, NextEventBehind
<1> QED
  BY <1>1, <1>5, <1>6, <1>7, <1>8, <1>9, <1>10

LEMMA CloseKeeps ==
  ASSUME IInv, CloseConnection
  PROVE  IInv'
<1> DEFINE c == Clamp(index)
           s == ElementAt(index)
<1>1. /\ pc = "scan" /\ pc' = "scan" /\ index \in 2 .. Len(events)
      /\ c \in 2 .. Len(list) /\ s = list[c] /\ s \in Sensors
      /\ side' = [side EXCEPT ![s] = "closed"]
      /\ Shorter(list, c, list')
      /\ fds' \in Seq(Fds) /\ Len(fds') = Len(fds)
      /\ \A i \in 1 .. Len(fds) : fds'[i] = IF i = index THEN REMOVE_FD ELSE fds[i]
      /\ UNCHANGED <<peer, sent, backlog, events, cur, taken, buffered, calm>>
      /\ index' \in index + 1 .. Len(events) + 1
  BY Closing
<1> HIDE DEF c, s
<1>2. /\ Len(list) \in Nat /\ Len(fds) \in Nat /\ Len(events) \in Nat
      /\ side \in [Sensors -> {"none", "backlog", "accepted", "closed"}]
      /\ index \in 1 .. Len(events) + 1 /\ backlog \in Seq(Sensors)
  BY Sequences DEF IInv, TypeOK
<1>3. /\ list' \in Seq(Conns) /\ Len(list') = Len(list) - 1
      /\ \A k \in 1 .. Len(list) - 1 : list'[k] = IF k < c THEN list[k] ELSE list[k + 1]
  BY <1>1 DEF Shorter
<1>4. /\ \A i \in 2 .. Len(list) : list[i] \in Sensors /\ side[list[i]] = "accepted"
      /\ Once(list) /\ list[1] = SERVER /\ fds[1] = SERVER /\ Len(list) <= Len(fds)
      /\ Len(events) <= Len(fds) /\ events[1] # "other" /\ 1 <= Len(events)
      /\ Len(events) + 2 <= Len(list) + index
  BY <1>1 DEF IInv, Connections, Places, Round, Running, InRound
<1>5. TypeOK'
  <2>1. side' \in [Sensors -> {"none", "backlog", "accepted", "closed"}]
    BY <1>1, <1>2
  <2>2. index' \in 1 .. Len(events') + 1
    BY <1>1, <1>2
  <2> QED
    BY <1>1, <1>3, <2>1, <2>2 DEF IInv, TypeOK, Conns, Fds
<1>6. ASSUME NEW i \in 1 .. Len(list')
      PROVE  \E k \in 1 .. Len(list) : /\ list'[i] = list[k] /\ k # c
                                       /\ k = IF i < c THEN i ELSE i + 1
  <2>1. CASE i < c
    BY <1>2, <1>3, <2>1
  <2>2. CASE ~(i < c)
    <3>1. i + 1 \in 1 .. Len(list) /\ i + 1 # c
      BY <1>1, <1>2, <1>3, <2>2
    <3> QED
      BY <1>3, <2>2, <3>1
  <2> QED
    BY <2>1, <2>2
<1>7. Connections'
  <2>1. s \in Sensors /\ side[s] = "accepted"
    BY <1>1, <1>4
  <2>2. \A y \in Sensors : peer'[y] = "off" => side'[y] = "none"
    BY <1>1, <1>2, <2>1 DEF IInv, Connections
  <2>3. \A i \in 1 .. Len(backlog) : backlog[i] \in Sensors /\ side'[backlog[i]] = "backlog"
    <3> SUFFICES ASSUME NEW i \in 1 .. Len(backlog)
                 PROVE  backlog[i] \in Sensors /\ side'[backlog[i]] = "backlog"
      OBVIOUS
    <3>1. backlog[i] \in Sensors /\ side[backlog[i]] = "backlog"
      BY <1>2, ElementOfSeq DEF IInv, Connections
    <3> QED
      BY <1>1, <1>2, <2>1, <3>1
  <2>4. Once(list')
    <3> SUFFICES ASSUME NEW i \in 1 .. Len(list'), NEW j \in 1 .. Len(list'),
                        list'[i] = list'[j]
                 PROVE  i = j
      BY DEF Once
    <3>1. PICK k \in 1 .. Len(list) : /\ list'[i] = list[k] /\ k # c
                                      /\ k = IF i < c THEN i ELSE i + 1
      BY <1>6
    <3>2. PICK l \in 1 .. Len(list) : /\ list'[j] = list[l] /\ l # c
                                      /\ l = IF j < c THEN j ELSE j + 1
      BY <1>6
    <3>3. k = l
      BY <1>4, <3>1, <3>2 DEF Once
    <3> QED
      BY SMTT(30), <1>1, <1>2, <1>3, <3>1, <3>2, <3>3
  <2>5. ASSUME NEW i \in 2 .. Len(list')
        PROVE  list'[i] \in Sensors /\ side'[list'[i]] = "accepted"
    <3>1. i \in 1 .. Len(list')
      BY <1>2, <1>3
    <3>2. PICK k \in 1 .. Len(list) : /\ list'[i] = list[k] /\ k # c
                                      /\ k = IF i < c THEN i ELSE i + 1
      BY <1>6, <3>1
    <3>3. k \in 2 .. Len(list) /\ list[k] # s
      <4>1. k \in 2 .. Len(list)
        BY <1>2, <3>2
      <4>2. c \in 1 .. Len(list)
        BY <1>1, <1>2
      <4> QED
        BY <1>1, <1>4, <3>2, <4>1, <4>2 DEF Once
    <3> QED
      BY <1>1, <1>2, <1>4, <3>2, <3>3
  <2>6. Once(backlog)' /\ \A i \in 1 .. Len(backlog') : side'[backlog'[i]] = "backlog"
    BY <1>1, <2>3 DEF IInv, Connections, Once
  <2> QED
    BY <2>2, <2>4, <2>5, <2>6 DEF Connections
<1>8. Places'
  <2>1. 1 < c /\ 1 \in 1 .. Len(list) - 1
    BY <1>1, <1>2
  <2>2. list'[1] = SERVER /\ fds'[1] = SERVER
    BY <1>1, <1>2, <1>3, <1>4, <2>1
  <2> QED
    BY <1>1, <1>2, <1>3, <1>4, <2>1, <2>2 DEF Places
<1>9. Round'
  BY <1>1, <1>2, <1>3, <1>4 DEF Round
<1>10. Fields' /\ Scan' /\ Read' /\ New'
  BY <1>1, <1>2 DEF IInv, Fields, Scan, Read, New, Reading
<1> QED
  BY <1>5, <1>7, <1>8, <1>9, <1>10 DEF IInv

LEMMA AppendedFd ==
  ASSUME NEW q \in Seq(Fds), NEW n \in 1 .. Len(q), NEW s \in Sensors
  PROVE  /\ Append(SubSeq(q, 1, n), s) \in Seq(Fds)
         /\ Len(Append(SubSeq(q, 1, n), s)) = n + 1
         /\ \A i \in 1 .. n : Append(SubSeq(q, 1, n), s)[i] = q[i]
         /\ Append(SubSeq(q, 1, n), s)[n + 1] = s
<1> DEFINE a == SubSeq(q, 1, n)
<1>1. Len(q) \in Nat /\ \A k \in 1 .. Len(q) : q[k] \in Fds
  BY LenProperties, ElementOfSeq
<1>2. a \in Seq(Fds) /\ Len(a) = n /\ \A k \in 1 .. n : a[k] = q[k]
  BY <1>1, SubSeqProperties
<1> HIDE DEF a
<1>3. s \in Fds
  BY DEF Fds
<1>4. /\ Append(a, s) \in Seq(Fds) /\ Len(Append(a, s)) = Len(a) + 1
      /\ \A i \in 1 .. Len(a) : Append(a, s)[i] = a[i]
      /\ Append(a, s)[Len(a) + 1] = s
  BY <1>2, <1>3, AppendProperties
<1> QED
  BY <1>2, <1>4 DEF a

(* The new connection is the oldest of the backlog; its entry of fds comes *)
(* behind the polled ones.                                                 *)
LEMMA Accepting ==
  ASSUME IInv, AcceptClient
  PROVE  /\ pc = "scan" /\ pc' = "readnew" /\ index = 1 /\ 1 <= Len(events)
         /\ events[1] = "in"
         /\ Len(backlog) >= 1 /\ cur' = backlog[1] /\ cur' \in Sensors
         /\ side[cur'] = "backlog" /\ side' = [side EXCEPT ![cur'] = "accepted"]
         /\ backlog' \in Seq(Sensors) /\ Len(backlog') = Len(backlog) - 1
         /\ \A i \in 1 .. Len(backlog) - 1 : backlog'[i] = backlog[i + 1]
         /\ Len(list) = Len(events)
         /\ fds' \in Seq(Fds) /\ Len(fds') = Len(events) + 1
         /\ \A i \in 1 .. Len(events) : fds'[i] = fds[i]
         /\ fds'[Len(events) + 1] = cur'
         /\ UNCHANGED <<peer, sent, list, events, index, taken, buffered, calm>>
<1>1. /\ pc = "scan" /\ pc' = "readnew" /\ index = 1 /\ events[1] = "in"
      /\ cur' = Head(backlog) /\ backlog' = Tail(backlog)
      /\ side' = [side EXCEPT ![Head(backlog)] = "accepted"]
      /\ fds' = Append(SubSeq(fds, 1, Len(events)), Head(backlog))
      /\ UNCHANGED <<peer, sent, list, events, index, taken, buffered, calm>>
  BY DEF AcceptClient, Scanning
<1>2. /\ 1 <= Len(events) /\ Len(events) <= Len(fds) /\ Len(list) = Len(events)
      /\ backlog # <<>>
  BY <1>1 DEF IInv, Round, InRound, Scan
<1>3. /\ fds \in Seq(Fds) /\ backlog \in Seq(Sensors) /\ Len(fds) \in Nat
      /\ Len(events) \in Nat
  BY Sequences DEF IInv
<1>4. /\ Len(backlog) \in Nat /\ Len(backlog) # 0
      /\ \A i \in 1 .. Len(backlog) : backlog[i] \in Sensors
  BY <1>2, <1>3, LenProperties, ElementOfSeq, EmptySeq
<1>5. cur' = backlog[1]
  BY <1>1, <1>2, <1>3, <1>4
<1>6. /\ backlog' \in Seq(Sensors) /\ Len(backlog') = Len(backlog) - 1
      /\ \A i \in 1 .. Len(backlog) - 1 : backlog'[i] = backlog[i + 1]
  BY <1>1, <1>2, <1>3, HeadTailProperties
<1>7. 1 \in 1 .. Len(backlog) /\ cur' \in Sensors /\ side[cur'] = "backlog"
  <2>1. 1 \in 1 .. Len(backlog)
    BY <1>4
  <2> QED
    BY <1>4, <1>5, <2>1 DEF IInv, Connections
<1>8. Len(events) \in 1 .. Len(fds)
  BY <1>2, <1>3
<1>9. fds' = Append(SubSeq(fds, 1, Len(events)), cur')
  BY <1>1
<1>10. /\ fds' \in Seq(Fds) /\ Len(fds') = Len(events) + 1
       /\ \A i \in 1 .. Len(events) : fds'[i] = fds[i]
       /\ fds'[Len(events) + 1] = cur'
  BY <1>3, <1>7, <1>8, <1>9, AppendedFd
<1>11. side' = [side EXCEPT ![cur'] = "accepted"] /\ Len(backlog) >= 1
  BY <1>1, <1>7
<1> QED
  BY <1>1, <1>2, <1>5, <1>6, <1>7, <1>10, <1>11

LEMMA AcceptKeeps ==
  ASSUME IInv, AcceptClient
  PROVE  IInv'
<1> DEFINE s == cur'
<1>1. /\ pc = "scan" /\ pc' = "readnew" /\ index = 1 /\ 1 <= Len(events)
      /\ events[1] = "in"
      /\ Len(backlog) >= 1 /\ s = backlog[1] /\ s \in Sensors
      /\ side[s] = "backlog" /\ side' = [side EXCEPT ![s] = "accepted"]
      /\ backlog' \in Seq(Sensors) /\ Len(backlog') = Len(backlog) - 1
      /\ \A i \in 1 .. Len(backlog) - 1 : backlog'[i] = backlog[i + 1]
      /\ Len(list) = Len(events)
      /\ fds' \in Seq(Fds) /\ Len(fds') = Len(events) + 1
      /\ \A i \in 1 .. Len(events) : fds'[i] = fds[i]
      /\ UNCHANGED <<peer, sent, list, events, index, taken, buffered>>
  BY Accepting
<1>2. /\ Len(list) \in Nat /\ Len(fds) \in Nat /\ Len(events) \in Nat
      /\ side \in [Sensors -> {"none", "backlog", "accepted", "closed"}]
      /\ backlog \in Seq(Sensors) /\ Len(backlog) \in Nat
  BY Sequences, LenProperties DEF IInv, TypeOK
<1>3. TypeOK'
  <2>1. /\ side' \in [Sensors -> {"none", "backlog", "accepted", "closed"}]
        /\ cur' \in Sensors
    BY <1>1, <1>2
  <2> QED
    BY <1>1, <2>1 DEF IInv, TypeOK, Fds
<1>4. /\ Once(backlog) /\ Once(list) /\ list[1] = SERVER /\ fds[1] = SERVER
      /\ \A i \in 2 .. Len(list) : list[i] \in Sensors /\ side[list[i]] = "accepted"
      /\ \A i \in 1 .. Len(backlog) : side[backlog[i]] = "backlog"
      /\ \A y \in Sensors : peer[y] = "off" => side[y] = "none"
  BY <1>1 DEF IInv, Connections, Places, Running, InRound
<1>5. Connections'
  <2>1. \A y \in Sensors : peer'[y] = "off" => side'[y] = "none"
    BY <1>1, <1>2, <1>4
  <2>2. ASSUME NEW i \in 1 .. Len(backlog') PROVE side'[backlog'[i]] = "backlog"
    <3>1. i + 1 \in 1 .. Len(backlog) /\ 1 \in 1 .. Len(backlog) /\ i + 1 # 1
      BY <1>1, <1>2
    <3>2. backlog'[i] = backlog[i + 1] /\ backlog[i + 1] # s /\ backlog[i + 1] \in Sensors
      BY <1>1, <1>2, <1>4, <3>1, ElementOfSeq DEF Once
    <3> QED
      BY <1>1, <1>2, <1>4, <3>1, <3>2
  <2>3. ASSUME NEW i \in 1 .. Len(backlog'), NEW j \in 1 .. Len(backlog'),
               backlog'[i] = backlog'[j]
        PROVE  i = j
    <3>1. /\ i + 1 \in 1 .. Len(backlog) /\ j + 1 \in 1 .. Len(backlog)
          /\ backlog[i + 1] = backlog[j + 1]
      <4>1. /\ i \in 1 .. Len(backlog) - 1 /\ j \in 1 .. Len(backlog) - 1
            /\ Len(backlog) \in Nat
        BY ONLY <1>1, <1>2, <2>3
      <4>2. backlog'[i] = backlog[i + 1] /\ backlog'[j] = backlog[j + 1]
        BY ONLY <1>1, <4>1
      <4>3. i + 1 \in 1 .. Len(backlog) /\ j + 1 \in 1 .. Len(backlog)
        BY ONLY <4>1
      <4>4. backlog[i + 1] = backlog[j + 1]
        BY ONLY <2>3, <4>2
      <4> QED
        BY <4>3, <4>4
    <3>2. i + 1 = j + 1
      BY <1>4, <3>1 DEF Once
    <3> QED
      BY <1>2, <3>2
  <2>4. \A i \in 2 .. Len(list') : list'[i] \in Sensors /\ side'[list'[i]] = "accepted"
    BY <1>1, <1>2, <1>4
  <2>5. Once(list') /\ Once(backlog')
    BY <1>1, <1>4, <2>3 DEF Once
  <2> QED
    BY <2>1, <2>2, <2>4, <2>5 DEF Connections, Once
<1>6. Places'
  <2>1. 1 \in 1 .. Len(events)
    BY <1>1, <1>2
  <2> QED
    BY <1>1, <1>2, <1>4, <2>1 DEF Places
<1>7. Round'
  BY <1>1, <1>2 DEF Round
<1>8. Read' /\ Scan' /\ Fields'
  BY <1>1, <1>2 DEF IInv, Read, Scan, Fields, Reading
<1>9. New'
  <2>1. side'[cur'] = "accepted"
    BY <1>1, <1>2
  <2>2. ASSUME NEW i \in 1 .. Len(list) PROVE list[i] # cur'
    <3>1. CASE i = 1
      BY <1>1, <1>4, <3>1, ConnMgrAssumption DEF ConnMgrAssumption
    <3>2. CASE i # 1
      <4>1. i \in 2 .. Len(list)
        BY <1>2, <3>2
      <4>2. side[list[i]] = "accepted"
        BY <1>4, <4>1
      <4> QED
        BY <1>1, <4>2
    <3> QED
      BY <3>1, <3>2
  <2> QED
    BY <1>1, <2>1, <2>2 DEF New
<1> QED
  BY <1>3, <1>5, <1>6, <1>7, <1>8, <1>9 DEF IInv

LEMMA ReadClientKeeps ==
  ASSUME IInv, ReadClient
  PROVE  IInv'
<1>1. /\ pc = "scan" /\ pc' = "read" /\ index > 1 /\ index <= Len(events)
      /\ events[index] = "in" /\ cur' = ElementAt(index)
      /\ UNCHANGED <<peer, sent, backlog, side, list, fds, events, index, taken, buffered>>
  BY DEF ReadClient, Scanning, net
<1>2. /\ Len(list) \in Nat /\ Len(events) \in Nat /\ index \in 1 .. Len(events) + 1
      /\ Len(events) + 2 <= Len(list) + index
  BY <1>1, Sequences DEF IInv, Round, InRound
<1>3. Clamp(index) \in 2 .. Len(list)
  <2>1. 2 <= Len(list)
    BY <1>1, <1>2
  <2> QED
    BY <1>1, <1>2, <2>1 DEF Clamp
<1>4. cur' \in Sensors
  BY <1>1, <1>3 DEF ElementAt, IInv, Connections, Running, InRound
<1>5. TypeOK'
  BY <1>1, <1>4 DEF IInv, TypeOK
<1>6. Fields' /\ Connections' /\ Places' /\ Round' /\ Scan'
  BY <1>1 DEF IInv, Fields, Connections, Places, Round, Scan, Running, InRound, Once
<1>7. Read' /\ New'
  BY <1>1, <1>2, <1>4 DEF Read, New, Reading
<1> QED
  BY <1>5, <1>6, <1>7 DEF IInv

(* Three fields of the connection that is read are taken; a new one gets   *)
(* its place at the end of the list.                                       *)
LEMMA Receiving ==
  ASSUME IInv, ReadData
  PROVE  /\ InRound /\ pc' = "scan" /\ cur \in Sensors /\ cur' = None
         /\ sent[cur] - taken[cur] >= 3
         /\ taken' = [taken EXCEPT ![cur] = @ + 3]
         /\ buffered' = [buffered EXCEPT ![cur] = @ + 1]
         /\ index \in 1 .. Len(events) /\ events[index] = "in"
         /\ index' = NextEvent(events, index)
         /\ index' \in index + 1 .. Len(events) + 1
         /\ UNCHANGED <<peer, sent, backlog, side, fds, events, calm>>
         /\ \/ pc = "read" /\ index > 1 /\ list' = list
            \/ /\ pc = "readnew" /\ index = 1
               /\ list' \in Seq(Conns) /\ Len(list') = Len(list) + 1
               /\ \A i \in 1 .. Len(list) : list'[i] = list[i]
               /\ list'[Len(list) + 1] = cur
<1>1. /\ Reading /\ pc' = "scan" /\ cur' = None /\ sent[cur] - taken[cur] >= 3
      /\ taken' = [taken EXCEPT ![cur] = @ + 3]
      /\ buffered' = [buffered EXCEPT ![cur] = @ + 1]
      /\ list' = IF pc = "readnew" THEN Append(list, cur) ELSE list
      /\ index' = NextEvent(events, index)
      /\ UNCHANGED <<peer, sent, backlog, side, fds, events, calm>>
  BY DEF ReadData, net
<1>2. /\ cur \in Sensors /\ index <= Len(events) /\ events[index] = "in"
      /\ pc = "readnew" <=> index = 1
  BY <1>1 DEF IInv, Read
<1>3. /\ list \in Seq(Conns) /\ events \in Seq(Event3) /\ Len(list) \in Nat
      /\ Len(events) \in Nat /\ index \in 1 .. Len(events) + 1
  BY Sequences DEF IInv
<1>4. index \in 1 .. Len(events) /\ index \in 0 .. Len(events)
  BY <1>2, <1>3
<1>5. index' \in index + 1 .. Len(events) + 1
  BY <1>1, <1>3, <1>4, NextEventBehind
<1>6. CASE pc = "read"
  BY <1>1, <1>2, <1>3, <1>4, <1>5, <1>6 DEF InRound
<1>7. CASE pc = "readnew"
  <2>1. cur \in Conns
    BY <1>2 DEF Conns
  <2>2. /\ Append(list, cur) \in Seq(Conns) /\ Len(Append(list, cur)) = Len(list) + 1
        /\ \A i \in 1 .. Len(list) : Append(list, cur)[i] = list[i]
        /\ Append(list, cur)[Len(list) + 1] = cur
    BY <1>3, <2>1, AppendProperties
  <2> QED
    BY <1>1, <1>2, <1>4, <1>5, <1>7, <2>2 DEF InRound
<1> QED
  BY <1>1, <1>6, <1>7 DEF Reading

LEMMA ReadDataKeeps ==
  ASSUME IInv, ReadData
  PROVE  IInv'
<1>1. /\ InRound /\ pc' = "scan" /\ cur \in Sensors /\ cur' = None
      /\ sent[cur] - taken[cur] >= 3
      /\ taken' = [taken EXCEPT ![cur] = @ + 3]
      /\ buffered' = [buffered EXCEPT ![cur] = @ + 1]
      /\ index \in 1 .. Len(events) /\ index' \in index + 1 .. Len(events) + 1
      /\ UNCHANGED <<peer, sent, backlog, side, fds, events>>
  BY Receiving
<1>2. \/ pc = "read" /\ index > 1 /\ list' = list
      \/ /\ pc = "readnew" /\ index = 1
         /\ list' \in Seq(Conns) /\ Len(list') = Len(list) + 1
         /\ \A i \in 1 .. Len(list) : list'[i] = list[i]
         /\ list'[Len(list) + 1] = cur
  BY Receiving
<1>3. /\ Len(list) \in Nat /\ Len(fds) \in Nat /\ Len(events) \in Nat
      /\ sent \in [Sensors -> 0 .. 3 * Measurements] /\ Measurements \in Nat
      /\ buffered \in [Sensors -> 0 .. Measurements]
      /\ taken \in [Sensors -> Nat]
      /\ \A s \in Sensors : taken[s] \in 0 .. sent[s] /\ taken[s] = 3 * buffered[s]
  BY Sequences, ConnMgrAssumption DEF IInv, TypeOK, Fields, ConnMgrAssumption
<1>4. \A s \in Sensors : /\ taken'[s] = IF s = cur THEN taken[s] + 3 ELSE taken[s]
                         /\ buffered'[s] = IF s = cur THEN buffered[s] + 1 ELSE buffered[s]
  BY <1>1, <1>3
<1>5. TypeOK' /\ Fields'
  <2>1. \A s \in Sensors : /\ taken'[s] \in 0 .. sent'[s] /\ taken'[s] = 3 * buffered'[s]
                           /\ buffered'[s] \in 0 .. Measurements
    <3> SUFFICES ASSUME NEW s \in Sensors
                 PROVE  /\ taken'[s] \in 0 .. sent[s] /\ taken'[s] = 3 * buffered'[s]
                        /\ buffered'[s] \in 0 .. Measurements
      BY <1>1
    <3>1. /\ taken[s] \in Nat /\ sent[s] \in 0 .. 3 * Measurements
          /\ buffered[s] \in 0 .. Measurements
          /\ taken[s] <= sent[s] /\ taken[s] = 3 * buffered[s]
      BY <1>3
    <3>2. CASE s = cur
      <4>1. sent[s] - taken[s] >= 3 /\ taken'[s] = taken[s] + 3 /\ buffered'[s] = buffered[s] + 1
        BY <1>1, <1>4, <3>2
      <4> QED
        BY SMTT(30), <1>3, <3>1, <4>1
    <3>3. CASE s # cur
      BY <1>4, <3>1, <3>3
    <3> QED
      BY <3>2, <3>3
  <2>2. /\ buffered' \in [Sensors -> 0 .. Measurements]
        /\ taken' \in [Sensors -> Nat]
    <3>1. buffered[cur] + 1 \in 0 .. Measurements /\ taken[cur] + 3 \in Nat
      BY <1>1, <1>3, <1>4, <2>1
    <3>2. buffered' \in [Sensors -> 0 .. Measurements]
      BY <1>1, <1>3, <3>1
    <3>3. taken' \in [Sensors -> Nat]
      BY <1>1, <1>3, <3>1
    <3> QED
      BY <3>2, <3>3
  <2>3. list' \in Seq(Conns) /\ index' \in 1 .. Len(events') + 1
    BY <1>1, <1>2, <1>3, Sequences DEF IInv
  <2> QED
    BY <1>1, <2>1, <2>2, <2>3 DEF IInv, TypeOK, Fields, Conns
<1>6. /\ Once(list) /\ list[1] = SERVER /\ fds[1] = SERVER /\ 1 <= Len(list)
      /\ Len(list) <= Len(fds)
      /\ \A i \in 2 .. Len(list) : list[i] \in Sensors /\ side[list[i]] = "accepted"
      /\ 1 <= Len(events) /\ Len(events) <= Len(fds) /\ events[1] # "other"
      /\ index = 1 => Len(list) = Len(events)
      /\ index > 1 => Len(events) + 2 <= Len(list) + index
  BY <1>1 DEF IInv, Connections, Places, Round, Running
<1>7. CASE pc = "read"
  <2>1. list' = list /\ index > 1
    BY <1>2, <1>7
  <2>2. Connections' /\ Places'
    BY <1>1, <2>1 DEF IInv, Connections, Places, Once, Running
  <2>3. Round'
    <3>1. index' > 1 /\ Len(events) + 2 <= Len(list) + index'
      <4>1. /\ index \in 1 .. Len(events) /\ index' \in index + 1 .. Len(events) + 1
            /\ Len(list) \in Nat /\ Len(events) \in Nat
        BY ONLY <1>1, <1>3
      <4>2. index > 1 /\ Len(events) + 2 <= Len(list) + index
        BY ONLY <1>6, <2>1
      <4> QED
        BY ONLY <4>1, <4>2
    <3>2. events' = events /\ fds' = fds /\ list' = list /\ index' # 1
      BY <1>1, <1>3, <2>1
    <3> QED
      BY ONLY <1>6, <3>1, <3>2 DEF Round
  <2>4. Scan' /\ Read' /\ New'
    BY <1>1, <1>3 DEF Scan, Read, New, Reading
  <2> QED
    BY <1>5, <2>2, <2>3, <2>4 DEF IInv
<1>8. CASE pc = "readnew"
  <2>1. /\ index = 1 /\ Len(list') = Len(list) + 1 /\ list'[Len(list) + 1] = cur
        /\ \A i \in 1 .. Len(list) : list'[i] = list[i]
    BY <1>2, <1>8
  <2>2. /\ side[cur] = "accepted" /\ Len(fds) = Len(events) + 1
        /\ \A i \in 1 .. Len(list) : list[i] # cur
    BY <1>8 DEF IInv, New
  <2>3. ASSUME NEW i \in 1 .. Len(list'), NEW j \in 1 .. Len(list'), list'[i] = list'[j]
        PROVE  i = j
    <3>1. /\ i \in 1 .. Len(list) \/ i = Len(list) + 1
          /\ j \in 1 .. Len(list) \/ j = Len(list) + 1
      <4>1. /\ Len(list) \in Nat /\ Len(list') = Len(list) + 1
            /\ i \in 1 .. Len(list') /\ j \in 1 .. Len(list')
        BY ONLY <1>3, <2>1, <2>3
      <4> QED
        BY ONLY <4>1
    <3> QED
      BY <1>6, <2>1, <2>2, <2>3, <3>1 DEF Once
  <2>4. ASSUME NEW i \in 2 .. Len(list')
        PROVE  list'[i] \in Sensors /\ side'[list'[i]] = "accepted"
    <3>1. (i \in 2 .. Len(list) /\ i \in 1 .. Len(list)) \/ i = Len(list) + 1
      BY <1>3, <2>1
    <3> QED
      BY <1>1, <1>6, <2>1, <2>2, <3>1
  <2>5. Connections'
    <3>1. Once(backlog)' /\ \A i \in 1 .. Len(backlog') : side'[backlog'[i]] = "backlog"
      BY <1>1 DEF IInv, Connections, Once
    <3>2. \A s \in Sensors : peer'[s] = "off" => side'[s] = "none"
      BY <1>1 DEF IInv, Connections
    <3>3. Once(list')
      BY <2>3 DEF Once
    <3> QED
      BY <2>4, <3>1, <3>2, <3>3 DEF Connections, Once
  <2>6. Places'
    <3>1. 1 \in 1 .. Len(list)
      BY <1>3, <1>6
    <3>2. Len(list') <= Len(fds') /\ 1 <= Len(list')
      BY SMTT(30), <1>1, <1>3, <1>6, <2>1, <2>2
    <3>3. list'[1] = SERVER /\ fds'[1] = SERVER
      BY <1>1, <1>6, <2>1, <3>1
    <3> QED
      BY <3>2, <3>3 DEF Places
  <2>7. Round'
    BY <1>1, <1>3, <1>6, <2>1 DEF Round
  <2>8. Scan' /\ Read' /\ New'
    BY <1>1, <1>3 DEF Scan, Read, New, Reading
  <2> QED
    BY <1>5, <2>5, <2>6, <2>7, <2>8 DEF IInv
<1> QED
  BY <1>2, <1>7, <1>8

LEMMA CompressKeeps ==
  ASSUME IInv, Compress
  PROVE  IInv'
<1>1. /\ pc = "scan" /\ index > Len(events)
      /\ fds' \in {fds, CompressPass(fds, Len(events))}
      /\ pc' \in {"poll", "overflow", "scan"}
      /\ events' = IF pc' = "poll" THEN <<>> ELSE events
      /\ index' = IF pc' = "poll" THEN 1 ELSE index
      /\ UNCHANGED <<peer, sent, backlog, side, list, cur, taken, buffered>>
  BY DEF Compress, Scanned, net
<1>2. /\ fds \in Seq(Fds) /\ Len(events) \in Nat /\ Len(fds) \in Nat /\ Len(list) \in Nat
      /\ index \in 1 .. Len(events) + 1
  BY Sequences DEF IInv
<1>3. /\ list[1] = SERVER /\ fds[1] = SERVER /\ 1 <= Len(list) /\ Len(list) <= Len(fds)
      /\ Len(events) <= Len(fds) /\ 1 <= Len(events) /\ events[1] # "other"
      /\ Len(events) + 2 <= Len(list) + index
  BY <1>1, <1>2 DEF IInv, Places, Round, Running, InRound
<1>4. fds' \in Seq(Fds) /\ Len(fds') = Len(fds) /\ fds'[1] = SERVER
  <2>1. Len(events) \in 0 .. Len(fds)
    BY <1>2, <1>3
  <2>2. SameShape(fds, CompressPass(fds, Len(events)))
    BY <1>2, <2>1, CompressKeepsShape
  <2> QED
    BY <1>1, <1>2, <1>3, <2>2 DEF SameShape
<1>5. TypeOK'
  <2>1. CASE pc' = "poll"
    <3>1. /\ events' = <<>> /\ index' = 1 /\ events' \in Seq({None, "in", "other"})
          /\ Len(events') = 0
      BY <1>1, <2>1
    <3>2. index' \in 1 .. Len(events') + 1
      BY <3>1
    <3> QED
      BY <1>1, <1>4, <3>1, <3>2 DEF IInv, TypeOK, Fds
  <2>2. CASE pc' # "poll"
    BY <1>1, <1>4, <2>2 DEF IInv, TypeOK, Fds
  <2> QED
    BY <2>1, <2>2
<1>6. Fields' /\ Connections'
  BY <1>1 DEF IInv, Fields, Connections, Running, InRound, Once
<1>7. Places'
  BY <1>1, <1>3, <1>4 DEF Places
<1>8. Round'
  <2> SUFFICES ASSUME InRound' PROVE Round'
    BY DEF Round
  <2>1. pc' = "scan" /\ events' = events /\ index' = index /\ list' = list
    BY <1>1 DEF InRound
  <2> QED
    BY <1>1, <1>2, <1>3, <1>4, <2>1 DEF Round
<1>9. Scan' /\ Read' /\ New'
  BY <1>1, <1>2, <1>3 DEF Scan, Read, New, Reading
<1> QED
  BY <1>5, <1>6, <1>7, <1>8, <1>9 DEF IInv

LEMMA NextKeeps == IInv /\ [Next]_vars => IInv'
<1> SUFFICES ASSUME IInv, [Next]_vars PROVE IInv'
  OBVIOUS
<1>1. ASSUME NEW s \in Sensors, SensorStep(s) PROVE IInv'
  BY <1>1, ConnectKeeps, SendFieldOrLeaveKeeps DEF SensorStep
<1>2. CASE ConnMgrStep
  BY <1>2, PollKeeps, StopKeeps, CloseKeeps, AcceptKeeps, ReadClientKeeps,
     ReadDataKeeps, CompressKeeps DEF ConnMgrStep
<1>3. CASE UNCHANGED vars
  <2>1. UNCHANGED <<peer, sent, backlog, side, list, fds, events, index, pc, cur, taken,
                    buffered>>
    BY <1>3 DEF vars, net
  <2>2. TypeOK' /\ Fields' /\ Connections'
    BY <2>1 DEF IInv, TypeOK, Fields, Connections, Running, InRound, Once
  <2>3. Places' /\ Round' /\ Scan' /\ Read' /\ New'
    BY <2>1 DEF IInv, Places, Round, Scan, Read, New, Running, InRound, Reading
  <2> QED
    BY <2>2, <2>3 DEF IInv
<1> QED
  BY <1>1, <1>2, <1>3 DEF Next, Finished

LEMMA Invariant == Spec => []IInv
BY InitHolds, NextKeeps, PTL DEF Spec

-------------------------------------------------------------------------------
(* In step, the entries behind the server are connections that are open.   *)
LEMMA InStepFd ==
  ASSUME IInv, Running, InStep, NEW i \in 2 .. Len(list)
  PROVE  fds[i] = list[i] /\ fds[i] \in Sensors /\ side[fds[i]] = "accepted"
<1>1. i \in 1 .. Len(list)
  BY Sequences DEF IInv
<1> QED
  BY <1>1 DEF InStep, IInv, Connections

LEMMA PollCalm ==
  ASSUME IInv, CInv, Poll
  PROVE  CInv'
<1>1. /\ pc = "poll" /\ pc' = "scan" /\ events' = Polled /\ Len(events') = Len(list)
      /\ calm' = (calm /\ Calm(Polled))
      /\ UNCHANGED <<peer, sent, list, fds, taken, side, backlog>>
      /\ \A i \in 1 .. Len(list) : events'[i] = Event(fds[i])
  BY PolledEvents DEF Poll, net
<1> SUFFICES ASSUME calm' PROVE CalmRound'
  BY <1>1 DEF CInv
<1>2. InStep /\ Calm(events)'
  BY <1>1 DEF CInv, Calm
<1>3. Len(list) \in Nat
  BY Sequences DEF IInv
<1>4. ASSUME NEW i \in 2 .. Len(list)
      PROVE  /\ events'[i] = "in" => Begun(fds[i])
             /\ events'[i] = "other" => peer[fds[i]] = "closed"
  <2>1. fds[i] \in Sensors /\ side[fds[i]] = "accepted"
    BY <1>1, <1>2, InStepFd DEF Running
  <2>2. fds[i] # SERVER /\ fds[i] # REMOVE_FD
    BY <2>1, ConnMgrAssumption DEF ConnMgrAssumption
  <2>3. events'[i] = Event(fds[i])
    BY <1>1, <1>3
  <2>4. events'[i] = IF side[fds[i]] = "closed" \/ peer[fds[i]] = "closed" THEN "other"
                     ELSE IF sent[fds[i]] > taken[fds[i]] THEN "in" ELSE None
    BY <2>2, <2>3 DEF Event
  <2> QED
    BY <2>1, <2>4 DEF Begun, None
<1>5. Pending'
  BY <1>1, <1>4 DEF Pending, Begun
<1>6. Kept'
  BY <1>1, <1>2 DEF Kept, InStep
<1> QED
  BY <1>1, <1>2, <1>5, <1>6 DEF CalmRound

(* The close of a calm round is of the connection that poll reported, is   *)
(* the last thing the scan does, and leaves the one gap.                   *)
LEMMA CalmClose ==
  ASSUME IInv, CInv, calm, CloseConnection
  PROVE  /\ InStep /\ Len(list) = Len(events) /\ Clamp(index) = index
         /\ ElementAt(index) = fds[index] /\ peer[fds[index]] = "closed"
         /\ index' = Len(events) + 1
<1>1. /\ pc = "scan" /\ index \in 2 .. Len(events) /\ index' = NextEvent(events, index)
      /\ Clamp(index) \in 2 .. Len(list) /\ ElementAt(index) = list[Clamp(index)]
      /\ index' \in index + 1 .. Len(events) + 1
  BY Closing
<1>2. events[index] = "other" /\ CalmRound
  BY <1>1 DEF CloseConnection, CInv, InRound
<1>3. /\ Len(events) \in Nat /\ Len(list) \in Nat /\ events \in Seq(Event3)
      /\ DOMAIN events = 1 .. Len(events)
  BY Sequences, LenProperties DEF IInv
<1>4. events[1] = None /\ \A j \in index + 1 .. Len(events) : events[j] = None
  <2>1. index \in DOMAIN events /\ 1 \in DOMAIN events
    BY <1>1, <1>3
  <2>2. \A j \in DOMAIN events : j = 1 \/ j > index => events[j] = None
    BY <1>2, <2>1 DEF CalmRound, Calm
  <2> QED
    BY <1>1, <1>3, <2>1, <2>2
<1>5. InStep /\ Len(list) = Len(events)
  <2>1. index # Len(events) + 1 /\ events[1] # "in"
    BY <1>1, <1>3, <1>4 DEF None
  <2>2. Kept
    BY <1>2, <2>1 DEF CalmRound, Gap
  <2> QED
    BY <2>1, <2>2 DEF Kept
<1>6. Clamp(index) = index
  BY <1>1, <1>5 DEF Clamp
<1>7. ElementAt(index) = fds[index]
  <2>1. index \in 1 .. Len(list)
    BY <1>1, <1>5
  <2> QED
    BY <1>1, <1>5, <1>6, <2>1 DEF InStep
<1>8. peer[fds[index]] = "closed"
  BY <1>1, <1>2 DEF CalmRound, Pending
<1>9. index' = Len(events) + 1
  <2>1. index \in 0 .. Len(events)
    BY <1>1
  <2>2. index' <= Len(events) => events[index'] # None
    BY <1>1, <1>3, <2>1, NextEventBehind
  <2> QED
    BY <1>1, <1>3, <1>4, <2>2
<1> QED
  BY <1>5, <1>6, <1>7, <1>8, <1>9

LEMMA CloseCalm ==
  ASSUME IInv, CInv, CloseConnection
  PROVE  CInv'
<1>1. /\ pc' = "scan" /\ index \in 2 .. Len(events) /\ index <= Len(fds)
      /\ Shorter(list, Clamp(index), list')
      /\ \A i \in 1 .. Len(fds) : fds'[i] = IF i = index THEN REMOVE_FD ELSE fds[i]
      /\ UNCHANGED <<events, calm>>
  BY Closing
<1> SUFFICES ASSUME calm PROVE CalmRound'
  BY <1>1 DEF CInv
<1>2. /\ InStep /\ Len(list) = Len(events) /\ Clamp(index) = index
      /\ index' = Len(events) + 1
  BY CalmClose
<1>3. Calm(events)'
  BY <1>1 DEF CInv, CalmRound, InRound, CloseConnection, Scanning, Calm
<1>4. /\ Len(events) \in Nat /\ Len(list) \in Nat /\ Len(fds) \in Nat
      /\ Len(list) <= Len(fds)
  BY Sequences DEF IInv, Places, Running, InRound, CloseConnection, Scanning
<1>5. /\ Len(list') = Len(list) - 1
      /\ \A k \in 1 .. Len(list) - 1 : list'[k] = IF k < index THEN list[k] ELSE list[k + 1]
  BY <1>1, <1>2 DEF Shorter
<1>6. Pending'
  BY <1>1, <1>2, <1>4 DEF Pending
<1>7. (\E r \in 2 .. Len(events) : GapAt(r))'
  <2>1. fds'[index] = REMOVE_FD
    BY <1>1, <1>4
  <2>2. ASSUME NEW i \in 1 .. index - 1 PROVE fds'[i] = list'[i]
    <3>1. /\ i \in 1 .. Len(fds) /\ i \in 1 .. Len(list) /\ i \in 1 .. Len(list) - 1
          /\ i < index
      BY <1>1, <1>2, <1>4
    <3> QED
      BY SMTT(30), <1>1, <1>2, <1>5, <3>1 DEF InStep
  <2>3. ASSUME NEW i \in index .. Len(list') PROVE fds'[i + 1] = list'[i]
    <3>1. /\ i + 1 \in 1 .. Len(fds) /\ i + 1 \in 1 .. Len(list) /\ i + 1 # index
          /\ i \in 1 .. Len(list) - 1 /\ ~(i < index)
      BY <1>1, <1>2, <1>4, <1>5
    <3> QED
      BY <1>1, <1>2, <1>5, <3>1 DEF InStep
  <2>4. /\ fds'[index] = REMOVE_FD
        /\ \A i \in 1 .. index - 1 : fds'[i] = list'[i]
        /\ \A i \in index .. Len(list') : fds'[i + 1] = list'[i]
    BY <2>1, <2>2, <2>3
  <2>5. \E r \in 2 .. Len(events) :
          /\ fds'[r] = REMOVE_FD
          /\ \A i \in 1 .. r - 1 : fds'[i] = list'[i]
          /\ \A i \in r .. Len(list') : fds'[i + 1] = list'[i]
    BY <1>1, <2>4
  <2> QED
    BY <1>1, <2>5 DEF GapAt
<1> QED
  BY <1>1, <1>2, <1>3, <1>4, <1>5, <1>6, <1>7 DEF CalmRound, Gap

LEMMA AcceptCalm ==
  ASSUME IInv, CInv, AcceptClient
  PROVE  CInv'
<1>1. /\ pc = "scan" /\ pc' = "readnew" /\ index = 1 /\ 1 <= Len(events)
      /\ Len(list) = Len(events) /\ fds'[Len(events) + 1] = cur'
      /\ \A i \in 1 .. Len(events) : fds'[i] = fds[i]
      /\ UNCHANGED <<peer, sent, list, events, index, taken, calm>>
  BY Accepting
<1> SUFFICES ASSUME calm PROVE CalmRound'
  BY <1>1 DEF CInv
<1>2. Len(events) \in Nat /\ CalmRound
  BY <1>1, Sequences DEF IInv, CInv, InRound
<1>3. InStep /\ Calm(events) /\ Pending
  BY <1>1, <1>2 DEF CalmRound, Kept, Gap
<1>4. Kept' /\ Calm(events)'
  BY <1>1, <1>3 DEF Kept, InStep, Calm
<1>5. Pending'
  <2> SUFFICES ASSUME NEW i \in 2 .. Len(events)
               PROVE  /\ events[i] = "in" => Begun(fds[i])
                      /\ events[i] = "other" => peer[fds[i]] = "closed"
                      /\ fds'[i] = fds[i]
    BY <1>1 DEF Pending, Begun
  <2>1. i >= index /\ i \in 1 .. Len(events)
    BY <1>1, <1>2
  <2> QED
    BY <1>1, <1>3, <2>1 DEF Pending
<1> QED
  BY <1>1, <1>4, <1>5 DEF CalmRound

LEMMA ReadClientCalm ==
  ASSUME IInv, CInv, ReadClient
  PROVE  CInv'
<1>1. /\ pc = "scan" /\ pc' = "read" /\ index > 1 /\ index <= Len(events)
      /\ cur' = ElementAt(index)
      /\ UNCHANGED <<peer, sent, list, fds, events, index, taken, calm>>
  BY DEF ReadClient, Scanning, net
<1> SUFFICES ASSUME calm PROVE CalmRound'
  BY <1>1 DEF CInv
<1>2. /\ Len(events) \in Nat /\ Len(list) \in Nat /\ index \in 1 .. Len(events) + 1
      /\ CalmRound
  BY <1>1, Sequences DEF IInv, CInv, InRound
<1>3. Kept
  BY <1>1, <1>2 DEF CalmRound, Gap
<1>4. cur' = list[index]
  BY <1>1, <1>2, <1>3 DEF Kept, ElementAt, Clamp
<1>5. Kept' /\ Calm(events)' /\ Pending'
  BY <1>1, <1>2, <1>3 DEF CalmRound, Kept, InStep, Calm, Pending, Begun
<1> QED
  BY <1>1, <1>4, <1>5 DEF CalmRound

(* The entries that the scan has yet to look at are of other connections   *)
(* than the one it has just read.                                          *)
LEMMA ReadDataCalm ==
  ASSUME IInv, CInv, ReadData
  PROVE  CInv'
<1>1. /\ InRound /\ pc \in {"read", "readnew"} /\ pc' = "scan" /\ cur \in Sensors
      /\ taken' = [taken EXCEPT ![cur] = @ + 3]
      /\ index \in 1 .. Len(events) /\ events[index] = "in"
      /\ index' \in index + 1 .. Len(events) + 1
      /\ UNCHANGED <<peer, sent, fds, events, calm>>
  BY Receiving DEF InRound
<1>2. \/ pc = "read" /\ index > 1 /\ list' = list
      \/ /\ pc = "readnew" /\ index = 1
         /\ Len(list') = Len(list) + 1
         /\ \A i \in 1 .. Len(list) : list'[i] = list[i]
         /\ list'[Len(list) + 1] = cur
  BY Receiving
<1> SUFFICES ASSUME calm PROVE CalmRound'
  BY <1>1 DEF CInv
<1>3. /\ Len(events) \in Nat /\ Len(list) \in Nat /\ CalmRound /\ Kept
      /\ taken \in [Sensors -> Nat]
  BY <1>1, Sequences DEF IInv, CInv, CalmRound, Gap, Fields
<1>4. ASSUME NEW i \in 2 .. Len(events), i >= index'
      PROVE  fds[i] \in Sensors /\ fds[i] # cur /\ i >= index
  <2>1. i \in 2 .. Len(list) /\ i \in 1 .. Len(list) /\ i > index /\ index \in 1 .. Len(list)
    BY <1>1, <1>3, <1>4 DEF Kept
  <2>2. fds[i] = list[i] /\ fds[i] \in Sensors
    BY <1>1, <1>3, <2>1, InStepFd DEF Kept, Running
  <2>3. CASE pc = "read"
    <3>1. cur = list[index]
      BY <1>3, <2>3 DEF CalmRound
    <3>2. list[i] # list[index]
      BY <1>1, <2>1 DEF IInv, Connections, Running, Once
    <3> QED
      BY <2>1, <2>2, <3>1, <3>2
  <2>4. CASE pc = "readnew"
    BY <2>1, <2>2, <2>4 DEF IInv, New
  <2> QED
    BY <1>1, <2>3, <2>4
<1>5. Pending'
  <2> SUFFICES ASSUME NEW i \in 2 .. Len(events), i >= index'
               PROVE  /\ events[i] = "in" => Begun(fds[i])'
                      /\ events[i] = "other" => peer[fds[i]] = "closed"
    BY <1>1 DEF Pending
  <2>1. taken'[fds[i]] = taken[fds[i]]
    BY <1>1, <1>3, <1>4
  <2>2. /\ events[i] = "in" => Begun(fds[i])
        /\ events[i] = "other" => peer[fds[i]] = "closed"
    BY <1>3, <1>4 DEF CalmRound, Pending
  <2> QED
    BY <1>1, <2>1, <2>2 DEF Begun
<1>6. Kept'
  <2>1. CASE pc = "read"
    BY <1>1, <1>2, <1>3, <2>1 DEF Kept, InStep
  <2>2. CASE pc = "readnew"
    <3>1. /\ index = 1 /\ Len(list') = Len(list) + 1 /\ list'[Len(list) + 1] = cur
          /\ \A i \in 1 .. Len(list) : list'[i] = list[i]
      BY <1>2, <2>2
    <3>2. Len(list) = Len(events) /\ fds[Len(events) + 1] = cur
      BY <1>1, <1>3, <2>2, <3>1 DEF IInv, Round, CalmRound
    <3>3. ASSUME NEW i \in 1 .. Len(list') PROVE fds'[i] = list'[i]
      <4>1. i \in 1 .. Len(list) \/ i = Len(list) + 1
        BY <1>3, <3>1
      <4> QED
        BY <1>1, <1>3, <3>1, <3>2, <4>1 DEF Kept, InStep
    <3>4. Len(list') = Len(events') + 1 /\ events'[1] = "in"
      BY <1>1, <3>1, <3>2
    <3> QED
      BY <3>3, <3>4 DEF Kept, InStep
  <2> QED
    BY <1>1, <2>1, <2>2
<1>7. Calm(events)'
  BY <1>1, <1>3 DEF CalmRound, Calm
<1> QED
  BY <1>1, <1>5, <1>6, <1>7 DEF CalmRound

(* After a calm round compress has nothing to do or one gap to close, and  *)
(* one pass is enough.                                                     *)
LEMMA CompressCalm ==
  ASSUME IInv, CInv, Compress
  PROVE  CInv'
<1>1. pc = "scan" /\ index > Len(events) /\ UNCHANGED <<list, calm>>
  BY DEF Compress, Scanned
<1> SUFFICES ASSUME calm PROVE pc' = "poll" /\ InStep'
  BY <1>1 DEF CInv, InRound
<1> DEFINE old == Len(events)
<1>2. /\ fds \in Seq(Fds) /\ old \in Nat /\ Len(list) \in Nat /\ Len(fds) \in Nat
      /\ old \in 0 .. Len(fds) /\ Len(list) <= Len(fds) /\ CalmRound
  BY <1>1, Sequences DEF IInv, Round, Places, Running, InRound, CInv
<1>3. \A i \in 1 .. Len(list) : list[i] # REMOVE_FD
  <2> SUFFICES ASSUME NEW i \in 1 .. Len(list) PROVE list[i] # REMOVE_FD
    OBVIOUS
  <2>1. list[i] \in Conns
    BY Sequences, ElementOfSeq DEF IInv
  <2> QED
    BY <2>1, ConnMgrAssumption DEF ConnMgrAssumption, Conns, SERVER, REMOVE_FD
<1>4. ASSUME \A i \in 1 .. Len(list) : fds'[i] = list[i]
      PROVE  pc' = "poll" /\ InStep'
  <2>1. ~NeedsPass(fds')
    BY <1>3, <1>4 DEF NeedsPass
  <2>2. pc' = "poll"
    BY <2>1 DEF Compress
  <2> QED
    BY <1>1, <1>4, <2>2 DEF InStep
<1>5. CASE Kept /\ Len(list) = old
  <2>1. fds' = fds
    BY <1>5 DEF Compress
  <2> QED
    BY <1>4, <1>5, <2>1 DEF Kept, InStep
<1>6. CASE Kept /\ Len(list) = old + 1
  <2>1. fds' = CompressPass(fds, old)
    BY <1>2, <1>6 DEF Compress
  <2>2. old + 1 \in 1 .. old + 1 /\ \A i \in 1 .. old : fds[i] # REMOVE_FD
    BY <1>2, <1>3, <1>6 DEF Kept, InStep
  <2>3. CompressPass(fds, old) = fds
    BY <1>2, <2>2, CompressOne
  <2> QED
    BY <1>4, <1>6, <2>1, <2>3 DEF Kept, InStep
<1>7. CASE Gap
  <2>1. old = Len(list) + 1 /\ fds' = CompressPass(fds, old)
    BY <1>2, <1>7 DEF Gap, Compress
  <2>2. PICK r \in 2 .. old : GapAt(r)
    BY <1>7 DEF Gap
  <2>3. ASSUME NEW i \in 1 .. old, i # r PROVE fds[i] # REMOVE_FD
    <3>1. CASE i < r
      <4>1. i \in 1 .. r - 1 /\ i \in 1 .. Len(list)
        BY <1>2, <2>1, <3>1
      <4> QED
        BY <1>3, <2>2, <4>1 DEF GapAt
    <3>2. CASE i > r
      <4>1. i - 1 \in r .. Len(list) /\ i - 1 \in 1 .. Len(list) /\ (i - 1) + 1 = i
        BY <1>2, <2>1, <3>2
      <4> QED
        BY <1>3, <2>2, <4>1 DEF GapAt
    <3> QED
      BY <1>2, <2>3, <3>1, <3>2
  <2>4. Shifted(fds, r, old, fds')
    <3>1. /\ r \in 1 .. old + 1 /\ r <= old /\ fds[r] = REMOVE_FD
          /\ \A i \in 1 .. old : i # r => fds[i] # REMOVE_FD
      BY <1>2, <2>2, <2>3 DEF GapAt
    <3> QED
      BY <1>2, <2>1, <3>1, CompressOne
  <2>5. ASSUME NEW i \in 1 .. Len(list) PROVE fds'[i] = list[i]
    <3>1. i \in 1 .. Len(fds) /\ i < old /\ ~(i > old)
      BY <1>2, <2>1
    <3>2. fds'[i] = IF i < r THEN fds[i] ELSE fds[i + 1]
      BY <2>4, <3>1 DEF Shifted
    <3>3. (i < r => i \in 1 .. r - 1) /\ (~(i < r) => i \in r .. Len(list))
      BY <1>2, <2>1
    <3> QED
      BY <2>2, <3>2, <3>3 DEF GapAt
  <2> QED
    BY <1>4, <2>5
<1> QED
  BY <1>2, <1>5, <1>6, <1>7 DEF CalmRound, Kept

LEMMA NextCalm == IInv /\ CInv /\ [Next]_vars => CInv'
<1> SUFFICES ASSUME IInv, CInv, [Next]_vars PROVE CInv'
  OBVIOUS
<1>1. ASSUME NEW s \in Sensors, SensorStep(s) PROVE CInv'
  BY <1>1, SensorKeepsCalm
<1>2. CASE Timeout \/ ReadAborts
  <2>1. pc' \in {"done", "aborted"}
    BY <1>2 DEF Timeout, ReadAborts
  <2> QED
    BY <2>1 DEF CInv, InRound
<1>3. CASE Poll \/ CloseConnection \/ AcceptClient
  BY <1>3, PollCalm, CloseCalm, AcceptCalm
<1>4. CASE ReadClient \/ ReadData \/ Compress
  BY <1>4, ReadClientCalm, ReadDataCalm, CompressCalm
<1>5. CASE UNCHANGED vars
  <2>1. UNCHANGED Gateway /\ UNCHANGED <<peer, sent>>
    BY <1>5 DEF vars, net, Gateway
  <2>2. CalmRound => CalmRound'
    BY <2>1 DEF CalmRound, Kept, InStep, Gap, GapAt, Pending, Begun, Calm, Gateway
  <2> QED
    BY <2>1, <2>2 DEF CInv, InRound, InStep, Gateway
<1> QED
  BY <1>1, <1>2, <1>3, <1>4, <1>5 DEF Next, ConnMgrStep, Finished

-------------------------------------------------------------------------------
(* With any number of nodes that connect, send and leave at any time: as   *)
(* long as the rounds of poll are calm, fds and connmgr_list are in step   *)
(* at every poll, compress comes to its end, and the loop blocks for no    *)
(* known node that has sent nothing.  The type invariant holds in every    *)
(* round, calm or not.                                                     *)
THEOREM InStepIfCalm == Spec => []AlignedIfCalm
<1>1. IInv /\ CInv => AlignedIfCalm
  <2> SUFFICES ASSUME IInv, CInv, calm PROVE Aligned /\ CompressReturns /\ ReadsStarted
    BY DEF AlignedIfCalm, IInv
  <2>1. Aligned
    BY DEF Aligned, CInv, InStep, IInv, Places, Running
  <2>2. CompressReturns
    BY DEF CompressReturns, CInv
  <2>3. ASSUME pc = "read" PROVE Begun(cur)
    <3>1. CalmRound /\ Kept /\ InStep
      BY <2>3 DEF CInv, InRound, CalmRound, Gap, Kept
    <3>2. /\ index <= Len(events) /\ events[index] = "in" /\ index # 1
      BY <2>3 DEF IInv, Read, Reading
    <3>3. /\ Len(events) \in Nat /\ Len(list) \in Nat /\ index \in 1 .. Len(events) + 1
      BY Sequences DEF IInv
    <3>4. index \in 2 .. Len(events) /\ index >= index /\ index \in 1 .. Len(list)
      BY <3>1, <3>2, <3>3 DEF Kept
    <3>5. Begun(fds[index]) /\ fds[index] = list[index] /\ cur = list[index]
      BY <2>3, <3>1, <3>2, <3>4 DEF CalmRound, Pending, InStep
    <3> QED
      BY <3>5
  <2> QED
    BY <2>1, <2>2, <2>3 DEF ReadsStarted, Begun
<1> QED
  BY <1>1, InitHolds, NextKeeps, NextCalm, PTL DEF Spec

(* As long as the rounds are calm, no step of the loop closes the          *)
(* connection of a node that is still there.                               *)
THEOREM LiveKept == Spec => LiveKeptIfCalm
<1>1. IInv /\ CInv /\ [Next]_vars =>
        [calm => \A s \in Sensors : Drops(s) => peer[s] = "closed"]_vars
  <2> SUFFICES ASSUME IInv, CInv, Next, calm, NEW s \in Sensors, Drops(s)
               PROVE  peer[s] = "closed"
    OBVIOUS
  <2>1. side \in [Sensors -> {"none", "backlog", "accepted", "closed"}]
    BY DEF IInv, TypeOK
  <2>2. side[s] = "accepted" /\ side'[s] = "closed"
    BY DEF Drops
  <2>3. CASE CloseConnection
    <3>1. /\ side' = [side EXCEPT ![ElementAt(index)] = "closed"]
          /\ ElementAt(index) = fds[index] /\ peer[fds[index]] = "closed"
      BY <2>3, Closing, CalmClose
    <3> QED
      BY <2>1, <2>2, <3>1
  <2>4. CASE AcceptClient
    <3>1. cur' \in Sensors /\ side' = [side EXCEPT ![cur'] = "accepted"]
      BY <2>4, Accepting
    <3> QED
      BY <2>1, <2>2, <3>1
  <2>5. ASSUME NEW y \in Sensors, Connect(y) PROVE FALSE
    BY <2>1, <2>2, <2>5 DEF Connect
  <2>6. ASSUME NEW y \in Sensors, SendField(y) \/ Leave(y) PROVE FALSE
    BY <2>2, <2>6 DEF SendField, Leave
  <2>7. CASE Poll \/ Timeout \/ ReadClient \/ ReadData \/ ReadAborts \/ Compress \/ Finished
    BY <2>2, <2>7 DEF Poll, Timeout, ReadClient, ReadData, ReadAborts, Compress, Finished,
                      vars
  <2> QED
    BY <2>3, <2>4, <2>5, <2>6, <2>7 DEF Next, SensorStep, ConnMgrStep
<1> QED
  BY <1>1, InitHolds, NextKeeps, NextCalm, PTL DEF Spec, LiveKeptIfCalm

-------------------------------------------------------------------------------
(* The connection manager of lab 8.  Inv8 holds of the loop with the fixed *)
(* array, whatever the rounds are like: what has been read of a node, as   *)
(* long as no receive was short, is whole measurements, but for the rest   *)
(* of one whose connection ended; a waiting connection is not in the list, *)
(* and nothing less than a measurement has been read of it.  Calm8 adds    *)
(* that fds is the list as long as the rounds are calm.                    *)
InRound8 == pc \in {"scan", "read"}
Counts == [Sensors -> Nat]

Types8 ==
  /\ peer \in [Sensors -> {"off", "open", "closed"}]
  /\ side \in [Sensors -> {"none", "backlog", "accepted", "closed"}]
  /\ sent \in Counts /\ taken \in Counts /\ buffered \in Counts
  /\ part \in [Sensors -> {0, 1}] /\ whole \in [Sensors -> BOOLEAN]
  /\ backlog \in Seq(Sensors) /\ list \in Seq(Conns) /\ fds \in Seq(Fds)
  /\ events \in Seq(Event3) /\ index \in 1 .. Len(events) + 1
  /\ pc \in {"poll", "scan", "read", "last", "done"}

Whole(s) == whole[s] => part[s] = 0 /\ taken[s] = 3 * buffered[s]
Partial(s) == /\ side[s] = "closed" /\ peer[s] = "closed" /\ sent[s] = taken[s]
              /\ part[s] = 0 /\ taken[s] - 3 * buffered[s] \in 1 .. 2
Whole8 == \A s \in Sensors : Whole(s) \/ Partial(s)

Waits(s) == \E i \in 1 .. Len(backlog) : backlog[i] = s
Listed(s) == \E i \in 2 .. Len(list) : list[i] = s
Waiting8 == /\ Once(backlog)
            /\ \A i \in 2 .. Len(list) : list[i] \in Sensors
            /\ \A s \in Sensors : /\ Waits(s) => peer[s] # "off" /\ Whole(s)
                                  /\ Listed(s) => peer[s] # "off" /\ ~Waits(s)

Places8 == pc # "done" => /\ 1 <= Len(list) /\ Len(list) <= Len(fds)
                          /\ fds[1] = SERVER
Round8 ==
  InRound8 => /\ 1 <= Len(events) /\ Len(events) <= Len(fds)
              /\ events[1] # "other"
              /\ index = 1 => Len(list) = Len(events) /\ events[1] = "in"
              /\ index > 1 => Len(events) + 2 <= Len(list) + index
Look8 == /\ pc = "scan" /\ index = 1 => backlog # <<>>
         /\ pc = "read" => /\ index \in 2 .. Len(events)
                           /\ cur = GetElementAt(list, index) /\ cur \in Sensors
Calm8 == calm => /\ pc \in {"poll", "last"} => InStep
                 /\ InRound8 => Kept \/ Gap

Inv8 == Types8 /\ Whole8 /\ Waiting8 /\ Places8 /\ Round8 /\ Look8 /\ Calm8

LEMMA Sequences8 ==
  ASSUME Types8
  PROVE  /\ list \in Seq(Conns) /\ fds \in Seq(Fds) /\ events \in Seq(Event3)
         /\ backlog \in Seq(Sensors)
         /\ Len(list) \in Nat /\ Len(fds) \in Nat /\ Len(events) \in Nat
         /\ Len(backlog) \in Nat /\ index \in 1 .. Len(events) + 1
         /\ \A i \in 1 .. Len(backlog) : backlog[i] \in Sensors
BY LenProperties, ElementOfSeq DEF Types8

LEMMA InitInv8 ==
  ASSUME InitServer
  PROVE  Inv8
<1>1. /\ list = <<SERVER>> /\ fds = <<SERVER>> /\ Len(list) = 1 /\ Len(fds) = 1
      /\ list[1] = SERVER /\ fds[1] = SERVER
      /\ backlog = <<>> /\ Len(backlog) = 0 /\ events = <<>> /\ Len(events) = 0
      /\ pc = "poll"
  BY DEF InitServer, Init
<1>2. Types8
  <2>1. list \in Seq(Conns) /\ fds \in Seq(Fds) /\ events \in Seq(Event3)
    BY <1>1 DEF Conns, Fds
  <2>2. /\ peer \in [Sensors -> {"off", "open", "closed"}]
        /\ side \in [Sensors -> {"none", "backlog", "accepted", "closed"}]
        /\ sent \in Counts /\ taken \in Counts /\ buffered \in Counts
        /\ part \in [Sensors -> {0, 1}] /\ whole \in [Sensors -> BOOLEAN]
    BY DEF InitServer, Init, Counts
  <2>3. backlog \in Seq(Sensors) /\ index \in 1 .. Len(events) + 1
    BY <1>1 DEF InitServer, Init
  <2> QED
    BY <1>1, <2>1, <2>2, <2>3 DEF Types8
<1>3. Whole8
  <2>1. \A s \in Sensors : taken[s] = 0 /\ buffered[s] = 0 /\ part[s] = 0
    BY DEF InitServer, Init
  <2>2. 0 = 3 * 0
    OBVIOUS
  <2> QED
    BY <2>1, <2>2 DEF Whole8, Whole
<1>4. Waiting8 /\ Places8 /\ Round8 /\ Look8
  BY <1>1 DEF Waiting8, Waits, Listed, Once, Places8, Round8, Look8, InRound8
<1>5. Calm8
  BY <1>1 DEF Calm8, InStep, InRound8
<1> QED
  BY <1>2, <1>3, <1>4, <1>5 DEF Inv8

(* A node that connects has not been waiting, nor is it in the list.       *)
LEMMA Connect8 ==
  ASSUME Inv8, NEW s \in Sensors, Connect(s), UNCHANGED halves
  PROVE  Inv8'
<1>1. /\ peer[s] = "off" /\ UNCHANGED Gateway /\ UNCHANGED <<sent, part, whole>>
      /\ peer' = [peer EXCEPT ![s] = "open"] /\ side' = [side EXCEPT ![s] = "backlog"]
      /\ backlog' = Append(backlog, s)
  BY DEF Connect, Gateway, halves
<1>2. /\ backlog \in Seq(Sensors) /\ Len(backlog) \in Nat
      /\ side \in [Sensors -> {"none", "backlog", "accepted", "closed"}]
      /\ peer \in [Sensors -> {"off", "open", "closed"}]
      /\ \A i \in 1 .. Len(backlog) : backlog[i] \in Sensors
  BY Sequences8 DEF Inv8, Types8
<1>3. /\ backlog' \in Seq(Sensors) /\ Len(backlog') = Len(backlog) + 1
      /\ \A i \in 1 .. Len(backlog) : backlog'[i] = backlog[i]
      /\ backlog'[Len(backlog) + 1] = s
  BY <1>1, <1>2, AppendProperties
<1>4. Types8'
  <2>1. /\ peer' \in [Sensors -> {"off", "open", "closed"}]
        /\ side' \in [Sensors -> {"none", "backlog", "accepted", "closed"}]
    BY <1>1, <1>2
  <2> QED
    BY <1>1, <1>3, <2>1 DEF Inv8, Types8, Gateway
<1>5. /\ \A y \in Sensors : Whole(y)' <=> Whole(y)
      /\ \A y \in Sensors : Partial(y) => Partial(y)'
  BY <1>1, <1>2 DEF Whole, Partial, Gateway
<1>6. Whole8'
  BY <1>5 DEF Inv8, Whole8
<1>7. Whole(s) /\ ~Waits(s) /\ ~Listed(s)
  BY <1>1 DEF Inv8, Whole8, Partial, Waiting8
<1>8. Waiting8'
  <2>1. ASSUME NEW y \in Sensors, Waits(y)' PROVE Waits(y) \/ y = s
    <3>1. PICK i \in 1 .. Len(backlog') : backlog'[i] = y
      BY <2>1 DEF Waits
    <3>2. i = Len(backlog) + 1 \/ i \in 1 .. Len(backlog)
      BY <1>2, <1>3
    <3> QED
      BY <1>3, <3>1, <3>2 DEF Waits
  <2>2. ASSUME NEW i \in 1 .. Len(backlog'), NEW j \in 1 .. Len(backlog'),
               backlog'[i] = backlog'[j]
        PROVE  i = j
    <3>1. /\ i = Len(backlog) + 1 \/ i \in 1 .. Len(backlog)
          /\ j = Len(backlog) + 1 \/ j \in 1 .. Len(backlog)
      BY <1>2, <1>3
    <3> QED
      BY <1>3, <1>7, <2>2, <3>1 DEF Inv8, Waiting8, Once, Waits
  <2>3. \A y \in Sensors : Listed(y)' <=> Listed(y)
    BY <1>1 DEF Listed, Gateway
  <2>4. \A y \in Sensors : peer[y] # "off" => peer'[y] # "off"
    BY <1>1, <1>2
  <2>5. peer'[s] # "off"
    BY <1>1, <1>2
  <2>6. ASSUME NEW y \in Sensors
        PROVE  /\ Waits(y)' => peer'[y] # "off" /\ Whole(y)'
               /\ Listed(y)' => peer'[y] # "off" /\ ~Waits(y)'
    BY <1>5, <1>7, <2>1, <2>3, <2>4, <2>5 DEF Inv8, Waiting8
  <2>7. Once(backlog')
    BY <2>2 DEF Once
  <2> QED
    BY <1>1, <2>6, <2>7 DEF Inv8, Waiting8, Once, Gateway
<1>9. backlog' # <<>>
  BY <1>2, <1>3, EmptySeq
<1>10. Places8' /\ Round8' /\ Look8' /\ Calm8'
  BY <1>1, <1>9 DEF Inv8, Places8, Round8, Look8, Calm8, InRound8, InStep, Kept,
                    Gap, GapAt, Gateway
<1> QED
  BY <1>4, <1>6, <1>8, <1>10 DEF Inv8

LEMMA SendFieldOrLeave8 ==
  ASSUME Inv8, NEW s \in Sensors, GoesOn(s)
  PROVE  Inv8'
<1>1. /\ UNCHANGED Gateway /\ UNCHANGED <<backlog, side, part, whole>>
      /\ peer[s] = "open" /\ peer' \in {peer, [peer EXCEPT ![s] = "closed"]}
      /\ sent' \in {sent, [sent EXCEPT ![s] = @ + 1]}
  BY DEF GoesOn, SendField, Leave, Gateway, halves
<1>2. peer \in [Sensors -> {"off", "open", "closed"}] /\ sent \in Counts
  BY DEF Inv8, Types8
<1>3. Types8'
  <2>1. peer' \in [Sensors -> {"off", "open", "closed"}] /\ sent' \in Counts
    BY <1>1, <1>2 DEF Counts
  <2> QED
    BY <1>1, <2>1 DEF Inv8, Types8, Gateway
<1>4. \A y \in Sensors : peer'[y] = "off" => peer[y] = "off"
  BY <1>1, <1>2
<1>5. \A y \in Sensors : Partial(y) => Partial(y)'
  BY <1>1, <1>2 DEF Partial, Counts, Gateway
<1>6. Whole8'
  BY <1>1, <1>5 DEF Inv8, Whole8, Whole, Gateway
<1>7. Waiting8'
  BY <1>1, <1>4 DEF Inv8, Waiting8, Once, Whole, Waits, Listed, Gateway
<1>8. Places8' /\ Round8' /\ Look8' /\ Calm8'
  BY <1>1 DEF Inv8, Places8, Round8, Look8, Calm8, InRound8, InStep, Kept,
              Gap, GapAt, Gateway
<1> QED
  BY <1>3, <1>6, <1>7, <1>8 DEF Inv8


LEMMA Poll8 ==
  ASSUME Inv8, PollFds
  PROVE  Inv8'
<1>1. /\ pc = "poll" /\ pc' = "scan" /\ events' = Polled /\ index' = NextEvent(Polled, 0)
      /\ calm' = (calm /\ Calm(Polled))
      /\ UNCHANGED <<peer, sent, backlog, side, list, fds, cur, taken, buffered, part,
                     whole>>
  BY DEF PollFds, Poll, net, halves
<1>2. /\ Len(list) \in Nat /\ 1 <= Len(list) /\ Len(list) <= Len(fds) /\ Len(fds) \in Nat
      /\ fds[1] = SERVER
  BY <1>1, Sequences8 DEF Inv8, Places8
<1>3. Event(SERVER) = IF backlog # <<>> THEN "in" ELSE None
  BY DEF Event, SERVER, REMOVE_FD
<1>4. /\ events' \in Seq(Event3) /\ Len(events') = Len(list)
      /\ events'[1] = IF backlog # <<>> THEN "in" ELSE None
  <2>1. \A x : Event(x) \in Event3
    BY DEF Event, Event3
  <2>2. Polled \in Seq(Event3) /\ Len(Polled) = Len(list) /\ Polled[1] = Event(fds[1])
    BY <1>2, <2>1 DEF Polled
  <2> QED
    BY <1>1, <1>2, <1>3, <2>2
<1>5. /\ index' \in 1 .. Len(events') + 1
      /\ index' <= Len(events') => events'[index'] # None
  <2>1. Polled \in Seq(Event3) /\ 0 \in 0 .. Len(Polled)
    BY <1>1, <1>2, <1>4
  <2>2. /\ NextEvent(Polled, 0) \in 0 + 1 .. Len(Polled) + 1
        /\ NextEvent(Polled, 0) <= Len(Polled) => Polled[NextEvent(Polled, 0)] # None
    BY <2>1, NextEventBehind
  <2> QED
    BY <1>1, <2>2
<1>6. Types8'
  BY <1>1, <1>4, <1>5 DEF Inv8, Types8
<1>7. Whole8' /\ Waiting8' /\ Places8'
  BY <1>1 DEF Inv8, Whole8, Whole, Partial, Waiting8, Waits, Listed, Once, Places8
<1>8. index' = 1 => events'[1] = "in" /\ backlog # <<>>
  BY <1>2, <1>4, <1>5
<1>9. events'[1] # "other"
  BY <1>4 DEF None
<1>10. Round8' /\ Look8'
  BY <1>1, <1>2, <1>4, <1>5, <1>8, <1>9 DEF Round8, Look8, InRound8
<1>11. Calm8'
  <2> SUFFICES ASSUME calm' PROVE Kept'
    BY <1>1 DEF Calm8
  <2> QED
    BY <1>1, <1>4 DEF Inv8, Calm8, Kept, InStep
<1> QED
  BY <1>6, <1>7, <1>10, <1>11 DEF Inv8

(* What every step of a round begins and ends with: the scan goes on.      *)
LEMMA Continue8 ==
  ASSUME Inv8, InRound8, index <= Len(events), Continue, events' = events
  PROVE  /\ pc' = "scan" /\ InRound8'
         /\ index' \in index + 1 .. Len(events) + 1 /\ index' \in 1 .. Len(events) + 1
         /\ index' <= Len(events) => events[index'] # None
<1>1. /\ events \in Seq(Event3) /\ Len(events) \in Nat /\ index \in 1 .. Len(events) + 1
      /\ index \in 0 .. Len(events)
  BY Sequences8 DEF Inv8
<1>2. index' = NextEvent(events, index) /\ pc' = "scan"
  BY DEF Continue
<1>3. /\ index' \in index + 1 .. Len(events) + 1
      /\ index' <= Len(events) => events[index'] # None
  BY <1>1, <1>2, NextEventBehind
<1> QED
  BY <1>1, <1>2, <1>3 DEF InRound8

(* A close is of an entry behind the server's, and of a connection.  It    *)
(* leaves of the closed node whole measurements, or part of one for good.  *)
CloseStep(c, s) ==
  /\ InRound8 /\ index \in 2 .. Len(events)
  /\ c = ReferenceAt(list, index) /\ s = list[c]
  /\ CloseEntry /\ Continue
  /\ UNCHANGED <<peer, sent, backlog, events, buffered>>
  /\ taken' \in Counts /\ part' \in [Sensors -> {0, 1}] /\ whole' = whole
  /\ \A y \in Sensors : y # s => taken'[y] = taken[y] /\ part'[y] = part[y]
  /\ Whole(s)' \/ Partial(s)'

LEMMA ListedAt ==
  ASSUME Inv8, InRound8, index \in 2 .. Len(events)
  PROVE  /\ ReferenceAt(list, index) \in 2 .. Len(list)
         /\ list[ReferenceAt(list, index)] \in Sensors
<1>1. Len(events) + 2 <= Len(list) + index /\ Len(list) \in Nat /\ Len(events) \in Nat
  BY Sequences8 DEF Inv8, Round8
<1>2. ReferenceAt(list, index) \in 2 .. Len(list)
  BY <1>1 DEF ReferenceAt
<1> QED
  BY <1>2 DEF Inv8, Waiting8

LEMMA Closing8 ==
  ASSUME Inv8, NEW c, NEW s, CloseStep(c, s)
  PROVE  /\ c \in 2 .. Len(list) /\ s \in Sensors
         /\ pc' = "scan" /\ index' \in index + 1 .. Len(events) + 1
         /\ Shorter(list, c, list')
         /\ fds' \in Seq(Fds) /\ Len(fds') = Len(fds) /\ index <= Len(fds)
         /\ \A i \in 1 .. Len(fds) : fds'[i] = IF i = index THEN REMOVE_FD ELSE fds[i]
         /\ side' \in [Sensors -> {"none", "backlog", "accepted", "closed"}]
         /\ \A y \in Sensors : side[y] = "closed" => side'[y] = "closed"
<1>1. /\ side' = Closed(side, {GetElementAt(list, index), fds[index]})
      /\ list' = RemoveAtIndex(list, index) /\ fds' = [fds EXCEPT ![index] = REMOVE_FD]
      /\ InRound8 /\ index \in 2 .. Len(events) /\ events' = events /\ Continue
      /\ c = ReferenceAt(list, index) /\ s = list[c]
  BY DEF CloseStep, CloseEntry
<1>2. /\ list \in Seq(Conns) /\ fds \in Seq(Fds) /\ Len(list) \in Nat /\ Len(fds) \in Nat
      /\ Len(events) \in Nat /\ Len(events) <= Len(fds)
      /\ Len(events) + 2 <= Len(list) + index
      /\ side \in [Sensors -> {"none", "backlog", "accepted", "closed"}]
  BY <1>1, Sequences8 DEF Inv8, Types8, Round8
<1>3. c \in 2 .. Len(list) /\ s \in Sensors
  BY <1>1, ListedAt
<1>4. pc' = "scan" /\ index' \in index + 1 .. Len(events) + 1
  BY <1>1, Continue8
<1>5. Shorter(list, c, list')
  <2>1. list' = Without(list, c)
    BY <1>1 DEF RemoveAtIndex, RemoveAt, Without
  <2> QED
    BY <1>2, <1>3, <2>1, WithoutIsShorter
<1>6. /\ fds' \in Seq(Fds) /\ Len(fds') = Len(fds) /\ index <= Len(fds)
      /\ \A i \in 1 .. Len(fds) : fds'[i] = IF i = index THEN REMOVE_FD ELSE fds[i]
  <2>1. REMOVE_FD \in Fds /\ index \in 1 .. Len(fds)
    BY <1>1, <1>2 DEF Fds
  <2> QED
    BY <1>1, <1>2, <2>1, ExceptSeq
<1>7. /\ side' \in [Sensors -> {"none", "backlog", "accepted", "closed"}]
      /\ \A y \in Sensors : side[y] = "closed" => side'[y] = "closed"
  BY <1>1, <1>2 DEF Closed
<1> QED
  BY <1>3, <1>4, <1>5, <1>6, <1>7

(* The close that ends a calm round leaves one gap, as in the final        *)
(* program.                                                                *)
LEMMA CloseCalm8 ==
  ASSUME Inv8, NEW c, NEW s, CloseStep(c, s)
  PROVE  Calm8'
<1>1. /\ c = ReferenceAt(list, index) /\ InRound8 /\ index \in 2 .. Len(events)
      /\ events' = events /\ Continue
      /\ calm' = (calm /\ CalmClosing(index))
  BY DEF CloseStep, CloseEntry
<1>2. /\ pc' = "scan" /\ index' \in index + 1 .. Len(events) + 1
      /\ Shorter(list, c, list') /\ Len(fds') = Len(fds)
      /\ \A i \in 1 .. Len(fds) : fds'[i] = IF i = index THEN REMOVE_FD ELSE fds[i]
  BY Closing8
<1>3. /\ Len(events) \in Nat /\ Len(list) \in Nat /\ Len(fds) \in Nat
      /\ DOMAIN events = 1 .. Len(events)
      /\ Len(list) <= Len(fds)
  BY <1>1, Sequences8, LenProperties DEF Inv8, Places8, InRound8
<1> SUFFICES ASSUME calm' PROVE Gap'
  BY <1>2 DEF Calm8
<1>4. events[1] = None /\ \A j \in index + 1 .. Len(events) : events[j] = None
  <2>1. CalmClosing(index)
    BY <1>1
  <2>2. /\ 1 \in DOMAIN events
        /\ \A j \in index + 1 .. Len(events) : j \in DOMAIN events /\ j > index
    BY <1>1, <1>3
  <2> QED
    BY <2>1, <2>2 DEF CalmClosing
<1>5. InStep /\ Len(list) = Len(events)
  <2>1. Kept \/ Gap
    BY <1>1 DEF Inv8, Calm8
  <2>2. index # Len(events) + 1 /\ events[1] # "in"
    BY <1>1, <1>3, <1>4 DEF None
  <2> QED
    BY <2>1, <2>2 DEF Kept, Gap
<1>6. c = index
  BY <1>1, <1>5 DEF ReferenceAt
<1>7. index' = Len(events) + 1
  <2>1. index' <= Len(events) => events[index'] # None
    BY <1>1, Continue8
  <2> QED
    BY <1>1, <1>2, <1>3, <1>4, <2>1
<1>8. /\ Len(list') = Len(list) - 1
      /\ \A k \in 1 .. Len(list) - 1 : list'[k] = IF k < index THEN list[k] ELSE list[k + 1]
  BY <1>2, <1>6 DEF Shorter
<1>9. fds'[index] = REMOVE_FD
  BY <1>1, <1>2, <1>3, <1>5
<1>10. ASSUME NEW i \in 1 .. index - 1 PROVE fds'[i] = list'[i]
  <2>1. /\ i \in 1 .. Len(fds) /\ i \in 1 .. Len(list) /\ i \in 1 .. Len(list) - 1
        /\ i < index
    BY <1>1, <1>3, <1>5
  <2> QED
    BY SMTT(30), <1>2, <1>5, <1>8, <2>1 DEF InStep
<1>11. ASSUME NEW i \in index .. Len(list') PROVE fds'[i + 1] = list'[i]
  <2>1. /\ i + 1 \in 1 .. Len(fds) /\ i + 1 \in 1 .. Len(list) /\ i + 1 # index
        /\ i \in 1 .. Len(list) - 1 /\ ~(i < index)
    BY <1>1, <1>3, <1>5, <1>8
  <2> QED
    BY <1>2, <1>5, <1>8, <2>1 DEF InStep
<1>12. \E r \in 2 .. Len(events) :
         /\ fds'[r] = REMOVE_FD
         /\ \A i \in 1 .. r - 1 : fds'[i] = list'[i]
         /\ \A i \in r .. Len(list') : fds'[i + 1] = list'[i]
  BY <1>1, <1>9, <1>10, <1>11
<1>13. \E r \in 2 .. Len(events') : GapAt(r)'
  BY ONLY <1>1, <1>12 DEF GapAt
<1>14. pc' = "scan" /\ index' = Len(events') + 1 /\ Len(events') = Len(list') + 1
  BY ONLY <1>1, <1>2, <1>3, <1>5, <1>7, <1>8
<1> QED
  BY ONLY <1>13, <1>14 DEF Gap

LEMMA Close8 ==
  ASSUME Inv8, NEW c, NEW s, CloseStep(c, s)
  PROVE  Inv8'
<1>1. /\ c \in 2 .. Len(list) /\ s \in Sensors
      /\ pc' = "scan" /\ index' \in index + 1 .. Len(events) + 1
      /\ Shorter(list, c, list')
      /\ fds' \in Seq(Fds) /\ Len(fds') = Len(fds) /\ index <= Len(fds)
      /\ \A i \in 1 .. Len(fds) : fds'[i] = IF i = index THEN REMOVE_FD ELSE fds[i]
      /\ side' \in [Sensors -> {"none", "backlog", "accepted", "closed"}]
      /\ \A y \in Sensors : side[y] = "closed" => side'[y] = "closed"
  BY Closing8
<1>2. /\ InRound8 /\ index \in 2 .. Len(events) /\ s = list[c]
      /\ UNCHANGED <<peer, sent, backlog, events, buffered>>
      /\ taken' \in Counts /\ part' \in [Sensors -> {0, 1}] /\ whole' = whole
      /\ \A y \in Sensors : y # s => taken'[y] = taken[y] /\ part'[y] = part[y]
      /\ Whole(s)' \/ Partial(s)'
  BY DEF CloseStep
<1>3. /\ Len(list) \in Nat /\ Len(fds) \in Nat /\ Len(events) \in Nat
      /\ index \in 1 .. Len(events) + 1
  BY Sequences8 DEF Inv8
<1>4. /\ list' \in Seq(Conns) /\ Len(list') = Len(list) - 1
      /\ \A k \in 1 .. Len(list) - 1 : list'[k] = IF k < c THEN list[k] ELSE list[k + 1]
  BY <1>1 DEF Shorter
<1>5. Types8'
  BY <1>1, <1>2, <1>4 DEF Inv8, Types8
<1>6. /\ \A y \in Sensors : y # s => (Whole(y)' <=> Whole(y))
      /\ \A y \in Sensors : y # s /\ Partial(y) => Partial(y)'
  BY <1>1, <1>2 DEF Whole, Partial
<1>7. Whole8'
  BY <1>2, <1>6 DEF Inv8, Whole8
<1>8. ASSUME NEW i \in 2 .. Len(list')
      PROVE  \E k \in 2 .. Len(list) : list'[i] = list[k]
  <2>1. CASE i < c
    BY <1>3, <1>4, <2>1
  <2>2. CASE ~(i < c)
    <3>1. i + 1 \in 2 .. Len(list) /\ i \in 1 .. Len(list) - 1
      BY <1>1, <1>3, <1>4, <2>2
    <3> QED
      BY <1>4, <2>2, <3>1
  <2> QED
    BY <2>1, <2>2
<1>9. Waiting8'
  <2>1. \A y \in Sensors : Listed(y)' => Listed(y)
    BY <1>8 DEF Listed
  <2>2. \A y \in Sensors : Waits(y)' <=> Waits(y)
    BY <1>2 DEF Waits
  <2>3. \A i \in 2 .. Len(list') : list'[i] \in Sensors
    BY <1>8 DEF Inv8, Waiting8
  <2>4. Listed(s)
    BY <1>1, <1>2 DEF Listed
  <2> QED
    BY <1>1, <1>2, <1>6, <2>1, <2>2, <2>3, <2>4 DEF Inv8, Waiting8, Once
<1>10. Places8' /\ Round8' /\ Look8'
  <2>1. /\ fds[1] = SERVER /\ 1 <= Len(list) /\ Len(list) <= Len(fds)
        /\ 1 <= Len(events) /\ Len(events) <= Len(fds) /\ events[1] # "other"
        /\ Len(events) + 2 <= Len(list) + index
    BY <1>2, <1>3 DEF Inv8, Places8, Round8, InRound8
  <2>2. Places8'
    <3>1. 2 <= Len(list) /\ index # 1 /\ 1 \in 1 .. Len(fds)
      BY <1>1, <1>2, <1>3, <2>1
    <3>2. 1 <= Len(list') /\ Len(list') <= Len(fds')
      BY <1>1, <1>3, <1>4, <2>1, <3>1
    <3>3. fds'[1] = SERVER
      BY <1>1, <2>1, <3>1
    <3> QED
      BY <3>2, <3>3 DEF Places8
  <2>3. Round8' /\ Look8'
    BY <1>1, <1>2, <1>3, <1>4, <2>1 DEF Round8, Look8
  <2> QED
    BY <2>2, <2>3
<1>11. Calm8'
  BY CloseCalm8
<1> QED
  BY <1>5, <1>7, <1>9, <1>10, <1>11 DEF Inv8

(* What has been read of a node is not changed by closing its connection.  *)
LEMMA CloseReported8 ==
  ASSUME Inv8, CloseReported
  PROVE  Inv8'
<1>1. /\ pc = "scan" /\ index <= Len(events) /\ events[index] = "other"
      /\ CloseEntry /\ Continue
      /\ UNCHANGED <<peer, sent, backlog, events, taken, buffered, part, whole>>
  BY DEF CloseReported, Scanning, net, halves
<1>2. InRound8 /\ index \in 2 .. Len(events)
  <2>1. index # 1
    BY <1>1 DEF Inv8, Round8, InRound8
  <2> QED
    BY <1>1, <2>1, Sequences8 DEF Inv8, InRound8
<1>3. PICK c, s : c = ReferenceAt(list, index) /\ s = list[c]
  OBVIOUS
<1>4. s \in Sensors
  BY <1>2, <1>3, ListedAt
<1>5. /\ taken \in Counts /\ part \in [Sensors -> {0, 1}]
      /\ side \in [Sensors -> {"none", "backlog", "accepted", "closed"}]
  BY DEF Inv8, Types8
<1>6. \A y \in Sensors : side[y] = "closed" => side'[y] = "closed"
  BY <1>1, <1>5 DEF CloseEntry, Closed
<1>7. Whole(s)' \/ Partial(s)'
  BY <1>1, <1>4, <1>6 DEF Inv8, Whole8, Whole, Partial
<1>8. CloseStep(c, s)
  BY <1>1, <1>2, <1>3, <1>5, <1>7 DEF CloseStep
<1> QED
  BY <1>8, Close8

(* Three receives that do not all find something are of a node that has    *)
(* gone: all that it sent has been read, and it is closed.                 *)
LEMMA ReadCutOff8 ==
  ASSUME Inv8, ReadCutOff
  PROVE  Inv8'
<1>1. PICK n \in 0 .. 4 : TcpReceive(n) /\ Received(cur) + n = 2 * sent[cur]
  BY DEF ReadCutOff
<1>2. /\ pc = "read" /\ CloseEntry /\ Continue /\ peer[cur] = "closed"
      /\ UNCHANGED <<peer, sent, backlog, events, buffered, whole>>
  BY DEF ReadCutOff, net
<1>3. PICK c, s : c = ReferenceAt(list, index) /\ s = list[c]
  OBVIOUS
<1>4. InRound8 /\ index \in 2 .. Len(events) /\ cur = s /\ s \in Sensors
  BY <1>2, <1>3 DEF Inv8, Look8, InRound8, GetElementAt
<1>5. /\ taken \in Counts /\ buffered \in Counts /\ sent \in Counts
      /\ part \in [Sensors -> {0, 1}]
      /\ side \in [Sensors -> {"none", "backlog", "accepted", "closed"}]
  BY DEF Inv8, Types8
<1>6. /\ taken[s] \in Nat /\ buffered[s] \in Nat /\ sent[s] \in Nat /\ part[s] \in {0, 1}
  BY <1>4, <1>5 DEF Counts
<1>7. /\ 2 * taken[s] + part[s] + n = 2 * sent[s]
      /\ taken' = [taken EXCEPT ![s] = sent[s]] /\ part' = [part EXCEPT ![s] = 0]
  <2>1. Received(s) + n = 2 * sent[s] /\ Received(s) = 2 * taken[s] + part[s]
    BY <1>1, <1>4 DEF Received
  <2>2. (2 * sent[s]) \div 2 = sent[s] /\ (2 * sent[s]) % 2 = 0
    BY <1>6
  <2>3. /\ taken' = [taken EXCEPT ![s] = (2 * sent[s]) \div 2]
        /\ part' = [part EXCEPT ![s] = (2 * sent[s]) % 2]
    BY <1>1, <1>4, <2>1 DEF TcpReceive
  <2> QED
    BY <2>1, <2>2, <2>3
<1>8. /\ taken' \in Counts /\ part' \in [Sensors -> {0, 1}]
      /\ taken'[s] = sent[s] /\ part'[s] = 0
      /\ \A y \in Sensors : y # s => taken'[y] = taken[y] /\ part'[y] = part[y]
  BY <1>4, <1>5, <1>6, <1>7 DEF Counts
<1>9. side'[s] = "closed"
  BY <1>2, <1>3, <1>4, <1>5 DEF CloseEntry, Closed, GetElementAt
<1>10. Whole(s)' \/ Partial(s)'
  <2> SUFFICES ASSUME whole[s] PROVE Whole(s)' \/ Partial(s)'
    BY <1>2 DEF Whole
  <2>1. /\ n \in 0 .. 4 /\ 2 * taken[s] + part[s] + n = 2 * sent[s] /\ part[s] = 0
        /\ \/ taken[s] = 3 * buffered[s]
           \/ sent[s] = taken[s] /\ taken[s] - 3 * buffered[s] \in 1 .. 2
    BY <1>4, <1>7 DEF Inv8, Whole8, Whole, Partial
  <2>2. sent[s] - 3 * buffered[s] \in 0 .. 2
    BY ONLY <1>6, <2>1
  <2>3. peer'[s] = "closed" /\ sent'[s] = taken'[s] /\ buffered'[s] = buffered[s]
    BY <1>2, <1>4, <1>8
  <2> QED
    BY <1>6, <1>8, <1>9, <2>2, <2>3 DEF Whole, Partial
<1>11. CloseStep(c, s)
  BY <1>2, <1>3, <1>4, <1>8, <1>10 DEF CloseStep
<1> QED
  BY <1>11, Close8


(* An entry of fds behind n others, written over what was there or behind  *)
(* the end.                                                                *)
Written(q, n, x, t) == /\ t \in Seq(Fds) /\ \A i \in 1 .. n : t[i] = q[i]
                       /\ t[n + 1] = x
                       /\ n = Len(q) => Len(t) = n + 1
                       /\ n < Len(q) => Len(t) = Len(q)

LEMMA EntryBehind ==
  ASSUME NEW q \in Seq(Fds), NEW n \in 1 .. Len(q), NEW x \in Sensors
  PROVE  Written(q, n, x, SubSeq(q, 1, n) \o <<x>> \o SubSeq(q, n + 2, Len(q)))
<1> DEFINE a == SubSeq(q, 1, n)
           b == <<x>>
           d == SubSeq(q, n + 2, Len(q))
           ab == a \o b
           t == ab \o d
<1>1. Len(q) \in Nat /\ \A k \in 1 .. Len(q) : q[k] \in Fds
  BY LenProperties, ElementOfSeq
<1>2. a \in Seq(Fds) /\ Len(a) = n /\ \A k \in 1 .. n : a[k] = q[k]
  BY <1>1, SubSeqProperties
<1>3. b \in Seq(Fds) /\ Len(b) = 1 /\ b[1] = x
  BY DEF Fds
<1>4. /\ d \in Seq(Fds)
      /\ n = Len(q) => Len(d) = 0
      /\ n < Len(q) => Len(d) = Len(q) - (n + 1)
  <2>1. CASE n < Len(q)
    BY <1>1, <2>1, SubSeqProperties
  <2>2. CASE n = Len(q)
    <3>1. d = <<>>
      BY <1>1, <2>2
    <3> QED
      BY <2>2, <3>1
  <2> QED
    BY <1>1, <2>1, <2>2
<1>5. SubSeq(q, 1, n) \o <<x>> \o SubSeq(q, n + 2, Len(q)) = t
  OBVIOUS
<1> HIDE DEF a, b, d
<1>6. Joined(a, b, ab)
  BY <1>2, <1>3, ConcatJoins
<1> HIDE DEF ab
<1>7. /\ ab \in Seq(Fds) /\ Len(ab) = n + 1 /\ ab[n + 1] = x
      /\ \A k \in 1 .. n : ab[k] = q[k]
  <2>1. ab \in Seq(Fds) /\ Len(ab) = n + 1 /\ \A k \in 1 .. n : ab[k] = q[k]
    BY <1>1, <1>2, <1>3, <1>6 DEF Joined
  <2>2. n + 1 \in 1 .. Len(a) + Len(b) /\ ~(n + 1 <= Len(a)) /\ n + 1 - Len(a) = 1
    BY <1>2, <1>3
  <2>3. ab[n + 1] = b[n + 1 - Len(a)]
    BY <1>6, <2>2 DEF Joined
  <2> QED
    BY <1>3, <2>1, <2>2, <2>3
<1>8. Joined(ab, d, t)
  BY <1>4, <1>7, ConcatJoins
<1> HIDE DEF t
<1>9. t \in Seq(Fds) /\ Len(t) = n + 1 + Len(d)
  BY <1>7, <1>8 DEF Joined
<1>10. \A k \in 1 .. n + 1 : t[k] = ab[k]
  <2>1. Len(d) \in Nat
    BY <1>4, LenProperties
  <2> QED
    BY <1>7, <1>8, <2>1 DEF Joined
<1>11. n \in Nat
  BY <1>1
<1>12. n + 1 \in 1 .. n + 1 /\ \A k \in 1 .. n : k \in 1 .. n + 1
  BY <1>11
<1>13. t[n + 1] = x /\ \A k \in 1 .. n : t[k] = q[k]
  BY <1>7, <1>10, <1>12
<1>14. /\ n = Len(q) => Len(t) = n + 1
       /\ n < Len(q) => Len(t) = Len(q)
  <2>1. CASE n = Len(q)
    <3>1. Len(d) = 0
      BY <1>4, <2>1
    <3>2. Len(t) = n + 1
      BY <1>9, <1>11, <3>1
    <3> QED
      BY <1>11, <2>1, <3>2
  <2>2. CASE n < Len(q)
    <3>1. Len(d) = Len(q) - (n + 1)
      BY <1>4, <2>2
    <3>2. Len(t) = n + 1 + (Len(q) - (n + 1))
      BY <1>9, <3>1
    <3>3. Len(t) = Len(q)
      BY <1>1, <1>11, <3>2
    <3> QED
      BY <1>1, <1>11, <2>2, <3>3
  <2> QED
    BY <1>1, <1>11, <2>1, <2>2
<1> QED
  BY <1>5, <1>9, <1>13, <1>14 DEF Written

LEMMA ElementBehind ==
  ASSUME NEW q \in Seq(Conns), NEW x \in Sensors
  PROVE  /\ InsertAtIndex(q, x, Len(q) + 1) \in Seq(Conns)
         /\ Len(InsertAtIndex(q, x, Len(q) + 1)) = Len(q) + 1
         /\ \A i \in 1 .. Len(q) : InsertAtIndex(q, x, Len(q) + 1)[i] = q[i]
         /\ InsertAtIndex(q, x, Len(q) + 1)[Len(q) + 1] = x
<1> DEFINE t == Append(q, x)
<1>1. Len(q) \in Nat
  BY LenProperties
<1>2. x \in Conns
  BY DEF Conns
<1>3. /\ t \in Seq(Conns) /\ Len(t) = Len(q) + 1 /\ t[Len(q) + 1] = x
      /\ \A i \in 1 .. Len(q) : t[i] = q[i]
  BY <1>2, AppendProperties
<1>4. InsertAtIndex(q, x, Len(q) + 1) = InsertAt(q, Len(q) + 1, x)
  BY <1>1 DEF InsertAtIndex
<1>5. Len(q) + 1 - 1 = Len(q)
  BY <1>1
<1>6. SubSeq(q, 1, Len(q)) = q /\ SubSeq(q, Len(q) + 1, Len(q)) = <<>>
  <2>1. SubSeq(q, 1, Len(q)) = q
    BY SubSeqFull
  <2>2. Len(q) + 1 \in Int /\ Len(q) \in Int /\ Len(q) < Len(q) + 1
    BY <1>1
  <2>3. \A m, n \in Int : n < m => SubSeq(q, m, n) = <<>>
    BY SubSeqEmpty
  <2> QED
    BY <2>1, <2>2, <2>3
<1>7. InsertAt(q, Len(q) + 1, x) = (q \o <<x>>) \o <<>>
  <2>1. SubSeq(q, 1, Len(q) + 1 - 1) = q
    BY <1>5, <1>6
  <2>2. InsertAt(q, Len(q) + 1, x)
          = (SubSeq(q, 1, Len(q) + 1 - 1) \o <<x>>) \o SubSeq(q, Len(q) + 1, Len(q))
    BY DEF InsertAt
  <2> QED
    BY <1>6, <2>1, <2>2
<1>8. q \o <<x>> = t
  BY <1>2, AppendIsConcat
<1>9. t \o <<>> = t
  BY <1>3, ConcatEmptySeq
<1> QED
  BY <1>3, <1>4, <1>7, <1>8, <1>9


(* The new connection is the oldest that waits.                            *)
LEMMA Inserting8 ==
  ASSUME Inv8, InsertClient
  PROVE  \E x \in Sensors :
           /\ pc = "scan" /\ pc' = "scan" /\ index = 1 /\ 1 <= Len(events)
           /\ events[1] = "in" /\ index' \in 2 .. Len(events) + 1
           /\ Len(list) = Len(events) /\ Len(backlog) >= 1 /\ x = backlog[1]
           /\ side' = [side EXCEPT ![x] = "accepted"]
           /\ backlog' \in Seq(Sensors) /\ Len(backlog') = Len(backlog) - 1
           /\ \A i \in 1 .. Len(backlog) - 1 : backlog'[i] = backlog[i + 1]
           /\ Written(fds, Len(events), x, fds')
           /\ list' \in Seq(Conns) /\ Len(list') = Len(list) + 1
           /\ \A i \in 1 .. Len(list) : list'[i] = list[i]
           /\ list'[Len(list) + 1] = x
           /\ UNCHANGED <<peer, sent, events, taken, buffered, calm, part, whole>>
<1> DEFINE x == Head(backlog)
<1>1. /\ pc = "scan" /\ index = 1 /\ index <= Len(events) /\ events[1] = "in"
      /\ backlog' = Tail(backlog) /\ side' = [side EXCEPT ![x] = "accepted"]
      /\ fds' = SubSeq(fds, 1, Len(events)) \o <<x>> \o SubSeq(fds, Len(events) + 2, Len(fds))
      /\ list' = InsertAtIndex(list, x, Len(events) + 1)
      /\ Continue
      /\ UNCHANGED <<peer, sent, events, taken, buffered, calm, part, whole>>
  BY DEF InsertClient, Scanning, TcpWait, halves
<1>2. /\ 1 <= Len(events) /\ Len(events) <= Len(fds) /\ Len(list) = Len(events)
      /\ backlog # <<>> /\ InRound8
  BY <1>1 DEF Inv8, Round8, Look8, InRound8
<1>3. /\ fds \in Seq(Fds) /\ list \in Seq(Conns) /\ backlog \in Seq(Sensors)
      /\ Len(fds) \in Nat /\ Len(events) \in Nat /\ Len(backlog) \in Nat
      /\ Len(backlog) # 0
  BY <1>2, Sequences8, EmptySeq DEF Inv8
<1>4. /\ x = backlog[1] /\ x \in Sensors
      /\ backlog' \in Seq(Sensors) /\ Len(backlog') = Len(backlog) - 1
      /\ \A i \in 1 .. Len(backlog) - 1 : backlog'[i] = backlog[i + 1]
  BY <1>1, <1>2, <1>3, HeadTailProperties
<1> HIDE DEF x
<1>5. Written(fds, Len(events), x, fds')
  BY <1>1, <1>2, <1>3, <1>4, EntryBehind
<1>6. /\ list' \in Seq(Conns) /\ Len(list') = Len(list) + 1
      /\ \A i \in 1 .. Len(list) : list'[i] = list[i]
      /\ list'[Len(list) + 1] = x
  BY SMTT(30), <1>1, <1>2, <1>3, <1>4, ElementBehind
<1>7. pc' = "scan" /\ index' \in 2 .. Len(events) + 1
  <2>1. pc' = "scan" /\ index' \in index + 1 .. Len(events) + 1
    BY <1>1, <1>2, Continue8
  <2> QED
    BY <1>1, <2>1
<1>8. Len(backlog) >= 1
  BY <1>3
<1> QED
  BY <1>1, <1>2, <1>4, <1>5, <1>6, <1>7, <1>8

LEMMA Insert8 ==
  ASSUME Inv8, InsertClient
  PROVE  Inv8'
<1>1. PICK x \in Sensors :
        /\ pc = "scan" /\ pc' = "scan" /\ index = 1 /\ 1 <= Len(events)
        /\ events[1] = "in" /\ index' \in 2 .. Len(events) + 1
        /\ Len(list) = Len(events) /\ Len(backlog) >= 1 /\ x = backlog[1]
        /\ side' = [side EXCEPT ![x] = "accepted"]
        /\ backlog' \in Seq(Sensors) /\ Len(backlog') = Len(backlog) - 1
        /\ \A i \in 1 .. Len(backlog) - 1 : backlog'[i] = backlog[i + 1]
        /\ Written(fds, Len(events), x, fds')
        /\ list' \in Seq(Conns) /\ Len(list') = Len(list) + 1
        /\ \A i \in 1 .. Len(list) : list'[i] = list[i]
        /\ list'[Len(list) + 1] = x
        /\ UNCHANGED <<peer, sent, events, taken, buffered, calm, part, whole>>
  BY Inserting8
<1>2. /\ Len(list) \in Nat /\ Len(fds) \in Nat /\ Len(events) \in Nat /\ Len(backlog) \in Nat
      /\ side \in [Sensors -> {"none", "backlog", "accepted", "closed"}]
      /\ Len(events) <= Len(fds) /\ fds[1] = SERVER
  BY <1>1, Sequences8 DEF Inv8, Types8, Round8, Places8, InRound8
<1>3. /\ fds' \in Seq(Fds) /\ \A i \in 1 .. Len(events) : fds'[i] = fds[i]
      /\ fds'[Len(events) + 1] = x
      /\ Len(events) = Len(fds) => Len(fds') = Len(events) + 1
      /\ Len(events) < Len(fds) => Len(fds') = Len(fds)
  BY <1>1 DEF Written
<1>4. Types8'
  <2>1. side' \in [Sensors -> {"none", "backlog", "accepted", "closed"}]
    BY <1>1, <1>2
  <2>2. index' \in 1 .. Len(events) + 1
    BY <1>1, <1>2
  <2> QED
    BY <1>1, <1>3, <2>1, <2>2 DEF Inv8, Types8
<1>5. Waits(x) /\ Whole(x) /\ peer[x] # "off"
  <2>1. Waits(x)
    BY <1>1, <1>2 DEF Waits
  <2> QED
    BY <2>1 DEF Inv8, Waiting8
<1>6. /\ \A y \in Sensors : Whole(y)' <=> Whole(y)
      /\ \A y \in Sensors : y # x /\ Partial(y) => Partial(y)'
  BY <1>1, <1>2 DEF Whole, Partial
<1>7. Whole8'
  BY <1>5, <1>6 DEF Inv8, Whole8
<1>8. Waiting8'
  <2>1. ASSUME NEW y \in Sensors, Waits(y)' PROVE Waits(y) /\ y # x
    <3>1. PICK i \in 1 .. Len(backlog') : backlog'[i] = y
      BY <2>1 DEF Waits
    <3>2. /\ i + 1 \in 1 .. Len(backlog) /\ 1 \in 1 .. Len(backlog) /\ i + 1 # 1
          /\ backlog[i + 1] = y
      BY <1>1, <1>2, <3>1
    <3>3. y # x
      BY <1>1, <3>2 DEF Inv8, Waiting8, Once
    <3> QED
      BY <3>2, <3>3 DEF Waits
  <2>2. ASSUME NEW i \in 1 .. Len(backlog'), NEW j \in 1 .. Len(backlog'),
               backlog'[i] = backlog'[j]
        PROVE  i = j
    <3>1. /\ i + 1 \in 1 .. Len(backlog) /\ j + 1 \in 1 .. Len(backlog)
          /\ backlog[i + 1] = backlog[j + 1]
      BY SMTT(30), <1>1, <1>2, <2>2
    <3>2. i + 1 = j + 1
      BY <3>1 DEF Inv8, Waiting8, Once
    <3> QED
      BY <1>2, <3>2
  <2>3. ASSUME NEW i \in 2 .. Len(list')
        PROVE  list'[i] = x \/ \E k \in 2 .. Len(list) : list'[i] = list[k]
    <3>1. \/ i \in 2 .. Len(list) /\ i \in 1 .. Len(list)
          \/ i = Len(list) + 1
      BY <1>1, <1>2
    <3> QED
      BY <1>1, <3>1
  <2>4. \A y \in Sensors : Listed(y)' => Listed(y) \/ y = x
    BY <2>3 DEF Listed
  <2>5. \A i \in 2 .. Len(list') : list'[i] \in Sensors
    BY <2>3 DEF Inv8, Waiting8
  <2>6. Once(backlog')
    BY <2>2 DEF Once
  <2>7. ASSUME NEW y \in Sensors
        PROVE  /\ Waits(y)' => peer[y] # "off" /\ Whole(y)'
               /\ Listed(y)' => peer[y] # "off" /\ ~Waits(y)'
    BY <1>5, <1>6, <2>1, <2>4 DEF Inv8, Waiting8
  <2> QED
    BY <1>1, <2>5, <2>6, <2>7 DEF Waiting8, Once
<1>9. Places8'
  <2>1. fds'[1] = SERVER
    BY <1>1, <1>2, <1>3
  <2>2. Len(list') <= Len(fds')
    BY <1>1, <1>2, <1>3
  <2> QED
    BY <1>1, <1>2, <2>1, <2>2 DEF Places8
<1>10. Round8' /\ Look8'
  <2>1. Len(events) <= Len(fds')
    BY <1>1, <1>2, <1>3
  <2>2. index' # 1 /\ Len(events) + 2 <= Len(list') + index'
    BY <1>1, <1>2
  <2> QED
    BY <1>1, <2>1, <2>2 DEF Round8, Look8
<1>12. Calm8'
  <2> SUFFICES ASSUME calm PROVE Kept'
    BY <1>1 DEF Calm8
  <2>1. InStep
    <3>1. Kept \/ Gap
      BY <1>1 DEF Inv8, Calm8, InRound8
    <3> QED
      BY <1>1, <1>2, <3>1 DEF Kept, Gap
  <2>2. ASSUME NEW i \in 1 .. Len(list') PROVE fds'[i] = list'[i]
    <3>1. i \in 1 .. Len(list) \/ i = Len(list) + 1
      BY <1>1, <1>2
    <3> QED
      BY <1>1, <1>3, <2>1, <3>1 DEF InStep
  <2> QED
    BY <1>1, <2>2 DEF Kept, InStep
<1> QED
  BY <1>4, <1>7, <1>8, <1>9, <1>10, <1>12 DEF Inv8

LEMMA StartReading8 ==
  ASSUME Inv8, StartReading
  PROVE  Inv8'
<1>1. /\ pc = "scan" /\ pc' = "read" /\ index > 1 /\ index <= Len(events)
      /\ cur' = GetElementAt(list, index)
      /\ UNCHANGED <<peer, sent, backlog, side, list, fds, events, index, taken, buffered,
                     calm, part, whole>>
  BY DEF StartReading, Scanning, net, halves
<1>2. InRound8 /\ index \in 2 .. Len(events)
  BY <1>1, Sequences8 DEF Inv8, InRound8
<1>3. cur' \in Sensors
  BY <1>1, <1>2, ListedAt DEF GetElementAt
<1>4. Types8' /\ Whole8' /\ Waiting8' /\ Places8'
  BY <1>1 DEF Inv8, Types8, Whole8, Whole, Partial, Waiting8, Waits, Listed, Once, Places8
<1>5. Round8' /\ Look8'
  BY <1>1, <1>2, <1>3 DEF Inv8, Round8, Look8, InRound8
<1>6. Calm8'
  <2>1. ASSUME calm PROVE Kept
    BY <1>2, <2>1, Sequences8 DEF Inv8, Calm8, Gap
  <2> QED
    BY <1>1, <2>1 DEF Calm8, Kept, InStep
<1> QED
  BY <1>4, <1>5, <1>6 DEF Inv8

(* Only a node that is in the list is read of; and a whole measurement, if *)
(* no receive is short.                                                    *)
LEMMA ReadMeasurement8 ==
  ASSUME Inv8, ReadMeasurement
  PROVE  Inv8'
<1>1. PICK s : s = cur
  OBVIOUS
<1>1a. PICK n \in 3 .. 6 : TcpReceive(n) /\ whole' = [whole EXCEPT ![s] = @ /\ n = 6]
  BY <1>1 DEF ReadMeasurement
<1>2. /\ pc = "read" /\ buffered' = [buffered EXCEPT ![s] = @ + 1]
      /\ Continue
      /\ UNCHANGED <<peer, sent, backlog, side, list, fds, events, calm>>
  BY <1>1 DEF ReadMeasurement, net
<1>3. /\ InRound8 /\ index \in 2 .. Len(events) /\ s \in Sensors
      /\ s = list[ReferenceAt(list, index)]
  BY <1>1, <1>2 DEF Inv8, Look8, InRound8, GetElementAt
<1>4. Listed(s)
  BY <1>3, ListedAt DEF Listed
<1>5. /\ Len(events) \in Nat /\ Len(list) \in Nat
      /\ taken \in Counts /\ buffered \in Counts /\ sent \in Counts
  BY Sequences8 DEF Inv8, Types8
<1>6. /\ pc' = "scan" /\ index' \in index + 1 .. Len(events) + 1
      /\ index' \in 1 .. Len(events) + 1
  BY <1>2, <1>3, Continue8
<1>7. /\ taken[s] \in Nat /\ buffered[s] \in Nat /\ sent[s] \in Nat /\ part[s] \in {0, 1}
      /\ part \in [Sensors -> {0, 1}] /\ whole \in [Sensors -> BOOLEAN]
      /\ 2 * taken[s] + part[s] + n <= 2 * sent[s]
      /\ taken' = [taken EXCEPT ![s] = (2 * taken[s] + part[s] + n) \div 2]
      /\ part' = [part EXCEPT ![s] = (2 * taken[s] + part[s] + n) % 2]
  BY <1>1, <1>1a, <1>3, <1>5 DEF Inv8, Types8, TcpReceive, Received, Counts
<1>8. Types8'
  <2>1. /\ (2 * taken[s] + part[s] + n) \div 2 \in Nat /\ buffered[s] + 1 \in Nat
        /\ (2 * taken[s] + part[s] + n) % 2 \in {0, 1}
    BY ONLY <1>7, n \in 3 .. 6
  <2>2. taken' \in Counts /\ part' \in [Sensors -> {0, 1}]
    BY <1>3, <1>5, <1>7, <2>1 DEF Counts
  <2>3. buffered' \in Counts
    BY <1>2, <1>3, <1>5, <2>1 DEF Counts
  <2>4. whole' \in [Sensors -> BOOLEAN]
    BY <1>1a, <1>3, <1>7
  <2> QED
    BY <1>2, <1>6, <2>2, <2>3, <2>4 DEF Inv8, Types8
<1>9. /\ taken'[s] = (2 * taken[s] + part[s] + n) \div 2 /\ buffered'[s] = buffered[s] + 1
      /\ part'[s] = (2 * taken[s] + part[s] + n) % 2
      /\ \A y \in Sensors : y # s => /\ taken'[y] = taken[y] /\ buffered'[y] = buffered[y]
                                     /\ part'[y] = part[y] /\ whole'[y] = whole[y]
  BY <1>2, <1>1a, <1>3, <1>5, <1>7 DEF Counts
<1>10. Whole(s)'
  <2> SUFFICES ASSUME whole'[s] PROVE part'[s] = 0 /\ taken'[s] = 3 * buffered'[s]
    BY DEF Whole
  <2>1. whole[s] /\ n = 6
    BY <1>1a, <1>3, <1>7
  <2>2. part[s] = 0 /\ taken[s] = 3 * buffered[s]
    <3>1. ~Partial(s)
      BY <1>7, <2>1 DEF Partial
    <3> QED
      BY <1>3, <2>1, <3>1 DEF Inv8, Whole8, Whole
  <2>3. /\ (2 * (3 * buffered[s]) + 0 + 6) \div 2 = 3 * (buffered[s] + 1)
        /\ (2 * (3 * buffered[s]) + 0 + 6) % 2 = 0
    BY <1>7
  <2> QED
    BY <1>9, <2>1, <2>2, <2>3
<1>11. /\ \A y \in Sensors : y # s => (Whole(y)' <=> Whole(y))
       /\ \A y \in Sensors : y # s /\ Partial(y) => Partial(y)'
  BY <1>2, <1>9 DEF Whole, Partial
<1>12. Whole8'
  BY <1>10, <1>11 DEF Inv8, Whole8
<1>13. Waiting8'
  <2>1. /\ \A y \in Sensors : Waits(y)' <=> Waits(y)
        /\ \A y \in Sensors : Listed(y)' <=> Listed(y)
    BY <1>2 DEF Waits, Listed
  <2> QED
    BY <1>2, <1>3, <1>4, <1>11, <2>1 DEF Inv8, Waiting8, Once
<1>14. Places8'
  BY <1>2, <1>3, <1>6 DEF Inv8, Places8, InRound8
<1>15. Round8' /\ Look8'
  <2>1. /\ 1 <= Len(events) /\ Len(events) <= Len(fds) /\ events[1] # "other"
        /\ Len(events) + 2 <= Len(list) + index
    BY <1>3 DEF Inv8, Round8
  <2> QED
    BY <1>2, <1>3, <1>5, <1>6, <2>1 DEF Round8, Look8
<1>16. Calm8'
  <2> SUFFICES ASSUME calm PROVE Kept'
    BY <1>2, <1>6 DEF Calm8
  <2>1. Kept
    BY <1>3, <1>5 DEF Inv8, Calm8, Gap
  <2> QED
    BY <1>2, <2>1 DEF Kept, InStep
<1> QED
  BY <1>8, <1>12, <1>13, <1>14, <1>15, <1>16 DEF Inv8

(* One pass is enough for the one gap of a calm round; and the loop goes   *)
(* on only when fds has room behind the polled entries.                    *)
LEMMA Compressed8 ==
  ASSUME Inv8, pc = "scan", index > Len(events), calm,
         fds' = CompressPass(fds, Len(events))
  PROVE  \A i \in 1 .. Len(list) : fds'[i] = list[i]
<1> DEFINE old == Len(events)
<1>1. /\ fds \in Seq(Fds) /\ old \in Nat /\ Len(list) \in Nat /\ Len(fds) \in Nat
      /\ old \in 0 .. Len(fds) /\ Len(list) <= Len(fds) /\ (Kept \/ Gap)
  BY Sequences8 DEF Inv8, Round8, Places8, InRound8, Calm8
<1>2. \A i \in 1 .. Len(list) : list[i] # REMOVE_FD
  <2> SUFFICES ASSUME NEW i \in 1 .. Len(list) PROVE list[i] # REMOVE_FD
    OBVIOUS
  <2>1. list[i] \in Conns
    BY Sequences8, ElementOfSeq DEF Inv8
  <2> QED
    BY <2>1, ConnMgrAssumption DEF ConnMgrAssumption, Conns, SERVER, REMOVE_FD
<1>3. CASE Kept
  <2>1. Len(list) = old \/ Len(list) = old + 1
    BY <1>3 DEF Kept
  <2>2. old + 1 \in 1 .. old + 1 /\ \A i \in 1 .. old : fds[i] # REMOVE_FD
    BY <1>1, <1>2, <1>3, <2>1 DEF Kept, InStep
  <2>3. CompressPass(fds, old) = fds
    BY <1>1, <2>2, CompressOne
  <2> QED
    BY <1>3, <2>3 DEF Kept, InStep
<1>4. CASE Gap
  <2>1. old = Len(list) + 1
    BY <1>4 DEF Gap
  <2>2. PICK r \in 2 .. old : GapAt(r)
    BY <1>4 DEF Gap
  <2>3. ASSUME NEW i \in 1 .. old, i # r PROVE fds[i] # REMOVE_FD
    <3>1. CASE i < r
      <4>1. i \in 1 .. r - 1 /\ i \in 1 .. Len(list)
        BY <1>1, <2>1, <3>1
      <4> QED
        BY <1>2, <2>2, <4>1 DEF GapAt
    <3>2. CASE i > r
      <4>1. i - 1 \in r .. Len(list) /\ i - 1 \in 1 .. Len(list) /\ (i - 1) + 1 = i
        BY <1>1, <2>1, <3>2
      <4> QED
        BY <1>2, <2>2, <4>1 DEF GapAt
    <3> QED
      BY <1>1, <2>3, <3>1, <3>2
  <2>4. Shifted(fds, r, old, fds')
    <3>1. /\ r \in 1 .. old + 1 /\ r <= old /\ fds[r] = REMOVE_FD
          /\ \A i \in 1 .. old : i # r => fds[i] # REMOVE_FD
      BY <1>1, <2>2, <2>3 DEF GapAt
    <3> QED
      BY <1>1, <3>1, CompressOne
  <2> SUFFICES ASSUME NEW i \in 1 .. Len(list) PROVE fds'[i] = list[i]
    OBVIOUS
  <2>5. i \in 1 .. Len(fds) /\ i < old /\ ~(i > old)
    BY <1>1, <2>1
  <2>6. fds'[i] = IF i < r THEN fds[i] ELSE fds[i + 1]
    BY <2>4, <2>5 DEF Shifted
  <2>7. (i < r => i \in 1 .. r - 1) /\ (~(i < r) => i \in r .. Len(list))
    BY <1>1, <2>1
  <2> QED
    BY <2>2, <2>6, <2>7 DEF GapAt
<1> QED
  BY <1>1, <1>3, <1>4

LEMMA EndRound8 ==
  ASSUME Inv8, EndRound
  PROVE  Inv8'
<1>1. /\ pc = "scan" /\ index > Len(events) /\ fds' = CompressPass(fds, Len(events))
      /\ pc' = IF Len(events) <= MaxConn THEN "poll" ELSE "last"
      /\ events' = <<>> /\ index' = 1
      /\ UNCHANGED <<peer, sent, backlog, side, list, cur, taken, buffered, calm, part,
                     whole>>
  BY DEF EndRound, Scanned, CompressEntries, HasRoom, net, halves
<1>2. /\ fds \in Seq(Fds) /\ Len(events) \in Nat /\ Len(fds) \in Nat
      /\ Len(events) \in 0 .. Len(fds) /\ fds[1] = SERVER
      /\ 1 <= Len(list) /\ Len(list) <= Len(fds)
  BY <1>1, Sequences8 DEF Inv8, Round8, Places8, InRound8
<1>3. fds' \in Seq(Fds) /\ Len(fds') = Len(fds) /\ fds'[1] = SERVER
  BY <1>1, <1>2, CompressKeepsShape DEF SameShape
<1>4. Types8'
  <2>1. events' \in Seq(Event3) /\ Len(events') = 0 /\ index' \in 1 .. Len(events') + 1
    BY <1>1
  <2> QED
    BY <1>1, <1>3, <2>1 DEF Inv8, Types8
<1>5. Whole8' /\ Waiting8' /\ Places8'
  BY <1>1, <1>2, <1>3 DEF Inv8, Whole8, Whole, Partial, Waiting8, Waits, Listed, Once, Places8
<1>6. Round8' /\ Look8'
  BY <1>1 DEF Round8, Look8, InRound8
<1>8. Calm8'
  BY <1>1, Compressed8 DEF Calm8, InStep, InRound8
<1> QED
  BY <1>4, <1>5, <1>6, <1>8 DEF Inv8

LEMMA EndListen8 ==
  ASSUME Inv8, EndListen
  PROVE  Inv8'
<1>1. /\ pc' = "done" /\ list' = <<>> /\ fds' = [fds EXCEPT ![1] = REMOVE_FD]
      /\ UNCHANGED <<peer, sent, backlog, side, events, index, cur, taken, buffered, calm, part,
                     whole>>
      /\ pc \in {"last", "poll"}
  BY DEF EndListen, DplFree, net, halves
<1>2. /\ fds \in Seq(Fds) /\ Len(fds) \in Nat /\ 1 \in 1 .. Len(fds)
  BY <1>1, Sequences8 DEF Inv8, Places8
<1>3. fds' \in Seq(Fds) /\ Len(fds') = Len(fds)
  <2>1. REMOVE_FD \in Fds
    BY DEF Fds
  <2> QED
    BY <1>1, <1>2, <2>1, ExceptSeq
<1>4. list' \in Seq(Conns) /\ Len(list') = 0
  BY <1>1
<1>5. Types8' /\ Whole8' /\ Places8' /\ Round8' /\ Look8' /\ Calm8'
  BY <1>1, <1>3, <1>4 DEF Inv8, Types8, Whole8, Whole, Partial, Places8, Round8, Look8, Calm8,
                          InRound8
<1>6. Waiting8'
  <2>1. \A y \in Sensors : ~Listed(y)'
    BY <1>4 DEF Listed
  <2> QED
    BY <1>1, <1>4, <2>1 DEF Inv8, Waiting8, Waits, Once, Whole
<1> QED
  BY <1>5, <1>6 DEF Inv8

(* Whatever the entry behind the end of fds overwrites, the program is     *)
(* over, or goes on as if nobody missed it.                                *)
LEMMA InsertOverruns8 ==
  ASSUME Inv8, InsertOverruns
  PROVE  Inv8'
<1>1. /\ pc' = "done"
      /\ UNCHANGED <<peer, sent, backlog, side, list, fds, events, index, cur, taken,
                     buffered, calm, part, whole>>
  BY DEF InsertOverruns, net, halves
<1> QED
  BY <1>1 DEF Inv8, Types8, Whole8, Whole, Partial, Waiting8, Waits, Listed, Once, Places8,
              Round8, Look8, Calm8, InRound8

LEMMA NextInv8 == Inv8 /\ [Lab8Next]_lab8vars => Inv8'
<1> SUFFICES ASSUME Inv8, [Lab8Next]_lab8vars PROVE Inv8'
  OBVIOUS
<1>1. ASSUME NEW s \in Sensors, SensorNode(s) PROVE Inv8'
  BY <1>1, Connect8, SendFieldOrLeave8 DEF SensorNode
<1>2. CASE PollFds
  BY <1>2, Poll8
<1>3. CASE CloseReported \/ ReadCutOff
  BY <1>3, CloseReported8, ReadCutOff8
<1>4. CASE InsertClient \/ InsertOverruns \/ StartReading \/ ReadMeasurement
  BY <1>4, Insert8, InsertOverruns8, StartReading8, ReadMeasurement8
<1>5. CASE EndRound \/ EndListen
  BY <1>5, EndRound8, EndListen8
<1>6. CASE UNCHANGED lab8vars
  BY <1>6 DEF lab8vars, halves, vars, net, Inv8, Types8, Whole8, Whole, Partial, Waiting8,
              Waits, Listed, Once, Places8, Round8, Look8, Calm8, InRound8, InStep, Kept,
              Gap, GapAt
<1> QED
  BY <1>1, <1>2, <1>3, <1>4, <1>5, <1>6 DEF Lab8Next, Lab8Step, Lab8Finished

LEMMA Inv8Fds == Inv8 => Lab8InStep /\ WholeMeasurements
<1> SUFFICES ASSUME Inv8 PROVE Lab8InStep /\ WholeMeasurements
  OBVIOUS
<1>1. Lab8InStep
  BY DEF Inv8, Calm8, InStep, Lab8InStep
<1>2. WholeMeasurements
  BY DEF Inv8, Whole8, Whole, Partial, WholeMeasurements
<1> QED
  BY <1>1, <1>2

(* With any number of nodes and any array: as long as its rounds are calm, *)
(* the loop of lab 8 keeps fds and the list in step, and what it writes of *)
(* a node whose receives are not short is whole measurements; what is left *)
(* of one is of a connection that is closed for good.                      *)
THEOREM FixedArrayIsKept == Lab8Spec => [](Lab8InStep /\ WholeMeasurements)
BY InitInv8, NextInv8, Inv8Fds, PTL DEF Lab8Spec

===============================================================================
