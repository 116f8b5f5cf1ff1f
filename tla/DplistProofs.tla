----------------------------- MODULE DplistProofs -----------------------------
(***************************************************************************)
(* Proofs about the doubly linked list: in every state the next pointers   *)
(* spell a walk without repetition from the head, the prev pointers spell  *)
(* it backwards and its nodes are all that is allocated; hence the getters *)
(* agree, and each call changes the elements as ListContract says.         *)
(***************************************************************************)
EXTENDS Dplist, FiniteSetTheorems, SequenceTheorems, NaturalsInduction,
        WellFoundedInduction, TLAPS

\* h, nx and pv hold a list of n nodes, w[0] to w[n - 1].
Spells(n, w, h, nx, pv) ==
  /\ n \in Nat
  /\ w \in [0 .. n - 1 -> Cells]
  /\ \A i, j \in 0 .. n - 1 : w[i] = w[j] => i = j
  /\ h = IF n = 0 THEN NULL ELSE w[0]
  /\ \A k \in 0 .. n - 1 : /\ nx[w[k]] = IF k = n - 1 THEN NULL ELSE w[k + 1]
                           /\ pv[w[k]] = IF k = 0 THEN NULL ELSE w[k - 1]

Nodes(n, w) == {w[k] : k \in 0 .. n - 1}

-------------------------------------------------------------------------------
(* A set of indices that is not empty has a least one.                     *)
LEMMA LeastIndex ==
  ASSUME NEW I, I \subseteq Nat, I # {}
  PROVE  \E m \in I : \A k \in I : m <= k
<1>1. IsWellFoundedOn({p \in Nat \X Nat : p[1] < p[2]}, Nat)
  BY NatLessThanWellFounded, Zenon DEF OpToRel
<1>2. PICK m \in I : \A k \in I : ~(<<k, m>> \in {p \in Nat \X Nat : p[1] < p[2]})
  BY <1>1, WFMin, Zenon
<1>3. ASSUME NEW k \in I PROVE m <= k
  <2>1. m \in Nat /\ k \in Nat
    OBVIOUS
  <2>2. ~(k < m)
    BY <1>2, <2>1
  <2> QED
    BY <2>1, <2>2
<1> QED
  BY <1>3

(* Walk and Length are OnWalk and Size for a given head and given next     *)
(* pointers: a solution of the recursion, and the nodes in it.             *)
N == Cardinality(Cells)
Stepped(f, h, nx) ==
  [k \in 0 .. N |-> IF k = 0 THEN h
                    ELSE IF f[k - 1] \in Cells THEN nx[f[k - 1]] ELSE NULL]
Walk(h, nx) == CHOOSE f : f = Stepped(f, h, nx)
Length(h, nx) == Cardinality({k \in DOMAIN Walk(h, nx) : Walk(h, nx)[k] # NULL})

LEMMA WalkIsOnWalk ==
  /\ OnWalk = Walk(head, next) /\ Size = Length(head, next)
  /\ OnWalk' = Walk(head', next') /\ Size' = Length(head', next')
<1>1. OnWalk = Walk(head, next) /\ OnWalk' = Walk(head', next')
  BY DEF OnWalk, Walk, Stepped, N
<1>2. Size = Length(head, next)
  BY <1>1 DEF Size, Length
<1>3. Size' = Length(head', next')
  BY <1>1 DEF Size, Length
<1> QED
  BY <1>1, <1>2, <1>3

(* For nodes that spell a list, that is the nodes and then NULL.           *)
LEMMA WalkOfList ==
  ASSUME NEW n, NEW w, NEW h, NEW nx, NEW pv, Spells(n, w, h, nx, pv)
  PROVE  /\ N \in Nat /\ n <= N
         /\ DOMAIN Walk(h, nx) = 0 .. N
         /\ \A k \in 0 .. N : Walk(h, nx)[k] = IF k < n THEN w[k] ELSE NULL
         /\ Length(h, nx) = n
<1> DEFINE f == Walk(h, nx)
           g == [k \in 0 .. N |-> IF k < n THEN w[k] ELSE NULL]
<1>1. n \in Nat /\ N \in Nat
  BY FS_CardinalityType, DplistAssumption DEF N, Spells
<1>2. n <= N
  <2>1. w \in Injection(0 .. n - 1, Cells)
    BY DEF Spells, Injection, IsInjective
  <2>2. Cardinality(0 .. n - 1) <= N
    BY <2>1, FS_Injection, DplistAssumption DEF N
  <2>3. Cardinality(0 .. n - 1) = n
    BY <1>1, FS_Interval
  <2> QED
    BY <2>2, <2>3
<1>3. ASSUME NEW k \in 0 .. N
      PROVE  g[k] = IF k = 0 THEN h ELSE IF g[k - 1] \in Cells THEN nx[g[k - 1]] ELSE NULL
  <2>1. CASE k = 0
    BY <1>1, <2>1 DEF Spells
  <2>2. CASE k # 0
    <3>1. k - 1 \in 0 .. N
      BY <1>1, <2>2
    <3>2. CASE k - 1 < n
      <4>1. g[k - 1] = w[k - 1] /\ k - 1 \in 0 .. n - 1
        BY <1>1, <3>1, <3>2
      <4>2. nx[w[k - 1]] = IF k = n THEN NULL ELSE w[k]
        BY <1>1, <4>1 DEF Spells
      <4>3. g[k] = IF k = n THEN NULL ELSE w[k]
        BY <1>1, <3>2
      <4> QED
        BY <2>2, <4>1, <4>2, <4>3 DEF Spells
    <3>3. CASE ~(k - 1 < n)
      <4>1. g[k - 1] = NULL /\ g[k] = NULL
        BY <1>1, <3>1, <3>3
      <4> QED
        BY <2>2, <4>1, DplistAssumption
    <3> QED
      BY <3>2, <3>3
  <2> QED
    BY <2>1, <2>2
<1>4. f = Stepped(f, h, nx)
  <2>1. g = Stepped(g, h, nx)
    BY <1>3 DEF Stepped
  <2> HIDE DEF g
  <2> QED
    BY <2>1 DEF Walk
<1>5. DOMAIN f = 0 .. N
  BY <1>4 DEF Stepped
<1>6. \A k \in 0 .. N :
        f[k] = IF k = 0 THEN h ELSE IF f[k - 1] \in Cells THEN nx[f[k - 1]] ELSE NULL
  <2> HIDE DEF f
  <2> QED
    BY <1>4 DEF Stepped
<1> DEFINE Bad == {k \in 0 .. N : f[k] # g[k]}
<1>7. Bad = {}
  <2> SUFFICES ASSUME Bad # {} PROVE FALSE
    OBVIOUS
  <2>1. Bad \subseteq Nat
    OBVIOUS
  <2>2. PICK m \in Bad : \A k \in Bad : m <= k
    <3> HIDE DEF Bad
    <3> QED
      BY <2>1, LeastIndex
  <2> HIDE DEF f, g
  <2>3. m \in 0 .. N /\ f[m] # g[m]
    BY <2>2
  <2>4. m # 0
    BY <1>1, <1>3, <1>6, <2>3
  <2>5. m - 1 \in 0 .. N /\ ~(m <= m - 1)
    BY <1>1, <2>3, <2>4
  <2>6. f[m - 1] = g[m - 1]
    BY <2>2, <2>5
  <2> QED
    BY <1>3, <1>6, <2>3, <2>6
<1>8. \A k \in 0 .. N : f[k] = IF k < n THEN w[k] ELSE NULL
  BY <1>7
<1>9. {k \in 0 .. N : f[k] # NULL} = 0 .. n - 1
  <2> HIDE DEF f
  <2>1. \A k \in 0 .. n - 1 : w[k] # NULL
    BY DplistAssumption DEF Spells
  <2> QED
    BY <1>1, <1>2, <1>8, <2>1
<1>10. Length(h, nx) = n
  <2>1. Cardinality(0 .. n - 1) = n
    BY <1>1, FS_Interval
  <2> HIDE DEF f
  <2>2. {k \in DOMAIN f : f[k] # NULL} = 0 .. n - 1
    BY <1>5, <1>9
  <2> QED
    BY <2>1, <2>2 DEF Length, f
<1> QED
  BY <1>1, <1>2, <1>5, <1>8, <1>10

-------------------------------------------------------------------------------
\* The walk with node c at place q, and the walk without the node at place q.
WalkWith(n, w, q, c) == [k \in 0 .. n |-> IF k < q THEN w[k] ELSE IF k = q THEN c ELSE w[k - 1]]
WalkWithout(n, w, q) == [k \in 0 .. n - 2 |-> IF k < q THEN w[k] ELSE w[k + 1]]

\* What linking c in at place q, and unlinking the node there, do to the pointers.
LinkedAt(n, w, q, c, h, nx, pv, h2, nx2, pv2) ==
  /\ h2 = IF q = 0 THEN c ELSE h
  /\ \A x \in Cells :
       /\ nx2[x] = IF x = c THEN IF q = n THEN NULL ELSE w[q]
                   ELSE IF q > 0 /\ x = w[q - 1] THEN c ELSE nx[x]
       /\ pv2[x] = IF x = c THEN IF q = 0 THEN NULL ELSE w[q - 1]
                   ELSE IF q < n /\ x = w[q] THEN c ELSE pv[x]

UnlinkedAt(n, w, q, h, nx, pv, h2, nx2, pv2) ==
  /\ h2 = IF q = 0 THEN nx[h] ELSE h
  /\ \A x \in Cells \ {w[q]} :
       /\ nx2[x] = IF q > 0 /\ x = w[q - 1] THEN nx[w[q]] ELSE nx[x]
       /\ pv2[x] = IF q < n - 1 /\ x = w[q + 1] THEN pv[w[q]] ELSE pv[x]

(* Linking in a node that is not in the list spells the longer walk.       *)
LEMMA LinkSpells ==
  ASSUME NEW n, NEW w, NEW h, NEW nx, NEW pv, Spells(n, w, h, nx, pv),
         NEW q \in 0 .. n, NEW c \in Cells \ Nodes(n, w),
         NEW h2, NEW nx2, NEW pv2, LinkedAt(n, w, q, c, h, nx, pv, h2, nx2, pv2)
  PROVE  /\ Spells(n + 1, WalkWith(n, w, q, c), h2, nx2, pv2)
         /\ Nodes(n + 1, WalkWith(n, w, q, c)) = Nodes(n, w) \cup {c}
<1> DEFINE v == WalkWith(n, w, q, c)
<1>1. n \in Nat /\ q \in Nat /\ q <= n /\ \A k \in 0 .. n - 1 : w[k] \in Cells /\ w[k] # c
  BY DEF Spells, Nodes
<1>2. v \in [0 .. n -> Cells]
  <2>1. ASSUME NEW k \in 0 .. n, ~(k < q), k # q PROVE k - 1 \in 0 .. n - 1
    BY <1>1, <2>1
  <2>2. ASSUME NEW k \in 0 .. n, k < q PROVE k \in 0 .. n - 1
    BY <1>1, <2>2
  <2> QED
    BY <1>1, <2>1, <2>2 DEF WalkWith
<1>3. \A k \in 0 .. n : v[k] = IF k < q THEN w[k] ELSE IF k = q THEN c ELSE w[k - 1]
  BY DEF WalkWith
<1> HIDE DEF v
<1>4. \A i, j \in 0 .. n : v[i] = v[j] => i = j
  <2> SUFFICES ASSUME NEW i \in 0 .. n, NEW j \in 0 .. n, v[i] = v[j], i < j PROVE FALSE
    BY <1>1
  <2>1. CASE j < q
    BY <1>1, <1>3, <2>1 DEF Spells
  <2>2. CASE j = q
    BY <1>1, <1>3, <2>2 DEF Spells
  <2>3. CASE j > q
    <3>1. v[j] = w[j - 1] /\ j - 1 \in 0 .. n - 1
      BY <1>1, <1>3, <2>3
    <3>2. CASE i < q
      <4>1. v[i] = w[i] /\ i \in 0 .. n - 1 /\ i # j - 1
        BY <1>1, <1>3, <2>3, <3>2
      <4> QED
        BY <3>1, <4>1 DEF Spells
    <3>3. CASE i = q
      BY <1>1, <1>3, <3>1, <3>3
    <3>4. CASE i > q
      <4>1. v[i] = w[i - 1] /\ i - 1 \in 0 .. n - 1 /\ i - 1 # j - 1
        BY <1>1, <1>3, <3>4
      <4> QED
        BY <3>1, <4>1 DEF Spells
    <3> QED
      BY <1>1, <3>2, <3>3, <3>4
  <2> QED
    BY <1>1, <2>1, <2>2, <2>3
<1>5. h2 = v[0]
  BY <1>1, <1>3 DEF LinkedAt, Spells
<1>6. ASSUME NEW k \in 0 .. n
      PROVE  /\ nx2[v[k]] = IF k = n THEN NULL ELSE v[k + 1]
             /\ pv2[v[k]] = IF k = 0 THEN NULL ELSE v[k - 1]
  <2>1. CASE k < q
    <3>1. k \in 0 .. n - 1 /\ v[k] = w[k] /\ w[k] \in Cells /\ w[k] # c /\ k # n /\ k + 1 \in 0 .. n
      BY <1>1, <1>3, <2>1
    <3>2. nx2[w[k]] = IF k = q - 1 THEN c ELSE nx[w[k]]
      <4>1. q > 0 /\ q - 1 \in 0 .. n - 1
        BY <1>1, <2>1
      <4>2. w[k] = w[q - 1] <=> k = q - 1
        BY <3>1, <4>1 DEF Spells
      <4> QED
        BY <3>1, <4>1, <4>2 DEF LinkedAt
    <3>3. pv2[w[k]] = pv[w[k]]
      <4>1. q < n => q \in 0 .. n - 1
        BY <1>1
      <4>2. q < n => w[k] # w[q]
        BY <1>1, <2>1, <3>1, <4>1 DEF Spells
      <4> QED
        BY <3>1, <4>2 DEF LinkedAt
    <3>4. v[k + 1] = IF k = q - 1 THEN c ELSE w[k + 1]
      BY <1>1, <1>3, <2>1, <3>1
    <3>5. k # q - 1 => nx[w[k]] = w[k + 1]
      <4>1. k # q - 1 => k # n - 1
        BY <1>1, <2>1
      <4> QED
        BY <3>1, <4>1 DEF Spells
    <3>6. pv[w[k]] = IF k = 0 THEN NULL ELSE v[k - 1]
      <4>1. k # 0 => k - 1 \in 0 .. n /\ k - 1 < q
        BY <1>1, <2>1
      <4> QED
        BY <1>3, <3>1, <4>1 DEF Spells
    <3> QED
      BY <3>1, <3>2, <3>3, <3>4, <3>5, <3>6
  <2>2. CASE k = q
    <3>1. v[k] = c /\ c \in Cells
      BY <1>3, <1>1, <2>2
    <3>2. k # n => v[k + 1] = w[k]
      BY <1>1, <1>3, <2>2
    <3>3. k # 0 => v[k - 1] = w[k - 1]
      BY <1>1, <1>3, <2>2
    <3> QED
      BY <2>2, <3>1, <3>2, <3>3 DEF LinkedAt
  <2>3. CASE k > q
    <3> DEFINE j == k - 1
    <3>1. j \in 0 .. n - 1 /\ v[k] = w[j] /\ w[j] \in Cells /\ w[j] # c
      BY <1>1, <1>3, <2>3
    <3>2. nx2[w[j]] = nx[w[j]]
      <4>1. q > 0 => q - 1 \in 0 .. n - 1 /\ q - 1 # j
        BY <1>1, <2>3
      <4>2. q > 0 => w[j] # w[q - 1]
        BY <3>1, <4>1 DEF Spells
      <4> QED
        BY <3>1, <4>2 DEF LinkedAt
    <3>3. pv2[w[j]] = IF j = q THEN c ELSE pv[w[j]]
      <4>1. q < n /\ q \in 0 .. n - 1
        BY <1>1, <2>3
      <4>2. w[j] = w[q] <=> j = q
        BY <3>1, <4>1 DEF Spells
      <4> QED
        BY <3>1, <4>1, <4>2 DEF LinkedAt
    <3>4. nx[w[j]] = IF k = n THEN NULL ELSE v[k + 1]
      <4>1. j = n - 1 <=> k = n
        BY <1>1
      <4>2. k # n => v[k + 1] = w[j + 1]
        BY <1>1, <1>3, <2>3
      <4> QED
        BY <3>1, <4>1, <4>2 DEF Spells
    <3>5. v[k - 1] = IF j = q THEN c ELSE w[j - 1]
      BY <1>1, <1>3, <2>3
    <3>6. j # q => pv[w[j]] = w[j - 1]
      BY <1>1, <2>3, <3>1 DEF Spells
    <3>7. k # 0
      BY <1>1, <2>3
    <3> QED
      BY <3>1, <3>2, <3>3, <3>4, <3>5, <3>6, <3>7
  <2> QED
    BY <1>1, <2>1, <2>2, <2>3
<1>7. (n + 1) - 1 = n /\ n + 1 # 0 /\ n + 1 \in Nat
  BY <1>1
<1>8. Spells(n + 1, v, h2, nx2, pv2)
  BY <1>2, <1>4, <1>5, <1>6, <1>7 DEF Spells
<1>9. \A x : x \in {v[k] : k \in 0 .. n} <=> x \in {w[k] : k \in 0 .. n - 1} \cup {c}
  <2> TAKE x
  <2>1. ASSUME NEW k \in 0 .. n, x = v[k]
        PROVE  x = c \/ \E j \in 0 .. n - 1 : x = w[j]
    BY <1>1, <1>3, <2>1
  <2>2. ASSUME NEW j \in 0 .. n - 1 PROVE \E k \in 0 .. n : w[j] = v[k]
    <3>1. CASE j < q
      BY <1>1, <1>3, <3>1
    <3>2. CASE ~(j < q)
      <4>1. j + 1 \in 0 .. n /\ v[j + 1] = w[j]
        BY <1>1, <1>3, <3>2
      <4> QED
        BY <4>1
    <3> QED
      BY <3>1, <3>2
  <2>3. c = v[q]
    BY <1>1, <1>3
  <2> QED
    BY <2>1, <2>2, <2>3
<1>10. Nodes(n + 1, v) = Nodes(n, w) \cup {c}
  BY <1>7, <1>9 DEF Nodes
<1> QED
  BY <1>8, <1>10 DEF v

(* Unlinking the node at place q spells the shorter walk.                  *)
LEMMA UnlinkSpells ==
  ASSUME NEW n, NEW w, NEW h, NEW nx, NEW pv, Spells(n, w, h, nx, pv),
         NEW q \in 0 .. n - 1,
         NEW h2, NEW nx2, NEW pv2, UnlinkedAt(n, w, q, h, nx, pv, h2, nx2, pv2)
  PROVE  /\ Spells(n - 1, WalkWithout(n, w, q), h2, nx2, pv2)
         /\ Nodes(n - 1, WalkWithout(n, w, q)) = Nodes(n, w) \ {w[q]}
<1> DEFINE v == WalkWithout(n, w, q)
<1>1. /\ n \in Nat /\ q \in Nat /\ q < n /\ n - 1 \in Nat
      /\ \A k \in 0 .. n - 1 : w[k] \in Cells
  BY DEF Spells
<1>2. v \in [0 .. n - 2 -> Cells]
  <2>1. ASSUME NEW k \in 0 .. n - 2 PROVE k \in 0 .. n - 1 /\ k + 1 \in 0 .. n - 1
    BY <1>1
  <2> QED
    BY <1>1, <2>1 DEF WalkWithout
<1>3. \A k \in 0 .. n - 2 : v[k] = IF k < q THEN w[k] ELSE w[k + 1]
  BY DEF WalkWithout
<1> HIDE DEF v
\* The place in w of the node at place k of v.
<1> DEFINE At(k) == IF k < q THEN k ELSE k + 1
<1>4. \A k \in 0 .. n - 2 : /\ At(k) \in 0 .. n - 1 /\ At(k) # q
                            /\ v[k] = w[At(k)] /\ w[At(k)] \in Cells \ {w[q]}
  <2> TAKE k \in 0 .. n - 2
  <2>1. At(k) \in 0 .. n - 1 /\ At(k) # q /\ v[k] = w[At(k)]
    BY <1>1, <1>3
  <2> HIDE DEF At
  <2> QED
    BY <1>1, <2>1 DEF Spells
<1>5. \A i, j \in 0 .. n - 2 : v[i] = v[j] => i = j
  <2> TAKE i, j \in 0 .. n - 2
  <2>1. At(i) = At(j) => i = j
    BY <1>1
  <2> HIDE DEF At
  <2> QED
    BY <1>4, <2>1 DEF Spells
<1>6. h2 = IF n - 1 = 0 THEN NULL ELSE v[0]
  <2>1. q = 0 => h = w[0] /\ nx[h] = IF n - 1 = 0 THEN NULL ELSE w[1]
    BY <1>1 DEF Spells
  <2>2. n - 1 # 0 => v[0] = IF q = 0 THEN w[1] ELSE w[0]
    BY <1>1, <1>3
  <2>3. q # 0 => h = w[0] /\ n - 1 # 0
    BY <1>1 DEF Spells
  <2> QED
    BY <2>1, <2>2, <2>3 DEF UnlinkedAt
<1>7. ASSUME NEW k \in 0 .. n - 2
      PROVE  /\ nx2[v[k]] = IF k = n - 2 THEN NULL ELSE v[k + 1]
             /\ pv2[v[k]] = IF k = 0 THEN NULL ELSE v[k - 1]
  <2> DEFINE a == At(k)
  <2>1. a \in 0 .. n - 1 /\ a # q /\ v[k] = w[a] /\ w[a] \in Cells \ {w[q]}
    BY <1>4
  <2>2. nx2[w[a]] = IF a = q - 1 THEN nx[w[q]] ELSE nx[w[a]]
    <3>1. q > 0 => (w[a] = w[q - 1] <=> a = q - 1)
      <4>1. q > 0 => q - 1 \in 0 .. n - 1
        BY <1>1
      <4> HIDE DEF a
      <4> QED
        BY <2>1, <4>1 DEF Spells
    <3>2. a = q - 1 => q > 0
      BY <1>1, <2>1
    <3> HIDE DEF a
    <3> QED
      BY <2>1, <3>1, <3>2 DEF UnlinkedAt
  <2>3. pv2[w[a]] = IF a = q + 1 THEN pv[w[q]] ELSE pv[w[a]]
    <3>1. q < n - 1 => (w[a] = w[q + 1] <=> a = q + 1)
      <4>1. q < n - 1 => q + 1 \in 0 .. n - 1
        BY <1>1
      <4> HIDE DEF a
      <4> QED
        BY <2>1, <4>1 DEF Spells
    <3>2. a = q + 1 => q < n - 1
      BY <1>1, <2>1
    <3> HIDE DEF a
    <3> QED
      BY <2>1, <3>1, <3>2 DEF UnlinkedAt
  <2>4. \A b \in 0 .. n - 1 : /\ nx[w[b]] = IF b = n - 1 THEN NULL ELSE w[b + 1]
                              /\ pv[w[b]] = IF b = 0 THEN NULL ELSE w[b - 1]
    BY DEF Spells
  <2>5. CASE k < q
    <3>1. a = k /\ k \in 0 .. n - 1 /\ k # n - 1 /\ k # q + 1
      BY <1>1, <2>5
    <3>2. v[k] = w[k] /\ pv2[w[k]] = IF k = 0 THEN NULL ELSE w[k - 1]
      BY <2>1, <2>3, <2>4, <3>1
    <3>3. k # 0 => v[k - 1] = w[k - 1]
      BY <1>1, <1>3, <2>5
    <3>4. CASE k = q - 1
      <4>1. nx2[w[k]] = IF q = n - 1 THEN NULL ELSE w[q + 1]
        BY <2>2, <2>4, <3>1, <3>4
      <4>2. (k = n - 2 <=> q = n - 1) /\ (k # n - 2 => v[k + 1] = w[q + 1])
        BY <1>1, <1>3, <3>4
      <4> QED
        BY <3>2, <3>3, <4>1, <4>2
    <3>5. CASE k # q - 1
      <4>1. nx2[w[k]] = w[k + 1]
        BY <2>2, <2>4, <3>1, <3>5
      <4>2. k # n - 2 /\ v[k + 1] = w[k + 1]
        BY <1>1, <1>3, <2>5, <3>5
      <4> QED
        BY <3>2, <3>3, <4>1, <4>2
    <3> QED
      BY <3>4, <3>5
  <2>6. CASE ~(k < q)
    <3>1. a = k + 1 /\ k + 1 \in 0 .. n - 1 /\ k + 1 # 0 /\ k + 1 # q - 1
      BY <1>1, <2>6
    <3>2. v[k] = w[k + 1] /\ nx2[w[k + 1]] = IF k + 1 = n - 1 THEN NULL ELSE w[k + 2]
      <4>1. (k + 1) + 1 = k + 2
        BY <1>1
      <4> QED
        BY <2>1, <2>2, <2>4, <3>1, <4>1
    <3>3. (k + 1 = n - 1 <=> k = n - 2) /\ (k # n - 2 => v[k + 1] = w[k + 2])
      BY <1>1, <1>3, <2>6
    <3>4. pv2[w[k + 1]] = IF k = q THEN pv[w[q]] ELSE w[k]
      <4>1. (k + 1) - 1 = k /\ (k + 1 = q + 1 <=> k = q)
        BY <1>1
      <4> QED
        BY <2>3, <2>4, <3>1, <4>1
    <3>5. CASE k = q
      <4>1. pv[w[q]] = IF k = 0 THEN NULL ELSE w[k - 1]
        BY <2>4, <3>5
      <4>2. k # 0 => v[k - 1] = w[k - 1]
        BY <1>1, <1>3, <3>5
      <4> QED
        BY <3>2, <3>3, <3>4, <3>5, <4>1, <4>2
    <3>6. CASE k # q
      <4>1. k # 0 /\ v[k - 1] = w[k]
        BY <1>1, <1>3, <2>6, <3>6
      <4> QED
        BY <3>2, <3>3, <3>4, <3>6, <4>1
    <3> QED
      BY <3>5, <3>6
  <2> QED
    BY <2>5, <2>6
<1>8. (n - 1) - 1 = n - 2
  BY <1>1
<1>9. Spells(n - 1, v, h2, nx2, pv2)
  BY <1>1, <1>2, <1>5, <1>6, <1>7, <1>8 DEF Spells
<1>10. Nodes(n - 1, v) = Nodes(n, w) \ {w[q]}
  <2>1. ASSUME NEW x, x \in Nodes(n, w) \ {w[q]} PROVE \E k \in 0 .. n - 2 : x = v[k]
    <3>1. PICK j \in 0 .. n - 1 : x = w[j]
      BY <2>1 DEF Nodes
    <3>2. j # q
      BY <2>1, <3>1
    <3>3. CASE j < q
      <4>1. j \in 0 .. n - 2 /\ v[j] = w[j]
        BY <1>1, <1>3, <3>3
      <4> QED
        BY <3>1, <4>1
    <3>4. CASE j > q
      <4>1. j - 1 \in 0 .. n - 2 /\ v[j - 1] = w[j]
        BY <1>1, <1>3, <3>4
      <4> QED
        BY <3>1, <4>1
    <3> QED
      BY <1>1, <3>2, <3>3, <3>4
  <2>2. ASSUME NEW k \in 0 .. n - 2 PROVE v[k] \in Nodes(n, w) \ {w[q]}
    <3> HIDE DEF At
    <3> QED
      BY <1>4 DEF Nodes
  <2>3. Nodes(n - 1, v) = {v[k] : k \in 0 .. n - 2}
    BY <1>8 DEF Nodes
  <2> QED
    BY <2>1, <2>2, <2>3
<1> QED
  BY <1>9, <1>10 DEF v

-------------------------------------------------------------------------------
HasList(n, w) == Spells(n, w, head, next, prev) /\ used = Nodes(n, w)

IInv == /\ TypeOK
        /\ \E n, w : HasList(n, w)
        /\ \A c \in used : elem[c] \in Keys
        /\ status = "null" => head = NULL

\* The place index i stands for in a list of n, to insert at and to refer to.
Place(i, n) == IF i <= 0 THEN 0 ELSE IF i >= n THEN n ELSE i
Spot(i, n) == IF i <= 0 THEN 0 ELSE IF i >= n THEN n - 1 ELSE i

\* What an insertion and a removal at place q come to.
Inserted(n, w, k, q) == \E c \in Cells \ used : /\ HasList(n + 1, WalkWith(n, w, q, c))'
                                                /\ elem' = [elem EXCEPT ![c] = k]
Removed(n, w, q) == /\ HasList(n - 1, WalkWithout(n, w, q))'
                    /\ elem' = [elem EXCEPT ![w[q]] = FREED]
-------------------------------------------------------------------------------
(* The walk of a list is its nodes, and a reference by index one of them.  *)
LEMMA WalkFacts ==
  ASSUME NEW n, NEW w, HasList(n, w)
  PROVE  /\ n \in Nat /\ Size = n
         /\ \A k \in 0 .. n - 1 : OnWalk[k] = w[k] /\ w[k] \in used /\ w[k] \in Cells
         /\ head = NULL <=> n = 0
         /\ \A i \in Int : ReferenceAtIndex(i) = IF n = 0 THEN NULL ELSE w[Spot(i, n)]
         /\ \A i \in Int : n # 0 => Spot(i, n) \in 0 .. n - 1
<1>1. Spells(n, w, head, next, prev) /\ used = Nodes(n, w) /\ n \in Nat
  BY DEF HasList, Spells
<1>2. Size = n /\ N \in Nat /\ n <= N /\ \A k \in 0 .. N : OnWalk[k] = IF k < n THEN w[k] ELSE NULL
  BY <1>1, WalkOfList, WalkIsOnWalk
<1>3. \A k \in 0 .. n - 1 : OnWalk[k] = w[k] /\ w[k] \in used /\ w[k] \in Cells
  <2>1. \A k \in 0 .. n - 1 : k \in 0 .. N /\ k < n
    BY <1>1, <1>2
  <2>2. \A k \in 0 .. n - 1 : w[k] \in used /\ w[k] \in Cells
    BY <1>1 DEF Nodes, Spells
  <2> QED
    BY <1>2, <2>1, <2>2
<1>4. head = NULL <=> n = 0
  <2>1. n # 0 => 0 \in 0 .. n - 1
    BY <1>1
  <2> QED
    BY <1>1, <1>3, <2>1, DplistAssumption DEF Spells
<1>5. \A i \in Int : n # 0 => Spot(i, n) \in 0 .. n - 1
  BY <1>1 DEF Spot
<1>6. \A i \in Int : ReferenceAtIndex(i) = IF n = 0 THEN NULL ELSE w[Spot(i, n)]
  <2> TAKE i \in Int
  <2>1. ReferenceAtIndex(i) = IF n = 0 THEN NULL ELSE OnWalk[Spot(i, n)]
    BY <1>2, <1>4 DEF ReferenceAtIndex, Spot
  <2> QED
    BY <1>3, <1>5, <2>1
<1> QED
  BY <1>1, <1>2, <1>3, <1>4, <1>5, <1>6

(* dpl_insert_at_index puts the new node at the place the index stands for. *)
LEMMA InsertLinks ==
  ASSUME IInv, NEW n, NEW w, HasList(n, w), NEW k \in Keys, NEW i \in Int, Insert(k, i),
         UNCHANGED status
  PROVE  /\ Inserted(n, w, k, Place(i, n)) /\ Place(i, n) \in 0 .. n
         /\ TypeOK'
         /\ \A c \in used' : elem'[c] \in Keys
<1> DEFINE q == Place(i, n)
<1>1. PICK c \in Cells \ used : /\ used' = used \cup {c}
                                /\ elem' = [elem EXCEPT ![c] = k]
                                /\ Link(c, i)
  BY DEF Insert
<1>2. /\ n \in Nat /\ Size = n /\ \A j \in 0 .. n - 1 : w[j] \in Cells
      /\ n # 0 => ReferenceAtIndex(i) = w[Spot(i, n)]
      /\ Spells(n, w, head, next, prev) /\ used = Nodes(n, w)
  BY WalkFacts DEF HasList
<1>3. TypeOK
  BY DEF IInv
<1>4. q \in 0 .. n
  BY <1>2 DEF Place
<1>5. /\ LinkedAt(n, w, q, c, head, next, prev, head', next', prev')
      /\ head' \in Cells
      /\ prev' \in [Cells -> Cells \cup {NULL, FREED}]
      /\ next' \in [Cells -> Cells \cup {NULL, FREED}]
  <2> DEFINE at == ReferenceAtIndex(i)
  <2>1. CASE /\ n = 0
             /\ next' = [next EXCEPT ![c] = NULL]
             /\ prev' = [prev EXCEPT ![c] = NULL]
             /\ head' = c
    <3>1. q = 0
      BY <1>4, <2>1
    <3> HIDE DEF q
    <3> QED
      BY <1>3, <2>1, <3>1 DEF TypeOK, LinkedAt
  <2>2. CASE /\ n > 0 /\ i <= 0
             /\ next' = [next EXCEPT ![c] = at]
             /\ prev' = [prev EXCEPT ![c] = NULL, ![at] = c]
             /\ head' = c
    <3>1. q = 0 /\ at = w[0] /\ w[0] \in Cells
      BY <1>2, <2>2 DEF Place, Spot
    <3>2. w[0] # c
      BY <1>1, <1>2, <2>2 DEF Nodes
    <3> HIDE DEF q, at
    <3> QED
      BY <1>2, <1>3, <2>2, <3>1, <3>2 DEF TypeOK, LinkedAt
  <2>3. CASE /\ n > 0 /\ i > 0 /\ i >= n
             /\ next' = [next EXCEPT ![c] = NULL, ![at] = c]
             /\ prev' = [prev EXCEPT ![c] = at]
             /\ UNCHANGED head
    <3>1. q = n /\ n - 1 \in 0 .. n - 1 /\ at = w[n - 1] /\ w[n - 1] \in Cells
      BY <1>2, <2>3 DEF Place, Spot
    <3>2. w[n - 1] # c
      BY <1>1, <1>2, <2>3, <3>1 DEF Nodes
    <3>3. head \in Cells
      BY <1>2, <2>3 DEF Spells
    <3> HIDE DEF q, at
    <3> QED
      BY <1>2, <1>3, <2>3, <3>1, <3>2, <3>3 DEF TypeOK, LinkedAt
  <2>4. CASE /\ 0 < i /\ i < n
             /\ next' = [next EXCEPT ![c] = at, ![prev[at]] = c]
             /\ prev' = [prev EXCEPT ![c] = prev[at], ![at] = c]
             /\ UNCHANGED head
    <3>1. /\ q = i /\ at = w[i] /\ w[i] \in Cells /\ i \in 0 .. n - 1 /\ i # 0
          /\ i - 1 \in 0 .. n - 1 /\ w[i - 1] \in Cells
      BY <1>2, <2>4 DEF Place, Spot
    <3>2. w[i] # c /\ w[i - 1] # c
      BY <1>1, <1>2, <3>1 DEF Nodes
    <3>3. prev[at] = w[i - 1]
      BY <1>2, <3>1 DEF Spells
    <3>4. head \in Cells
      BY <1>2, <2>4 DEF Spells
    <3> HIDE DEF q, at
    <3> QED
      BY <1>2, <1>3, <2>4, <3>1, <3>2, <3>3, <3>4 DEF TypeOK, LinkedAt
  <2> QED
    BY <1>1, <1>2, <2>1, <2>2, <2>3, <2>4 DEF Link
<1> HIDE DEF q
<1>6. HasList(n + 1, WalkWith(n, w, q, c))'
  <2>1. /\ Spells(n + 1, WalkWith(n, w, q, c), head', next', prev')
        /\ Nodes(n + 1, WalkWith(n, w, q, c)) = used \cup {c}
    BY <1>1, <1>2, <1>4, <1>5, LinkSpells
  <2> QED
    BY <1>1, <2>1 DEF HasList
<1>7. TypeOK'
  BY <1>1, <1>3, <1>5 DEF TypeOK
<1>8. \A x \in used' : elem'[x] \in Keys
  BY <1>1, <1>3 DEF TypeOK, IInv
<1> QED
  BY <1>1, <1>4, <1>6, <1>7, <1>8 DEF Inserted, q

(* Unlinking the node at place q, once its memory is given back.           *)
LEMMA UnlinkRemoves ==
  ASSUME IInv, NEW n, NEW w, HasList(n, w), NEW q \in 0 .. n - 1, Unlink(w[q]),
         elem' = FreedIn(elem, w[q]), used' = used \ {w[q]}
  PROVE  /\ Removed(n, w, q)
         /\ UNCHANGED status => TypeOK'
         /\ \A c \in used' : elem'[c] \in Keys
<1> DEFINE m == w[q]
<1>1. /\ n \in Nat /\ \A j \in 0 .. n - 1 : w[j] \in Cells
      /\ \A i, j \in 0 .. n - 1 : w[i] = w[j] => i = j
      /\ Spells(n, w, head, next, prev) /\ used = Nodes(n, w) /\ head = w[0]
  BY DEF HasList, Spells
<1>2. TypeOK
  BY DEF IInv
<1>3. /\ next[m] = IF q = n - 1 THEN NULL ELSE w[q + 1]
      /\ prev[m] = IF q = 0 THEN NULL ELSE w[q - 1]
  BY <1>1 DEF Spells
<1>4. /\ q \in Nat /\ q \in 0 .. n - 1 /\ m \in Cells
      /\ q # n - 1 => q + 1 \in 0 .. n - 1 /\ w[q + 1] \in Cells
      /\ q # 0 => q - 1 \in 0 .. n - 1 /\ w[q - 1] \in Cells
  BY <1>1
<1>5. (m = head <=> q = 0) /\ (q # n - 1 => w[q + 1] # m) /\ (q # 0 => w[q - 1] # m)
  BY <1>1, <1>4
<1>6. /\ head' = IF q = 0 THEN next[m] ELSE head
      /\ next' = [Redirect(next, prev[m], next[m]) EXCEPT ![m] = FREED]
      /\ prev' = [Redirect(prev, next[m], prev[m]) EXCEPT ![m] = FREED]
  BY <1>5 DEF Unlink, FreedIn
<1> HIDE DEF m
<1>7. /\ next' \in [Cells -> Cells \cup {NULL, FREED}]
      /\ \A x \in Cells \ {m} : next'[x] = IF q > 0 /\ x = w[q - 1] THEN next[m] ELSE next[x]
  <2>1. CASE q = 0
    <3>1. next' = [next EXCEPT ![m] = FREED]
      BY <1>3, <1>6, <2>1 DEF Redirect
    <3>2. next' \in [Cells -> Cells \cup {NULL, FREED}]
      BY <1>2, <3>1 DEF TypeOK
    <3>3. \A x \in Cells \ {m} : next'[x] = next[x]
      BY <1>2, <3>1 DEF TypeOK
    <3> QED
      BY <2>1, <3>2, <3>3
  <2>2. CASE q # 0
    <3>1. next' = [next EXCEPT ![w[q - 1]] = next[m], ![m] = FREED]
      BY <1>3, <1>4, <1>6, <2>2, DplistAssumption DEF Redirect
    <3>2. q > 0 /\ next[m] \in Cells \cup {NULL, FREED}
      BY <1>2, <1>4, <2>2 DEF TypeOK
    <3> QED
      BY <1>2, <1>4, <3>1, <3>2 DEF TypeOK
  <2> QED
    BY <2>1, <2>2
<1>8. /\ prev' \in [Cells -> Cells \cup {NULL, FREED}]
      /\ \A x \in Cells \ {m} : prev'[x] = IF q < n - 1 /\ x = w[q + 1] THEN prev[m] ELSE prev[x]
  <2>1. CASE q = n - 1
    <3>1. prev' = [prev EXCEPT ![m] = FREED]
      BY <1>3, <1>6, <2>1 DEF Redirect
    <3>2. ~(q < n - 1)
      BY <1>1, <2>1
    <3> QED
      BY <1>2, <3>1, <3>2 DEF TypeOK
  <2>2. CASE q # n - 1
    <3>1. prev' = [prev EXCEPT ![w[q + 1]] = prev[m], ![m] = FREED]
      BY <1>3, <1>4, <1>6, <2>2, DplistAssumption DEF Redirect
    <3>2. q < n - 1 /\ prev[m] \in Cells \cup {NULL, FREED}
      BY <1>1, <1>2, <1>4, <2>2 DEF TypeOK
    <3> QED
      BY <1>2, <1>4, <3>1, <3>2 DEF TypeOK
  <2> QED
    BY <2>1, <2>2
<1>9. UnlinkedAt(n, w, q, head, next, prev, head', next', prev')
  <2>1. q = 0 => next[m] = next[head]
    BY <1>5
  <2> QED
    BY <1>6, <1>7, <1>8, <2>1 DEF UnlinkedAt, m
<1>10. Removed(n, w, q)
  <2>1. /\ Spells(n - 1, WalkWithout(n, w, q), head', next', prev')
        /\ Nodes(n - 1, WalkWithout(n, w, q)) = Nodes(n, w) \ {w[q]}
    BY <1>1, <1>9, UnlinkSpells
  <2>2. HasList(n - 1, WalkWithout(n, w, q))'
    BY <1>1, <2>1 DEF HasList
  <2> QED
    BY <2>2 DEF Removed, FreedIn
<1>11. head' \in Cells \cup {NULL}
  BY <1>1, <1>3, <1>4, <1>6
<1>12. elem' = [elem EXCEPT ![m] = FREED] /\ used' = used \ {m}
  BY DEF FreedIn, m
<1>13. UNCHANGED status => TypeOK'
  BY <1>2, <1>7, <1>8, <1>11, <1>12 DEF TypeOK
<1>14. \A c \in used' : elem'[c] \in Keys
  BY <1>2, <1>12 DEF TypeOK, IInv
<1> QED
  BY <1>10, <1>13, <1>14

(* dpl_remove_at_index unlinks the node the index stands for, if any.      *)
LEMMA RemoveUnlinks ==
  ASSUME IInv, NEW n, NEW w, HasList(n, w), NEW i \in Int, RemoveAt(i), UNCHANGED status
  PROVE  /\ n = 0 => UNCHANGED heap
         /\ n # 0 => Removed(n, w, Spot(i, n)) /\ Spot(i, n) \in 0 .. n - 1
         /\ TypeOK'
         /\ \A c \in used' : elem'[c] \in Keys
<1>1. CASE n = 0
  <2>1. UNCHANGED heap
    BY <1>1, WalkFacts DEF RemoveAt
  <2> QED
    BY <1>1, <2>1 DEF IInv, TypeOK, heap
<1>2. CASE n # 0
  <2>1. /\ Spot(i, n) \in 0 .. n - 1 /\ head # NULL
        /\ ReferenceAtIndex(i) = w[Spot(i, n)]
    BY <1>2, WalkFacts
  <2>2. /\ Unlink(w[Spot(i, n)]) /\ elem' = FreedIn(elem, w[Spot(i, n)])
        /\ used' = used \ {w[Spot(i, n)]}
    BY <2>1 DEF RemoveAt
  <2> QED
    BY <1>2, <2>1, <2>2, UnlinkRemoves
<1> QED
  BY <1>1, <1>2

(* dpl_free frees the first node.                                          *)
LEMMA FreeRemoves ==
  ASSUME IInv, NEW n, NEW w, HasList(n, w), FreeHead
  PROVE  /\ Removed(n, w, 0) /\ n # 0 /\ TypeOK'
         /\ \A c \in used' : elem'[c] \in Keys
<1>1. /\ n # 0 /\ n \in Nat /\ 0 \in 0 .. n - 1 /\ head = w[0] /\ w[0] \in Cells
      /\ next[w[0]] = IF n = 1 THEN NULL ELSE w[1]
      /\ n # 1 => w[1] \in Cells /\ w[1] # w[0] /\ prev[w[1]] = w[0]
      /\ prev[w[0]] = NULL
  <2>1. n # 0 /\ n \in Nat /\ Spells(n, w, head, next, prev)
    BY WalkFacts DEF FreeHead, HasList
  <2>2. 0 \in 0 .. n - 1 /\ (n # 1 => 1 \in 0 .. n - 1) /\ (0 = n - 1 <=> n = 1) /\ 0 + 1 = 1 /\ 1 - 1 = 0
    BY <2>1
  <2> QED
    BY <2>1, <2>2 DEF Spells
<1>2. /\ head' = next[w[0]] /\ used' = used \ {w[0]} /\ UNCHANGED status
      /\ next' = FreedIn(next, w[0]) /\ elem' = FreedIn(elem, w[0])
      /\ prev' = FreedIn(Redirect(prev, next[w[0]], NULL), w[0])
  <2>1. (IF next[head] # NULL THEN prev[next[head]] ELSE head) = w[0]
    BY <1>1, DplistAssumption
  <2> QED
    BY <1>1, <2>1 DEF FreeHead
<1>3. Unlink(w[0])
  BY <1>1, <1>2 DEF Unlink, Redirect
<1> QED
  BY <1>1, <1>2, <1>3, UnlinkRemoves

-------------------------------------------------------------------------------
(* The first of a set of indices, or else d: how every search ends.        *)
First(H, d) == IF H = {} THEN d ELSE CHOOSE k \in H : \A j \in H : k <= j

LEMMA FirstIs ==
  ASSUME NEW H, H \subseteq Nat, H # {}, NEW d
  PROVE  First(H, d) \in H /\ \A j \in H : First(H, d) <= j
BY LeastIndex DEF First

(* The sequence has its first hit one further than the nodes have.         *)
LEMMA FirstOfSequence ==
  ASSUME NEW n \in Nat, NEW H, NEW I, H \subseteq 0 .. n - 1, I \subseteq 1 .. n,
         \A k \in 0 .. n - 1 : k \in H <=> k + 1 \in I
  PROVE  /\ H = {} <=> I = {}
         /\ I # {} => First(H, -1) = Contract!Min(I) - 1 /\ Contract!Min(I) \in I
<1>1. \A p \in I : p \in 1 .. n /\ p - 1 \in H
  <2> TAKE p \in I
  <2>1. p \in 1 .. n /\ p - 1 \in 0 .. n - 1 /\ (p - 1) + 1 = p
    OBVIOUS
  <2> QED
    BY <2>1
<1>2. \A k \in H : k + 1 \in I /\ k \in 0 .. n - 1
  OBVIOUS
<1>3. ASSUME I # {} PROVE First(H, -1) = Contract!Min(I) - 1 /\ Contract!Min(I) \in I
  <2> DEFINE p == Contract!Min(I)
             k == First(H, -1)
  <2>1. p \in I /\ \A x \in I : p <= x
    <3>1. I \subseteq Nat
      OBVIOUS
    <3>2. \E x \in I : \A y \in I : x <= y
      BY <1>3, <3>1, LeastIndex
    <3> QED
      BY <3>2 DEF Contract!Min
  <2>2. k \in H /\ \A j \in H : k <= j
    <3>1. H # {}
      BY <1>1, <1>3
    <3>2. H \subseteq Nat
      OBVIOUS
    <3> QED
      BY <3>1, <3>2, FirstIs
  <2> HIDE DEF p, k
  <2>3. p - 1 \in H /\ k + 1 \in I /\ p \in Nat /\ k \in Nat
    BY <1>1, <1>2, <2>1, <2>2
  <2>4. k <= p - 1 /\ p <= k + 1
    BY <2>1, <2>2, <2>3
  <2>5. k = p - 1
    BY <2>3, <2>4
  <2> QED
    BY <2>1, <2>5 DEF p, k
<1> QED
  BY <1>1, <1>2, <1>3

\* The places of the nodes a search looks for, and where a sorted insertion goes.
WithElement(n, w, k) == {j \in 0 .. n - 1 : elem[w[j]] = k}
NotBelow(n, w, k) == {j \in 0 .. n - 1 : k <= elem[w[j]]}
AtNode(n, w, r) == {j \in 0 .. n - 1 : w[j] = r}
SortedPlace(k) == FirstOnWalk(LAMBDA c : k <= elem[c], Size)

(* The searches of a list, as first hits.                                  *)
LEMMA Searches ==
  ASSUME NEW n, NEW w, HasList(n, w)
  PROVE  /\ \A k : IndexOfElement(k) = First(WithElement(n, w, k), -1)
         /\ \A k : SortedPlace(k) = First(NotBelow(n, w, k), n)
         /\ \A r : IndexOfReference(r) = First(AtNode(n, w, OrLast(r)), -1)
<1>1. Size = n /\ \A k \in 0 .. n - 1 : OnWalk[k] = w[k]
  BY WalkFacts
<1>2. ASSUME NEW k PROVE IndexOfElement(k) = First(WithElement(n, w, k), -1)
  <2> DEFINE H == {j \in 0 .. Size - 1 : elem[OnWalk[j]] = k}
  <2>1. H = WithElement(n, w, k)
    BY <1>1 DEF WithElement
  <2>2. IndexOfElement(k) = First(H, -1)
    BY Zenon DEF IndexOfElement, FirstOnWalk, First
  <2> QED
    BY <2>1, <2>2
<1>3. ASSUME NEW k PROVE SortedPlace(k) = First(NotBelow(n, w, k), n)
  <2> DEFINE H == {j \in 0 .. Size - 1 : k <= elem[OnWalk[j]]}
  <2>1. H = NotBelow(n, w, k)
    BY <1>1 DEF NotBelow
  <2>2. SortedPlace(k) = First(H, Size)
    BY Zenon DEF SortedPlace, FirstOnWalk, First
  <2> QED
    BY <1>1, <2>1, <2>2
<1>4. ASSUME NEW r PROVE IndexOfReference(r) = First(AtNode(n, w, OrLast(r)), -1)
  <2> DEFINE H == {j \in 0 .. Size - 1 : OnWalk[j] = OrLast(r)}
  <2>1. H = AtNode(n, w, OrLast(r))
    BY <1>1 DEF AtNode
  <2>2. IndexOfReference(r) = First(H, -1)
    BY Zenon DEF IndexOfReference, FirstOnWalk, First
  <2> QED
    BY <2>1, <2>2
<1> QED
  BY <1>2, <1>3, <1>4

(* A reference stands for its place in the list, NULL for the last one.    *)
LEMMA ReferencePlace ==
  ASSUME NEW n, NEW w, HasList(n, w), NEW r
  PROVE  /\ r # NULL => \A j \in 0 .. n - 1 : w[j] = r => IndexOfReference(r) = j
         /\ r # NULL /\ r \notin used => IndexOfReference(r) = -1
         /\ r = NULL => IndexOfReference(r) = n - 1
         /\ IndexOfReference(r) \in -1 .. n - 1
<1>1. /\ n \in Nat /\ used = Nodes(n, w)
      /\ \A i, j \in 0 .. n - 1 : w[i] = w[j] => i = j
      /\ \A j \in 0 .. n - 1 : w[j] \in used
  BY DEF HasList, Spells, Nodes
<1> DEFINE H == {j \in 0 .. n - 1 : w[j] = OrLast(r)}
<1>2. IndexOfReference(r) = First(H, -1)
  BY Searches DEF AtNode
<1>3. H # {} => First(H, -1) \in H
  <2>1. H \subseteq Nat
    OBVIOUS
  <2> HIDE DEF H
  <2> QED
    BY <2>1, FirstIs
<1>4. H = {} => First(H, -1) = -1
  BY DEF First
<1>5. \A j \in 0 .. n - 1 : w[j] = OrLast(r) => First(H, -1) = j
  BY <1>1, <1>3
<1>6. IndexOfReference(r) \in -1 .. n - 1
  BY <1>1, <1>2, <1>3, <1>4
<1>7. r # NULL => OrLast(r) = r
  BY DEF OrLast
<1>8. r # NULL => \A j \in 0 .. n - 1 : w[j] = r => IndexOfReference(r) = j
  BY <1>2, <1>5, <1>7
<1>9. r # NULL /\ r \notin used => IndexOfReference(r) = -1
  BY <1>1, <1>2, <1>4, <1>7
<1>10. r = NULL => IndexOfReference(r) = n - 1
  <2> SUFFICES ASSUME r = NULL PROVE IndexOfReference(r) = n - 1
    OBVIOUS
  <2>1. Size = n /\ ReferenceAtIndex(n) = IF n = 0 THEN NULL ELSE w[Spot(n, n)]
    BY <1>1, WalkFacts
  <2>2. OrLast(r) = IF n = 0 THEN NULL ELSE w[n - 1]
    BY <1>1, <2>1 DEF OrLast, LastReference, Spot
  <2>3. CASE n = 0
    <3>1. H = {}
      BY <2>3
    <3> HIDE DEF H
    <3> QED
      BY <1>2, <1>4, <2>3, <3>1
  <2>4. CASE n # 0
    <3>1. n - 1 \in 0 .. n - 1
      BY <1>1, <2>4
    <3> HIDE DEF H
    <3> QED
      BY <1>2, <1>5, <2>2, <2>4, <3>1
  <2> QED
    BY <2>3, <2>4
<1> QED
  BY <1>6, <1>8, <1>9, <1>10

(* Where a sorted insertion and the removal of an element take place.      *)
LEMMA ElementPlace ==
  ASSUME NEW n, NEW w, HasList(n, w), NEW k
  PROVE  /\ SortedPlace(k) \in 0 .. n
         /\ IndexOfElement(k) \in -1 .. n - 1
         /\ IndexOfElement(k) # -1 => elem[w[IndexOfElement(k)]] = k
<1> DEFINE H == {j \in 0 .. n - 1 : k <= elem[w[j]]}
           I == {j \in 0 .. n - 1 : elem[w[j]] = k}
<1>1. /\ SortedPlace(k) = First(H, n)
      /\ IndexOfElement(k) = First(I, -1) /\ n \in Nat
  BY SMTT(30), Searches DEF HasList, Spells, WithElement, NotBelow
<1>2. (H # {} => First(H, n) \in H) /\ (I # {} => First(I, -1) \in I)
  <2>1. H \subseteq Nat /\ I \subseteq Nat
    OBVIOUS
  <2> HIDE DEF H, I
  <2> QED
    BY <2>1, FirstIs
<1>3. (H = {} => First(H, n) = n) /\ (I = {} => First(I, -1) = -1)
  BY DEF First
<1>4. SortedPlace(k) \in 0 .. n
  BY <1>1, <1>2, <1>3
<1>5. /\ IndexOfElement(k) \in -1 .. n - 1
      /\ IndexOfElement(k) # -1 => elem[w[IndexOfElement(k)]] = k
  BY <1>1, <1>2, <1>3
<1> QED
  BY <1>4, <1>5

-------------------------------------------------------------------------------
(* Each call is an insertion, a removal or nothing to the nodes.           *)
LEMMA CallIsChange ==
  ASSUME IInv, Call
  PROVE  \/ \E k \in Keys, i \in Int : Insert(k, i)
         \/ \E i \in Int : RemoveAt(i)
         \/ UNCHANGED heap
<1>1. PICK n, w : HasList(n, w)
  BY DEF IInv
<1>2. n \in Nat /\ \A i \in Indexes : i \in Int
  BY <1>1, DplistAssumption DEF HasList, Spells
<1>3. ASSUME NEW k \in Keys, NEW i \in Indexes, InsertAtIndex(k, i)
      PROVE  \E j \in Int : Insert(k, j)
  BY <1>2, <1>3 DEF InsertAtIndex
<1>4. ASSUME NEW k \in Keys, NEW r, InsertAtReference(k, r)
      PROVE  UNCHANGED heap \/ \E j \in Int : Insert(k, j)
  <2>1. IndexOfReference(r) \in Int
    BY <1>1, <1>2, ReferencePlace
  <2> QED
    BY <1>4, <2>1 DEF InsertAtReference
<1>5. ASSUME NEW k \in Keys, InsertSorted(k) PROVE \E j \in Int : Insert(k, j)
  <2>1. SortedPlace(k) \in Int
    BY <1>1, <1>2, ElementPlace
  <2>2. Insert(k, SortedPlace(k))
    BY <1>5 DEF InsertSorted, SortedPlace
  <2> QED
    BY <2>1, <2>2
<1>6. ASSUME NEW k \in Keys, RemoveElement(k)
      PROVE  UNCHANGED heap \/ \E j \in Int : RemoveAt(j)
  <2>1. IndexOfElement(k) \in Int
    BY <1>1, <1>2, ElementPlace
  <2> QED
    BY <1>6, <2>1 DEF RemoveElement
<1>7. ASSUME NEW i \in Indexes, RemoveAtIndex(i) PROVE \E j \in Int : RemoveAt(j)
  BY <1>2, <1>7 DEF RemoveAtIndex
<1>8. ASSUME NEW r, RemoveAtReference(r)
      PROVE  UNCHANGED heap \/ \E j \in Int : RemoveAt(j)
  <2>1. IndexOfReference(r) \in Int
    BY <1>1, <1>2, ReferencePlace
  <2> QED
    BY <1>8, <2>1 DEF RemoveAtReference
<1> QED
  BY <1>3, <1>4, <1>5, <1>6, <1>7, <1>8 DEF Call

(* The empty list.                                                         *)
LEMMA Starts == Init => IInv
<1> SUFFICES ASSUME Init PROVE IInv
  OBVIOUS
<1>1. TypeOK
  BY DEF Init, TypeOK
<1>2. HasList(0, [k \in 0 .. -1 |-> NULL])
  <2>1. 0 .. -1 = {} /\ 0 - 1 = -1
    OBVIOUS
  <2> QED
    BY <2>1 DEF Init, HasList, Spells, Nodes
<1> QED
  BY <1>1, <1>2 DEF IInv, Init

(* Every step leaves a list, dpl_free's one node shorter.                  *)
LEMMA Steps ==
  ASSUME IInv, [Next]_vars PROVE IInv'
<1>1. PICK n, w : HasList(n, w)
  BY DEF IInv
<1>2. CASE UNCHANGED heap /\ status' \in {"null", "live", "freeing", "aborted"}
           /\ (status' = "null" => head = NULL)
  <2>1. HasList(n, w)' /\ TypeOK'
    BY <1>1, <1>2 DEF HasList, IInv, TypeOK, heap
  <2> QED
    BY <1>2, <2>1 DEF IInv, heap
<1>3. CASE Create
  <2>1. head = NULL
    BY <1>3 DEF Create, IInv
  <2> QED
    BY <1>2, <1>3, <2>1 DEF Create, heap
<1>4. CASE Call
  <2>1. UNCHANGED status /\ status = "live"
    BY <1>4 DEF Call
  <2>2. CASE \E k \in Keys, i \in Int : Insert(k, i)
    <3>1. PICK k \in Keys, i \in Int : Insert(k, i)
      BY <2>2
    <3>2. /\ \E m, v : HasList(m, v)'
          /\ TypeOK' /\ \A c \in used' : elem'[c] \in Keys
      BY <1>1, <2>1, <3>1, InsertLinks DEF Inserted
    <3> QED
      BY <2>1, <3>2 DEF IInv
  <2>3. CASE \E i \in Int : RemoveAt(i)
    <3>1. PICK i \in Int : RemoveAt(i)
      BY <2>3
    <3>2. /\ n = 0 => UNCHANGED heap
          /\ n # 0 => \E m, v : HasList(m, v)'
          /\ TypeOK' /\ \A c \in used' : elem'[c] \in Keys
      BY <1>1, <2>1, <3>1, RemoveUnlinks DEF Removed
    <3>3. n = 0 => HasList(n, w)'
      BY <1>1, <3>2 DEF HasList, heap
    <3> QED
      BY <2>1, <3>2, <3>3 DEF IInv
  <2>4. CASE UNCHANGED heap
    BY <1>2, <2>1, <2>4
  <2> QED
    BY <1>4, <2>2, <2>3, <2>4, CallIsChange
<1>5. CASE StartFree
  BY <1>2, <1>5 DEF StartFree
<1>6. CASE FreeHead
  <2>1. /\ \E m, v : HasList(m, v)'
        /\ TypeOK' /\ \A c \in used' : elem'[c] \in Keys
    BY <1>1, <1>6, FreeRemoves DEF Removed
  <2> QED
    BY <1>6, <2>1 DEF IInv, FreeHead
<1>7. CASE EndFree
  BY <1>2, <1>7 DEF EndFree
<1>8. CASE AssertFails
  BY <1>2, <1>8 DEF AssertFails
<1>9. CASE Finished \/ UNCHANGED vars
  BY <1>2, <1>9 DEF Finished, vars, IInv, TypeOK
<1> QED
  BY <1>3, <1>4, <1>5, <1>6, <1>7, <1>8, <1>9 DEF Next

LEMMA Invariance == Spec => []IInv
<1> QED
  BY Starts, Steps, PTL DEF Spec
-------------------------------------------------------------------------------
(* The elements of a list, in the order of its walk: ElementsOf is Elements *)
(* for given pointers and elements.                                        *)
ElementsOf(h, nx, el) == [p \in 1 .. Length(h, nx) |-> el[Walk(h, nx)[p - 1]]]
Lists(s, n, w, el) == /\ s \in Seq(Keys) /\ Len(s) = n
                      /\ \A p \in 1 .. n : s[p] = el[w[p - 1]]
                      /\ \A j \in 0 .. n - 1 : s[j + 1] = el[w[j]] /\ j + 1 \in 1 .. n
                      /\ s = <<>> <=> n = 0

LEMMA ElementsOfList ==
  ASSUME NEW n, NEW w, NEW h, NEW nx, NEW pv, Spells(n, w, h, nx, pv),
         NEW el, \A j \in 0 .. n - 1 : el[w[j]] \in Keys
  PROVE  Lists(ElementsOf(h, nx, el), n, w, el)
<1> DEFINE s == ElementsOf(h, nx, el)
<1>1. /\ n \in Nat /\ Length(h, nx) = n
      /\ \A j \in 0 .. n - 1 : Walk(h, nx)[j] = w[j]
  <2>1. n \in Nat
    BY DEF Spells
  <2>2. /\ N \in Nat /\ n <= N
        /\ DOMAIN Walk(h, nx) = 0 .. N
        /\ \A k \in 0 .. N : Walk(h, nx)[k] = IF k < n THEN w[k] ELSE NULL
        /\ Length(h, nx) = n
    BY WalkOfList
  <2> QED
    BY <2>1, <2>2
<1>2. \A p \in 1 .. n : p - 1 \in 0 .. n - 1
  BY <1>1
<1>3. s = [p \in 1 .. n |-> el[w[p - 1]]]
  BY <1>1, <1>2 DEF ElementsOf
<1>4. s \in [1 .. n -> Keys]
  BY <1>1, <1>2, <1>3
<1> HIDE DEF s
<1>5. s \in Seq(Keys) /\ Len(s) = n
  BY <1>1, <1>3, <1>4
<1>6. s = <<>> <=> n = 0
  BY <1>1, <1>5, EmptySeq
<1>7. \A j \in 0 .. n - 1 : s[j + 1] = el[w[j]] /\ j + 1 \in 1 .. n
  <2> TAKE j \in 0 .. n - 1
  <2>1. j + 1 \in 1 .. n /\ (j + 1) - 1 = j
    BY <1>1
  <2> QED
    BY <1>3, <2>1
<1> QED
  BY <1>1, <1>3, <1>5, <1>6, <1>7 DEF Lists, s

LEMMA ElementsIsElementsOf ==
  /\ Elements = ElementsOf(head, next, elem)
  /\ Elements' = ElementsOf(head', next', elem')
<1>1. Elements = ElementsOf(head, next, elem)
  BY WalkIsOnWalk DEF Elements, ElementsOf
<1>2. Elements' = ElementsOf(head', next', elem')
  BY WalkIsOnWalk DEF Elements, ElementsOf
<1> QED
  BY <1>1, <1>2

(* Elements is a list of the elements along the walk.                      *)
LEMMA ElementsAre ==
  ASSUME NEW n, NEW w, HasList(n, w), \A c \in used : elem[c] \in Keys
  PROVE  Lists(Elements, n, w, elem)
<1>1. Spells(n, w, head, next, prev) /\ \A j \in 0 .. n - 1 : elem[w[j]] \in Keys
  BY DEF HasList, Nodes
<1> QED
  BY <1>1, ElementsOfList, ElementsIsElementsOf

(* The same in the next state.                                             *)
LEMMA NextElementsAre ==
  ASSUME NEW n, NEW w, HasList(n, w)', \A c \in used' : elem'[c] \in Keys
  PROVE  Lists(Elements', n, w, elem')
<1>1. Spells(n, w, head', next', prev') /\ \A j \in 0 .. n - 1 : elem'[w[j]] \in Keys
  BY DEF HasList, Nodes
<1> QED
  BY <1>1, ElementsOfList, ElementsIsElementsOf

(* The searches of the sequence find what the searches of the nodes find.  *)
Abstract == IF status = "live" THEN Elements ELSE <<>>
AbstractSortedPlace(k) == Contract!FirstIndex(LAMBDA x : k <= x, Len(Abstract))

LEMMA AbstractSearches ==
  ASSUME NEW n, NEW w, HasList(n, w), \A c \in used : elem[c] \in Keys, status = "live", NEW k
  PROVE  /\ Contract!IndexOfElement(k) = IndexOfElement(k)
         /\ AbstractSortedPlace(k) = SortedPlace(k)
<1>1. /\ n \in Nat /\ Abstract = Elements /\ Len(Elements) = n
      /\ \A j \in 0 .. n - 1 : Elements[j + 1] = elem[w[j]] /\ j + 1 \in 1 .. n
  BY ElementsAre DEF Abstract, HasList, Spells, Lists
<1>2. IndexOfElement(k) = First(WithElement(n, w, k), -1)
  BY Searches
<1>3. SortedPlace(k) = First(NotBelow(n, w, k), n)
  BY Searches
<1>4. Contract!IndexOfElement(k) = IndexOfElement(k)
  <2> DEFINE I == {p \in 1 .. Len(Abstract) : Abstract[p] = k}
             p == IF I # {} THEN Contract!Min(I) ELSE 0
  <2>1. Contract!IndexOfElement(k) = IF p = 0 THEN -1 ELSE p - 1
    BY Zenon DEF Contract!IndexOfElement, Contract!FirstIndex, Contract!SelectInSeq, Abstract
  <2>2. /\ WithElement(n, w, k) \subseteq 0 .. n - 1 /\ I \subseteq 1 .. n
        /\ \A j \in 0 .. n - 1 : j \in WithElement(n, w, k) <=> j + 1 \in I
    BY <1>1 DEF WithElement
  <2> HIDE DEF I
  <2>3. /\ WithElement(n, w, k) = {} <=> I = {}
        /\ I # {} => /\ First(WithElement(n, w, k), -1) = Contract!Min(I) - 1
                     /\ Contract!Min(I) \in I
    BY <1>1, <2>2, FirstOfSequence
  <2>4. CASE I = {}
    BY <1>2, <2>1, <2>3, <2>4 DEF First
  <2>5. CASE I # {}
    <3>1. p = Contract!Min(I) /\ p # 0
      BY <2>2, <2>3, <2>5
    <3> HIDE DEF p
    <3> QED
      BY <1>2, <2>1, <2>3, <2>5, <3>1
  <2> QED
    BY <2>4, <2>5
<1>5. AbstractSortedPlace(k) = SortedPlace(k)
  <2> DEFINE I == {p \in 1 .. Len(Abstract) : k <= Abstract[p]}
             p == IF I # {} THEN Contract!Min(I) ELSE 0
             H == NotBelow(n, w, k)
  <2>1. AbstractSortedPlace(k) = IF p = 0 THEN Len(Abstract) ELSE p - 1
    BY Zenon DEF AbstractSortedPlace, Contract!FirstIndex, Contract!SelectInSeq, Abstract
  <2>2. /\ H \subseteq 0 .. n - 1 /\ I \subseteq 1 .. n
        /\ \A j \in 0 .. n - 1 : j \in H <=> j + 1 \in I
    BY <1>1 DEF NotBelow
  <2> HIDE DEF I, H
  <2>3. /\ H = {} <=> I = {}
        /\ I # {} => First(H, -1) = Contract!Min(I) - 1 /\ Contract!Min(I) \in I
    BY <1>1, <2>2, FirstOfSequence
  <2>4. CASE I = {}
    BY <1>1, <1>3, <2>1, <2>3, <2>4 DEF First, H
  <2>5. CASE I # {}
    <3>1. p = Contract!Min(I) /\ p # 0
      BY <2>2, <2>3, <2>5
    <3>2. First(H, n) = First(H, -1)
      BY <2>3, <2>5 DEF First
    <3> HIDE DEF p
    <3> QED
      BY <1>3, <2>1, <2>3, <2>5, <3>1, <3>2 DEF H
  <2> QED
    BY <2>4, <2>5
<1> QED
  BY <1>4, <1>5

(* Any index: the element the sequence has there, or next to there.        *)
LEMMA AbstractPlaces ==
  ASSUME NEW n, NEW w, HasList(n, w), \A c \in used : elem[c] \in Keys, status = "live",
         NEW i \in Int
  PROVE  /\ Contract!Before(i) = Place(i, n) /\ Place(i, n) \in 0 .. n
         /\ n # 0 => (IF Contract!Before(i) = Len(Elements) THEN Len(Elements)
                      ELSE Contract!Before(i) + 1) = Spot(i, n) + 1
<1>1. n \in Nat /\ Len(Elements) = n
  BY ElementsAre DEF HasList, Spells, Lists
<1>2. Contract!Before(i) = Place(i, n)
  BY <1>1 DEF Contract!Before, Place
<1>3. Place(i, n) \in 0 .. n
  BY <1>1 DEF Place
<1>4. n # 0 => (IF Place(i, n) = n THEN n ELSE Place(i, n) + 1) = Spot(i, n) + 1
  BY <1>1 DEF Place, Spot
<1> QED
  BY <1>1, <1>2, <1>3, <1>4

(* A node of the list is found by its reference.                           *)
LEMMA ReferenceIsFound ==
  ASSUME NEW n, NEW w, HasList(n, w), NEW r \in used
  PROVE  ReferenceInList(r) = r /\ r # NULL /\ \E j \in 0 .. n - 1 : r = w[j]
<1>1. PICK j \in 0 .. n - 1 : r = w[j]
  BY DEF HasList, Nodes
<1>2. Size = n /\ OnWalk[j] = r /\ r \in Cells
  BY <1>1, WalkFacts
<1> QED
  BY <1>1, <1>2, DplistAssumption DEF ReferenceInList

(* The invariant gives all that dpl_free, dpl_remove_at_index and the       *)
(* getters rely on.                                                        *)
LEMMA IntactList == ASSUME IInv PROVE ListIntact
<1>1. PICK n, w : HasList(n, w)
  BY DEF IInv
<1>2. /\ n \in Nat /\ used = Nodes(n, w) /\ Spells(n, w, head, next, prev)
      /\ \A c \in used : elem[c] \in Keys
      /\ w \in [0 .. n - 1 -> Cells]
  BY <1>1 DEF HasList, Spells, IInv
<1>3. /\ Size = n /\ (head = NULL <=> n = 0)
      /\ \A k \in 0 .. n - 1 : OnWalk[k] = w[k] /\ w[k] \in used /\ w[k] \in Cells
      /\ \A i \in Int : ReferenceAtIndex(i) = IF n = 0 THEN NULL ELSE w[Spot(i, n)]
      /\ \A i \in Int : n # 0 => Spot(i, n) \in 0 .. n - 1
  BY <1>1, WalkFacts
<1>4. /\ head # NULL => prev[head] = NULL
      /\ \A k \in 0 .. Size - 2 : prev[OnWalk[k + 1]] = OnWalk[k]
  <2>1. head # NULL => 0 \in 0 .. n - 1 /\ head = w[0]
    BY <1>2, <1>3 DEF Spells
  <2>2. ASSUME NEW k \in 0 .. n - 2 PROVE prev[OnWalk[k + 1]] = OnWalk[k]
    <3>1. k \in 0 .. n - 1 /\ k + 1 \in 0 .. n - 1 /\ k + 1 # 0 /\ (k + 1) - 1 = k
      BY <1>2
    <3> QED
      BY <1>2, <1>3, <3>1 DEF Spells
  <2> QED
    BY <1>2, <1>3, <2>1, <2>2 DEF Spells
<1>5. used = {OnWalk[k] : k \in 0 .. Size - 1}
  BY <1>2, <1>3 DEF Nodes
<1>6. Cardinality(used) = n
  <2>1. w \in Bijection(0 .. n - 1, used)
    BY <1>2 DEF Spells, Nodes, Bijection, Injection, Surjection, IsInjective
  <2>2. ExistsBijection(0 .. n - 1, used)
    BY <2>1 DEF ExistsBijection
  <2>3. IsFiniteSet(0 .. n - 1) /\ Cardinality(0 .. n - 1) = n
    BY <1>2, FS_Interval
  <2> QED
    BY <2>2, <2>3, FS_Bijection
<1>7. ASSUME status = "live", NEW i \in Indexes
      PROVE  ElementAtIndex(i) = Contract!ElementAtIndex(i)
  <2>1. i \in Int
    BY DplistAssumption
  <2>2. /\ Elements = <<>> <=> n = 0
        /\ \A j \in 0 .. n - 1 : Elements[j + 1] = elem[w[j]] /\ j + 1 \in 1 .. n
    BY <1>1, <1>2, ElementsAre DEF Lists
  <2>3. CASE n = 0
    BY <1>3, <1>7, <2>2, <2>3 DEF ElementAtIndex, Contract!ElementAtIndex
  <2>4. CASE n # 0
    <3>1. ElementAtIndex(i) = elem[w[Spot(i, n)]]
      BY <1>3, <2>1, <2>4 DEF ElementAtIndex
    <3>2. Contract!ElementAtIndex(i) = Elements[Spot(i, n) + 1]
      <4>1. (IF Contract!Before(i) = Len(Elements) THEN Len(Elements)
             ELSE Contract!Before(i) + 1) = Spot(i, n) + 1
        BY <1>1, <1>2, <1>7, <2>1, <2>4, AbstractPlaces
      <4> QED
        BY <1>7, <2>2, <2>4, <4>1 DEF Contract!ElementAtIndex
    <3> QED
      BY <1>3, <2>1, <2>2, <2>4, <3>1, <3>2
  <2> QED
    BY <2>3, <2>4
<1>8. ASSUME status = "live", NEW k \in Keys
      PROVE  /\ IndexOfElement(k) = Contract!IndexOfElement(k)
             /\ IndexOfElement(k) # -1 => ElementAtReference(ReferenceOfElement(k)) = k
  <2>1. IndexOfElement(k) = Contract!IndexOfElement(k)
    BY <1>1, <1>2, <1>8, AbstractSearches
  <2>2. ASSUME IndexOfElement(k) # -1 PROVE ElementAtReference(ReferenceOfElement(k)) = k
    <3> DEFINE r == ReferenceOfElement(k)
    <3>1. IndexOfElement(k) \in 0 .. n - 1 /\ elem[w[IndexOfElement(k)]] = k
      BY <1>1, <1>2, <2>2, ElementPlace
    <3>2. r \in used /\ elem[r] = k
      BY <1>3, <2>2, <3>1 DEF ReferenceOfElement
    <3> HIDE DEF r
    <3>3. ReferenceInList(r) = r /\ r # NULL
      BY <1>1, <3>2, ReferenceIsFound
    <3>4. ElementAtReference(r) = k
      BY <3>2, <3>3 DEF ElementAtReference, OrLast
    <3> QED
      BY <3>4 DEF r
  <2> QED
    BY <2>1, <2>2
<1>9. ASSUME NEW r \in used
      PROVE  /\ ReferenceAtIndex(IndexOfReference(r)) = r
             /\ NextReference(r) # NULL => PreviousReference(NextReference(r)) = r
  <2>1. ReferenceInList(r) = r /\ r # NULL
    BY <1>1, ReferenceIsFound
  <2>2. PICK j \in 0 .. n - 1 : r = w[j]
    BY <1>1, ReferenceIsFound
  <2>3. ReferenceAtIndex(IndexOfReference(r)) = r
    <3>1. IndexOfReference(r) = j
      BY <1>1, <2>1, <2>2, ReferencePlace
    <3>2. n # 0 /\ j \in Int /\ Spot(j, n) = j
      BY <1>2 DEF Spot
    <3> QED
      BY <1>3, <2>2, <3>1, <3>2
  <2>4. ASSUME NextReference(r) # NULL PROVE PreviousReference(NextReference(r)) = r
    <3>1. NextReference(r) = next[r]
      BY <2>1 DEF NextReference
    <3>2. j # n - 1 /\ next[r] = w[j + 1]
      BY <1>2, <2>2, <2>4, <3>1 DEF Spells
    <3>3. j + 1 \in 0 .. n - 1 /\ j + 1 # 0 /\ (j + 1) - 1 = j
      BY <1>2, <3>2
    <3>4. prev[w[j + 1]] = w[j] /\ w[j + 1] \in used
      BY <1>2, <1>3, <3>3 DEF Spells
    <3>5. ReferenceInList(w[j + 1]) = w[j + 1] /\ w[j + 1] # NULL
      BY <1>1, <3>4, ReferenceIsFound
    <3> QED
      BY <2>2, <3>1, <3>2, <3>4, <3>5 DEF PreviousReference
  <2> QED
    BY <2>3, <2>4
<1>10. GettersAgree
  BY <1>3, <1>6, <1>7, <1>8, <1>9 DEF GettersAgree
<1> QED
  BY <1>4, <1>5, <1>10 DEF ListIntact, IInv

(* Whatever calls were made, with whatever indices and stale references:   *)
(* prev and next agree, nothing leaks and no freed node is in the list,    *)
(* and the getters agree with the elements and with each other.            *)
THEOREM ListStaysIntact == Spec => []ListIntact
<1>1. IInv => ListIntact
  BY IntactList
<1> QED
  BY <1>1, Invariance, PTL

-------------------------------------------------------------------------------
(* What the contract does to its sequence, element by element.             *)
Joined(a, b, d) == /\ d \in Seq(Keys) /\ Len(d) = Len(a) + Len(b)
                   /\ \A i \in 1 .. Len(a) + Len(b) :
                        d[i] = IF i <= Len(a) THEN a[i] ELSE b[i - Len(a)]

LEMMA ConcatJoins ==
  ASSUME NEW a \in Seq(Keys), NEW b \in Seq(Keys) PROVE Joined(a, b, a \o b)
BY ConcatProperties DEF Joined

LEMMA InsertedSequence ==
  ASSUME NEW s \in Seq(Keys), NEW q \in 0 .. Len(s), NEW k \in Keys,
         NEW t \in Seq(Keys), Len(t) = Len(s) + 1,
         \A p \in 1 .. Len(t) : t[p] = IF p <= q THEN s[p] ELSE IF p = q + 1 THEN k ELSE s[p - 1]
  PROVE  t = Contract!InsertAt(s, q + 1, k)
<1> DEFINE a == SubSeq(s, 1, q)
           b == SubSeq(s, q + 1, Len(s))
<1>1. Len(s) \in Nat /\ Len(t) \in Nat /\ q \in Nat /\ q <= Len(s) /\ (q + 1) - 1 = q
  BY LenProperties
<1>2. \A i \in 1 .. Len(s) : s[i] \in Keys
  BY ElementOfSeq
<1>3. /\ a \in Seq(Keys) /\ Len(a) = q /\ \A i \in 1 .. q : a[i] = s[i]
      /\ b \in Seq(Keys) /\ Len(b) = Len(s) - q
      /\ \A i \in 1 .. Len(s) - q : b[i] = s[q + i]
  BY <1>1, <1>2, SubSeqProperties
<1>4. <<k>> \in Seq(Keys) /\ Len(<<k>>) = 1 /\ <<k>>[1] = k
  OBVIOUS
<1>5. Contract!InsertAt(s, q + 1, k) = (a \o <<k>>) \o b
  BY <1>1 DEF Contract!InsertAt
<1> HIDE DEF a, b
<1> DEFINE c == a \o <<k>>
           d == c \o b
<1>6. /\ c \in Seq(Keys) /\ Len(c) = q + 1
      /\ \A i \in 1 .. q + 1 : c[i] = IF i <= q THEN a[i] ELSE k
  <2>1. Joined(a, <<k>>, c)
    BY <1>3, <1>4, ConcatJoins
  <2> HIDE DEF c
  <2> QED
    BY <1>1, <1>3, <1>4, <2>1 DEF Joined
<1> HIDE DEF c
<1>7. /\ d \in Seq(Keys) /\ Len(d) = Len(s) + 1
      /\ \A i \in 1 .. Len(s) + 1 : d[i] = IF i <= q + 1 THEN c[i] ELSE b[i - (q + 1)]
  <2>1. Joined(c, b, d)
    BY <1>3, <1>6, ConcatJoins
  <2>2. (q + 1) + (Len(s) - q) = Len(s) + 1
    BY <1>1
  <2> HIDE DEF d
  <2> QED
    BY <1>1, <1>3, <1>6, <2>1, <2>2 DEF Joined
<1> HIDE DEF d
<1>8. ASSUME NEW p \in 1 .. Len(t) PROVE t[p] = d[p]
  <2>1. CASE p <= q
    <3>1. p \in 1 .. q /\ p <= q + 1 /\ p \in 1 .. q + 1 /\ p \in 1 .. Len(s) + 1
      BY <1>1, <2>1
    <3> QED
      BY <1>3, <1>6, <1>7, <2>1, <3>1
  <2>2. CASE p = q + 1
    <3>1. ~(p <= q) /\ p <= q + 1 /\ p \in 1 .. q + 1 /\ p \in 1 .. Len(s) + 1
      BY <1>1, <2>2
    <3> QED
      BY <1>6, <1>7, <2>2, <3>1
  <2>3. CASE p > q + 1
    <3>1. /\ ~(p <= q) /\ ~(p <= q + 1) /\ p # q + 1 /\ p \in 1 .. Len(s) + 1
          /\ p - (q + 1) \in 1 .. Len(s) - q /\ q + (p - (q + 1)) = p - 1
      BY <1>1, <2>3
    <3>2. t[p] = s[p - 1]
      BY <3>1
    <3>3. d[p] = b[p - (q + 1)]
      BY <1>7, <3>1
    <3>4. b[p - (q + 1)] = s[q + (p - (q + 1))]
      BY <1>3, <3>1
    <3> QED
      BY <3>1, <3>2, <3>3, <3>4
  <2> QED
    BY <1>1, <2>1, <2>2, <2>3
<1>9. t = d
  BY <1>7, <1>8, SeqEqual
<1> QED
  BY <1>5, <1>9 DEF c, d

(* The same for the removal of one element.                                *)
LEMMA RemovedSequence ==
  ASSUME NEW s \in Seq(Keys), NEW q \in 0 .. Len(s) - 1,
         NEW t \in Seq(Keys), Len(t) = Len(s) - 1,
         \A p \in 1 .. Len(t) : t[p] = IF p <= q THEN s[p] ELSE s[p + 1]
  PROVE  t = Contract!RemoveAt(s, q + 1)
<1> DEFINE a == SubSeq(s, 1, q)
           b == SubSeq(s, q + 2, Len(s))
<1>1. /\ Len(s) \in Nat /\ Len(t) \in Nat /\ q \in Nat /\ q < Len(s)
      /\ (q + 1) - 1 = q /\ (q + 1) + 1 = q + 2
  BY LenProperties
<1>2. \A i \in 1 .. Len(s) : s[i] \in Keys
  BY ElementOfSeq
<1>3. /\ a \in Seq(Keys) /\ Len(a) = q /\ \A i \in 1 .. q : a[i] = s[i]
      /\ b \in Seq(Keys) /\ Len(b) = Len(s) - q - 1
      /\ \A i \in 1 .. Len(s) - q - 1 : b[i] = s[q + 1 + i]
  <2>1. /\ a \in Seq(Keys) /\ Len(a) = (IF 1 <= q THEN q - 1 + 1 ELSE 0)
        /\ \A i \in 1 .. q - 1 + 1 : a[i] = s[1 + i - 1]
    BY <1>1, <1>2, SubSeqProperties
  <2>2. /\ b \in Seq(Keys)
        /\ Len(b) = (IF q + 2 <= Len(s) THEN Len(s) - (q + 2) + 1 ELSE 0)
        /\ \A i \in 1 .. Len(s) - (q + 2) + 1 : b[i] = s[q + 2 + i - 1]
    BY <1>1, <1>2, SubSeqProperties
  <2> HIDE DEF a, b
  <2>3. Len(a) = q /\ \A i \in 1 .. q : a[i] = s[i]
    BY <1>1, <2>1
  <2>4. Len(b) = Len(s) - q - 1
    BY <1>1, <2>2
  <2>5. ASSUME NEW i \in 1 .. Len(s) - q - 1 PROVE b[i] = s[q + 1 + i]
    <3>1. i \in 1 .. Len(s) - (q + 2) + 1 /\ q + 2 + i - 1 = q + 1 + i
      BY <1>1
    <3> QED
      BY <2>2, <3>1
  <2> QED
    BY <2>1, <2>2, <2>3, <2>4, <2>5
<1>4. Contract!RemoveAt(s, q + 1) = a \o b
  BY <1>1 DEF Contract!RemoveAt
<1> HIDE DEF a, b
<1> DEFINE d == a \o b
<1>5. /\ d \in Seq(Keys) /\ Len(d) = Len(s) - 1
      /\ \A i \in 1 .. Len(s) - 1 : d[i] = IF i <= q THEN a[i] ELSE b[i - q]
  BY <1>1, <1>3
<1> HIDE DEF d
<1>6. ASSUME NEW p \in 1 .. Len(t) PROVE t[p] = d[p]
  <2>1. CASE p <= q
    <3>1. p \in 1 .. q /\ p \in 1 .. Len(s) - 1
      BY <1>1, <2>1
    <3> QED
      BY <1>3, <1>5, <2>1, <3>1
  <2>2. CASE p > q
    <3>1. /\ ~(p <= q) /\ p \in 1 .. Len(s) - 1
          /\ p - q \in 1 .. Len(s) - q - 1 /\ q + 1 + (p - q) = p + 1
      BY <1>1, <2>2
    <3> QED
      BY <1>3, <1>5, <3>1
  <2> QED
    BY <1>1, <2>1, <2>2
<1>7. t = d
  BY <1>5, <1>6, SeqEqual
<1> QED
  BY <1>4, <1>7 DEF d

-------------------------------------------------------------------------------
(* An insertion is the contract's, at the place the index stands for.      *)
LEMMA InsertPuts ==
  ASSUME IInv, status = "live", UNCHANGED status, NEW k \in Keys, NEW i \in Int, Insert(k, i)
  PROVE  Contract!Put(k, i)
<1>1. PICK n, w : HasList(n, w)
  BY DEF IInv
<1> DEFINE q == Place(i, n)
           s == Elements
           t == Elements'
<1>2. \A c \in used : elem[c] \in Keys
  BY DEF IInv
<1>3. q \in 0 .. n /\ Contract!Before(i) = q
  BY <1>1, <1>2, AbstractPlaces
<1>4. Inserted(n, w, k, q) /\ \A c \in used' : elem'[c] \in Keys
  BY <1>1, InsertLinks
<1> HIDE DEF q
<1>5. PICK c \in Cells \ used : /\ HasList(n + 1, WalkWith(n, w, q, c))'
                                /\ elem' = [elem EXCEPT ![c] = k]
  BY <1>4 DEF Inserted
<1> DEFINE v == WalkWith(n, w, q, c)
<1>6. Lists(s, n, w, elem)
  BY <1>1, <1>2, ElementsAre
<1>7. Lists(t, n + 1, v, elem')
  BY <1>4, <1>5, NextElementsAre
<1>8. /\ n \in Nat /\ q \in Nat /\ q <= n
      /\ \A j \in 0 .. n - 1 : w[j] \in Cells /\ w[j] # c
  BY <1>1, <1>3, <1>5, WalkFacts
<1>9. /\ \A j \in 0 .. n : v[j] = IF j < q THEN w[j] ELSE IF j = q THEN c ELSE w[j - 1]
      /\ elem'[c] = k /\ \A j \in 0 .. n - 1 : elem'[w[j]] = elem[w[j]]
  BY <1>5, <1>8 DEF WalkWith, IInv, TypeOK
<1> HIDE DEF s, t, v
<1>10. ASSUME NEW p \in 1 .. Len(t)
       PROVE  t[p] = IF p <= q THEN s[p] ELSE IF p = q + 1 THEN k ELSE s[p - 1]
  <2>1. p \in 1 .. n + 1 /\ t[p] = elem'[v[p - 1]] /\ p - 1 \in 0 .. n
    BY <1>7, <1>8 DEF Lists
  <2>2. CASE p <= q
    <3>1. p - 1 < q /\ p - 1 \in 0 .. n - 1 /\ p \in 1 .. n
      BY <1>8, <2>1, <2>2
    <3>2. t[p] = elem[w[p - 1]]
      BY <1>9, <2>1, <3>1
    <3>3. s[p] = elem[w[p - 1]]
      BY <1>6, <3>1 DEF Lists
    <3> QED
      BY <2>2, <3>2, <3>3
  <2>3. CASE p = q + 1
    <3>1. p - 1 = q /\ ~(p <= q)
      BY <1>8, <2>3
    <3>2. v[p - 1] = c
      BY <1>8, <1>9, <2>1, <3>1
    <3> QED
      BY <1>9, <2>1, <2>3, <3>1, <3>2
  <2>4. CASE p > q + 1
    <3>1. /\ ~(p - 1 < q) /\ p - 1 # q /\ (p - 1) - 1 = p - 2 /\ p - 2 \in 0 .. n - 1
          /\ p - 1 \in 1 .. n /\ ~(p <= q) /\ p # q + 1
      BY <1>8, <2>1, <2>4
    <3>2. t[p] = elem[w[p - 2]]
      BY <1>9, <2>1, <3>1
    <3>3. s[p - 1] = elem[w[p - 2]]
      BY <1>6, <3>1 DEF Lists
    <3> QED
      BY <3>1, <3>2, <3>3
  <2> QED
    BY <1>8, <2>1, <2>2, <2>3, <2>4
<1>11. /\ s \in Seq(Keys) /\ Len(s) = n /\ q \in 0 .. Len(s)
       /\ t \in Seq(Keys) /\ Len(t) = Len(s) + 1
  BY <1>6, <1>7, <1>8 DEF Lists
<1>12. t = Contract!InsertAt(s, q + 1, k)
  BY <1>10, <1>11, InsertedSequence
<1> QED
  BY <1>3, <1>12 DEF Contract!Put, s, t

(* A removal is the contract's.                                            *)
LEMMA RemoveTakes ==
  ASSUME IInv, status = "live", UNCHANGED status, NEW i \in Int, RemoveAt(i)
  PROVE  Contract!Take(i)
<1>1. PICK n, w : HasList(n, w)
  BY DEF IInv
<1> DEFINE q == Spot(i, n)
           s == Elements
           t == Elements'
           v == WalkWithout(n, w, q)
<1>2. \A c \in used : elem[c] \in Keys
  BY DEF IInv
<1>3. Lists(s, n, w, elem)
  BY <1>1, <1>2, ElementsAre
<1>4. /\ n = 0 => UNCHANGED heap
      /\ n # 0 => Removed(n, w, q) /\ q \in 0 .. n - 1
      /\ \A c \in used' : elem'[c] \in Keys
  BY <1>1, RemoveUnlinks
<1>5. CASE n = 0
  <2>1. s = <<>> /\ t = s
    BY <1>3, <1>4, <1>5, ElementsIsElementsOf DEF Lists, heap
  <2> QED
    BY <2>1 DEF Contract!Take
<1>6. CASE n # 0
  <2>1. /\ HasList(n - 1, v)' /\ elem' = [elem EXCEPT ![w[q]] = FREED] /\ q \in 0 .. n - 1
    BY <1>4, <1>6 DEF Removed
  <2>2. Lists(t, n - 1, v, elem')
    BY <1>4, <2>1, NextElementsAre
  <2>3. (IF Contract!Before(i) = Len(s) THEN Len(s) ELSE Contract!Before(i) + 1) = q + 1
    BY <1>1, <1>2, <1>6, AbstractPlaces
  <2> HIDE DEF q
  <2>4. /\ n \in Nat /\ q \in Nat /\ q < n
        /\ \A j \in 0 .. n - 1 : w[j] \in Cells
        /\ \A j \in 0 .. n - 1 : j # q => w[j] # w[q]
    <3>1. n \in Nat /\ q \in Nat /\ q < n
      BY <1>1, <2>1 DEF HasList, Spells
    <3> QED
      BY <1>1, <2>1, <3>1 DEF HasList, Spells
  <2>5. /\ \A j \in 0 .. n - 2 : v[j] = IF j < q THEN w[j] ELSE w[j + 1]
        /\ \A j \in 0 .. n - 1 : j # q => elem'[w[j]] = elem[w[j]]
    BY <2>1, <2>4 DEF WalkWithout, IInv, TypeOK
  <2> HIDE DEF s, t, v
  <2>6. ASSUME NEW p \in 1 .. Len(t) PROVE t[p] = IF p <= q THEN s[p] ELSE s[p + 1]
    <3>1. p \in 1 .. n - 1 /\ t[p] = elem'[v[p - 1]] /\ p - 1 \in 0 .. n - 2
      BY <2>2, <2>4 DEF Lists
    <3>2. CASE p <= q
      <4>1. p - 1 < q /\ p - 1 # q /\ p - 1 \in 0 .. n - 1 /\ p \in 1 .. n
        BY <2>4, <3>1, <3>2
      <4>2. t[p] = elem[w[p - 1]]
        BY <2>5, <3>1, <4>1
      <4>3. s[p] = elem[w[p - 1]]
        BY <1>3, <4>1 DEF Lists
      <4> QED
        BY <3>2, <4>2, <4>3
    <3>3. CASE p > q
      <4>1. ~(p - 1 < q) /\ (p - 1) + 1 = p /\ p # q /\ p \in 0 .. n - 1 /\ p + 1 \in 1 .. n
            /\ (p + 1) - 1 = p /\ ~(p <= q)
        BY <2>4, <3>1, <3>3
      <4>2. t[p] = elem[w[p]]
        BY <2>5, <3>1, <4>1
      <4>3. s[p + 1] = elem[w[p]]
        BY <1>3, <4>1 DEF Lists
      <4> QED
        BY <4>1, <4>2, <4>3
    <3> QED
      BY <2>4, <3>1, <3>2, <3>3
  <2>7. /\ s \in Seq(Keys) /\ Len(s) = n /\ q \in 0 .. Len(s) - 1 /\ s # <<>>
        /\ t \in Seq(Keys) /\ Len(t) = Len(s) - 1
    BY <1>3, <1>6, <2>1, <2>2, <2>4 DEF Lists
  <2>8. t = Contract!RemoveAt(s, q + 1)
    BY <2>6, <2>7, RemovedSequence
  <2> QED
    BY <2>3, <2>7, <2>8 DEF Contract!Take, s, t
<1> QED
  BY <1>5, <1>6

(* The contract knows a reference by the place it stands for.              *)
LEMMA ReferenceIsNamed ==
  ASSUME IInv, status = "live", NEW r
  PROVE  /\ Named(r) \in -1 .. Len(Abstract) - 1 \cup {NULL}
         /\ Contract!At(Named(r)) = IndexOfReference(r)
         /\ IndexOfReference(r) \in Int
<1>1. PICK n, w : HasList(n, w)
  BY DEF IInv
<1>2. Abstract = Elements /\ Len(Elements) = n /\ n \in Nat
  BY <1>1, ElementsAre DEF Abstract, IInv, Lists, HasList, Spells
<1>3. /\ r = NULL => IndexOfReference(r) = n - 1
      /\ IndexOfReference(r) \in -1 .. n - 1
  BY <1>1, ReferencePlace
<1>4. IndexOfReference(r) \in Int /\ IndexOfReference(r) # NULL
  BY <1>2, <1>3, DplistAssumption
<1>5. Named(r) \in -1 .. Len(Abstract) - 1 \cup {NULL}
  BY <1>2, <1>3 DEF Named
<1>6. Contract!At(Named(r)) = IndexOfReference(r)
  <2>1. Contract!At(Named(r)) = IF Named(r) = NULL THEN Len(Abstract) - 1 ELSE Named(r)
    BY DEF Contract!At, Abstract
  <2>2. Named(r) = IF r = NULL THEN NULL ELSE IndexOfReference(r)
    BY DEF Named
  <2> QED
    BY <1>2, <1>3, <1>4, <2>1, <2>2
<1> QED
  BY <1>4, <1>5, <1>6

(* Each call on a live list has the contract's effect.                     *)
LEMMA CallRefines ==
  ASSUME IInv, Call PROVE Contract!Effect \/ InsertsAtNull
<1>1. status = "live" /\ UNCHANGED status
  BY DEF Call
<1>2. \A i \in Indexes : i \in Int
  BY DplistAssumption
<1>3. UNCHANGED heap => Abstract' = Abstract
  BY <1>1, ElementsIsElementsOf DEF heap, Abstract
<1>4. PICK n, w : HasList(n, w)
  BY DEF IInv
<1>5. n \in Nat /\ \A c \in used : elem[c] \in Keys
  BY <1>4 DEF IInv, HasList, Spells
<1>6. ASSUME NEW k \in Keys, NEW i \in Indexes, InsertAtIndex(k, i) PROVE Contract!Effect
  <2>1. Contract!Put(k, i) /\ call' = <<"insert_at_index", k, i>>
    BY <1>1, <1>2, <1>6, InsertPuts DEF InsertAtIndex
  <2> QED
    BY <2>1 DEF Contract!Effect
<1>7. ASSUME NEW k \in Keys, NEW r, InsertAtReference(k, r)
      PROVE  Contract!Effect \/ InsertsAtNull
  <2> DEFINE x == Named(r)
  <2>1. x \in -1 .. Len(Abstract) - 1 \cup {NULL} /\ IndexOfReference(r) \in Int
    BY <1>1, ReferenceIsNamed
  <2>2. /\ call' = <<"insert_at_reference", k, x>>
        /\ IF IndexOfReference(r) = -1 THEN Abstract' = Abstract
           ELSE Contract!Put(k, IndexOfReference(r))
    BY <1>1, <1>3, <1>7, <2>1, InsertPuts DEF InsertAtReference
  <2>3. CASE r = NULL
    <3>1. x = NULL
      BY <2>3 DEF Named
    <3> HIDE DEF x
    <3> QED
      BY <1>1, <2>2, <3>1 DEF InsertsAtNull
  <2>4. CASE r # NULL
    <3>1. x = IndexOfReference(r) /\ x \in -1 .. Len(Abstract) - 1
      BY <2>1, <2>4, DplistAssumption DEF Named
    <3> HIDE DEF x
    <3> QED
      BY <2>2, <3>1 DEF Contract!Effect, Abstract
  <2> QED
    BY <2>3, <2>4
<1>8. ASSUME NEW k \in Keys, InsertSorted(k) PROVE Contract!Effect
  <2>1. SortedPlace(k) \in Int /\ AbstractSortedPlace(k) = SortedPlace(k)
    BY <1>1, <1>4, <1>5, ElementPlace, AbstractSearches
  <2>2. Insert(k, SortedPlace(k)) /\ call' = <<"insert_sorted", k>>
    BY <1>8 DEF InsertSorted, SortedPlace
  <2>3. Contract!Put(k, AbstractSortedPlace(k))
    BY <1>1, <2>1, <2>2, InsertPuts
  <2> QED
    BY <2>2, <2>3 DEF Contract!Effect, AbstractSortedPlace, Abstract
<1>9. ASSUME NEW k \in Keys, RemoveElement(k) PROVE Contract!Effect
  <2>1. IndexOfElement(k) \in Int
    BY <1>4, <1>5, ElementPlace
  <2>2. Contract!IndexOfElement(k) = IndexOfElement(k)
    BY <1>1, <1>4, <1>5, AbstractSearches
  <2>3. /\ call' = <<"remove_element", k>>
        /\ IF IndexOfElement(k) = -1 THEN Abstract' = Abstract
           ELSE Contract!Take(IndexOfElement(k))
    BY <1>1, <1>3, <1>9, <2>1, RemoveTakes DEF RemoveElement
  <2> QED
    BY <2>2, <2>3 DEF Contract!Effect, Abstract
<1>10. ASSUME NEW i \in Indexes, RemoveAtIndex(i) PROVE Contract!Effect
  <2>1. Contract!Take(i) /\ call' = <<"remove_at_index", i>>
    BY <1>1, <1>2, <1>10, RemoveTakes DEF RemoveAtIndex
  <2> QED
    BY <2>1 DEF Contract!Effect
<1>11. ASSUME NEW r, RemoveAtReference(r) PROVE Contract!Effect
  <2> DEFINE x == Named(r)
  <2>1. /\ x \in -1 .. Len(Abstract) - 1 \cup {NULL}
        /\ Contract!At(x) = IndexOfReference(r) /\ IndexOfReference(r) \in Int
    BY <1>1, ReferenceIsNamed
  <2>2. /\ call' = <<"remove_at_reference", x>>
        /\ IF IndexOfReference(r) = -1 THEN Abstract' = Abstract
           ELSE Contract!Take(IndexOfReference(r))
    BY <1>1, <1>3, <1>11, <2>1, RemoveTakes DEF RemoveAtReference
  <2> HIDE DEF x
  <2> QED
    BY <2>1, <2>2 DEF Contract!Effect, Abstract
<1> QED
  BY <1>6, <1>7, <1>8, <1>9, <1>10, <1>11 DEF Call

(* Every step is a step of the contract or changes nothing of it.          *)
LEMMA StepRefines ==
  ASSUME IInv, [Next]_vars PROVE [Contract!Next \/ InsertsAtNull]_(Contract!vars)
<1>1. CASE Create
  <2>1. Abstract' = <<>>
    <3>1. HasList(0, [k \in 0 .. -1 |-> NULL])'
      <4>1. PICK n, w : HasList(n, w)
        BY DEF IInv
      <4>2. used = {} /\ head = NULL
        <5>1. n = 0 /\ used = Nodes(n, w) /\ head = NULL
          BY <1>1, <4>1, WalkFacts DEF HasList, Create, IInv
        <5> QED
          BY <5>1 DEF Nodes
      <4>3. 0 .. -1 = {} /\ 0 - 1 = -1 /\ used' = {} /\ head' = NULL
        BY <1>1, <4>2 DEF Create
      <4> QED
        BY <4>3 DEF HasList, Spells, Nodes
    <3>2. \A c \in used' : elem'[c] \in Keys
      BY <1>1 DEF Create, IInv
    <3>3. Elements' = <<>>
      BY <3>1, <3>2, NextElementsAre DEF Lists
    <3> QED
      BY <1>1, <3>3 DEF Create, Abstract
  <2> QED
    BY <1>1, <2>1 DEF Create, Contract!Next, Contract!Create, Abstract
<1>2. CASE Call
  <2>1. status = "live" /\ UNCHANGED status /\ (Contract!Effect \/ InsertsAtNull)
    BY <1>2, CallRefines DEF Call
  <2> QED
    BY <2>1 DEF Contract!Next
<1>3. CASE StartFree
  BY <1>3 DEF StartFree, Contract!Next, Contract!Free
<1>4. CASE FreeHead \/ EndFree
  BY <1>4 DEF FreeHead, EndFree, Contract!vars
<1>5. CASE AssertFails
  BY <1>5 DEF AssertFails, Contract!Next, Contract!Abort
<1>6. CASE Finished \/ UNCHANGED vars
  <2>1. UNCHANGED <<status, heap, call>>
    BY <1>6 DEF Finished, vars
  <2>2. Elements' = Elements
    BY <2>1, ElementsIsElementsOf DEF heap
  <2> QED
    BY <2>1, <2>2 DEF Contract!vars
<1> QED
  BY <1>1, <1>2, <1>3, <1>4, <1>5, <1>6 DEF Next

(* Every call, half-way through dpl_free or not, changes the elements as   *)
(* the contract says: at the right place for any index, the first of equal *)
(* elements, and nothing for an element or a reference that is not there.  *)
(* Of an insertion at NULL nothing is said.                                *)
THEOREM ListKeepsContract == Spec => ImplementsContract
<1>1. Init => Contract!Init
  BY DEF Init, Contract!Init
<1>2. IInv /\ [Next]_vars => [Contract!Next \/ InsertsAtNull]_(Contract!vars)
  BY StepRefines
<1> QED
  BY <1>1, <1>2, Invariance, PTL DEF Spec, ImplementsContract
===============================================================================
