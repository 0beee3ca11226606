------------------------------ MODULE LayerProofs ------------------------------
(***************************************************************************)
(* The layer beneath the device and the one above it.  Beneath, the        *)
(* pointers of the close queue hold the queue; above, the wear-levelling   *)
(* layer finds its open PGs where it put them.  Both for every number of   *)
(* pages and groups.                                                       *)
(*                                                                         *)
(* The pointers are spliced by code that never looks at the whole:         *)
(* remove_item and insert_forward at the neighbours of one item,           *)
(* UpdateCloseRanking by walking from an item on.  The lemmas compare each *)
(* with what Ftl does to the sequence.                                     *)
(*                                                                         *)
(* What the wear-levelling layer inherits keeps what it keeps beneath      *)
(* FtlInterface: the lemmas on the inherited steps and on L2P_Update ask   *)
(* nothing of the slots.  What it overrides is the choice of the PG, and   *)
(* that is argued anew, for every number of attributes and every policy.   *)
(***************************************************************************)
EXTENDS CloseQueue, FtlWl, SsdProofs

-----------------------------------------------------------------------------
(* The close queue *)

Sentinels == {PgNum, PgNum + 1}

\* The types of the record of pointers.
QueRec ==
  [count : Nat, fwd : [PG \cup Sentinels -> PG \cup Sentinels \cup {NoPG}],
   bck : [PG \cup Sentinels -> PG \cup Sentinels \cup {NoPG}], linked : [PG -> BOOLEAN]]

\* The nodes of a queue from its beginning to its end, the sentinels included.
Path(s) ==
  [i \in 0..(Len(s) + 1) |-> IF i = 0 THEN PgNum ELSE IF i = Len(s) + 1 THEN PgNum + 1 ELSE s[i]]

\* q is the pointers of s.
Links(q, s) == q \in QueRec /\ Que!Holds(q, s, Len(s))

\* Where a node is on the path of a queue is unique.
LEMMA PathOnce ==
  ASSUME NEW s \in Seq(PG), Once(s)
  PROVE  /\ Len(s) \in Nat
         /\ \A i \in 0..(Len(s) + 1) : Path(s)[i] \in PG \cup Sentinels
         /\ \A i \in 1..Len(s) : Path(s)[i] = s[i] /\ s[i] \in PG
         /\ Path(s)[0] = PgNum /\ Path(s)[Len(s) + 1] = PgNum + 1
         /\ \A i, j \in 0..(Len(s) + 1) : Path(s)[i] = Path(s)[j] => i = j
<1>1. Len(s) \in Nat /\ \A i \in 1..Len(s) : s[i] \in PG
  BY LenProperties, ElementOfSeq
<1>2. PgNum \in Nat /\ PgNum \notin PG /\ PgNum + 1 \notin PG /\ PgNum # PgNum + 1
  BY SizesAssumption DEF PG
<1>. DEFINE n == Len(s)
<1>3. n \in Nat
  BY <1>1
<1>4. \A i \in 0..(n + 1) : i = 0 \/ i = n + 1 \/ i \in 1..n
  BY <1>3
<1>5. 0 \in 0..(n + 1) /\ n + 1 \in 0..(n + 1) /\ n + 1 # 0 /\ \A i \in 1..n : i \in 0..(n + 1) /\ i # 0 /\ i # n + 1
  BY <1>3
<1>6. /\ Path(s)[0] = PgNum /\ Path(s)[n + 1] = PgNum + 1
      /\ \A i \in 1..n : Path(s)[i] = s[i]
  BY <1>5 DEF Path
<1>7. \A i, j \in 1..n : s[i] = s[j] => i = j
  BY DEF Once
<1>. HIDE DEF n
<1>8. \A i \in 0..(n + 1) : Path(s)[i] \in PG \cup Sentinels
  BY <1>1, <1>4, <1>6 DEF Sentinels, n
<1>9. ASSUME NEW i \in 0..(n + 1), NEW j \in 0..(n + 1), Path(s)[i] = Path(s)[j]
      PROVE  i = j
  <2>1. i \in 1..n /\ j \in 1..n => i = j
    BY <1>6, <1>7, <1>9
  <2>2. i \in 1..n => Path(s)[i] \in PG
    BY <1>1, <1>6 DEF n
  <2>3. j \in 1..n => Path(s)[j] \in PG
    BY <1>1, <1>6 DEF n
  <2>. QED BY <1>2, <1>4, <1>6, <1>9, <2>1, <2>2, <2>3
<1>. QED BY <1>1, <1>6, <1>8, <1>9 DEF n

\* Holds, on the path.
LEMMA HoldsPath ==
  ASSUME NEW q, NEW s \in Seq(PG)
  PROVE  Que!Holds(q, s, Len(s)) <=>
           /\ q.count = Len(s)
           /\ \A i \in 0..Len(s) : q.bck[Path(s)[i]] = Path(s)[i + 1] /\ q.fwd[Path(s)[i + 1]] = Path(s)[i]
           /\ \A pg \in PG : /\ q.linked[pg] <=> Contains(s, pg)
                             /\ ~q.linked[pg] => q.fwd[pg] = NoPG /\ q.bck[pg] = NoPG
<1>. DEFINE n == Len(s)
            node(i) == IF i = 0 THEN PgNum ELSE IF i = n + 1 THEN PgNum + 1 ELSE s[i]
<1>1. n \in Nat
  BY LenProperties
<1>2. \A i \in 0..n : i \in 0..(n + 1) /\ i + 1 \in 0..(n + 1)
  BY <1>1
<1>3. \A i \in 0..n : Path(s)[i] = node(i) /\ Path(s)[i + 1] = node(i + 1)
  BY <1>2 DEF Path
<1>4. \A pg : Contains(s, pg) <=> \E i \in 1..n : s[i] = pg
  BY DEF Contains
<1>5. Que!Holds(q, s, Len(s)) <=>
        /\ q.count = n
        /\ \A i \in 0..n : q.bck[node(i)] = node(i + 1) /\ q.fwd[node(i + 1)] = node(i)
        /\ \A pg \in PG : /\ q.linked[pg] <=> \E i \in 1..n : s[i] = pg
                          /\ ~q.linked[pg] => q.fwd[pg] = NoPG /\ q.bck[pg] = NoPG
  BY DEF Que!Holds
<1>. HIDE DEF node
<1>. QED BY <1>3, <1>4, <1>5 DEF n

-----------------------------------------------------------------------------
(* Splicing *)

\* remove_item takes an item off the path of the queue, and nothing else.
LEMMA RemoveItemLinks ==
  ASSUME NEW q, NEW s \in Seq(PG), Once(s), Links(q, s), NEW pg \in PG, Contains(s, pg)
  PROVE  Links(Que!remove_item(q, pg), RemoveFirst(s, pg))
<1>. DEFINE n == Len(s)
            p == Position(s, pg)
            t == RemoveFirst(s, pg)
            r == Que!remove_item(q, pg)
            from(j) == IF j < p THEN j ELSE j + 1
            P == Path(s)
            T == Path(t)
<1>1. /\ n \in Nat /\ p \in 1..n /\ s[p] = pg
  BY FirstPosition, LenProperties
<1>2. /\ t \in Seq(PG) /\ Len(t) = n - 1 /\ Once(t)
      /\ \A j \in 1..Len(t) : t[j] = s[from(j)] /\ from(j) \in 1..n
      /\ \A x : Contains(t, x) <=> Contains(s, x) /\ x # pg
  BY RemoveFirstProperties, RemoveFirstPlaces, RemoveFirstOnce
<1>3. /\ \A i \in 0..(n + 1) : P[i] \in PG \cup Sentinels
      /\ \A i \in 1..n : P[i] = s[i]
      /\ P[0] = PgNum /\ P[n + 1] = PgNum + 1
      /\ \A i, j \in 0..(n + 1) : P[i] = P[j] => i = j
  BY PathOnce
<1>4. /\ T[0] = PgNum /\ T[Len(t) + 1] = PgNum + 1
      /\ \A i \in 1..Len(t) : T[i] = t[i]
  BY <1>2, PathOnce
<1>5. /\ q.count = n
      /\ \A i \in 0..n : q.bck[P[i]] = P[i + 1] /\ q.fwd[P[i + 1]] = P[i]
      /\ \A x \in PG : /\ q.linked[x] <=> Contains(s, x)
                       /\ ~q.linked[x] => q.fwd[x] = NoPG /\ q.bck[x] = NoPG
  BY HoldsPath DEF Links
<1>6. /\ q \in QueRec
  BY DEF Links
<1>. HIDE DEF P, T, t, p, n
<1>7. \A i \in 0..n : T[i] = P[from(i)] /\ from(i) \in 0..(n + 1) /\ from(i) # p
  <2>1. \A i \in 0..n : i = 0 \/ i = n \/ i \in 1..(n - 1)
    BY <1>1
  <2>2. T[0] = P[0] /\ T[n] = P[n + 1]
    BY <1>1, <1>2, <1>3, <1>4
  <2>3. from(0) = 0 /\ from(n) = n + 1
    BY <1>1
  <2>4. \A i \in 1..(n - 1) : T[i] = P[from(i)]
    BY <1>2, <1>3, <1>4
  <2>5. \A i \in 0..n : from(i) \in 0..(n + 1) /\ from(i) # p
    BY <1>1
  <2>. HIDE DEF from
  <2>. QED BY <2>1, <2>2, <2>3, <2>4, <2>5
\* The neighbours of pg.
<1>8. /\ p - 1 \in 0..n /\ p \in 0..n /\ p + 1 \in 0..(n + 1) /\ p \in 0..(n + 1) /\ p - 1 \in 0..(n + 1)
      /\ (p - 1) + 1 = p
  BY <1>1
<1>9. P[p] = pg /\ q.fwd[pg] = P[p - 1] /\ q.bck[pg] = P[p + 1] /\ P[p - 1] # pg /\ P[p + 1] # pg
  <2>1. P[p] = pg
    BY <1>1, <1>3
  <2>2. q.fwd[P[(p - 1) + 1]] = P[p - 1] /\ q.bck[P[p]] = P[p + 1]
    BY <1>5, <1>8
  <2>3. p # p - 1 /\ p # p + 1
    BY <1>1
  <2>. QED BY <1>3, <1>8, <2>1, <2>2, <2>3
<1>. DEFINE bck == [q.bck EXCEPT ![P[p - 1]] = P[p + 1], ![pg] = NoPG]
            fwd == [q.fwd EXCEPT ![P[p + 1]] = P[p - 1], ![pg] = NoPG]
<1>10. /\ bck \in [PG \cup Sentinels -> PG \cup Sentinels \cup {NoPG}]
       /\ bck[P[p - 1]] = P[p + 1] /\ bck[pg] = NoPG
       /\ \A x \in PG \cup Sentinels : x # P[p - 1] /\ x # pg => bck[x] = q.bck[x]
  BY <1>3, <1>6, <1>8, <1>9 DEF QueRec
<1>11. /\ fwd \in [PG \cup Sentinels -> PG \cup Sentinels \cup {NoPG}]
       /\ fwd[P[p + 1]] = P[p - 1] /\ fwd[pg] = NoPG
       /\ \A x \in PG \cup Sentinels : x # P[p + 1] /\ x # pg => fwd[x] = q.fwd[x]
  BY <1>3, <1>6, <1>8, <1>9 DEF QueRec
<1>. HIDE DEF bck, fwd
<1>12. \A i \in 0..(n - 1) : bck[T[i]] = T[i + 1] /\ fwd[T[i + 1]] = T[i]
  <2>1. SUFFICES ASSUME NEW i \in 0..(n - 1)
                 PROVE  bck[T[i]] = T[i + 1] /\ fwd[T[i + 1]] = T[i]
    OBVIOUS
  <2>2. i \in 0..n /\ i + 1 \in 0..n
    BY <1>1
  <2>3. T[i] = P[from(i)] /\ T[i + 1] = P[from(i + 1)]
    BY <1>7, <2>2
  <2>4. CASE i = p - 1
    <3>1. from(i) = p - 1 /\ from(i + 1) = p + 1
      BY <1>1, <2>4
    <3>. QED BY <1>10, <1>11, <2>3, <3>1
  <2>5. CASE i # p - 1
    <3>1. /\ from(i) \in 0..n /\ from(i) # p - 1 /\ from(i) # p
          /\ from(i + 1) = from(i) + 1 /\ from(i + 1) # p + 1 /\ from(i + 1) # p
          /\ from(i) \in 0..(n + 1) /\ from(i + 1) \in 0..(n + 1)
      BY <1>1, <2>5
    <3>2. q.bck[P[from(i)]] = P[from(i + 1)] /\ q.fwd[P[from(i + 1)]] = P[from(i)]
      BY <1>5, <3>1
    <3>3. P[from(i)] # P[p - 1] /\ P[from(i)] # pg /\ P[from(i + 1)] # P[p + 1] /\ P[from(i + 1)] # pg
      BY <1>3, <1>8, <1>9, <3>1
    <3>4. P[from(i)] \in PG \cup Sentinels /\ P[from(i + 1)] \in PG \cup Sentinels
      BY <1>3, <3>1
    <3>. HIDE DEF from
    <3>. QED BY <1>10, <1>11, <2>3, <3>2, <3>3, <3>4
  <2>. QED BY <2>4, <2>5
<1>. DEFINE last == q.count = 1
<1>13. r = [count |-> n - 1,
            bck |-> IF last THEN [bck EXCEPT ![PgNum] = PgNum + 1] ELSE bck,
            fwd |-> IF last THEN [fwd EXCEPT ![PgNum + 1] = PgNum] ELSE fwd,
            linked |-> [q.linked EXCEPT ![pg] = FALSE]]
  BY <1>5, <1>9 DEF Que!remove_item, bck, fwd
\* With one item, the last assignments repeat what the others have done.
<1>14. r.bck = bck /\ r.fwd = fwd
  <2>1. CASE ~last
    BY <1>13, <2>1
  <2>2. CASE last
    <3>1. n = 1 /\ p = 1
      BY <1>1, <1>5, <2>2
    <3>2. bck[PgNum] = PgNum + 1 /\ fwd[PgNum + 1] = PgNum
      BY <1>3, <1>10, <1>11, <3>1
    <3>3. [bck EXCEPT ![PgNum] = PgNum + 1] = bck /\ [fwd EXCEPT ![PgNum + 1] = PgNum] = fwd
      BY <1>10, <1>11, <3>2
    <3>. QED BY <1>13, <2>2, <3>3
  <2>. QED BY <2>1, <2>2
<1>15. /\ r.count = n - 1 /\ r.linked = [q.linked EXCEPT ![pg] = FALSE]
       /\ r = [count |-> r.count, bck |-> r.bck, fwd |-> r.fwd, linked |-> r.linked]
  BY <1>13
<1>. HIDE DEF r
<1>16. /\ r.linked \in [PG -> BOOLEAN] /\ ~r.linked[pg]
       /\ \A x \in PG : x # pg => r.linked[x] = q.linked[x]
  BY <1>6, <1>15 DEF QueRec
<1>17. r \in QueRec
  <2>. DEFINE To == [PG \cup Sentinels -> PG \cup Sentinels \cup {NoPG}]
  <2>1. r.count \in Nat
    BY <1>1, <1>15
  <2>2. r.bck \in To /\ r.fwd \in To
    BY <1>10, <1>11, <1>14
  <2>3. r.linked \in [PG -> BOOLEAN]
    BY <1>16
  <2>. HIDE DEF To
  <2>4. r \in [count : Nat, fwd : To, bck : To, linked : [PG -> BOOLEAN]]
    BY <1>15, <2>1, <2>2, <2>3
  <2>. QED BY <2>4 DEF QueRec, To
<1>18. ASSUME NEW x \in PG
       PROVE  /\ r.linked[x] <=> Contains(t, x)
              /\ ~r.linked[x] => r.fwd[x] = NoPG /\ r.bck[x] = NoPG
  <2>1. CASE x = pg
    BY <1>2, <1>10, <1>11, <1>14, <1>16, <2>1
  <2>2. CASE x # pg
    <3>1. r.linked[x] <=> Contains(t, x)
      BY <1>2, <1>5, <1>16, <2>2
    <3>2. ASSUME ~r.linked[x] PROVE x # P[p - 1] /\ x # P[p + 1]
      <4>1. ~Contains(s, x) /\ x # PgNum /\ x # PgNum + 1
        BY <1>5, <1>16, <2>2, <3>2, SizesAssumption DEF PG
      <4>2. \A i \in 1..n : s[i] # x
        BY <4>1 DEF Contains, n
      <4>3. \A i \in 0..(n + 1) : i = 0 \/ i = n + 1 \/ i \in 1..n
        BY <1>1
      <4>. QED BY <1>3, <1>8, <4>1, <4>2, <4>3
    <3>. QED BY <1>5, <1>10, <1>11, <1>14, <1>16, <2>2, <3>1, <3>2
  <2>. QED BY <2>1, <2>2
<1>19. \A i \in 0..Len(t) : r.bck[Path(t)[i]] = Path(t)[i + 1] /\ r.fwd[Path(t)[i + 1]] = Path(t)[i]
  BY <1>2, <1>12, <1>14 DEF T
<1>20. r.count = Len(t) /\ t \in Seq(PG)
  BY <1>2, <1>15
<1>21. Que!Holds(r, t, Len(t))
  BY <1>18, <1>19, <1>20, HoldsPath
<1>. QED BY <1>17, <1>21 DEF Links, r, t

\* insert_forward puts an item on the path, in front of the node it is given.
LEMMA InsertForwardLinks ==
  ASSUME NEW q, NEW s \in Seq(PG), Once(s), Links(q, s), NEW pg \in PG, ~Contains(s, pg),
         NEW at \in 1..(Len(s) + 1)
  PROVE  Links(Que!insert_forward(q, Path(s)[at], pg), InsertAt(s, at, pg))
<1>. DEFINE n == Len(s)
            t == InsertAt(s, at, pg)
            r == Que!insert_forward(q, Path(s)[at], pg)
            from(j) == IF j < at THEN j ELSE j - 1
            P == Path(s)
            T == Path(t)
<1>1. n \in Nat /\ at \in 1..(n + 1)
  BY LenProperties
<1>2. /\ t \in Seq(PG) /\ Len(t) = n + 1 /\ Once(t)
      /\ \A j \in 1..Len(t) : IF j = at THEN t[j] = pg ELSE t[j] = s[from(j)] /\ from(j) \in 1..n
      /\ \A x : Contains(t, x) <=> Contains(s, x) \/ x = pg
  BY InsertAtType, InsertAtPlaces, InsertAtOnce
<1>3. /\ \A i \in 0..(n + 1) : P[i] \in PG \cup Sentinels
      /\ \A i \in 1..n : P[i] = s[i]
      /\ P[0] = PgNum /\ P[n + 1] = PgNum + 1
      /\ \A i, j \in 0..(n + 1) : P[i] = P[j] => i = j
  BY PathOnce
<1>4. /\ T[0] = PgNum /\ T[Len(t) + 1] = PgNum + 1
      /\ \A i \in 1..Len(t) : T[i] = t[i]
  BY <1>2, PathOnce
<1>5. /\ q.count = n
      /\ \A i \in 0..n : q.bck[P[i]] = P[i + 1] /\ q.fwd[P[i + 1]] = P[i]
      /\ \A x \in PG : /\ q.linked[x] <=> Contains(s, x)
                       /\ ~q.linked[x] => q.fwd[x] = NoPG /\ q.bck[x] = NoPG
  BY HoldsPath DEF Links
<1>6. q \in QueRec
  BY DEF Links
\* pg is a node of its own.
<1>7. \A i \in 0..(n + 1) : P[i] # pg
  <2>1. \A i \in 1..n : s[i] # pg
    BY DEF Contains
  <2>2. pg # PgNum /\ pg # PgNum + 1
    BY SizesAssumption DEF PG
  <2>. HIDE DEF P, T, t, n
  <2>3. \A i \in 0..(n + 1) : i = 0 \/ i = n + 1 \/ i \in 1..n
    BY <1>1
  <2>. QED BY <1>3, <2>1, <2>2, <2>3 DEF n
<1>. HIDE DEF P, T, t, n
<1>8. \A i \in 0..(n + 2) : IF i = at THEN T[i] = pg ELSE T[i] = P[from(i)] /\ from(i) \in 0..(n + 1)
  <2>1. \A i \in 0..(n + 2) : i = 0 \/ i = n + 2 \/ i \in 1..(n + 1)
    BY <1>1
  <2>2. T[0] = P[0] /\ T[n + 2] = P[n + 1] /\ at # 0 /\ at # n + 2
    BY <1>1, <1>2, <1>3, <1>4
  <2>3. from(0) = 0 /\ from(n + 2) = n + 1
    BY <1>1
  <2>4. \A i \in 1..(n + 1) : IF i = at THEN T[i] = pg ELSE T[i] = P[from(i)]
    BY <1>2, <1>3, <1>4
  <2>5. \A i \in 0..(n + 2) : i # at => from(i) \in 0..(n + 1)
    BY <1>1
  <2>. HIDE DEF from
  <2>. QED BY <2>1, <2>2, <2>3, <2>4, <2>5
<1>9. /\ at - 1 \in 0..n /\ at \in 0..(n + 1) /\ at - 1 \in 0..(n + 1) /\ (at - 1) + 1 = at
  BY <1>1
<1>10. /\ q.fwd[P[at]] = P[at - 1] /\ q.bck[P[at - 1]] = P[at]
       /\ P[at] \in PG \cup Sentinels /\ P[at - 1] \in PG \cup Sentinels
       /\ P[at] # pg /\ P[at - 1] # pg
  BY <1>3, <1>5, <1>7, <1>9
<1>. DEFINE bck == [q.bck EXCEPT ![pg] = P[at], ![P[at - 1]] = pg]
            fwd == [q.fwd EXCEPT ![P[at]] = pg, ![pg] = P[at - 1]]
<1>11. /\ bck \in [PG \cup Sentinels -> PG \cup Sentinels \cup {NoPG}]
       /\ bck[P[at - 1]] = pg /\ bck[pg] = P[at]
       /\ \A x \in PG \cup Sentinels : x # P[at - 1] /\ x # pg => bck[x] = q.bck[x]
  BY <1>6, <1>10 DEF QueRec
<1>12. /\ fwd \in [PG \cup Sentinels -> PG \cup Sentinels \cup {NoPG}]
       /\ fwd[P[at]] = pg /\ fwd[pg] = P[at - 1]
       /\ \A x \in PG \cup Sentinels : x # P[at] /\ x # pg => fwd[x] = q.fwd[x]
  BY <1>6, <1>10 DEF QueRec
<1>. HIDE DEF bck, fwd
<1>13. \A i \in 0..(n + 1) : bck[T[i]] = T[i + 1] /\ fwd[T[i + 1]] = T[i]
  <2>1. SUFFICES ASSUME NEW i \in 0..(n + 1)
                 PROVE  bck[T[i]] = T[i + 1] /\ fwd[T[i + 1]] = T[i]
    OBVIOUS
  <2>2. i \in 0..(n + 2) /\ i + 1 \in 0..(n + 2)
    BY <1>1
  <2>3. CASE i = at - 1
    <3>1. i # at /\ i + 1 = at /\ from(i) = at - 1
      BY <1>1, <2>3
    <3>2. T[i] = P[at - 1] /\ T[i + 1] = pg
      BY <1>8, <2>2, <3>1
    <3>. QED BY <1>11, <1>12, <3>2
  <2>4. CASE i = at
    <3>1. i + 1 # at /\ from(i + 1) = at
      BY <1>1, <2>4
    <3>2. T[i] = pg /\ T[i + 1] = P[at]
      BY <1>8, <2>2, <2>4, <3>1
    <3>. QED BY <1>11, <1>12, <3>2
  <2>5. CASE i # at - 1 /\ i # at
    <3>1. /\ i # at /\ i + 1 # at
          /\ from(i) \in 0..n /\ from(i) # at - 1 /\ from(i + 1) = from(i) + 1 /\ from(i + 1) # at
          /\ from(i) \in 0..(n + 1) /\ from(i + 1) \in 0..(n + 1)
      BY <1>1, <2>5
    <3>2. q.bck[P[from(i)]] = P[from(i + 1)] /\ q.fwd[P[from(i + 1)]] = P[from(i)]
      BY <1>5, <3>1
    <3>3. /\ P[from(i)] # P[at - 1] /\ P[from(i)] # pg /\ P[from(i + 1)] # P[at] /\ P[from(i + 1)] # pg
          /\ P[from(i)] \in PG \cup Sentinels /\ P[from(i + 1)] \in PG \cup Sentinels
      BY <1>3, <1>7, <1>9, <3>1
    <3>4. T[i] = P[from(i)] /\ T[i + 1] = P[from(i + 1)]
      BY <1>8, <2>2, <3>1
    <3>. HIDE DEF from
    <3>. QED BY <1>11, <1>12, <3>2, <3>3, <3>4
  <2>. QED BY <2>3, <2>4, <2>5
<1>14. r = [count |-> n + 1, bck |-> bck, fwd |-> fwd, linked |-> [q.linked EXCEPT ![pg] = TRUE]]
  BY <1>5, <1>10 DEF Que!insert_forward, bck, fwd, P
<1>15. /\ r.count = n + 1 /\ r.linked = [q.linked EXCEPT ![pg] = TRUE]
       /\ r.bck = bck /\ r.fwd = fwd
       /\ r = [count |-> r.count, bck |-> r.bck, fwd |-> r.fwd, linked |-> r.linked]
  BY <1>14
<1>. HIDE DEF r
<1>16. /\ r.linked \in [PG -> BOOLEAN] /\ r.linked[pg]
       /\ \A x \in PG : x # pg => r.linked[x] = q.linked[x]
  BY <1>6, <1>15 DEF QueRec
<1>17. r \in QueRec
  <2>. DEFINE To == [PG \cup Sentinels -> PG \cup Sentinels \cup {NoPG}]
  <2>1. r.count \in Nat
    BY <1>1, <1>15
  <2>2. r.bck \in To /\ r.fwd \in To
    BY <1>11, <1>12, <1>15
  <2>3. r.linked \in [PG -> BOOLEAN]
    BY <1>16
  <2>. HIDE DEF To
  <2>4. r \in [count : Nat, fwd : To, bck : To, linked : [PG -> BOOLEAN]]
    BY <1>15, <2>1, <2>2, <2>3
  <2>. QED BY <2>4 DEF QueRec, To
<1>18. ASSUME NEW x \in PG
       PROVE  /\ r.linked[x] <=> Contains(t, x)
              /\ ~r.linked[x] => r.fwd[x] = NoPG /\ r.bck[x] = NoPG
  <2>1. CASE x = pg
    BY <1>2, <1>16, <2>1
  <2>2. CASE x # pg
    <3>1. r.linked[x] <=> Contains(t, x)
      BY <1>2, <1>5, <1>16, <2>2
    <3>2. ASSUME ~r.linked[x] PROVE x # P[at - 1] /\ x # P[at]
      <4>0. ~Contains(s, x)
        BY <1>5, <1>16, <2>2, <3>2, Zenon
      <4>1. ~Contains(s, x) /\ x # PgNum /\ x # PgNum + 1
        BY <4>0, SizesAssumption DEF PG
      <4>2. \A i \in 1..n : s[i] # x
        BY <4>1 DEF Contains, n
      <4>3. \A i \in 0..(n + 1) : i = 0 \/ i = n + 1 \/ i \in 1..n
        BY <1>1
      <4>. QED BY <1>3, <1>9, <4>1, <4>2, <4>3
    <3>3. ~r.linked[x] => q.fwd[x] = NoPG /\ q.bck[x] = NoPG
      BY <1>5, <1>16, <2>2
    <3>4. ~r.linked[x] => r.fwd[x] = q.fwd[x] /\ r.bck[x] = q.bck[x]
      BY <1>11, <1>12, <1>15, <2>2, <3>2
    <3>. QED BY <3>1, <3>3, <3>4
  <2>. QED BY <2>1, <2>2
<1>19. \A i \in 0..Len(t) : r.bck[Path(t)[i]] = Path(t)[i + 1] /\ r.fwd[Path(t)[i + 1]] = Path(t)[i]
  BY <1>2, <1>13, <1>15 DEF T
<1>20. r.count = Len(t) /\ t \in Seq(PG)
  BY <1>2, <1>15
<1>21. Que!Holds(r, t, Len(t))
  BY <1>18, <1>19, <1>20, HoldsPath
<1>. QED BY <1>17, <1>21 DEF Links, r, t

-----------------------------------------------------------------------------
(* The search *)

\* Where the search from place i on ends: at the first PG with no more valid
\* sectors than pg, or behind the last one.
Halts(s, pg, pgs, i) == {j \in i..Len(s) : pgs[pg].vs_num >= pgs[s[j]].vs_num}
Target(s, pg, pgs, i) ==
  IF Halts(s, pg, pgs, i) = {} THEN Len(s) + 1 ELSE Min(Halts(s, pg, pgs, i))

LEMMA TargetSteps ==
  ASSUME NEW s \in Seq(PG), NEW pg, NEW pgs
  PROVE  /\ Target(s, pg, pgs, Len(s) + 1) = Len(s) + 1
         /\ \A i \in 1..Len(s) :
              Target(s, pg, pgs, i) =
                IF pgs[pg].vs_num >= pgs[s[i]].vs_num THEN i ELSE Target(s, pg, pgs, i + 1)
         /\ \A i \in 1..(Len(s) + 1) : Target(s, pg, pgs, i) \in 1..(Len(s) + 1)
<1>. DEFINE n == Len(s)
            stop(j) == pgs[pg].vs_num >= pgs[s[j]].vs_num
            H(i) == Halts(s, pg, pgs, i)
<1>1. n \in Nat
  BY LenProperties
<1>2. \A i : H(i) = {j \in i..n : stop(j)}
  BY DEF Halts
<1>. HIDE DEF n, stop, H
<1>3. ASSUME NEW i \in 1..(n + 1)
      PROVE  H(i) # {} => Min(H(i)) \in H(i) /\ \A j \in H(i) : Min(H(i)) <= j
  <2>1. H(i) \subseteq Nat
    BY <1>1, <1>2, <1>3
  <2>. QED BY <2>1, MinOfNaturals
<1>4. \A i : Target(s, pg, pgs, i) = IF H(i) = {} THEN n + 1 ELSE Min(H(i))
  BY DEF Target, H, n
<1>5. H(n + 1) = {}
  BY <1>1, <1>2
<1>6. ASSUME NEW i \in 1..n
      PROVE  Target(s, pg, pgs, i) = IF stop(i) THEN i ELSE Target(s, pg, pgs, i + 1)
  <2>1. i \in 1..(n + 1) /\ i + 1 \in 1..(n + 1)
    BY <1>1, <1>6
  <2>2. CASE stop(i)
    <3>1. i \in H(i) /\ \A j \in H(i) : i <= j /\ j \in Nat
      BY <1>1, <1>2, <1>6, <2>2
    <3>2. H(i) # {} /\ Min(H(i)) \in H(i) /\ Min(H(i)) <= i
      BY <1>3, <2>1, <3>1
    <3>3. i <= Min(H(i)) /\ Min(H(i)) \in Nat
      BY <3>1, <3>2
    <3>4. Min(H(i)) = i
      BY <1>6, <3>2, <3>3
    <3>. QED BY <1>4, <2>2, <3>2, <3>4
  <2>3. CASE ~stop(i)
    <3>1. \A j : j \in i..n <=> j = i \/ j \in (i + 1)..n
      BY <1>1, <1>6
    <3>2. H(i) = H(i + 1)
      BY <1>2, <2>3, <3>1
    <3>. QED BY <1>4, <2>3, <3>2
  <2>. QED BY <2>2, <2>3
<1>7. ASSUME NEW i \in 1..(n + 1) PROVE Target(s, pg, pgs, i) \in 1..(n + 1)
  <2>1. n + 1 \in 1..(n + 1) /\ \A j \in i..n : j \in 1..(n + 1)
    BY <1>1, <1>7
  <2>. QED BY <1>2, <1>3, <1>4, <2>1
<1>. QED BY <1>4, <1>5, <1>6, <1>7 DEF n, stop

\* The walk along the pointers ends at that place.
LEMMA StopFromTarget ==
  ASSUME NEW q, NEW s \in Seq(PG), Once(s), Links(q, s), NEW pg, NEW pgs,
         NEW start \in 1..(Len(s) + 1)
  PROVE  StopFrom(q, Path(s)[start], pg, pgs) = Path(s)[Target(s, pg, pgs, start)]
<1>. DEFINE n == Len(s)
            P == Path(s)
            D == {x \in PG \cup Sentinels : x \in Sentinels \/ q.linked[x]}
            stop(x) == pgs[pg].vs_num >= pgs[x].vs_num
            T(i) == Target(s, pg, pgs, i)
            Turn(f) == [x \in D |-> IF x \in Sentinels \/ stop(x) THEN x ELSE f[q.bck[x]]]
<1>1. /\ n \in Nat
      /\ \A i \in 1..n : P[i] = s[i] /\ s[i] \in PG
      /\ P[0] = PgNum /\ P[n + 1] = PgNum + 1
      /\ \A i, j \in 0..(n + 1) : P[i] = P[j] => i = j
  BY PathOnce
<1>2. /\ \A i \in 0..n : q.bck[P[i]] = P[i + 1]
      /\ \A x \in PG : q.linked[x] <=> Contains(s, x)
  BY HoldsPath DEF Links
<1>3. /\ T(n + 1) = n + 1
      /\ \A i \in 1..n : T(i) = IF stop(s[i]) THEN i ELSE T(i + 1)
      /\ \A i \in 1..(n + 1) : T(i) \in 1..(n + 1)
  BY TargetSteps
<1>4. \A x \in D : x \in Sentinels \/ \E i \in 1..n : x = s[i]
  BY <1>2 DEF Contains
<1>5. /\ \A i \in 1..n : s[i] \in D /\ s[i] \notin Sentinels
      /\ PgNum + 1 \in D /\ PgNum + 1 \in Sentinels
  <2>1. \A x \in PG : x \notin Sentinels
    BY SizesAssumption DEF PG, Sentinels
  <2>2. \A i \in 1..n : Contains(s, s[i])
    BY DEF Contains
  <2>. QED BY <1>1, <1>2, <2>1, <2>2 DEF Sentinels
<1>6. StopFrom(q, P[start], pg, pgs) = (CHOOSE f : f = Turn(f))[P[start]]
  BY DEF StopFrom, Sentinels, Que!Nodes, Que!is_que_end
<1>. HIDE DEF n, P, D, stop, T
<1>7. \A i \in 1..n : i + 1 \in 1..(n + 1) /\ i \in 0..n /\ i \in 1..(n + 1)
  BY <1>1
\* There is such a function,
<1>8. \E f : f = Turn(f)
  <2>. DEFINE at(x) == CHOOSE i \in 1..n : s[i] = x
              w == [x \in D |-> IF x \in Sentinels THEN x ELSE P[T(at(x))]]
  <2>1. \A i \in 1..n : at(s[i]) = i
    BY DEF Once, n
  <2>. HIDE DEF at
  <2>2. \A i \in 1..n : w[s[i]] = P[T(i)]
    BY <1>5, <2>1
  <2>3. w[PgNum + 1] = P[T(n + 1)]
    BY <1>1, <1>3, <1>5
  <2>4. \A i \in 1..(n + 1) : w[P[i]] = P[T(i)]
    <3>1. \A i \in 1..(n + 1) : i \in 1..n \/ i = n + 1
      BY <1>1
    <3>. HIDE DEF w
    <3>. QED BY <1>1, <2>2, <2>3, <3>1
  <2>5. ASSUME NEW x \in D
        PROVE  w[x] = IF x \in Sentinels \/ stop(x) THEN x ELSE w[q.bck[x]]
    <3>1. CASE x \in Sentinels
      BY <3>1
    <3>2. CASE x \notin Sentinels
      <4>1. PICK i \in 1..n : x = s[i]
        BY <1>4, <3>2
      <4>2. w[x] = P[T(i)] /\ q.bck[x] = P[i + 1] /\ P[i] = x
        BY <1>1, <1>2, <1>7, <2>2, <4>1
      <4>. HIDE DEF w
      <4>. QED BY <1>3, <1>7, <2>4, <3>2, <4>1, <4>2
    <3>. QED BY <3>1, <3>2
  <2>6. w = [x \in D |-> w[x]]
    OBVIOUS
  <2>. HIDE DEF w
  <2>7. Turn(w) = [x \in D |-> w[x]]
    BY <2>5
  <2>. QED BY <2>6, <2>7
\* and whichever is chosen, it leads from every place to its target.
<1>. DEFINE f == CHOOSE g : g = Turn(g)
<1>9. f = Turn(f)
  BY <1>8
<1>. HIDE DEF f
<1>10. /\ \A x \in D : f[x] = IF x \in Sentinels \/ stop(x) THEN x ELSE f[q.bck[x]]
  BY <1>9
<1>. HIDE DEF Turn
<1>11. \A i \in 1..(n + 1) : f[P[i]] = P[T(i)]
  <2>. DEFINE Bad == {k \in 0..n : f[P[(n + 1) - k]] # P[T((n + 1) - k)]}
  <2>1. ASSUME Bad # {} PROVE FALSE
    <3>1. Bad \subseteq Nat
      BY <1>1
    <3>2. PICK k \in Bad : \A m \in Bad : k <= m
      BY <2>1, <3>1, MinOfNaturals
    <3>3. k \in 0..n /\ f[P[(n + 1) - k]] # P[T((n + 1) - k)]
      BY <3>2
    <3>4. CASE k = 0
      <4>1. (n + 1) - k = n + 1
        BY <1>1, <3>4
      <4>2. f[P[n + 1]] = P[T(n + 1)]
        BY <1>1, <1>3, <1>5, <1>10
      <4>. QED BY <3>3, <4>1, <4>2
    <3>5. CASE k # 0
      <4>1. PICK i \in 1..n : i = (n + 1) - k
        BY <1>1, <3>3, <3>5
      <4>2. k - 1 \in 0..n /\ (n + 1) - (k - 1) = i + 1 /\ ~(k <= k - 1)
        BY <1>1, <3>3, <3>5, <4>1
      <4>3. f[P[i + 1]] = P[T(i + 1)]
        BY <3>2, <4>2
      <4>4. f[P[i]] = IF stop(P[i]) THEN P[i] ELSE f[P[i + 1]]
        BY <1>1, <1>2, <1>5, <1>7, <1>10
      <4>5. f[P[i]] = P[T(i)]
        BY <1>1, <1>3, <4>3, <4>4
      <4>. QED BY <3>3, <4>1, <4>5
    <3>. QED BY <3>4, <3>5
  <2>2. ASSUME NEW i \in 1..(n + 1) PROVE f[P[i]] = P[T(i)]
    <3>1. (n + 1) - i \in 0..n /\ (n + 1) - ((n + 1) - i) = i
      BY <1>1, <2>2
    <3>. QED BY <2>1, <3>1
  <2>. QED BY <2>2
<1>. QED BY <1>6, <1>11 DEF f, n, P, T

\* UpdateCloseRanking on the pointers is UpdateCloseRanking on the sequence.
LEMMA LinkRankingLinks ==
  ASSUME NEW q, NEW s \in Seq(PG), Once(s), Links(q, s), NEW pg \in PG, NEW pgs
  PROVE  Links(LinkRanking(q, pg, pgs), UpdateCloseRanking(s, pg, pgs))
<1>. DEFINE rest  == RemoveFirst(s, pg)
            start == IF Contains(s, pg) THEN Position(s, pg) ELSE 1
            at    == Target(rest, pg, pgs, start)
            first == IF q.linked[pg] THEN q.bck[pg] ELSE Que!begin_item(q)
            out   == IF q.linked[pg] THEN Que!remove_item(q, pg) ELSE q
<1>1. /\ rest \in Seq(PG) /\ Once(rest) /\ ~Contains(rest, pg)
      /\ Len(rest) = IF Contains(s, pg) THEN Len(s) - 1 ELSE Len(s)
      /\ Len(s) \in Nat /\ Len(rest) \in Nat
  BY RemoveFirstProperties, RemoveFirstOnce, LenProperties
<1>2. UpdateCloseRanking(s, pg, pgs) = InsertAt(rest, at, pg)
  BY DEF UpdateCloseRanking, SelectInSeq, Position, Contains, Target, Halts
<1>3. start \in 1..(Len(rest) + 1)
  BY <1>1, FirstPosition
<1>4. at \in 1..(Len(rest) + 1)
  BY <1>1, <1>3, TargetSteps
<1>5. /\ \A i \in 0..Len(s) : q.bck[Path(s)[i]] = Path(s)[i + 1]
      /\ q.linked[pg] <=> Contains(s, pg)
  BY HoldsPath DEF Links
<1>6. Links(out, rest) /\ first = Path(rest)[start]
  <2>1. CASE Contains(s, pg)
    <3>. DEFINE p == Position(s, pg)
                n == Len(s)
    <3>1. p \in 1..n /\ s[p] = pg
      BY <2>1, FirstPosition
    <3>2. /\ \A i \in 1..n : Path(s)[i] = s[i]
          /\ Path(s)[n + 1] = PgNum + 1
      BY PathOnce
    <3>3. /\ \A i \in 1..Len(rest) : Path(rest)[i] = rest[i]
          /\ Path(rest)[Len(rest) + 1] = PgNum + 1
      BY <1>1, PathOnce
    <3>4. /\ Len(rest) = n - 1
          /\ \A j \in 1..Len(rest) : rest[j] = s[IF j < p THEN j ELSE j + 1]
      BY <2>1, RemoveFirstPlaces
    <3>. HIDE DEF p, n, rest
    <3>5. q.bck[pg] = Path(s)[p + 1]
      <4>1. p \in 0..n /\ Path(s)[p] = pg
        BY <1>1, <3>1, <3>2 DEF n
      <4>. QED BY <1>5, <4>1 DEF n
    <3>6. Path(s)[p + 1] = Path(rest)[p]
      <4>1. CASE p = n
        <5>1. Len(rest) + 1 = p
          BY <1>1, <3>4, <4>1 DEF n
        <5>. QED BY <3>2, <3>3, <4>1, <5>1
      <4>2. CASE p # n
        <5>1. p \in 1..Len(rest) /\ p + 1 \in 1..n /\ ~(p < p)
          BY <1>1, <3>1, <3>4, <4>2 DEF n
        <5>. QED BY <3>2, <3>3, <3>4, <5>1
      <4>. QED BY <4>1, <4>2
    <3>. QED BY <1>5, <2>1, <3>5, <3>6, RemoveItemLinks DEF p, rest
  <2>2. CASE ~Contains(s, pg)
    <3>1. rest = s /\ start = 1
      BY <2>2, RemoveFirstProperties
    <3>2. 0 \in 0..Len(s) /\ Path(s)[0] = PgNum
      BY <1>1, PathOnce
    <3>3. q.bck[PgNum] = Path(s)[0 + 1]
      BY <1>5, <3>2
    <3>. QED BY <1>5, <2>2, <3>1, <3>3 DEF Que!begin_item
  <2>. QED BY <2>1, <2>2
<1>7. StopFrom(out, first, pg, pgs) = Path(rest)[at]
  BY <1>1, <1>3, <1>6, StopFromTarget
<1>8. LinkRanking(q, pg, pgs) = Que!insert_forward(out, Path(rest)[at], pg)
  BY <1>7 DEF LinkRanking
<1>. HIDE DEF rest, at, out, first, start
<1>. QED BY <1>1, <1>2, <1>4, <1>6, <1>8, InsertForwardLinks

\* Without its last element a queue is what RemoveFirst leaves of it.
LEMMA FrontOfOnce ==
  ASSUME NEW S, NEW s \in Seq(S), s # <<>>, Once(s)
  PROVE  Contains(s, Last(s)) /\ Front(s) = RemoveFirst(s, Last(s))
<1>. DEFINE n == Len(s)
            t == RemoveFirst(s, Last(s))
<1>1. n \in Nat \ {0} /\ \A i \in 1..n : s[i] \in S
  BY EmptySeq, LenProperties, ElementOfSeq
<1>2. n \in 1..n /\ Last(s) = s[n]
  BY <1>1 DEF Last
<1>3. Contains(s, Last(s))
  BY <1>2 DEF Contains
<1>4. Position(s, Last(s)) = n
  BY <1>2, <1>3, FirstPosition DEF Once
<1>5. /\ t \in Seq(S) /\ Len(t) = n - 1
      /\ \A j \in 1..Len(t) : t[j] = s[IF j < n THEN j ELSE j + 1]
  BY <1>3, <1>4, RemoveFirstProperties, RemoveFirstPlaces
<1>. HIDE DEF t
<1>6. PICK m \in Nat : m = n - 1
  BY <1>1
<1>7. /\ Front(s) \in Seq(S) /\ Len(Front(s)) = m
      /\ \A i \in 1..m : Front(s)[i] = s[i]
  <2>1. Front(s) = SubSeq(s, 1, m)
    BY <1>6 DEF Front
  <2>2. \A i \in 1..m : s[i] \in S
    BY <1>1, <1>6
  <2>. QED BY <2>1, <2>2, SubSeqProperties
<1>8. \A j \in 1..m : t[j] = s[j]
  BY <1>1, <1>5, <1>6
<1>9. Front(s) = t
  BY <1>5, <1>6, <1>7, <1>8, SeqEqual
<1>. QED BY <1>3, <1>9 DEF t

-----------------------------------------------------------------------------
(* The device with its pointers *)

LinksInv == Links(close_links, close_pg_que)

(* The pointers of a formatted device are those of an empty queue. *)
LEMMA InitLinks == LinkInit => LinksInv
<1>. SUFFICES ASSUME LinkInit PROVE LinksInv
  OBVIOUS
<1>1. close_pg_que = <<>> /\ Len(close_pg_que) = 0
  BY DEF LinkInit, Init, InitFTL
<1>2. close_links = Que!init_que_head
  BY DEF LinkInit
<1>3. close_links \in QueRec
  BY <1>2 DEF QueRec, Sentinels, Que!init_que_head, Que!Nodes
<1>4. PgNum # PgNum + 1
  BY SizesAssumption
<1>5. close_links.bck[PgNum] = PgNum + 1 /\ close_links.fwd[PgNum + 1] = PgNum
  BY <1>2, <1>4 DEF Que!init_que_head, Que!Nodes
<1>6. ASSUME NEW pg \in PG
      PROVE  ~close_links.linked[pg] /\ close_links.fwd[pg] = NoPG /\ close_links.bck[pg] = NoPG
  <2>1. pg # PgNum /\ pg # PgNum + 1
    BY SizesAssumption DEF PG
  <2>. QED BY <1>2, <2>1 DEF Que!init_que_head, Que!Nodes
<1>7. Que!Holds(close_links, close_pg_que, 0)
  <2>1. close_links.count = 0
    BY <1>2 DEF Que!init_que_head
  <2>. QED BY <1>5, <1>6, <2>1 DEF Que!Holds
<1>. QED BY <1>1, <1>3, <1>7 DEF LinksInv, Links

\* What L2P_Update does to the queue it does to the pointers.
LEMMA LinkUpdateLinks ==
  ASSUME TypeInv, BooksInv, QueuesInv, LinksInv, io.lpn \in LP, openpg[io.type] \in PG,
         ~L2P_UpdateError(io.lpn, SectsPerLp, openpg[io.type]),
         L2P_Update(io.lpn, SectsPerLp, openpg[io.type], FALSE)
  PROVE  Links(LinkUpdate(close_links), close_pg_que')
<1>. DEFINE lpn     == io.lpn
            into    == openpg[io.type]
            old     == l2p_tbl[lpn]
            src     == old.pgn
            written == [pg_list EXCEPT ![into] = Written(@, lpn, SectsPerLp, 0)]
            closing == written[into].status = "CLOSE"
            ranked  == IF closing THEN UpdateCloseRanking(close_pg_que, into, written)
                                  ELSE close_pg_que
            drops   == src # NoPG /\ written[src].lp_num # 0
            dropped == [written EXCEPT ![src] = Released(@, old.len)]
            release == drops /\ dropped[src].vs_num = 0 /\ dropped[src].status # "OPEN"
            closed  == IF closing THEN LinkRanking(close_links, into, written) ELSE close_links
<1>1. /\ pg_list \in [PG -> PG_Info] /\ close_pg_que \in Seq(PG) /\ Once(close_pg_que)
      /\ \A pg \in PG : Contains(close_pg_que, pg) <=> pg_list[pg].status = "CLOSE"
  BY DEF TypeInv, SsdTypeOK, FtlTypeOK, QueuesInv, QueuedAs
<1>2. IF release
      THEN close_pg_que' = IF dropped[src].status = "RCM" THEN ranked ELSE RemoveFirst(ranked, src)
      ELSE close_pg_que' = IF drops /\ dropped[src].status = "CLOSE"
                           THEN UpdateCloseRanking(ranked, src, dropped)
                           ELSE ranked
  BY Zenon DEF L2P_Update, OpenToClose, CloseToInvalid
<1>3. LinkUpdate(close_links) =
        IF src = NoPG \/ dropped[src].status # "CLOSE" THEN closed
        ELSE IF dropped[src].vs_num # 0 THEN LinkRanking(closed, src, dropped)
        ELSE Que!remove_item(closed, src)
  BY DEF LinkUpdate
<1>4. into \in PG /\ pg_list[into].status = "OPEN" /\ ~Contains(close_pg_que, into)
  BY <1>1 DEF L2P_UpdateError
<1>5. /\ written[into] = Written(pg_list[into], lpn, SectsPerLp, 0)
      /\ \A pg \in PG \ {into} : written[pg] = pg_list[pg]
  BY <1>1, <1>4
<1>6. ranked \in Seq(PG) /\ Once(ranked) /\ Links(closed, ranked)
  <2>1. CASE closing
    <3>1. /\ UpdateCloseRanking(close_pg_que, into, written) \in Seq(PG)
          /\ Once(UpdateCloseRanking(close_pg_que, into, written))
      BY <1>1, <1>4, UpdateCloseRankingType, UpdateCloseRankingOnce
    <3>2. Links(LinkRanking(close_links, into, written), UpdateCloseRanking(close_pg_que, into, written))
      BY <1>1, <1>4, LinkRankingLinks DEF LinksInv
    <3>. QED BY <2>1, <3>1, <3>2
  <2>2. CASE ~closing
    BY <1>1, <2>2 DEF LinksInv
  <2>. QED BY <2>1, <2>2
<1>7. \A pg \in PG : Contains(ranked, pg) <=> written[pg].status = "CLOSE"
  <2>1. CASE closing
    <3>1. \A pg : Contains(ranked, pg) <=> Contains(close_pg_que, pg) \/ pg = into
      BY <1>1, <1>4, <2>1, UpdateCloseRankingOnce
    <3>. HIDE DEF ranked, written
    <3>. QED BY <1>1, <1>5, <2>1, <3>1
  <2>2. CASE ~closing
    <3>1. ranked = close_pg_que
      BY <2>2
    <3>. HIDE DEF ranked, written
    <3>. QED BY <1>1, <1>4, <1>5, <2>2, <3>1
  <2>. QED BY <2>1, <2>2
<1>8. CASE src = NoPG
  BY <1>2, <1>3, <1>6, <1>8
<1>9. CASE src # NoPG
  <2>1. src \in PG /\ pg_list[src].lp_num \in Nat \ {0}
    BY <1>9, CountedPage DEF TypeInv, SsdTypeOK
  <2>2. drops
    <3>1. CASE src = into
      <4>1. pg_list[into] \in PG_Info
        BY <1>1, <1>4
      <4>2. Written(pg_list[into], lpn, SectsPerLp, 0).lp_num = pg_list[into].lp_num + 1
        BY <4>1 DEF Written, PG_Info
      <4>. HIDE DEF written
      <4>. QED BY <1>5, <1>9, <2>1, <3>1, <4>2
    <3>2. CASE src # into
      <4>. HIDE DEF written
      <4>. QED BY <1>5, <1>9, <2>1, <3>2
    <3>. QED BY <3>1, <3>2
  <2>3. dropped[src].status = written[src].status
    <3>1. written[src] \in PG_Info
      <4>1. pg_list[into] \in PG_Info /\ SectsPerLp \in Nat
        BY <1>1, <1>4, SizesAssumption
      <4>2. Written(pg_list[into], lpn, SectsPerLp, 0) \in PG_Info
        BY <4>1, WrittenType
      <4>. HIDE DEF written
      <4>. QED BY <1>1, <1>5, <2>1, <4>2
    <3>2. dropped[src] = Released(written[src], old.len)
      BY <1>1, <2>1
    <3>. HIDE DEF written, dropped
    <3>. QED BY <3>1, <3>2 DEF Released, PG_Info
  <2>. HIDE DEF ranked, closed, written, dropped, src
  <2>4. CASE dropped[src].status # "CLOSE"
    <3>1. ~Contains(ranked, src)
      BY <1>7, <2>1, <2>3, <2>4
    <3>2. RemoveFirst(ranked, src) = ranked
      BY <1>6, <3>1, RemoveFirstProperties
    <3>3. close_pg_que' = ranked /\ LinkUpdate(close_links) = closed
      BY <1>2, <1>3, <2>4, <3>2
    <3>. QED BY <1>6, <3>3
  <2>5. CASE dropped[src].status = "CLOSE" /\ dropped[src].vs_num # 0
    <3>1. /\ close_pg_que' = UpdateCloseRanking(ranked, src, dropped)
          /\ LinkUpdate(close_links) = LinkRanking(closed, src, dropped)
      BY <1>2, <1>3, <1>9, <2>2, <2>5
    <3>. QED BY <1>6, <2>1, <3>1, LinkRankingLinks
  <2>6. CASE dropped[src].status = "CLOSE" /\ dropped[src].vs_num = 0
    <3>1. /\ close_pg_que' = RemoveFirst(ranked, src)
          /\ LinkUpdate(close_links) = Que!remove_item(closed, src)
      BY <1>2, <1>3, <1>9, <2>2, <2>6
    <3>2. Contains(ranked, src)
      BY <1>7, <2>1, <2>3, <2>6
    <3>. QED BY <1>6, <2>1, <3>1, <3>2, RemoveItemLinks
  <2>. QED BY <2>4, <2>5, <2>6
<1>. QED BY <1>8, <1>9

\* A step of the device with its pointers is one of the device.
LEMMA LinkStep == [LinkNext]_linkVars => [Next]_vars
BY DEF LinkNext, LinkLpWrite, LinkReload, LinkOther, linkVars, Next, Run, DoGC

\* A step splices the pointers as it splices the queue.
LEMMA NextLinks ==
  ASSUME TypeInv, BooksInv, QueuesInv, LinksInv, [LinkNext]_linkVars
  PROVE  LinksInv'
<1>1. CASE UNCHANGED <<close_pg_que, close_links>>
  BY <1>1 DEF LinksInv, Links, Que!Holds
<1>2. CASE LinkLpWrite
  <2>1. CASE L2P_UpdateError(io.lpn, SectsPerLp, openpg[io.type])
    BY <1>1, <1>2, <2>1 DEF LinkLpWrite, LpWrite, ftlVars, queueVars
  <2>2. CASE ~L2P_UpdateError(io.lpn, SectsPerLp, openpg[io.type])
    <3>1. /\ L2P_Update(io.lpn, SectsPerLp, openpg[io.type], FALSE)
          /\ pc' # "failed" /\ close_links' = LinkUpdate(close_links)
      BY <1>2, <2>2 DEF LinkLpWrite, LpWrite
    <3>2. io.lpn \in LP /\ openpg[io.type] \in PG
      BY <1>2 DEF LinkLpWrite, LpWrite, TypeInv, ControlInv, SsdTypeOK, FtlTypeOK
    <3>3. Links(LinkUpdate(close_links), close_pg_que')
      BY <2>2, <3>1, <3>2, LinkUpdateLinks
    <3>. QED BY <3>1, <3>3 DEF LinksInv, Links, Que!Holds
  <2>. QED BY <2>1, <2>2
<1>3. CASE LinkReload
  <2>. DEFINE s == close_pg_que
  <2>1. s \in Seq(PG) /\ Once(s) /\ s # <<>> /\ s' = Front(s)
    BY <1>3 DEF LinkReload, Reload, ReloadRcmTarget, TypeInv, SsdTypeOK, FtlTypeOK, QueuesInv, QueuedAs
  <2>2. Contains(s, Last(s)) /\ s' = RemoveFirst(s, Last(s))
    BY <2>1, FrontOfOnce
  <2>3. Que!end_item(close_links) = Last(s) /\ Last(s) \in PG
    <3>1. Len(s) \in Nat \ {0} /\ Last(s) = s[Len(s)]
      BY <2>1, EmptySeq, LenProperties DEF Last
    <3>2. Len(s) \in 1..Len(s) /\ Len(s) \in 0..Len(s)
      BY <3>1
    <3>3. close_links.fwd[Path(s)[Len(s) + 1]] = Path(s)[Len(s)]
      BY <2>1, <3>2, HoldsPath DEF LinksInv, Links
    <3>4. Path(s)[Len(s) + 1] = PgNum + 1 /\ Path(s)[Len(s)] = s[Len(s)] /\ s[Len(s)] \in PG
      BY <2>1, <3>2, PathOnce
    <3>. QED BY <3>1, <3>3, <3>4 DEF Que!end_item
  <2>4. Links(Que!remove_item(close_links, Last(s)), RemoveFirst(s, Last(s)))
    BY <2>1, <2>2, <2>3, RemoveItemLinks DEF LinksInv
  <2>5. close_links' = Que!remove_item(close_links, Last(s))
    BY <1>3, <2>3 DEF LinkReload
  <2>6. Links(close_links', s')
    BY <2>2, <2>4, <2>5
  <2>. QED BY <2>6 DEF LinksInv, Links, Que!Holds
<1>4. CASE LinkOther
  <2>1. UNCHANGED close_pg_que
    <3>1. CASE FormatPage \/ FormatDone \/ GetOpenPG_Present \/ \E lpn \in LP : HostWrite(lpn)
      BY <3>1 DEF FormatPage, FormatDone, GetOpenPG_Present, HostWrite, ftlVars, queueVars
    <3>2. CASE GetOpenPG_Build
      BY <3>2 DEF GetOpenPG_Build, BuildPG, TakePG, ftlVars, queueVars
    <3>3. CASE GetReWriteReq \/ ReloadDone \/ Collect \/ CollectNextPG \/ CollectDone
      BY <3>3 DEF GetReWriteReq, ReloadDone, Collect, ScanNext, CollectNextPG, ScanEnd, CollectDone,
                  ftlVars, queueVars
    <3>4. CASE Rewrite \/ RewriteDone \/ Erase \/ \E num \in 0..MaxErase : EraseReq(num)
      BY <3>4 DEF Rewrite, RewriteDone, Erase, ErasePB, EraseReq, GetEraseReq, ftlVars, queueVars
    <3>. QED BY <1>4, <3>1, <3>2, <3>3, <3>4 DEF LinkOther
  <2>. QED BY <1>1, <1>4, <2>1 DEF LinkOther
<1>5. CASE UNCHANGED linkVars
  BY <1>1, <1>5 DEF linkVars, vars, ftlVars, queueVars
<1>. QED BY <1>2, <1>3, <1>4, <1>5 DEF LinkNext

\* The pointers of pbque.h are those of the queue, in both directions and in
\* its order, in every state of a device of any size: no splice loses an item,
\* leaves one hooked on one side, or ranks it anywhere else than the sequence does.
THEOREM LinksHold == LinkSpec => []LinksMatchQueue
<1>. DEFINE Inv == TypeInv /\ BooksInv /\ QueuesInv /\ LinksInv
<1>1. LinkInit => Inv
  BY InitType, InitBooks, InitQueues, InitLinks DEF LinkInit
<1>2. Inv /\ [LinkNext]_linkVars => Inv'
  <2>1. SUFFICES ASSUME Inv, [LinkNext]_linkVars PROVE Inv'
    OBVIOUS
  <2>2. [Next]_vars
    BY <2>1, LinkStep
  <2>. QED BY <2>1, <2>2, NextType, NextBooks, NextLog, NextLinks
<1>3. Inv => LinksMatchQueue
  BY DEF LinksInv, Links, LinksMatchQueue
<1>. QED BY <1>1, <1>2, <1>3, PTL DEF LinkSpec

-----------------------------------------------------------------------------
(* Wear levelling *)

WlTypeOK ==
  /\ wl_openpg \in [Attr -> PG \cup {NoPG}]
  /\ attr \in [PG -> Attr]
  /\ rcm_count \in [LP -> Nat]
  /\ victim_vs \in [Attr -> Int] /\ pgnum \in [Attr -> Int]
  /\ dst \in PG \cup {NoPG}

WlTypeInv == SsdTypeOK /\ EraseInv /\ WlTypeOK

\* An open PG is in the slot of its attribute, unless BuildPG has lost it, and
\* what GetOpenPG has answered is still there when L2P_Update uses it.
WlSlotsInv ==
  /\ \A a \in Attr : wl_openpg[a] # NoPG =>
       pg_list[wl_openpg[a]].status = "OPEN" /\ attr[wl_openpg[a]] = a
  /\ \A pg \in PG : pg_list[pg].status = "OPEN" => wl_openpg[attr[pg]] = pg \/ pc = "failed"
  /\ pc = "update" => dst \in PG /\ wl_openpg[attr[dst]] = dst

\* The inherited parts are those of FtlInterface without its slots.
WlInv == WlTypeInv /\ BooksInv /\ QueuesInv /\ VictimsInv /\ WlSlotsInv /\ PgnumCovers

-----------------------------------------------------------------------------
(* The PGs of an attribute *)

(* There are finitely many PGs of an attribute, before and after a step. *)
LEMMA PgsOfFinite ==
  ASSUME NEW a
  PROVE  /\ IsFiniteSet(PgsOf(a)) /\ Cardinality(PgsOf(a)) \in Nat
         /\ IsFiniteSet(PgsOf(a)') /\ Cardinality(PgsOf(a)') \in Nat
<1>1. IsFiniteSet(PG)
  BY SizesAssumption, FS_Interval DEF PG
<1>2. PgsOf(a) \in SUBSET PG /\ PgsOf(a)' \in SUBSET PG
  BY DEF PgsOf
<1>. QED BY <1>1, <1>2, FS_Subset, FS_CardinalityType

(* An attribute that gains no PG counts no more than before. *)
LEMMA FewerPgs ==
  ASSUME NEW a, PgsOf(a)' \subseteq PgsOf(a)
  PROVE  Cardinality(PgsOf(a)') <= Cardinality(PgsOf(a))
<1>1. IsFiniteSet(PgsOf(a)) /\ PgsOf(a)' \in SUBSET PgsOf(a)
  BY PgsOfFinite
<1>. QED BY <1>1, FS_Subset

\* A step that opens no PG and reclaims none keeps the counts large enough.
LEMMA CountsKept ==
  ASSUME WlTypeInv, PgnumCovers, pc # "failed", UNCHANGED pgnum,
         \A a \in Attr : PgsOf(a)' \subseteq PgsOf(a)
  PROVE  PgnumCovers'
<1>. SUFFICES ASSUME NEW a \in Attr PROVE pgnum'[a] >= Cardinality(PgsOf(a)')
  BY DEF PgnumCovers
<1>1. pgnum[a] >= Cardinality(PgsOf(a)) /\ pgnum[a] \in Int
  BY DEF PgnumCovers, WlTypeInv, WlTypeOK
<1>2. Cardinality(PgsOf(a)') <= Cardinality(PgsOf(a))
  BY FewerPgs
<1>. QED BY <1>1, <1>2, PgsOfFinite

-----------------------------------------------------------------------------
(* The steps *)

(* A formatted device has no open PG and counts none. *)
LEMMA InitWl == WlInit => WlInv
<1>. SUFFICES ASSUME WlInit PROVE WlInv
  OBVIOUS
<1>. USE DEF WlInit
<1>1. SsdTypeOK /\ EraseInv /\ BooksInv /\ QueuesInv /\ VictimsInv
  BY InitType, InitBooks, InitQueues, InitPlaces DEF TypeInv, ControlInv, PlacesInv
<1>2. WlTypeOK
  BY WlAssumption DEF WlTypeOK, Attr
<1>3. /\ \A pg \in PG : pg_list[pg].status = "FREE"
      /\ pc = "format"
  BY DEF Init, InitFTL, InitPG
<1>4. WlSlotsInv
  BY <1>3 DEF WlSlotsInv
<1>5. PgnumCovers
  <2>1. \A a \in Attr : PgsOf(a) = {}
    BY <1>3 DEF PgsOf
  <2>. QED BY <2>1, FS_EmptySet DEF PgnumCovers
<1>. QED BY <1>1, <1>2, <1>4, <1>5 DEF WlInv, WlTypeInv

\* The inherited steps move no page and change no status.
LEMMA InheritedStep ==
  ASSUME FtlTypeOK, Inherited
  PROVE  /\ CommonStep /\ UNCHANGED <<wfVars, dst>>
         /\ UNCHANGED <<l2p_tbl, free_pg_que, close_pg_que>>
         /\ \A pg \in PG : /\ pg_list'[pg].status = pg_list[pg].status
                           /\ pg_list'[pg].lp_num = pg_list[pg].lp_num
         /\ UNCHANGED <<rcm_pg_que, rcm_cmp_pg_que>> \/ CollectNextPG
<1>1. pg_list \in [PG -> PG_Info]
  BY DEF FtlTypeOK
<1>2. CommonStep /\ UNCHANGED <<wfVars, dst>>
  BY DEF Inherited, CommonStep
<1>3. CASE UNCHANGED <<l2p_tbl, pg_list, queueVars>>
  BY <1>2, <1>3 DEF queueVars
<1>4. CASE Collect
  <2>1. \A pg \in PG : /\ pg_list'[pg].status = pg_list[pg].status
                       /\ pg_list'[pg].lp_num = pg_list[pg].lp_num
    BY <1>1, <1>4 DEF Collect, ScanNext, PG_Info
  <2>. QED BY <1>2, <1>4, <2>1 DEF Collect, ScanNext, queueVars
<1>5. CASE CollectNextPG
  BY <1>2, <1>5 DEF CollectNextPG, ScanEnd
<1>6. CASE FormatPage \/ FormatDone \/ (\E lpn \in LP : HostWrite(lpn))
             \/ GetReWriteReq \/ ReloadDone \/ CollectDone \/ Rewrite \/ RewriteDone
             \/ (\E num \in 0..MaxErase : EraseReq(num)) \/ Erase
  BY <1>3, <1>6 DEF FormatPage, FormatDone, HostWrite, GetReWriteReq, ReloadDone, CollectDone,
                    Rewrite, RewriteDone, EraseReq, GetEraseReq, Erase, ErasePB, ftlVars
<1>. QED BY <1>4, <1>5, <1>6 DEF Inherited

\* They keep what is kept beneath FtlInterface, and the slots.
LEMMA InheritedKeeps == WlInv /\ Inherited => WlInv'
<1>. SUFFICES ASSUME WlInv, Inherited PROVE WlInv'
  OBVIOUS
<1>1. /\ SsdTypeOK /\ EraseInv /\ WlTypeOK /\ FtlTypeOK
      /\ BooksInv /\ QueuesInv /\ VictimsInv /\ WlSlotsInv /\ PgnumCovers
  BY DEF WlInv, WlTypeInv, SsdTypeOK
<1>2. /\ CommonStep /\ UNCHANGED <<wfVars, dst>>
      /\ UNCHANGED <<l2p_tbl, free_pg_que, close_pg_que>>
      /\ \A pg \in PG : /\ pg_list'[pg].status = pg_list[pg].status
                        /\ pg_list'[pg].lp_num = pg_list[pg].lp_num
      /\ UNCHANGED <<rcm_pg_que, rcm_cmp_pg_que>> \/ CollectNextPG
  BY <1>1, InheritedStep
<1>3. SsdTypeOK' /\ EraseInv' /\ BooksInv' /\ QueuesInv'
  BY <1>1, <1>2, CommonType, CommonBooks, NoStep
<1>4. WlTypeOK'
  BY <1>1, <1>2 DEF WlTypeOK, wfVars
<1>5. VictimsInv'
  <2>1. CASE UNCHANGED <<rcm_pg_que, rcm_cmp_pg_que>>
    BY <1>1, <1>2, <2>1 DEF VictimsInv
  <2>2. CASE CollectNextPG
    BY <1>1, <2>2, ScanEndVictimQueues DEF CollectNextPG
  <2>. QED BY <1>2, <2>1, <2>2
<1>6. pc # "failed" /\ pc' # "update"
  BY <1>2, CommonPoints
<1>7. WlSlotsInv'
  <2>1. \A a \in Attr : wl_openpg[a] \in PG \cup {NoPG}
    BY <1>1 DEF WlTypeOK
  <2>. QED BY <1>1, <1>2, <1>6, <2>1 DEF WlSlotsInv, wfVars
<1>8. PgnumCovers'
  <2>1. \A a \in Attr : PgsOf(a)' \subseteq PgsOf(a)
    BY <1>2 DEF PgsOf, wfVars
  <2>. QED BY <1>1, <1>2, <1>6, <2>1, CountsKept DEF wfVars, WlTypeInv
<1>. QED BY <1>3, <1>4, <1>5, <1>7, <1>8 DEF WlInv, WlTypeInv

\* A victim is counted off under the attribute it was counted on.
LEMMA ReloadKeeps == WlInv /\ WlReload => WlInv'
<1>. SUFFICES ASSUME WlInv, WlReload PROVE WlInv'
  OBVIOUS
<1>1. /\ SsdTypeOK /\ EraseInv /\ WlTypeOK /\ FtlTypeOK
      /\ BooksInv /\ QueuesInv /\ VictimsInv /\ WlSlotsInv /\ PgnumCovers
  BY DEF WlInv, WlTypeInv, SsdTypeOK
<1>2. /\ Reload /\ CommonStep /\ ReloadRcmTarget
      /\ UNCHANGED <<wl_openpg, attr, rcm_count, dst>>
  BY DEF WlReload, Reload, CommonStep
<1>3. SsdTypeOK' /\ EraseInv' /\ BooksInv' /\ QueuesInv' /\ VictimsInv'
  BY <1>1, <1>2, CommonType, CommonBooks, ReloadQueues, ReloadVictimQueues
<1>4. PICK target \in PG :
        /\ target = Last(close_pg_que) /\ pg_list[target].status = "CLOSE"
        /\ \A pg \in PG : pg_list'[pg].status = IF pg = target THEN "RCM" ELSE pg_list[pg].status
  BY <1>1, <1>2, ReloadTarget, Zenon
<1>5. /\ attr \in [PG -> Attr] /\ pgnum \in [Attr -> Int] /\ victim_vs \in [Attr -> Int]
      /\ \A a \in Attr : wl_openpg[a] \in PG \cup {NoPG}
      /\ pg_list[target].vs_num \in Int /\ attr[target] \in Attr
  <2>1. /\ attr \in [PG -> Attr] /\ pgnum \in [Attr -> Int] /\ victim_vs \in [Attr -> Int]
        /\ \A a \in Attr : wl_openpg[a] \in PG \cup {NoPG}
    BY <1>1 DEF WlTypeOK
  <2>2. pg_list[target] \in PG_Info
    BY <1>1 DEF FtlTypeOK
  <2>3. pg_list[target].vs_num \in Int
    BY <2>2 DEF PG_Info
  <2>. QED BY <2>1, <2>3
<1>6. \/ UNCHANGED <<victim_vs, pgnum>> /\ pc' = "failed"
      \/ /\ victim_vs' = [victim_vs EXCEPT ![attr[target]] = pg_list[target].vs_num]
         /\ pgnum' = [pgnum EXCEPT ![attr[target]] = @ - 1]
  BY <1>4 DEF WlReload
<1>7. WlTypeOK'
  <2>1. victim_vs' \in [Attr -> Int] /\ pgnum' \in [Attr -> Int]
    BY <1>5, <1>6
  <2>. QED BY <1>1, <1>2, <2>1 DEF WlTypeOK
<1>8. pc # "failed" /\ pc' # "update"
  BY <1>2, CommonPoints
<1>9. WlSlotsInv'
  <2>1. /\ \A a \in Attr : wl_openpg[a] # NoPG =>
             /\ wl_openpg[a] \in PG /\ pg_list[wl_openpg[a]].status = "OPEN"
             /\ attr[wl_openpg[a]] = a
        /\ \A pg \in PG : pg_list[pg].status = "OPEN" => wl_openpg[attr[pg]] = pg
    BY <1>1, <1>5, <1>8 DEF WlSlotsInv
  <2>2. \A pg \in PG : pg_list'[pg].status = "OPEN" <=> pg_list[pg].status = "OPEN"
    BY <1>4
  <2>. QED BY <1>2, <1>8, <2>1, <2>2 DEF WlSlotsInv
<1>10. PgnumCovers'
  <2>1. CASE pc' = "failed"
    BY <2>1 DEF PgnumCovers
  <2>2. CASE pc' # "failed"
    <3>1. \A a \in Attr : PgsOf(a)' = PgsOf(a) \ (IF a = attr[target] THEN {target} ELSE {})
      BY <1>2, <1>4, <1>5 DEF PgsOf
    <3>2. target \in PgsOf(attr[target])
      BY <1>4 DEF PgsOf
    <3>. SUFFICES ASSUME NEW a \in Attr PROVE pgnum'[a] >= Cardinality(PgsOf(a)')
      BY DEF PgnumCovers
    <3>3. pgnum[a] \in Int /\ pgnum[a] >= Cardinality(PgsOf(a)) /\ Cardinality(PgsOf(a)) \in Nat
      BY <1>1, <1>5, <1>8, PgsOfFinite DEF PgnumCovers
    <3>4. Cardinality(PgsOf(a)') = Cardinality(PgsOf(a)) - (IF a = attr[target] THEN 1 ELSE 0)
      <4>1. CASE a = attr[target]
        BY <3>1, <3>2, <4>1, PgsOfFinite, FS_RemoveElement
      <4>2. CASE a # attr[target]
        <5>1. PgsOf(a)' = PgsOf(a)
          BY <3>1, <4>2
        <5>. QED BY <3>3, <4>2, <5>1
      <4>. QED BY <4>1, <4>2
    <3>5. pgnum'[a] = pgnum[a] - (IF a = attr[target] THEN 1 ELSE 0)
      BY <1>5, <1>6, <2>2
    <3>. QED BY <3>3, <3>4, <3>5
  <2>. QED BY <2>1, <2>2
<1>. QED BY <1>3, <1>7, <1>9, <1>10 DEF WlInv, WlTypeInv

(* The count of copies stays below its modulus. *)
LEMMA CountedType ==
  ASSUME WlTypeOK, NEW type, NEW lpn \in LP
  PROVE  Counted(type, lpn) \in Nat
<1>1. rcm_count[lpn] + 1 \in Nat /\ RcmMod \in Nat \ {0}
  BY WlAssumption DEF WlTypeOK
<1>2. (rcm_count[lpn] + 1) % RcmMod \in Nat
  BY <1>1
<1>. QED BY <1>2 DEF Counted

\* GetOpenPG answers the PG in the slot of the attribute it has chosen.
LEMMA PresentKeeps == WlInv /\ (\E a \in Attr : WlGetOpenPG_Present(a)) => WlInv'
<1>. SUFFICES ASSUME WlInv, NEW a \in Attr, WlGetOpenPG_Present(a) PROVE WlInv'
  OBVIOUS
<1>1. /\ SsdTypeOK /\ EraseInv /\ WlTypeOK /\ FtlTypeOK
      /\ BooksInv /\ QueuesInv /\ VictimsInv /\ WlSlotsInv /\ PgnumCovers
  BY DEF WlInv, WlTypeInv, SsdTypeOK
<1>2. /\ pc = "open" /\ pc' = "update" /\ wl_openpg[a] # NoPG /\ dst' = wl_openpg[a]
      /\ rcm_count' = [rcm_count EXCEPT ![io.lpn] = Counted(io.type, io.lpn)]
      /\ UNCHANGED <<ftlVars, queueVars, io, fmt_lp, tgt_num, req_list, req_num, erase_left,
                     wl_openpg, attr, victim_vs, pgnum>>
  BY DEF WlGetOpenPG_Present, ftlVars
<1>3. SsdTypeOK' /\ EraseInv'
  BY <1>1, <1>2 DEF SsdTypeOK, FtlTypeOK, EraseInv, ftlVars, queueVars
<1>4. wl_openpg[a] \in PG
  BY <1>1, <1>2 DEF WlTypeOK
<1>5. WlTypeOK'
  <2>1. io.lpn \in LP
    BY <1>1 DEF SsdTypeOK
  <2>2. rcm_count' \in [LP -> Nat]
    BY <1>1, <1>2, <2>1, CountedType DEF WlTypeOK
  <2>. QED BY <1>1, <1>2, <1>4, <2>2 DEF WlTypeOK
<1>6. BooksInv'
  BY <1>1, <1>2, NothingMoves DEF ftlVars
<1>7. QueuesInv' /\ VictimsInv'
  BY <1>1, <1>2, NoStep DEF ftlVars, queueVars, VictimsInv
<1>8. WlSlotsInv'
  <2>1. pg_list' = pg_list
    BY <1>2 DEF ftlVars
  <2>. QED BY <1>1, <1>2, <1>4, <2>1 DEF WlSlotsInv
<1>9. PgnumCovers'
  <2>1. \A b \in Attr : PgsOf(b)' \subseteq PgsOf(b)
    BY <1>2 DEF PgsOf, ftlVars
  <2>. QED BY <1>1, <1>2, <2>1, CountsKept DEF WlTypeInv
<1>. QED BY <1>3, <1>5, <1>6, <1>7, <1>8, <1>9 DEF WlInv, WlTypeInv

\* A PG that is built is counted under the attribute whose empty slot it gets.
LEMMA BuildKeeps == WlInv /\ (\E a \in Attr : WlGetOpenPG_Build(a)) => WlInv'
<1>. SUFFICES ASSUME WlInv, NEW a \in Attr, WlGetOpenPG_Build(a) PROVE WlInv'
  OBVIOUS
<1>1. /\ SsdTypeOK /\ EraseInv /\ WlTypeOK /\ FtlTypeOK
      /\ BooksInv /\ QueuesInv /\ VictimsInv /\ WlSlotsInv /\ PgnumCovers
  BY DEF WlInv, WlTypeInv, SsdTypeOK
<1>2. /\ pc = "open" /\ wl_openpg[a] = NoPG
      /\ rcm_count' = [rcm_count EXCEPT ![io.lpn] = Counted(io.type, io.lpn)]
      /\ UNCHANGED <<io, fmt_lp, tgt_num, req_list, req_num, erase_left, victim_vs>>
      /\ pc' \in {"update", "failed"}
  BY DEF WlGetOpenPG_Build
<1>3. rcm_count' \in [LP -> Nat]
  <2>1. io.lpn \in LP
    BY <1>1 DEF SsdTypeOK
  <2>. QED BY <1>1, <1>2, <2>1, CountedType DEF WlTypeOK
<1>4. NoPG \notin PG
  BY NoPGAssumption DEF PG
<1>5. CASE free_pg_que = <<>>
  <2>1. /\ UNCHANGED <<ftlVars, queueVars>> /\ pc' = "failed"
        /\ UNCHANGED <<dst, wl_openpg, attr, pgnum>>
    BY <1>5 DEF WlGetOpenPG_Build, ftlVars
  <2>2. SsdTypeOK' /\ EraseInv'
    BY <1>1, <1>2, <2>1 DEF SsdTypeOK, FtlTypeOK, EraseInv, ftlVars, queueVars
  <2>3. WlTypeOK'
    BY <1>1, <1>2, <1>3, <2>1 DEF WlTypeOK
  <2>4. BooksInv'
    BY <1>1, <2>1, NothingMoves DEF ftlVars
  <2>5. QueuesInv' /\ VictimsInv'
    BY <1>1, <2>1, NoStep DEF ftlVars, queueVars, VictimsInv
  <2>6. WlSlotsInv' /\ PgnumCovers'
    <3>1. pg_list' = pg_list
      BY <2>1 DEF ftlVars
    <3>. QED BY <1>1, <2>1, <3>1 DEF WlSlotsInv, PgnumCovers
  <2>. QED BY <2>2, <2>3, <2>4, <2>5, <2>6 DEF WlInv, WlTypeInv
<1>6. CASE free_pg_que # <<>>
  <2>1. TakePG(io.type) /\ UNCHANGED openpg /\ io.type \in IoType
    BY <1>1, <1>6 DEF WlGetOpenPG_Build, SsdTypeOK
  <2>2. PICK first \in PG :
          /\ first = Head(free_pg_que) /\ pg_list[first].status = "FREE"
          /\ pg_list'[first].status = "OPEN"
          /\ pg_list'[first].vs_num = pg_list[first].vs_num
          /\ pg_list'[first].lp_num = pg_list[first].lp_num
          /\ pg_list'[first].next_ofs = pg_list[first].next_ofs
          /\ \A pg \in PG \ {first} : pg_list'[pg] = pg_list[pg]
          /\ UNCHANGED <<l2p_tbl, close_pg_que, rcm_pg_que, rcm_cmp_pg_que>>
    BY <1>1, <2>1, TakenPG
  <2>3. IF EnoughFreePB
        THEN /\ dst' = first /\ pc' = "update"
             /\ wl_openpg' = [wl_openpg EXCEPT ![a] = first]
             /\ attr' = [attr EXCEPT ![first] = a]
             /\ pgnum' = [pgnum EXCEPT ![a] = @ + 1]
        ELSE /\ pc' = "failed"
             /\ UNCHANGED <<dst, wl_openpg, attr, pgnum>>
    BY <1>6, <2>2 DEF WlGetOpenPG_Build
  <2>4. FtlTypeOK'
    BY <1>1, <2>1, TakePGType DEF FtlTypeOK, TakePG
  <2>5. SsdTypeOK' /\ EraseInv'
    BY <1>1, <1>2, <2>4 DEF SsdTypeOK, EraseInv
  <2>6. WlTypeOK'
    BY <1>1, <1>2, <1>3, <2>3 DEF WlTypeOK
  <2>7. BooksInv'
    <3>1. \A pg \in PG : /\ pg_list'[pg].lp_num = pg_list[pg].lp_num
                         /\ pg_list'[pg].vs_num = pg_list[pg].vs_num
                         /\ pg_list'[pg].next_ofs = pg_list[pg].next_ofs
                         /\ pg_list'[pg].status = "FREE" => pg_list[pg].status = "FREE"
      BY <2>2
    <3>. QED BY <1>1, <2>2, <3>1, NothingMoves
  <2>8. QueuesInv'
    BY <1>1, <2>1, OpenStep
  <2>9. VictimsInv'
    <3>1. \A pg \in PG : pg_list'[pg].status = "RCM" <=> pg_list[pg].status = "RCM"
      BY <2>2
    <3>. QED BY <1>1, <2>2, <3>1 DEF VictimsInv
  <2>10. \A b \in Attr : wl_openpg[b] # first
    BY <1>1, <1>4, <2>2 DEF WlSlotsInv
  <2>11. CASE ~EnoughFreePB
    <3>1. \A b \in Attr : wl_openpg[b] \in PG \cup {NoPG}
      BY <1>1 DEF WlTypeOK
    <3>2. WlSlotsInv'
      BY <1>1, <2>2, <2>3, <2>10, <2>11, <3>1 DEF WlSlotsInv
    <3>3. PgnumCovers'
      BY <2>3, <2>11 DEF PgnumCovers
    <3>. QED BY <2>5, <2>6, <2>7, <2>8, <2>9, <3>2, <3>3 DEF WlInv, WlTypeInv
  <2>12. CASE EnoughFreePB
    <3>1. /\ wl_openpg \in [Attr -> PG \cup {NoPG}] /\ attr \in [PG -> Attr]
          /\ pgnum \in [Attr -> Int]
      BY <1>1 DEF WlTypeOK
    <3>2. /\ wl_openpg'[a] = first /\ attr'[first] = a /\ pgnum'[a] = pgnum[a] + 1
          /\ \A b \in Attr \ {a} : wl_openpg'[b] = wl_openpg[b] /\ pgnum'[b] = pgnum[b]
          /\ \A pg \in PG \ {first} : attr'[pg] = attr[pg]
          /\ dst' = first /\ pc' = "update"
      BY <2>3, <2>12, <3>1
    <3>3. WlSlotsInv'
      <4>1. ASSUME NEW b \in Attr, wl_openpg'[b] # NoPG
            PROVE  pg_list'[wl_openpg'[b]].status = "OPEN" /\ attr'[wl_openpg'[b]] = b
        <5>1. CASE b = a
          BY <2>2, <3>2, <5>1
        <5>2. CASE b # a
          <6>1. wl_openpg'[b] = wl_openpg[b] /\ wl_openpg[b] \in PG \ {first}
            BY <2>10, <3>1, <3>2, <4>1, <5>2
          <6>2. pg_list[wl_openpg[b]].status = "OPEN" /\ attr[wl_openpg[b]] = b
            BY <1>1, <1>4, <6>1 DEF WlSlotsInv
          <6>. QED BY <2>2, <3>2, <6>1, <6>2
        <5>. QED BY <5>1, <5>2
      <4>2. ASSUME NEW pg \in PG, pg_list'[pg].status = "OPEN"
            PROVE  wl_openpg'[attr'[pg]] = pg
        <5>1. CASE pg = first
          BY <3>2, <5>1
        <5>2. CASE pg # first
          <6>1. pg_list'[pg] = pg_list[pg] /\ attr'[pg] = attr[pg] /\ attr[pg] \in Attr
            BY <2>2, <3>1, <3>2, <5>2
          <6>2. wl_openpg[attr[pg]] = pg
            BY <1>1, <1>2, <4>2, <6>1 DEF WlSlotsInv
          <6>3. attr[pg] # a
            BY <1>2, <1>4, <6>2
          <6>. QED BY <3>2, <6>1, <6>2, <6>3
        <5>. QED BY <5>1, <5>2
      <4>3. dst' \in PG /\ wl_openpg'[attr'[dst']] = dst'
        BY <3>2
      <4>. QED BY <4>1, <4>2, <4>3 DEF WlSlotsInv
    <3>4. PgnumCovers'
      <4>1. first \notin PgsOf(a)
        BY <2>2 DEF PgsOf
      <4>2. \A b \in Attr : PgsOf(b)' = IF b = a THEN PgsOf(b) \cup {first} ELSE PgsOf(b)
        <5>. SUFFICES ASSUME NEW b \in Attr, NEW pg \in PG
                      PROVE  pg \in PgsOf(b)' <=> pg \in PgsOf(b) \/ (b = a /\ pg = first)
          BY DEF PgsOf
        <5>1. CASE pg = first
          BY <2>2, <3>2, <5>1 DEF PgsOf
        <5>2. CASE pg # first
          BY <2>2, <3>2, <5>2 DEF PgsOf
        <5>. QED BY <5>1, <5>2
      <4>. SUFFICES ASSUME NEW b \in Attr PROVE pgnum'[b] >= Cardinality(PgsOf(b)')
        BY DEF PgnumCovers
      <4>3. pgnum[b] \in Int /\ pgnum[b] >= Cardinality(PgsOf(b)) /\ Cardinality(PgsOf(b)) \in Nat
        BY <1>1, <1>2, <3>1, PgsOfFinite DEF PgnumCovers
      <4>4. CASE b = a
        <5>1. Cardinality(PgsOf(a)') = Cardinality(PgsOf(a)) + 1
          BY <4>1, <4>2, PgsOfFinite, FS_AddElement
        <5>. QED BY <3>2, <4>3, <4>4, <5>1
      <4>5. CASE b # a
        <5>1. PgsOf(b)' = PgsOf(b)
          BY <4>2, <4>5
        <5>. QED BY <3>2, <4>3, <4>5, <5>1
      <4>. QED BY <4>4, <4>5
    <3>. QED BY <2>5, <2>6, <2>7, <2>8, <2>9, <3>3, <3>4 DEF WlInv, WlTypeInv
  <2>. QED BY <2>11, <2>12
<1>. QED BY <1>5, <1>6

\* L2P_Update is given an open PG, and OpenToClose finds it in its slot.
LEMMA WriteKeeps == WlInv /\ WlLpWrite => WlInv'
<1>. SUFFICES ASSUME WlInv, WlLpWrite PROVE WlInv'
  OBVIOUS
<1>1. /\ SsdTypeOK /\ EraseInv /\ WlTypeOK /\ FtlTypeOK
      /\ BooksInv /\ QueuesInv /\ VictimsInv /\ WlSlotsInv /\ PgnumCovers
  BY DEF WlInv, WlTypeInv, SsdTypeOK
<1>2. /\ pc = "update" /\ io' = NoIo /\ dst' = NoPG
      /\ UNCHANGED <<tgt_num, req_list, req_num, erase_left, rcm_count, victim_vs, pgnum>>
      /\ pc' \in {"failed", "format", "gc", "rewrite"}
  BY DEF WlLpWrite
<1>3. dst \in PG /\ wl_openpg[attr[dst]] = dst /\ NoPG \notin PG /\ io.lpn \in LP
  BY <1>1, <1>2, NoPGAssumption DEF WlSlotsInv, SsdTypeOK, PG
<1>4. /\ wl_openpg \in [Attr -> PG \cup {NoPG}] /\ attr \in [PG -> Attr]
      /\ pgnum \in [Attr -> Int]
  BY <1>1 DEF WlTypeOK
<1>5. io' \in [type : IoType, lpn : LP]
  BY <1>2, SizesAssumption DEF NoIo, IoType, LP
<1>6. fmt_lp' \in 0..LpNum
  <2>1. fmt_lp' = fmt_lp \/ (fmt_lp < LpNum /\ fmt_lp' = fmt_lp + 1)
    BY Zenon DEF WlLpWrite, Formatting
  <2>. QED BY <1>1, <2>1, SizesAssumption DEF SsdTypeOK
<1>7. EraseInv'
  BY <1>2 DEF EraseInv
<1>8. CASE L2P_UpdateError(io.lpn, SectsPerLp, dst)
  <2>1. UNCHANGED <<ftlVars, queueVars, fmt_lp, wl_openpg, attr>> /\ pc' = "failed"
    BY <1>8 DEF WlLpWrite, ftlVars
  <2>2. SsdTypeOK'
    BY <1>1, <1>2, <1>5, <2>1 DEF SsdTypeOK, FtlTypeOK, ftlVars, queueVars
  <2>3. WlTypeOK'
    BY <1>1, <1>2, <2>1 DEF WlTypeOK
  <2>4. BooksInv'
    BY <1>1, <2>1, NothingMoves DEF ftlVars
  <2>5. QueuesInv' /\ VictimsInv'
    BY <1>1, <2>1, NoStep DEF ftlVars, queueVars, VictimsInv
  <2>6. WlSlotsInv' /\ PgnumCovers'
    <3>1. pg_list' = pg_list
      BY <2>1 DEF ftlVars
    <3>. QED BY <1>1, <2>1, <3>1 DEF WlSlotsInv, PgnumCovers
  <2>. QED BY <1>7, <2>2, <2>3, <2>4, <2>5, <2>6 DEF WlInv, WlTypeInv
<1>9. CASE ~L2P_UpdateError(io.lpn, SectsPerLp, dst)
  <2>. DEFINE src   == l2p_tbl[io.lpn].pgn
              freed == Releases(io.lpn, dst)
              full  == Closes(io.lpn, dst)
  <2>1. /\ L2P_Update(io.lpn, SectsPerLp, dst, FALSE)
        /\ wl_openpg' = IF full THEN [wl_openpg EXCEPT ![attr[dst]] = NoPG] ELSE wl_openpg
        /\ attr' = [pg \in PG |-> IF pg_list'[pg].status = "FREE" THEN 0 ELSE attr[pg]]
    BY <1>9 DEF WlLpWrite, Closes, Fills, Grown, PadOf
  <2>2. FtlTypeOK'
    BY <1>1, <1>3, <1>9, <2>1, SizesAssumption, L2P_UpdateType
  <2>3. SsdTypeOK'
    BY <1>1, <1>2, <1>5, <1>6, <2>2 DEF SsdTypeOK
  <2>4. BooksInv' /\ VictimsInv' /\ QueuesInv'
    BY <1>1, <1>3, <1>9, <2>1, UpdateBooks, UpdateVictimQueues, StatusAfterUpdate
  <2>5. \A pg \in PG : pg_list'[pg].status =
          IF freed /\ pg = src THEN "FREE"
          ELSE IF pg = dst THEN IF full THEN "CLOSE" ELSE "OPEN"
          ELSE pg_list[pg].status
    BY <1>1, <1>3, <1>9, <2>1, StatusAfterUpdate
  <2>6. pg_list[dst].status = "OPEN" /\ (freed => src # dst /\ pg_list[src].status # "OPEN")
    BY <1>9 DEF L2P_UpdateError, Releases
  <2>. HIDE DEF src, freed, full
  <2>7. WlTypeOK'
    <3>1. attr' \in [PG -> Attr]
      BY <1>4, <2>1, WlAssumption DEF Attr
    <3>2. wl_openpg' \in [Attr -> PG \cup {NoPG}]
      BY <1>4, <2>1
    <3>. QED BY <1>1, <1>2, <3>1, <3>2 DEF WlTypeOK
  <2>8. WlSlotsInv'
    <3>1. attr[dst] \in Attr
      BY <1>3, <1>4
    <3>2. /\ full => wl_openpg'[attr[dst]] = NoPG
          /\ ~full => wl_openpg' = wl_openpg
          /\ \A a \in Attr : a # attr[dst] => wl_openpg'[a] = wl_openpg[a]
      BY <1>4, <2>1, <3>1
    <3>3. ASSUME NEW a \in Attr, wl_openpg'[a] # NoPG
          PROVE  pg_list'[wl_openpg'[a]].status = "OPEN" /\ attr'[wl_openpg'[a]] = a
      <4>1. wl_openpg'[a] = wl_openpg[a] /\ (full => a # attr[dst])
        BY <3>2, <3>3
      <4>2. PICK pg \in PG : pg = wl_openpg[a]
        BY <1>4, <3>3, <4>1
      <4>3. pg_list[pg].status = "OPEN" /\ attr[pg] = a
        BY <1>1, <3>3, <4>1, <4>2 DEF WlSlotsInv
      <4>4. pg_list'[pg].status = "OPEN"
        BY <2>5, <2>6, <4>1, <4>3
      <4>. QED BY <2>1, <4>1, <4>2, <4>3, <4>4
    <3>4. ASSUME NEW pg \in PG, pg_list'[pg].status = "OPEN"
          PROVE  wl_openpg'[attr'[pg]] = pg
      <4>1. pg_list[pg].status = "OPEN" /\ (pg = dst => ~full)
        BY <2>5, <2>6, <3>4
      <4>2. attr'[pg] = attr[pg] /\ attr[pg] \in Attr
        BY <1>4, <2>1, <3>4
      <4>3. wl_openpg[attr[pg]] = pg
        BY <1>1, <1>2, <4>1 DEF WlSlotsInv
      <4>4. full => attr[pg] # attr[dst]
        BY <1>3, <4>1, <4>3
      <4>. QED BY <3>2, <4>2, <4>3, <4>4
    <3>. QED BY <1>2, <3>3, <3>4 DEF WlSlotsInv
  <2>9. PgnumCovers'
    <3>1. \A a \in Attr : PgsOf(a)' \subseteq PgsOf(a)
      <4>. SUFFICES ASSUME NEW a \in Attr, NEW pg \in PG, pg \in PgsOf(a)'
                    PROVE  pg \in PgsOf(a)
        BY DEF PgsOf
      <4>1. pg_list'[pg].status \in {"OPEN", "CLOSE"} /\ attr'[pg] = a
        BY DEF PgsOf
      <4>2. attr[pg] = a
        BY <2>1, <4>1
      <4>3. pg_list[pg].status \in {"OPEN", "CLOSE"}
        BY <2>5, <2>6, <4>1
      <4>. QED BY <4>2, <4>3 DEF PgsOf
    <3>. QED BY <1>1, <1>2, <3>1, CountsKept DEF WlTypeInv
  <2>. QED BY <1>7, <2>3, <2>4, <2>7, <2>8, <2>9 DEF WlInv, WlTypeInv
<1>. QED BY <1>8, <1>9

(* Every state reached by the wear-levelling layer keeps the invariant. *)
LEMMA WlCorrect == WlSpec => []WlInv
<1>1. WlInv /\ [WlNext]_wlVars => WlInv'
  <2>. SUFFICES ASSUME WlInv, [WlNext]_wlVars PROVE WlInv'
    OBVIOUS
  <2>1. CASE WlNext
    BY <2>1, InheritedKeeps, PresentKeeps, BuildKeeps, WriteKeeps, ReloadKeeps DEF WlNext
  <2>2. CASE UNCHANGED wlVars
    <3>1. UNCHANGED <<l2p_tbl, pg_list, openpg, free_pg_que, close_pg_que, rcm_pg_que,
                      rcm_cmp_pg_que, total_free, total_invalid, pc, io, fmt_lp, tgt_num,
                      req_list, req_num, erase_left, wl_openpg, attr, rcm_count, victim_vs,
                      pgnum, dst>>
      BY <2>2 DEF wlVars, vars, ftlVars, queueVars, ctlVars, wfVars
    <3>2. WlTypeInv'
      BY <3>1 DEF WlInv, WlTypeInv, SsdTypeOK, FtlTypeOK, EraseInv, WlTypeOK
    <3>3. BooksInv'
      BY <3>1, NothingMoves DEF WlInv, WlTypeInv, SsdTypeOK
    <3>4. QueuesInv' /\ VictimsInv'
      BY <3>1, NoStep DEF WlInv, VictimsInv
    <3>5. WlSlotsInv' /\ PgnumCovers'
      BY <3>1 DEF WlInv, WlSlotsInv, PgnumCovers, PgsOf
    <3>. QED BY <3>2, <3>3, <3>4, <3>5 DEF WlInv
  <2>. QED BY <2>1, <2>2
<1>. QED BY <1>1, InitWl, PTL DEF WlSpec

-----------------------------------------------------------------------------
(* What an element of two queues in a row is an element of. *)
LEMMA ContainsConcat ==
  ASSUME NEW S, NEW s \in Seq(S), NEW t \in Seq(S), NEW e
  PROVE  /\ s \o t \in Seq(S)
         /\ Contains(s \o t, e) => Contains(s, e) \/ Contains(t, e)
<1>1. /\ s \o t \in Seq(S) /\ Len(s \o t) = Len(s) + Len(t)
      /\ \A i \in 1..Len(s) + Len(t) :
           (s \o t)[i] = IF i <= Len(s) THEN s[i] ELSE t[i - Len(s)]
  BY ConcatProperties
<1>2. Len(s) \in Nat /\ Len(t) \in Nat
  BY LenProperties
<1>3. ASSUME NEW i \in 1..Len(s) + Len(t), (s \o t)[i] = e
      PROVE  Contains(s, e) \/ Contains(t, e)
  <2>1. CASE i <= Len(s)
    BY <1>1, <1>2, <1>3, <2>1 DEF Contains
  <2>2. CASE i > Len(s)
    <3>1. i - Len(s) \in 1..Len(t) /\ t[i - Len(s)] = e
      BY <1>1, <1>2, <1>3, <2>2
    <3>. QED BY <3>1 DEF Contains
  <2>. QED BY <1>2, <2>1, <2>2
<1>. QED BY <1>1, <1>3 DEF Contains

\* On every device with wear-levelling, whatever the policy, OpenToClose empties
\* the slot the full PG is in: a PG is open exactly in the slot of the attribute
\* it was given, and in no queue.
THEOREM SlotsMatch == WlSpec => []SlotMatchesAttr
<1>1. WlInv => SlotMatchesAttr
  <2>. SUFFICES ASSUME WlInv PROVE SlotMatchesAttr
    OBVIOUS
  <2>1. FtlTypeOK /\ WlTypeOK /\ QueuesInv /\ VictimsInv /\ WlSlotsInv
    BY DEF WlInv, WlTypeInv, SsdTypeOK
  <2>2. ASSUME NEW pg \in PG, pg_list[pg].status = "OPEN"
        PROVE  ~Contains(free_pg_que \o close_pg_que \o rcm_pg_que \o rcm_cmp_pg_que, pg)
    <3>1. /\ ~Contains(free_pg_que, pg) /\ ~Contains(close_pg_que, pg)
          /\ ~Contains(rcm_pg_que, pg) /\ ~Contains(rcm_cmp_pg_que, pg)
      BY <2>1, <2>2 DEF QueuesInv, QueuedAs, VictimsInv
    <3>2. /\ free_pg_que \in Seq(PG) /\ close_pg_que \in Seq(PG)
          /\ rcm_pg_que \in Seq(PG) /\ rcm_cmp_pg_que \in Seq(PG)
      BY <2>1 DEF FtlTypeOK
    <3>. DEFINE two   == free_pg_que \o close_pg_que
                three == two \o rcm_pg_que
    <3>3. two \in Seq(PG) /\ ~Contains(two, pg)
      BY <3>1, <3>2, ContainsConcat
    <3>. HIDE DEF two
    <3>4. three \in Seq(PG) /\ ~Contains(three, pg)
      BY <3>1, <3>2, <3>3, ContainsConcat
    <3>. HIDE DEF three
    <3>5. ~Contains(three \o rcm_cmp_pg_que, pg)
      BY <3>1, <3>2, <3>4, ContainsConcat
    <3>. QED BY <3>5 DEF three, two
  <2>3. \A a \in Attr : wl_openpg[a] # NoPG => wl_openpg[a] \in PG
    BY <2>1 DEF WlTypeOK
  <2>. QED BY <2>1, <2>2, <2>3 DEF SlotMatchesAttr, WlSlotsInv
<1>. QED BY <1>1, WlCorrect, PTL

\* On every device with wear-levelling, whatever the policy, an attribute counts
\* no fewer PGs than it has, and Dump divides by a sum of such counts.
THEOREM PgnumHolds == WlSpec => []PgnumCovers
<1>1. WlInv => PgnumCovers
  BY DEF WlInv
<1>. QED BY <1>1, WlCorrect, PTL

\* The wear-levelling layer keeps the books of FtlInterface, although another
\* slot, and another PG for the next copy, is chosen at every write: counters
\* agree with the map, no two pages share a sector and no free PG holds a page.
THEOREM WlBooksHold == WlSpec => [](Accounting /\ SectorsDisjoint /\ NoPageInFreePG)
<1>1. WlInv => Accounting /\ SectorsDisjoint /\ NoPageInFreePG
  BY DEF WlInv, BooksInv
<1>. QED BY <1>1, WlCorrect, PTL
=============================================================================
