----------------------------- MODULE PoolProofs -----------------------------
(***************************************************************************)
(* The pool of physical blocks, for every geometry, every number of blocks *)
(* and every length of the request list: PoolInv says what is in a queue,  *)
(* a PG and a request as sets of blocks, and all that the runs check       *)
(* follows from it.                                                        *)
(*                                                                         *)
(* The loops of BuildPG, CloseToInvalid and GetEraseReq are recursive      *)
(* functions of the model.  Numbers!Stages gives each of them its values,  *)
(* Numbers!UpTo carries what a turn keeps (TurnOK, SearchOK) to the last.  *)
(* The addresses are argued from the die upwards (Sized, PlacedBy), and    *)
(* counted by giving each lane an interval of numbers (LaneInterval).      *)
(***************************************************************************)
EXTENDS BlockPool, Numbers, FiniteSetTheorems, SequenceTheorems

\* The elements of a queue, and that it has none twice.
Elems(queue) == {queue[i] : i \in 1..Len(queue)}
Once(queue) == \A i, j \in 1..Len(queue) : queue[i] = queue[j] => i = j

\* A family of queues in which the blocks of S are, each once and in its lane.
LanesHold(que, S) ==
  /\ que \in [Lane -> Seq(PB)]
  /\ \A lane \in Lane : Once(que[lane]) /\ Elems(que[lane]) = {pb \in S : lane_of[pb] = lane}

-----------------------------------------------------------------------------
(* Queues *)

LEMMA HeadLeaves ==
  ASSUME NEW S, NEW s \in Seq(S), s # <<>>
  PROVE  /\ Len(s) \in Nat /\ Len(s) # 0 /\ Head(s) \in S /\ Head(s) \in Elems(s)
         /\ Tail(s) \in Seq(S) /\ Len(Tail(s)) = Len(s) - 1
         /\ Once(s) => Once(Tail(s)) /\ Elems(Tail(s)) = Elems(s) \ {Head(s)}
<1>. DEFINE n == Len(s)
<1>1. /\ n \in Nat /\ n # 0 /\ Tail(s) \in Seq(S) /\ Len(Tail(s)) = n - 1
      /\ \A i \in 1..(n - 1) : Tail(s)[i] = s[i + 1]
      /\ Head(s) = s[1] /\ \A i \in 1..n : s[i] \in S
  BY LenProperties, ElementOfSeq, EmptySeq, HeadTailProperties
<1>. HIDE DEF n
<1>2. 1 \in 1..n
  BY <1>1
<1>3. Head(s) \in S /\ Head(s) \in Elems(s)
  BY <1>1, <1>2 DEF Elems, n
<1>4. ASSUME Once(s)
      PROVE  Once(Tail(s)) /\ Elems(Tail(s)) = Elems(s) \ {Head(s)}
  <2>0. \A i, j \in 1..n : s[i] = s[j] => i = j
    BY <1>4 DEF Once, n
  <2>1. \A i \in 1..(n - 1) : i + 1 \in 1..n /\ i + 1 # 1
    BY <1>1
  <2>2. \A i \in 1..n : i # 1 => i - 1 \in 1..(n - 1) /\ (i - 1) + 1 = i
    BY <1>1
  <2>3. \A i, j \in 1..(n - 1) : i + 1 = j + 1 => i = j
    BY <1>1
  <2>4. Once(Tail(s))
    BY <1>1, <2>0, <2>1, <2>3 DEF Once
  <2>5. ASSUME NEW e \in Elems(Tail(s)) PROVE e \in Elems(s) /\ e # Head(s)
    <3>1. PICK i \in 1..(n - 1) : e = s[i + 1]
      BY <1>1 DEF Elems
    <3>2. i + 1 \in 1..n /\ i + 1 # 1
      BY <2>1
    <3>. QED BY <1>1, <1>2, <2>0, <3>1, <3>2 DEF Elems, n
  <2>6. ASSUME NEW e \in Elems(s), e # Head(s) PROVE e \in Elems(Tail(s))
    <3>1. PICK i \in 1..n : e = s[i]
      BY DEF Elems, n
    <3>2. i - 1 \in 1..(n - 1) /\ e = Tail(s)[i - 1]
      BY <1>1, <2>2, <2>6, <3>1
    <3>. QED BY <1>1, <3>2 DEF Elems
  <2>. QED BY <2>4, <2>5, <2>6
<1>. QED BY <1>1, <1>3, <1>4 DEF n

LEMMA LastJoins ==
  ASSUME NEW S, NEW s \in Seq(S), NEW e \in S
  PROVE  /\ Append(s, e) \in Seq(S) /\ Len(Append(s, e)) = Len(s) + 1 /\ Len(s) \in Nat
         /\ \A i \in 1..Len(s) : Append(s, e)[i] = s[i] /\ Append(s, e)[Len(s) + 1] = e
         /\ Append(s, e)[Len(s) + 1] = e
         /\ Elems(Append(s, e)) = Elems(s) \cup {e}
         /\ Once(s) /\ e \notin Elems(s) => Once(Append(s, e))
<1>. DEFINE n == Len(s)
            t == Append(s, e)
<1>1. /\ n \in Nat /\ t \in Seq(S) /\ Len(t) = n + 1 /\ t[n + 1] = e
      /\ \A i \in 1..n : t[i] = s[i]
  BY LenProperties, AppendProperties
<1>. HIDE DEF n, t
<1>2. \A i \in 1..(n + 1) : i \in 1..n \/ i = n + 1
  BY <1>1
<1>3. \A i \in 1..n : i \in 1..(n + 1) /\ i # n + 1
  BY <1>1
<1>4. n + 1 \in 1..(n + 1)
  BY <1>1
<1>5. Elems(t) = Elems(s) \cup {e}
  BY <1>1, <1>2, <1>3, <1>4 DEF Elems, n
<1>6. Once(s) /\ e \notin Elems(s) => Once(t)
  BY <1>1, <1>2, <1>3 DEF Elems, Once, n
<1>. QED BY <1>1, <1>5, <1>6 DEF n, t

\* A function that is onto and takes no value twice.
LEMMA OneToOne ==
  ASSUME NEW A, NEW B, IsFiniteSet(B), NEW f \in [A -> B],
         \A x, y \in A : f[x] = f[y] => x = y,
         \A b \in B : \E x \in A : f[x] = b
  PROVE  IsFiniteSet(A) /\ Cardinality(A) = Cardinality(B)
<1>1. f \in Injection(A, B) /\ f \in Surjection(A, B)
  BY DEF Injection, IsInjective, Surjection
<1>2. IsFiniteSet(A)
  BY <1>1, FS_Injection
<1>. QED BY <1>1, <1>2, FS_Surjection

\* How often a queue without repetition has an element.
LEMMA TimesOnce ==
  ASSUME NEW S, NEW s \in Seq(S), Once(s), NEW e
  PROVE  Times(e, s) = IF e \in Elems(s) THEN 1 ELSE 0
<1>1. DOMAIN s = 1..Len(s)
  BY LenProperties
<1>2. CASE e \in Elems(s)
  <2>1. PICK i \in 1..Len(s) : s[i] = e
    BY <1>2 DEF Elems
  <2>2. {k \in DOMAIN s : s[k] = e} = {i}
    BY <1>1, <2>1 DEF Once
  <2>. QED BY <1>2, <2>2, FS_Singleton DEF Times
<1>3. CASE e \notin Elems(s)
  <2>1. {k \in DOMAIN s : s[k] = e} = {}
    BY <1>1, <1>3 DEF Elems
  <2>. QED BY <1>3, <2>1, FS_EmptySet DEF Times
<1>. QED BY <1>2, <1>3

-----------------------------------------------------------------------------
(* Lanes *)

\* A block leaves its lane.
LEMMA LaneGives ==
  ASSUME NEW que, NEW S, S \subseteq PB, LanesHold(que, S), NEW lane \in Lane, que[lane] # <<>>
  PROVE  /\ Head(que[lane]) \in S /\ lane_of[Head(que[lane])] = lane
         /\ LanesHold([que EXCEPT ![lane] = Tail(@)], S \ {Head(que[lane])})
<1>. DEFINE h == Head(que[lane])
            new == [que EXCEPT ![lane] = Tail(@)]
<1>1. que \in [Lane -> Seq(PB)]
      /\ \A x \in Lane : Once(que[x]) /\ Elems(que[x]) = {pb \in S : lane_of[pb] = x}
  BY DEF LanesHold
<1>2. que[lane] \in Seq(PB)
  BY <1>1
<1>3. h \in Elems(que[lane]) /\ Tail(que[lane]) \in Seq(PB)
      /\ Once(Tail(que[lane])) /\ Elems(Tail(que[lane])) = Elems(que[lane]) \ {h}
  BY <1>1, <1>2, HeadLeaves
<1>. HIDE DEF h
<1>4. h \in S /\ lane_of[h] = lane
  BY <1>1, <1>3
<1>5. new \in [Lane -> Seq(PB)] /\ \A x \in Lane : new[x] = IF x = lane THEN Tail(que[lane]) ELSE que[x]
  BY <1>1, <1>3
<1>. HIDE DEF new
<1>6. ASSUME NEW x \in Lane
      PROVE  Once(new[x]) /\ Elems(new[x]) = {pb \in S \ {h} : lane_of[pb] = x}
  <2>1. CASE x = lane
    BY <1>1, <1>3, <1>5, <2>1
  <2>2. CASE x # lane
    <3>1. new[x] = que[x] /\ Once(que[x]) /\ Elems(que[x]) = {pb \in S : lane_of[pb] = x}
      BY <1>1, <1>5, <2>2
    <3>2. {pb \in S : lane_of[pb] = x} = {pb \in S \ {h} : lane_of[pb] = x}
      BY <1>4, <2>2
    <3>. QED BY <3>1, <3>2
  <2>. QED BY <2>1, <2>2
<1>7. LanesHold(new, S \ {h})
  BY <1>5, <1>6 DEF LanesHold
<1>. QED BY <1>4, <1>7 DEF h, new

\* A block queues in its lane.
LEMMA LaneTakes ==
  ASSUME lane_of \in [PB -> Lane],
         NEW que, NEW S, S \subseteq PB, LanesHold(que, S), NEW pb \in PB \ S
  PROVE  LanesHold(PushBack(que, pb), S \cup {pb})
<1>. DEFINE lane == lane_of[pb]
            new == PushBack(que, pb)
<1>1. que \in [Lane -> Seq(PB)] /\ lane \in Lane
      /\ \A x \in Lane : Once(que[x]) /\ Elems(que[x]) = {b \in S : lane_of[b] = x}
  BY DEF LanesHold
<1>2. que[lane] \in Seq(PB)
  BY <1>1
<1>3. pb \notin Elems(que[lane])
  BY <1>1
<1>4. Append(que[lane], pb) \in Seq(PB) /\ Once(Append(que[lane], pb))
      /\ Elems(Append(que[lane], pb)) = Elems(que[lane]) \cup {pb}
  BY <1>1, <1>2, <1>3, LastJoins
<1>5. new \in [Lane -> Seq(PB)]
      /\ \A x \in Lane : new[x] = IF x = lane THEN Append(que[lane], pb) ELSE que[x]
  BY <1>1, <1>4 DEF PushBack
<1>. HIDE DEF new
<1>6. ASSUME NEW x \in Lane
      PROVE  Once(new[x]) /\ Elems(new[x]) = {b \in S \cup {pb} : lane_of[b] = x}
  <2>1. CASE x = lane
    BY <1>1, <1>4, <1>5, <2>1
  <2>2. CASE x # lane
    <3>1. new[x] = que[x] /\ Once(que[x]) /\ Elems(que[x]) = {b \in S : lane_of[b] = x}
      BY <1>1, <1>5, <2>2
    <3>2. {b \in S : lane_of[b] = x} = {b \in S \cup {pb} : lane_of[b] = x}
      BY <2>2
    <3>. QED BY <3>1, <3>2
  <2>. QED BY <2>1, <2>2
<1>7. LanesHold(new, S \cup {pb})
  BY <1>5, <1>6 DEF LanesHold
<1>. QED BY <1>7 DEF new

\* The lanes are empty when there are no blocks, and only then.
LEMMA LanesEmpty ==
  ASSUME lane_of \in [PB -> Lane], NEW que, NEW S, S \subseteq PB, LanesHold(que, S)
  PROVE  /\ (\A lane \in Lane : que[lane] = <<>>) <=> S = {}
         /\ \A lane \in Lane : que[lane] # <<>> => S # {}
<1>1. \A lane \in Lane : que[lane] \in Seq(PB) /\ Elems(que[lane]) = {pb \in S : lane_of[pb] = lane}
  BY DEF LanesHold
<1>2. ASSUME NEW lane \in Lane, que[lane] # <<>> PROVE S # {}
  <2>1. Head(que[lane]) \in Elems(que[lane])
    BY <1>1, <1>2, HeadLeaves
  <2>. QED BY <1>1, <2>1
<1>3. ASSUME NEW pb \in S PROVE \E lane \in Lane : que[lane] # <<>>
  <2>1. lane_of[pb] \in Lane /\ pb \in Elems(que[lane_of[pb]])
    BY <1>1
  <2>2. que[lane_of[pb]] # <<>>
    BY <2>1, EmptySeq DEF Elems
  <2>. QED BY <2>1, <2>2
<1>. QED BY <1>2, <1>3

\* The places in the lanes are as many as the blocks.
LEMMA LanesCount ==
  ASSUME lane_of \in [PB -> Lane], IsFiniteSet(PB), NEW que, NEW S, S \subseteq PB, LanesHold(que, S)
  PROVE  Cardinality(Places(que)) = Cardinality(S)
<1>. DEFINE P == Places(que)
            f == [at \in P |-> que[at[1]][at[2]]]
<1>1. que \in [Lane -> Seq(PB)]
      /\ \A x \in Lane : Once(que[x]) /\ Elems(que[x]) = {pb \in S : lane_of[pb] = x}
  BY DEF LanesHold
<1>2. \A x \in Lane : DOMAIN que[x] = 1..Len(que[x])
  BY <1>1, LenProperties
<1>3. \A at \in P : at[1] \in Lane /\ at[2] \in 1..Len(que[at[1]]) /\ at = <<at[1], at[2]>>
  BY <1>1, <1>2 DEF Places
<1>4. \A x \in Lane : \A i \in 1..Len(que[x]) : <<x, i>> \in P
  BY <1>1, <1>2 DEF Places
<1>. HIDE DEF P
<1>5. \A at \in P : f[at] \in S /\ lane_of[f[at]] = at[1]
  BY <1>1, <1>3 DEF Elems
<1>6. ASSUME NEW at \in P, NEW to \in P, f[at] = f[to] PROVE at = to
  <2>1. at[1] = to[1]
    BY <1>5, <1>6
  <2>2. que[at[1]][at[2]] = que[at[1]][to[2]]
    BY <1>6, <2>1
  <2>3. at[2] = to[2]
    BY <1>1, <1>3, <2>1, <2>2 DEF Once
  <2>. QED BY <1>3, <2>1, <2>3
<1>7. ASSUME NEW pb \in S PROVE \E at \in P : f[at] = pb
  <2>1. lane_of[pb] \in Lane /\ pb \in Elems(que[lane_of[pb]])
    BY <1>1
  <2>2. PICK i \in 1..Len(que[lane_of[pb]]) : que[lane_of[pb]][i] = pb
    BY <2>1 DEF Elems
  <2>3. <<lane_of[pb], i>> \in P
    BY <1>4, <2>1, <2>2
  <2>. QED BY <2>2, <2>3
<1>8. f \in [P -> S]
  BY <1>5
<1>9. IsFiniteSet(S)
  BY FS_Subset
<1>. HIDE DEF f
<1>. QED BY <1>6, <1>7, <1>8, <1>9, OneToOne DEF P

\* Blocks queue one after the other.
Pushes(que, pbs, f) ==
  [n \in 0..Len(pbs) |-> IF n = 0 THEN que ELSE PushBack(f[n - 1], pbs[n])]

LEMMA LanesTake ==
  ASSUME lane_of \in [PB -> Lane],
         NEW que, NEW S, S \subseteq PB, LanesHold(que, S),
         NEW pbs \in Seq(PB), Once(pbs), Elems(pbs) \cap S = {}
  PROVE  LanesHold(PushAll(que, pbs), S \cup Elems(pbs))
<1>. DEFINE N == Len(pbs)
            f == CHOOSE f : f = Pushes(que, pbs, f)
            T == [Lane -> Seq(PB)]
            G == [n \in 1..N |-> [q \in T |-> PushBack(q, pbs[n])]]
            FirstOf(n) == {pbs[i] : i \in 1..n}
            Q == {n \in 0..N : LanesHold(f[n], S \cup FirstOf(n))}
<1>1. PushAll(que, pbs) = f[N]
  BY DEF PushAll, Pushes
<1>2. N \in Nat /\ (\A n \in 1..N : pbs[n] \in PB) /\ que \in T
  BY LenProperties, ElementOfSeq DEF LanesHold
<1>. HIDE DEF N
<1>3. StayIn(T, N, G)
  <2>1. ASSUME NEW n \in 1..N, NEW q \in T PROVE PushBack(q, pbs[n]) \in T
    <3>1. lane_of[pbs[n]] \in Lane /\ q[lane_of[pbs[n]]] \in Seq(PB) /\ pbs[n] \in PB
      BY <1>2
    <3>2. Append(q[lane_of[pbs[n]]], pbs[n]) \in Seq(PB)
      BY <3>1, LastJoins
    <3>. QED BY <3>1, <3>2 DEF PushBack
  <2>. HIDE DEF T, PushBack
  <2>. QED BY <2>1 DEF StayIn
<1>4. f = Pushes(que, pbs, f)
  <2>1. PICK g \in [0..N -> T] : g = [n \in 0..N |-> IF n = 0 THEN que ELSE G[n][g[n - 1]]]
    <3>. HIDE DEF G, T
    <3>1. N \in Nat /\ que \in T
      BY <1>2
    <3>2. \E g \in [0..N -> T] : GoesThrough(que, N, G, g)
      BY <1>3, <3>1, Stages, Zenon
    <3>. QED BY <3>2 DEF GoesThrough
  <2>2. ASSUME NEW n \in 0..N
        PROVE  (IF n = 0 THEN que ELSE G[n][g[n - 1]]) = IF n = 0 THEN que ELSE PushBack(g[n - 1], pbs[n])
    <3>1. n # 0 => n \in 1..N /\ n - 1 \in 0..N
      BY <1>2, <2>2
    <3>2. n # 0 => g[n - 1] \in T
      BY <2>1, <3>1
    <3>. HIDE DEF T
    <3>. QED BY <3>1, <3>2
  <2>3. [n \in 0..N |-> IF n = 0 THEN que ELSE G[n][g[n - 1]]] = Pushes(que, pbs, g)
    <3>. HIDE DEF G
    <3>. QED BY <2>2 DEF Pushes, N
  <2>4. g = Pushes(que, pbs, g)
    BY <2>1, <2>3
  <2>. QED BY <2>4
<1>. HIDE DEF f, G, T
<1>5. \A n \in 0..N : f[n] = IF n = 0 THEN que ELSE PushBack(f[n - 1], pbs[n])
  <2>. DEFINE h == Pushes(que, pbs, f)
  <2>1. \A n \in 0..N : h[n] = IF n = 0 THEN que ELSE PushBack(f[n - 1], pbs[n])
    BY DEF Pushes, N
  <2>. HIDE DEF h
  <2>2. f = h
    BY <1>4 DEF h
  <2>. QED BY <2>1, <2>2
<1>6. 0 \in Q
  <2>1. FirstOf(0) = {} /\ 0 \in 0..N /\ S \cup {} = S
    BY <1>2
  <2>2. f[0] = que
    BY <1>5, <2>1
  <2>. HIDE DEF FirstOf
  <2>3. S \cup FirstOf(0) = S
    BY <2>1
  <2>. QED BY <2>1, <2>2, <2>3
<1>7. ASSUME NEW n \in 1..N, n - 1 \in Q PROVE n \in Q
  <2>1. n \in 0..N /\ n - 1 \in 0..N /\ n # 0 /\ pbs[n] \in PB
    BY <1>2, <1>7
  <2>2. f[n] = PushBack(f[n - 1], pbs[n])
    BY <1>5, <2>1
  <2>3. FirstOf(n) = FirstOf(n - 1) \cup {pbs[n]}
    <3>1. \A i \in 1..n : i \in 1..(n - 1) \/ i = n
      OBVIOUS
    <3>2. \A i \in 1..(n - 1) : i \in 1..n
      OBVIOUS
    <3>3. n \in 1..n
      OBVIOUS
    <3>. QED BY <3>1, <3>2, <3>3
  <2>4. pbs[n] \notin FirstOf(n - 1)
    <3>1. \A i \in 1..(n - 1) : i \in 1..N /\ i # n
      BY <1>2
    <3>. QED BY <3>1 DEF Once, N
  <2>5. FirstOf(n - 1) \subseteq PB /\ pbs[n] \notin S
    <3>1. \A i \in 1..(n - 1) : i \in 1..N
      BY <1>2
    <3>. QED BY <1>2, <3>1 DEF Elems, N
  <2>. HIDE DEF FirstOf
  <2>6. S \cup FirstOf(n - 1) \subseteq PB /\ pbs[n] \in PB \ (S \cup FirstOf(n - 1))
    BY <2>1, <2>4, <2>5
  <2>7. LanesHold(f[n - 1], S \cup FirstOf(n - 1))
    BY <1>7
  <2>8. LanesHold(f[n], (S \cup FirstOf(n - 1)) \cup {pbs[n]})
    BY <2>2, <2>6, <2>7, LaneTakes
  <2>9. (S \cup FirstOf(n - 1)) \cup {pbs[n]} = S \cup FirstOf(n)
    BY <2>3
  <2>. QED BY <2>1, <2>8, <2>9
<1>8. N \in Q
  <2>. HIDE DEF Q
  <2>1. 0..N \subseteq Q
    BY <1>2, <1>6, <1>7, UpTo
  <2>. QED BY <1>2, <2>1
<1>9. FirstOf(N) = Elems(pbs)
  BY DEF Elems, N
<1>. QED BY <1>1, <1>8, <1>9

-----------------------------------------------------------------------------
(* Geometry *)

LEMMA Below ==
  ASSUME NEW b \in Nat, NEW n \in Nat, NEW q \in Nat, NEW a \in Nat, b * q <= a, a < b * n
  PROVE  q < n
<1>1. PICK bq \in Nat : bq = b * q
  BY Multiples
<1>2. PICK bn \in Nat : bn = b * n
  BY Multiples
<1>3. n < q => bn + b <= bq
  BY <1>1, <1>2, NextMultiple
<1>4. n = q => bn = bq
  BY <1>1, <1>2
<1>5. bq <= a /\ a < bn
  BY <1>1, <1>2
<1>. QED BY <1>3, <1>4, <1>5

\* A number taken apart twice, p * (m * u + v) + e.
Regrouped(p, m, u, v, e) ==
  /\ p * m \in Nat \ {0} /\ p * v + e \in 0..(p * m - 1)
  /\ p * (m * u + v) + e = (p * m) * u + (p * v + e)

LEMMA Regroup ==
  ASSUME NEW p \in Nat \ {0}, NEW m \in Nat \ {0}, NEW u \in Nat, NEW v \in 0..(m - 1), NEW e \in 0..(p - 1)
  PROVE  Regrouped(p, m, u, v, e)
<1>1. v \in Nat /\ m \in Nat /\ p \in Nat /\ e \in Nat /\ m * u \in Nat /\ v < m /\ e < p
  BY Multiples
<1>2. PICK pv \in Nat : pv = p * v
  BY <1>1, Multiples
<1>3. PICK pm \in Nat : pm = p * m
  BY <1>1, Multiples
<1>4. pv + p <= pm
  BY <1>1, <1>2, <1>3, NextMultiple
<1>5. p * (m * u + v) = (p * m) * u + p * v
  <2>1. p * (m * u) + p * v = p * (m * u + v)
    BY <1>1, Multiples
  <2>2. (p * m) * u = p * (m * u)
    BY <1>1, Multiples
  <2>. QED BY <2>1, <2>2
<1>6. PICK pu \in Nat : pu = (p * m) * u
  <2>1. (p * m) * u \in Nat
    BY <1>1, <1>3, Multiples
  <2>. QED BY <2>1
<1>7. p * m \in Nat \ {0} /\ p * v + e \in 0..(p * m - 1)
  BY <1>1, <1>2, <1>3, <1>4
<1>8. p * (m * u + v) + e = (p * m) * u + (p * v + e)
  BY <1>1, <1>2, <1>5, <1>6
<1>. QED BY <1>7, <1>8 DEF Regrouped

\* The sizes of a geometry, from the die upwards.
Sized(fm, P, D, C, B, E, n, M, k) ==
  /\ fm.die = D /\ fm.chip = C /\ fm.bus = B /\ fm.ce = E /\ fm.dma = M
  /\ pb_per_die(fm) = P /\ pb_per_chip(fm) = P * D /\ pb_per_bus(fm) = (P * D) * C
  /\ pb_num(fm) = ((P * D) * C) * B
  /\ die_per_ce_per_bus(fm) = n /\ n * E = D * C
  /\ BusNumPerCe(fm) = k /\ k * M = B

LEMMA PbNumType ==
  ASSUME NEW fm \in Geometry PROVE pb_num(fm) \in Nat
<1>1. fm_byte(fm) \in Nat
  <2>1. fm.byte \in Nat /\ fm.chip \in Nat /\ fm.bus \in Nat
    BY DEF Geometry
  <2>2. fm.byte * fm.chip \in Nat
    BY <2>1, Multiples
  <2>. QED BY <2>1, <2>2, Multiples DEF fm_byte
<1>2. BYTES_PER_SECTOR \in Nat \ {0} /\ SECTS_PER_PP \in Nat \ {0} /\ PP_PER_PB \in Nat \ {0}
  BY FmAssumption
<1>3. fm_sects(fm) \in Nat
  <2>. DEFINE sects == fm_byte(fm) \div BYTES_PER_SECTOR
  <2>1. sects \in Nat
    BY <1>1, <1>2, DivMod
  <2>. HIDE DEF sects
  <2>2. sects % SECTS_PER_PP \in 0..(SECTS_PER_PP - 1)
    BY <1>2, <2>1, DivMod
  <2>3. sects + (SECTS_PER_PP - (sects % SECTS_PER_PP)) \in Nat
    BY <1>2, <2>1, <2>2
  <2>. QED BY <2>1, <2>3 DEF fm_sects, sects
<1>4. PICK z \in Nat \ {0} : z = SECTS_PER_PP * PP_PER_PB
  BY <1>2
<1>. QED BY <1>3, <1>4, DivMod DEF pb_num

LEMMA GeometrySized ==
  ASSUME NEW fm \in Geometry, InitFlashModule(fm), WholeDies(fm)
  PROVE  \E P, D, C, B, E, n, M, k \in Nat \ {0} : Sized(fm, P, D, C, B, E, n, M, k)
<1>1. PICK D \in Nat \ {0} : D = fm.die
  BY DEF Geometry, InitFlashModule
<1>2. PICK C \in Nat \ {0} : C = fm.chip
  BY DEF Geometry, InitFlashModule
<1>3. PICK B \in Nat \ {0} : B = fm.bus
  BY DEF Geometry, InitFlashModule
<1>4. PICK E \in Nat \ {0} : E = fm.ce
  BY DEF Geometry, InitFlashModule
<1>5. PICK M \in Nat \ {0} : M = fm.dma
  BY DEF Geometry, InitFlashModule
<1>6. PICK w \in Nat : w = pb_num(fm)
  BY PbNumType
<1>7. PICK P \in Nat \ {0} : P = pb_per_die(fm) /\ w = ((B * C) * D) * P
  <2>1. PICK z \in Nat \ {0} : z = (B * C) * D
    OBVIOUS
  <2>2. w % z = 0 /\ w \div z = pb_per_die(fm)
    BY <1>1, <1>2, <1>3, <1>6, <2>1 DEF WholeDies, pb_per_die
  <2>6. pb_per_die(fm) # 0
    BY DEF InitFlashModule
  <2>3. w \div z \in Nat /\ w = z * (w \div z) + (w % z)
    BY <2>1, DivMod
  <2>4. PICK P \in Nat : P = w \div z
    BY <2>3
  <2>5. w = z * P
    BY <2>2, <2>3, <2>4
  <2>. QED BY <2>1, <2>2, <2>4, <2>5, <2>6
<1>8. PICK c \in Nat \ {0} : c = P * D
  OBVIOUS
<1>9. PICK b \in Nat \ {0} : b = c * C
  OBVIOUS
<1>10. w = B * b /\ w = (B * C) * c /\ B * b = b * B
  <2>1. (B * C) * D \in Nat /\ B * C \in Nat /\ D * P = P * D /\ C * c = c * C
    BY <1>8
  <2>2. ((B * C) * D) * P = (B * C) * (D * P)
    BY <2>1, Multiples
  <2>3. (B * C) * c = B * (C * c)
    BY Multiples
  <2>. QED BY <1>7, <1>8, <1>9, <2>1, <2>2, <2>3
<1>11. pb_per_bus(fm) = b
  <2>1. b \in Nat /\ 0 \in 0..(B - 1) /\ w = B * b + 0
    BY <1>10
  <2>. QED BY <1>3, <1>6, <2>1, DivModIs DEF pb_per_bus
<1>12. pb_per_chip(fm) = c
  <2>1. PICK z \in Nat \ {0} : z = B * C
    OBVIOUS
  <2>2. c \in Nat /\ 0 \in 0..(z - 1) /\ w = z * c + 0
    BY <1>10, <2>1
  <2>3. w \div z = c
    BY <2>1, <2>2, DivModIs
  <2>. QED BY <1>2, <1>3, <1>6, <2>1, <2>3 DEF pb_per_chip
<1>13. PICK n \in Nat \ {0} : die_per_ce_per_bus(fm) = n /\ n * E = D * C
  <2>1. PICK z \in Nat \ {0} : z = D * C /\ z = C * D
    OBVIOUS
  <2>2. z % E = 0
    BY <1>1, <1>2, <1>4, <2>1 DEF InitFlashModule
  <2>3. z \div E \in Nat /\ z = E * (z \div E) + (z % E)
    BY <2>1, DivMod
  <2>4. PICK n \in Nat : n = z \div E
    BY <2>3
  <2>5. E * n \in Nat /\ E * n = n * E
    BY <2>4
  <2>6. n # 0
    BY <2>1, <2>2, <2>3, <2>4
  <2>. QED BY <1>1, <1>2, <1>4, <2>1, <2>2, <2>3, <2>4, <2>5, <2>6 DEF die_per_ce_per_bus
<1>14. PICK k \in Nat \ {0} : BusNumPerCe(fm) = k /\ k * M = B
  <2>2. B % M = 0
    BY <1>3, <1>5 DEF InitFlashModule
  <2>3. B \div M \in Nat /\ B = M * (B \div M) + (B % M)
    BY DivMod
  <2>4. PICK k \in Nat : k = B \div M
    BY <2>3
  <2>5. M * k \in Nat /\ M * k = k * M
    BY <2>4
  <2>6. k # 0
    BY <2>2, <2>3, <2>4
  <2>. QED BY <1>3, <1>5, <2>2, <2>3, <2>4, <2>5, <2>6 DEF BusNumPerCe
<1>15. Sized(fm, P, D, C, B, E, n, M, k)
  BY <1>1, <1>2, <1>3, <1>4, <1>5, <1>6, <1>7, <1>8, <1>9, <1>10, <1>11, <1>12, <1>13, <1>14 DEF Sized
<1>. QED BY <1>15

LEMMA Quotient ==
  ASSUME NEW a \in Nat, NEW b \in Nat \ {0}
  PROVE  \E q \in Nat, r \in 0..(b - 1) : q = a \div b /\ r = a % b /\ a = b * q + r
<1>1. a \div b \in Nat /\ a % b \in 0..(b - 1) /\ a = b * (a \div b) + (a % b)
  BY DivMod
<1>. QED BY <1>1, Zenon

\* Where a block is: chip, die and number make up the rest of the number in its
\* bus, and the chip enable takes n dies.
PlacedBy(fm, gid, L, B, E) ==
  /\ AddressOK(fm, gid)
  /\ \E bus \in 0..(B - 1), ce \in 0..(E - 1), d \in 0..(L - 1) :
       LaneOf(fm, gid) = ce * B + bus /\ gid = L * (E * bus + ce) + d

LEMMA PlaceOf ==
  ASSUME NEW fm, NEW P \in Nat \ {0}, NEW D \in Nat \ {0}, NEW C \in Nat \ {0}, NEW B \in Nat \ {0},
         NEW E \in Nat \ {0}, NEW n \in Nat \ {0}, NEW M \in Nat \ {0}, NEW k \in Nat \ {0},
         Sized(fm, P, D, C, B, E, n, M, k),
         NEW gid \in Nat, gid < ((P * D) * C) * B
  PROVE  PlacedBy(fm, gid, P * n, B, E)
<1>1. PICK c \in Nat \ {0} : c = P * D
  OBVIOUS
<1>2. PICK b \in Nat \ {0} : b = c * C
  OBVIOUS
<1>3. /\ fm.die = D /\ fm.chip = C /\ fm.bus = B /\ fm.ce = E /\ fm.dma = M
      /\ pb_per_die(fm) = P /\ pb_per_chip(fm) = c /\ pb_per_bus(fm) = b
      /\ die_per_ce_per_bus(fm) = n /\ n * E = D * C
      /\ BusNumPerCe(fm) = k /\ k * M = B /\ gid < b * B
  BY <1>1, <1>2 DEF Sized
<1>4. PICK bus \in Nat, rest \in 0..(b - 1) : bus = gid \div b /\ rest = gid % b /\ gid = b * bus + rest
  BY Quotient, Zenon
<1>5. rest \in 0..(b - 1) /\ rest = gid % b /\ gid = b * bus + rest
  BY <1>4
<1>6. PICK chip \in 0..(C - 1) : chip = rest \div c /\ gid % c = rest % c /\ rest = c * chip + (gid % c)
  <2>1. Levels(c, C, b, gid, gid \div b, gid % b, (gid % b) \div c, gid % c)
    BY <1>1, <1>2, TwoLevels
  <2>. QED BY <1>5, <2>1 DEF Levels
<1>7. PICK in_chip \in 0..(c - 1) : in_chip = gid % c
  BY <1>1, DivMod
<1>8. PICK die \in 0..(D - 1) : die = in_chip \div P /\ in_chip = P * die + (gid % P)
  <2>1. Levels(P, D, c, gid, gid \div c, gid % c, (gid % c) \div P, gid % P)
    BY <1>1, TwoLevels
  <2>. QED BY <1>7, <2>1 DEF Levels
<1>9. PICK pb \in 0..(P - 1) : pb = gid % P
  BY DivMod
<1>10. bus < B
  <2>1. b * bus <= gid
    <3>1. PICK bb \in Nat : bb = b * bus
      BY <1>2, <1>4, Multiples
    <3>. QED BY <1>5, <3>1
  <2>. QED BY <1>2, <1>3, <1>4, <2>1, Below
<1>11. PICK m \in Nat : m = D * chip + die /\ m = chip * fm.die + die
  <2>1. PICK x \in Nat : x = D * chip /\ x = chip * D
    OBVIOUS
  <2>. QED BY <1>3, <1>8, <2>1
<1>12. PICK ce \in Nat, r \in 0..(n - 1) : ce = m \div n /\ r = m % n /\ m = n * ce + r
  BY Quotient, Zenon
<1>13. r \in 0..(n - 1) /\ r = m % n /\ m = n * ce + r
  BY <1>12
<1>14. ce < E
  <2>1. chip \in Nat /\ die \in Nat /\ die < D /\ chip < C /\ D \in Nat /\ C \in Nat
    BY <1>6, <1>8
  <2>2. D * chip + D <= D * C
    BY <2>1, NextMultiple
  <2>3. PICK x \in Nat : x = D * chip
    BY <2>1, Multiples
  <2>4. PICK y \in Nat : y = D * C /\ y = n * E
    BY <1>3, <2>1, Multiples
  <2>5. m < n * E
    BY <1>11, <2>1, <2>2, <2>3, <2>4
  <2>6. PICK z \in Nat : z = n * ce
    BY <1>12, Multiples
  <2>7. n * ce <= m
    BY <1>11, <1>13, <2>6
  <2>. QED BY <1>11, <1>12, <2>5, <2>7, Below
<1>15. rest = P * m + pb
  <2>1. rest = c * chip + (P * die + pb)
    BY <1>6, <1>7, <1>8, <1>9
  <2>2. P * (D * chip + die) + pb = (P * D) * chip + (P * die + pb)
    <3>1. chip \in Nat
      BY <1>6
    <3>2. Regrouped(P, D, chip, die, pb)
      BY <3>1, Regroup, Zenon
    <3>. QED BY <3>2 DEF Regrouped
  <2>. QED BY <1>1, <1>11, <2>1, <2>2
<1>16. PICK L \in Nat \ {0} : L = P * n
  OBVIOUS
<1>17. PICK d \in 0..(L - 1) : d = P * r + pb /\ rest = L * ce + d
  <2>1. P * r + pb \in 0..(P * n - 1) /\ P * (n * ce + r) + pb = (P * n) * ce + (P * r + pb)
    <3>1. Regrouped(P, n, ce, r, pb)
      BY Regroup, Zenon
    <3>. QED BY <3>1 DEF Regrouped
  <2>. QED BY <1>13, <1>15, <1>16, <2>1
<1>18. gid = L * (E * bus + ce) + d
  <2>1. L * (E * bus + ce) + d = (L * E) * bus + (L * ce + d)
    <3>1. ce \in 0..(E - 1)
      BY <1>12, <1>14
    <3>2. Regrouped(L, E, bus, ce, d)
      BY <3>1, Regroup, Zenon
    <3>. QED BY <3>2 DEF Regrouped
  <2>2. L * E = b
    <3>1. (P * n) * E = P * (n * E)
      BY Multiples
    <3>2. (P * D) * C = P * (D * C)
      BY Multiples
    <3>. QED BY <1>1, <1>2, <1>3, <1>16, <3>1, <3>2
  <2>. QED BY <1>5, <1>17, <2>1, <2>2
<1>. DEFINE addr == GetPBFMAddressFromGID(fm, gid)
<1>19. addr.bus = bus /\ addr.chip = chip /\ addr.die = die /\ addr.pb = pb
  BY <1>3, <1>4, <1>5, <1>6, <1>7, <1>8, <1>9 DEF GetPBFMAddressFromGID
<1>. HIDE DEF addr
<1>20. LaneOf(fm, gid) = ce * B + bus
  BY <1>3, <1>11, <1>12, <1>19 DEF LaneOf, GetCEAddressFromDieAddress, addr
<1>21. GetPBGIDFromFMAddress(fm, addr) = gid
  <2>1. GetPBGIDFromFMAddress(fm, addr) = bus * b + chip * c + die * P + pb
    BY <1>3, <1>19 DEF GetPBGIDFromFMAddress
  <2>2. PICK x \in Nat : x = b * bus /\ x = bus * b
    BY <1>4
  <2>3. PICK y \in Nat : y = c * chip /\ y = chip * c
    BY <1>6
  <2>4. PICK z \in Nat : z = P * die /\ z = die * P
    BY <1>8
  <2>5. gid = x + rest /\ rest = y + in_chip /\ in_chip = z + pb
    BY <1>5, <1>6, <1>7, <1>8, <1>9, <2>2, <2>3, <2>4
  <2>. QED BY <1>9, <2>1, <2>2, <2>3, <2>4, <2>5
<1>22. bus \div k < M /\ (bus \div k) * k + (bus % k) = bus
  <2>1. PICK q \in Nat, s \in 0..(k - 1) : q = bus \div k /\ s = bus % k /\ bus = k * q + s
    BY Quotient, Zenon
  <2>2. s \in 0..(k - 1) /\ s = bus % k /\ bus = k * q + s
    BY <2>1
  <2>3. PICK x \in Nat : x = k * q /\ x = q * k
    BY <2>1
  <2>4. k * q <= bus /\ bus < k * M
    BY <1>3, <1>10, <2>2, <2>3
  <2>5. q < M
    BY <1>4, <2>1, <2>4, Below
  <2>. QED BY <2>1, <2>2, <2>3, <2>5
<1>23. AddressOK(fm, gid)
  <2>1. addr.bus < fm.bus /\ addr.chip < fm.chip /\ addr.die < fm.die
    BY <1>3, <1>6, <1>8, <1>10, <1>19
  <2>. DEFINE ced == GetCEAddressFromDieAddress(fm, addr)
  <2>2. ced.ce_id = ce /\ ced.dma_id = bus \div k
    BY <1>3, <1>11, <1>12, <1>19 DEF GetCEAddressFromDieAddress
  <2>. HIDE DEF ced
  <2>3. ced.dma_id < fm.dma /\ ced.ce_id < fm.ce
    BY <1>3, <1>14, <1>22, <2>2
  <2>4. ced.dma_id * BusNumPerCe(fm) + GetBusOffsetFromDieAddress(fm, addr) = addr.bus
    BY <1>3, <1>19, <1>22, <2>2 DEF GetBusOffsetFromDieAddress
  <2>. QED BY <1>21, <2>1, <2>3, <2>4, Zenon DEF AddressOK, addr, ced
<1>24. bus \in 0..(B - 1) /\ ce \in 0..(E - 1)
  BY <1>10, <1>14
<1>25. PlacedBy(fm, gid, L, B, E)
  BY <1>18, <1>20, <1>23, <1>24 DEF PlacedBy
<1>. QED BY <1>16, <1>25, Zenon

Sound == fm_info \in Geometries /\ InitFlashModule(fm_info)

\* The blocks of a lane are those of one interval.
LEMMA LaneInterval ==
  ASSUME Sound
  PROVE  AddressesExact /\ LaneNum \in Nat \ {0}
         /\ \A gid \in 0..(pb_num(fm_info) - 1) : LaneOf(fm_info, gid) \in Lane
<1>0. fm_info \in Geometry /\ InitFlashModule(fm_info) /\ WholeDies(fm_info)
  BY PoolAssumption DEF Sound
<1>1. PICK P, D, C, B, E, n, M, k \in Nat \ {0} : Sized(fm_info, P, D, C, B, E, n, M, k)
  BY <1>0, GeometrySized, Zenon
<1>2. PICK w \in Nat : w = pb_num(fm_info)
  BY <1>0, PbNumType
<1>3. PICK L \in Nat \ {0} : L = P * n
  OBVIOUS
<1>4. PICK Q \in Nat \ {0} : Q = B * E /\ Q = E * B
  OBVIOUS
<1>5. w = L * Q
  <2>1. ((P * D) * C) * B = (P * (D * C)) * B
    <3>1. (P * D) * C = P * (D * C)
      BY Multiples
    <3>. QED BY <3>1
  <2>2. P * (n * E) = (P * n) * E
    BY Multiples
  <2>3. (L * E) * B = L * (E * B)
    BY Multiples
  <2>. QED BY <1>1, <1>2, <1>3, <1>4, <2>1, <2>2, <2>3 DEF Sized
<1>6. BusNum = B /\ fm_info.ce = E /\ LaneNum = Q
  BY <1>1, <1>4 DEF Sized, BusNum, LaneNum
<1>. DEFINE Ids == 0..(w - 1)
            Place(gid, bus, ce, d) == LaneOf(fm_info, gid) = ce * B + bus /\ gid = L * (E * bus + ce) + d
<1>7. ASSUME NEW gid \in Ids
      PROVE  /\ AddressOK(fm_info, gid)
             /\ \E bus \in 0..(B - 1), ce \in 0..(E - 1), d \in 0..(L - 1) : Place(gid, bus, ce, d)
  <2>1. gid \in Nat /\ gid < ((P * D) * C) * B
    BY <1>1, <1>2 DEF Sized
  <2>2. PlacedBy(fm_info, gid, P * n, B, E)
    BY <1>1, <2>1, PlaceOf, Zenon
  <2>3. PlacedBy(fm_info, gid, L, B, E)
    BY <1>3, <2>2, Zenon
  <2>. QED BY <2>3 DEF PlacedBy
<1>8. ASSUME NEW bus \in 0..(B - 1), NEW ce \in 0..(E - 1)
      PROVE  ce * B + bus \in 0..(Q - 1) /\ (ce * B + bus) % B = bus /\ (ce * B + bus) \div B = ce
  <2>1. PICK x \in Nat : x = B * ce /\ x = ce * B
    OBVIOUS
  <2>2. B * ce + B <= B * E
    BY NextMultiple
  <2>3. ce * B + bus \in 0..(Q - 1)
    BY <1>4, <2>1, <2>2
  <2>4. (B * ce + bus) \div B = ce /\ (B * ce + bus) % B = bus
    <3>1. ce \in Nat
      OBVIOUS
    <3>. QED BY <3>1, DivModUnique, Zenon
  <2>. QED BY <2>1, <2>3, <2>4
<1>9. \A gid \in Ids : LaneOf(fm_info, gid) \in 0..(Q - 1)
  <2>. HIDE DEF Ids
  <2>. QED BY <1>7, <1>8
<1>10. ASSUME NEW lane \in 0..(Q - 1)
       PROVE  Cardinality({gid \in Ids : LaneOf(fm_info, gid) = lane}) = L
  <2>1. PICK ce \in Nat, bus \in 0..(B - 1) : lane = B * ce + bus
    <3>1. \E q \in Nat, r \in 0..(B - 1) : q = lane \div B /\ r = lane % B /\ lane = B * q + r
      <4>1. lane \in Nat
        OBVIOUS
      <4>. QED BY <4>1, Quotient, Zenon
    <3>. QED BY <3>1
  <2>2. ce < E
    <3>1. PICK x \in Nat : x = B * ce
      BY <2>1, Multiples
    <3>2. B * ce <= lane /\ lane < B * E /\ lane \in Nat
      BY <1>4, <2>1, <3>1
    <3>. QED BY <2>1, <3>2, Below
  <2>3. lane = ce * B + bus /\ ce \in 0..(E - 1)
    BY <2>1, <2>2
  <2>4. PICK j \in Nat : j = E * bus + ce
    <3>1. PICK x \in Nat : x = E * bus
      BY <2>1
    <3>. QED BY <2>1, <3>1
  <2>5. j < Q
    <3>1. E * bus + E <= E * B
      BY <2>1, NextMultiple
    <3>2. PICK x \in Nat : x = E * bus
      BY <2>1
    <3>. QED BY <1>4, <2>2, <2>1, <2>4, <3>1, <3>2
  <2>6. PICK a \in Nat : a = L * j /\ a + L <= w
    <3>1. L * j + L <= L * Q
      BY <2>4, <2>5, NextMultiple
    <3>2. PICK a \in Nat : a = L * j
      BY <2>4
    <3>. QED BY <1>5, <3>1, <3>2
  <2>7. ASSUME NEW gid \in Ids, LaneOf(fm_info, gid) = lane PROVE gid \in a..(a + L - 1)
    <3>1. PICK b2 \in 0..(B - 1), c2 \in 0..(E - 1), d \in 0..(L - 1) : Place(gid, b2, c2, d)
      BY <1>7
    <3>2. c2 * B + b2 = ce * B + bus
      BY <2>3, <2>7, <3>1
    <3>3. b2 = bus /\ c2 = ce
      BY <1>8, <2>1, <2>3, <3>1, <3>2
    <3>4. gid = a + d
      BY <2>4, <2>6, <3>1, <3>3
    <3>. QED BY <3>1, <3>4
  <2>8. ASSUME NEW gid \in a..(a + L - 1) PROVE gid \in Ids /\ LaneOf(fm_info, gid) = lane
    <3>1. gid \in Ids /\ gid - a \in 0..(L - 1) /\ gid = a + (gid - a)
      BY <2>6
    <3>2. PICK b2 \in 0..(B - 1), c2 \in 0..(E - 1), d \in 0..(L - 1) : Place(gid, b2, c2, d)
      BY <1>7, <3>1
    <3>3. PICK y \in Nat : y = E * b2 + c2
      <4>1. PICK x \in Nat : x = E * b2
        BY <3>2
      <4>. QED BY <3>2, <4>1
    <3>4. gid = L * y + d /\ gid = L * j + (gid - a)
      BY <2>6, <3>1, <3>2, <3>3
    <3>5. gid \div L = y /\ gid \div L = j
      BY <2>4, <3>1, <3>2, <3>3, <3>4, DivModIs
    <3>6. (E * b2 + c2) \div E = b2 /\ (E * b2 + c2) % E = c2
      BY <3>2, DivModUnique
    <3>7. (E * bus + ce) \div E = bus /\ (E * bus + ce) % E = ce
      BY <2>1, <2>3, DivModUnique
    <3>8. b2 = bus /\ c2 = ce
      BY <2>4, <3>3, <3>5, <3>6, <3>7
    <3>. QED BY <2>3, <3>1, <3>2, <3>8
  <2>9. {gid \in Ids : LaneOf(fm_info, gid) = lane} = a..(a + L - 1)
    <3>. HIDE DEF Ids
    <3>. QED BY <2>7, <2>8
  <2>10. Cardinality(a..(a + L - 1)) = L
    <3>1. a \in Int /\ a + L - 1 \in Int /\ ~(a > a + L - 1) /\ (a + L - 1) - a + 1 = L
      BY <2>6
    <3>. QED BY <3>1, FS_Interval
  <2>. QED BY <2>9, <2>10
<1>11. pb_num(fm_info) \div LaneNum = L
  <2>1. w = Q * L + 0 /\ 0 \in 0..(Q - 1) /\ L \in Nat
    <3>1. L * Q = Q * L
      OBVIOUS
    <3>. QED BY <1>5, <3>1
  <2>. QED BY <1>2, <1>6, <2>1, DivModIs
<1>. DEFINE lanes == [gid \in 0..(pb_num(fm_info) - 1) |-> LaneOf(fm_info, gid)]
<1>12. DOMAIN lanes = Ids /\ \A gid \in Ids : lanes[gid] = LaneOf(fm_info, gid)
  BY <1>2
<1>13. Lane = 0..(Q - 1)
  BY <1>6 DEF Lane
<1>. HIDE DEF Ids
<1>14. AddressesExact
  <2>. HIDE DEF lanes, Place
  <2>1. \A gid \in DOMAIN lanes : AddressOK(fm_info, gid)
    BY <1>7, <1>12
  <2>2. ASSUME NEW lane \in Lane
        PROVE  Cardinality({gid \in DOMAIN lanes : lanes[gid] = lane}) = pb_num(fm_info) \div LaneNum
    <3>1. {gid \in DOMAIN lanes : lanes[gid] = lane} = {gid \in Ids : LaneOf(fm_info, gid) = lane}
      BY <1>12
    <3>. QED BY <1>10, <1>11, <1>13, <3>1
  <2>. QED BY <2>1, <2>2 DEF AddressesExact, lanes
<1>. QED BY <1>2, <1>6, <1>9, <1>13, <1>14 DEF Ids

\* The sizes everything below is about.
LEMMA PoolSizes ==
  ASSUME Sound
  PROVE  /\ LaneNum \in Nat \ {0} /\ BusNum \in Nat \ {0} /\ BusNum <= LaneNum
         /\ Lane = 0..(LaneNum - 1) /\ PbNum \in Nat /\ PB = 0..(PbNum - 1)
         /\ IsFiniteSet(PB) /\ Cardinality(PB) = PbNum
         /\ \A pb \in PB : LaneOf(fm_info, pb) \in Lane
         /\ NoPB \notin PB
<1>1. LaneNum \in Nat \ {0} /\ \A gid \in 0..(pb_num(fm_info) - 1) : LaneOf(fm_info, gid) \in Lane
  BY LaneInterval
<1>2. fm_info \in Geometry /\ fm_info.bus # 0 /\ fm_info.ce # 0
  <2>1. fm_info \in Geometry
    BY PoolAssumption DEF Sound
  <2>2. "bus" \in DOMAIN fm_info /\ "ce" \in DOMAIN fm_info
    BY <2>1 DEF Geometry
  <2>. QED BY <2>1, <2>2 DEF Sound, InitFlashModule
<1>3. PICK B \in Nat \ {0} : B = BusNum
  BY <1>2 DEF Geometry, BusNum
<1>4. PICK E \in Nat \ {0} : E = fm_info.ce
  BY <1>2 DEF Geometry
<1>5. BusNum <= LaneNum
  <2>1. LaneNum = B * E
    BY <1>3, <1>4 DEF LaneNum
  <2>2. B * 0 + B <= B * E
    <3>1. 0 \in Nat /\ 0 < E /\ B \in Nat /\ E \in Nat
      OBVIOUS
    <3>. QED BY <3>1, NextMultiple, Zenon
  <2>3. B * 0 = 0
    OBVIOUS
  <2>4. PICK x \in Nat : x = B * E
    OBVIOUS
  <2>. QED BY <1>3, <2>1, <2>2, <2>3, <2>4
<1>6. PICK w \in Nat : w = pb_num(fm_info)
  BY <1>2, PbNumType
<1>7. PbNum \in Nat /\ PbNum <= w
  <2>1. PgPbNum \in Nat \ {0}
    BY PoolAssumption
  <2>2. PICK q \in Nat, r \in 0..(PgPbNum - 1) :
          q = w \div PgPbNum /\ r = w % PgPbNum /\ w = PgPbNum * q + r
    BY <2>1, Quotient, Zenon
  <2>3. PICK x \in Nat : x = PgPbNum * q
    BY <2>1, <2>2
  <2>4. PbNum = w - r
    BY <1>6, <2>2 DEF PbNum
  <2>. QED BY <2>1, <2>2, <2>3, <2>4
<1>8. PICK n \in Nat : n = PbNum
  BY <1>7
<1>9. IsFiniteSet(PB) /\ Cardinality(PB) = PbNum
  <2>1. PB = 0..(n - 1) /\ 0 \in Int /\ n - 1 \in Int /\ (0 > n - 1 => n = 0) /\ (n - 1) - 0 + 1 = n
    BY <1>8 DEF PB
  <2>. QED BY <1>8, <2>1, FS_Interval
<1>10. \A pb \in PB : pb \in Nat /\ pb \in 0..(w - 1)
  <2>1. n <= w /\ PB = 0..(n - 1)
    BY <1>7, <1>8 DEF PB
  <2>. QED BY <2>1
<1>11. NoPB \notin PB
  BY <1>10, PoolAssumption
<1>12. Lane = 0..(LaneNum - 1) /\ PB = 0..(PbNum - 1) /\ BusNum \in Nat \ {0}
  BY <1>3 DEF Lane, PB
<1>. QED BY <1>1, <1>5, <1>6, <1>7, <1>9, <1>10, <1>11, <1>12

\* A search looks at every lane, and leaves the cursor at a lane.
LEMMA VisitsAll ==
  ASSUME Sound, NEW cursor \in Lane
  PROVE  /\ Visits(cursor) \in Seq(Lane) /\ Len(Visits(cursor)) \in Nat
         /\ DOMAIN Visits(cursor) = 1..Len(Visits(cursor))
         /\ \A i \in 1..Len(Visits(cursor)) : Visits(cursor)[i] \in Lane
         /\ \A lane \in Lane : \E i \in 1..Len(Visits(cursor)) : Visits(cursor)[i] = lane
         /\ NextLine(cursor) \in Lane /\ (cursor + 1) % LaneNum \in Lane
<1>1. PICK N \in Nat \ {0} : N = LaneNum
  BY PoolSizes
<1>2. PICK B \in Nat \ {0} : B = BusNum /\ B <= N
  BY <1>1, PoolSizes
<1>3. Lane = 0..(N - 1) /\ cursor \in 0..(N - 1)
  BY <1>1, PoolSizes
<1>4. PICK r \in 0..(B - 1) : r = cursor % B
  <2>1. cursor \in Nat
    BY <1>3
  <2>. QED BY <2>1, DivMod
<1>5. PICK z \in Nat : z = N + B - r /\ N <= z
  BY <1>4
<1>. DEFINE v == Visits(cursor)
<1>6. v = [i \in 1..z |-> (cursor + i - 1) % N]
  <2>1. LaneNum + BusNum - (cursor % BusNum) = z
    BY <1>1, <1>2, <1>4, <1>5
  <2>. QED BY <1>1, <2>1, Zenon DEF Visits
<1>7. \A x \in Nat : x % N \in 0..(N - 1)
  OBVIOUS
<1>8. \A i \in 1..z : cursor + i - 1 \in Nat
  BY <1>3
<1>9. \A i \in 1..z : v[i] \in Lane
  BY <1>3, <1>6, <1>7, <1>8
<1>10. v \in Seq(Lane) /\ Len(v) = z /\ DOMAIN v = 1..z
  <2>1. v \in [1..z -> Lane]
    BY <1>6, <1>9
  <2>2. v \in Seq(Lane)
    BY <2>1
  <2>3. DOMAIN v = 1..Len(v) /\ Len(v) \in Nat
    BY <2>2, LenProperties
  <2>. HIDE DEF v
  <2>. QED BY <2>1, <2>2, <2>3
<1>11. ASSUME NEW lane \in Lane PROVE \E i \in 1..z : v[i] = lane
  <2>1. CASE cursor <= lane
    <3>1. lane - cursor + 1 \in 1..z /\ cursor + (lane - cursor + 1) - 1 = N * 0 + lane /\ 0 \in Nat
      BY <1>3, <1>5, <2>1
    <3>2. (cursor + (lane - cursor + 1) - 1) % N = lane
      BY <1>3, <3>1, DivModIs
    <3>. QED BY <1>6, <3>1, <3>2
  <2>2. CASE lane < cursor
    <3>1. lane - cursor + N + 1 \in 1..z /\ cursor + (lane - cursor + N + 1) - 1 = N * 1 + lane /\ 1 \in Nat
      BY <1>3, <1>5, <2>2
    <3>2. (cursor + (lane - cursor + N + 1) - 1) % N = lane
      BY <1>3, <3>1, DivModIs
    <3>. QED BY <1>6, <3>1, <3>2
  <2>. QED BY <1>3, <2>1, <2>2
<1>12. NextLine(cursor) \in Lane
  <2>1. PICK q \in Nat : q = cursor \div B
    <3>1. cursor \in Nat
      BY <1>3
    <3>. QED BY <3>1, DivMod
  <2>2. PICK x \in Nat : x = (q + 1) * B
    OBVIOUS
  <2>. QED BY <1>1, <1>2, <1>3, <1>7, <2>1, <2>2 DEF NextLine
<1>13. (cursor + 1) % LaneNum \in Lane
  <2>1. cursor + 1 \in Nat
    BY <1>3
  <2>. QED BY <1>1, <1>3, <1>7, <2>1
<1>. HIDE DEF v
<1>14. \A i \in 1..Len(v) : v[i] \in Lane
  BY <1>9, <1>10
<1>15. \A lane \in Lane : \E i \in 1..Len(v) : v[i] = lane
  BY <1>10, <1>11
<1>. QED BY <1>10, <1>12, <1>13, <1>14, <1>15 DEF v

\* The elements of a queue without repetition are as many as it is long.
LEMMA CountElems ==
  ASSUME NEW S, NEW s \in Seq(S), Once(s)
  PROVE  IsFiniteSet(Elems(s)) /\ Cardinality(Elems(s)) = Len(s) /\ Elems(s) \subseteq S
<1>1. Len(s) \in Nat /\ s \in [1..Len(s) -> S] /\ \A i \in 1..Len(s) : s[i] \in S
  BY LenProperties, ElementOfSeq
<1>2. s \in [1..Len(s) -> Elems(s)] /\ Elems(s) \subseteq S
  BY <1>1 DEF Elems
<1>3. s \in Surjection(1..Len(s), Elems(s)) /\ s \in Injection(1..Len(s), Elems(s))
  BY <1>2 DEF Surjection, Injection, IsInjective, Elems, Once
<1>4. IsFiniteSet(1..Len(s)) /\ Cardinality(1..Len(s)) = Len(s)
  <2>1. PICK n \in Nat : n = Len(s)
    BY <1>1
  <2>2. 1 \in Int /\ n \in Int /\ (1 > n => n = 0) /\ n - 1 + 1 = n
    OBVIOUS
  <2>. QED BY <2>1, <2>2, FS_Interval
<1>. QED BY <1>2, <1>3, <1>4, FS_Surjection

-----------------------------------------------------------------------------
(* The inductive invariant *)

\* The blocks in a state, and those of the requests not yet erased.
With(state) == {pb \in PB : status[pb] = state}
Taken(reqs) == {reqs[k].pb : k \in 1..Len(reqs)}

Requests == [pb : PB, reg_id : RegId]

\* Every reservation is free, or held by one request for the block it names.
Reserved(reqs, resv, list) ==
  /\ reqs \in Seq(Requests) /\ resv \in Seq(RegId) /\ list \in [RegId -> PB \cup {NoPB}]
  /\ Once(resv)
  /\ \A i, j \in 1..Len(reqs) : reqs[i].reg_id = reqs[j].reg_id \/ reqs[i].pb = reqs[j].pb => i = j
  /\ \A k \in 1..Len(reqs) : list[reqs[k].reg_id] = reqs[k].pb /\ reqs[k].reg_id \notin Elems(resv)
  /\ \A id \in Elems(resv) : list[id] = NoPB
  /\ \A id \in RegId : id \in Elems(resv) \/ \E k \in 1..Len(reqs) : reqs[k].reg_id = id

\* A bound block has one place, in one PG; and a PG has all its blocks or none,
\* until BuildPG has failed.
PGsHold(pgs, S) ==
  /\ pgs \in [PG -> Seq(PB)]
  /\ \A pg, other \in PG : \A i \in 1..Len(pgs[pg]), j \in 1..Len(pgs[other]) :
       pgs[pg][i] = pgs[other][j] => pg = other /\ i = j
  /\ \A pb \in PB : pb \in S <=> \E pg \in PG : pb \in Elems(pgs[pg])
PGsWhole == \A pg \in PG : pb_list[pg] = <<>> \/ Len(pb_list[pg]) = PgPbNum

Waiting == With("INVALID") \ Taken(erase_req)

PoolInv ==
  /\ Sound /\ lane_of \in [PB -> Lane] /\ status \in [PB -> {"FREE", "BIND", "INVALID"}]
  /\ free_cursor \in Lane /\ erase_cursor \in Lane /\ failed \in BOOLEAN
  /\ LanesHold(free_block_que, With("FREE")) /\ total_free = Cardinality(With("FREE"))
  /\ LanesHold(invalid_block_que, Waiting) /\ total_invalid = Cardinality(Waiting)
  /\ Taken(erase_req) \subseteq With("INVALID") /\ Len(erase_req) <= MaxErase
  /\ Reserved(erase_req, erase_resv_que, erase_resv_list)
  /\ PGsHold(pb_list, With("BIND")) /\ (failed \/ PGsWhole)

-----------------------------------------------------------------------------
(* The loop of BuildPG *)

Turn == [que : [Lane -> Seq(PB)], cursor : Lane, pbs : Seq(PB), null : BOOLEAN]

\* A search of GetFreePB that finds nothing, and one that stops at a lane.
GivenUp(s) == [que |-> s.que, cursor |-> NextLine(s.cursor), pbs |-> s.pbs, null |-> TRUE]
GivenAt(s, lane) ==
  [que |-> [s.que EXCEPT ![lane] = Tail(@)], cursor |-> (lane + 1) % LaneNum,
   pbs |-> Append(s.pbs, Head(s.que[lane])), null |-> FALSE]

LEMMA TakeFreePBIs ==
  ASSUME Sound, NEW s \in Turn, ~s.null
  PROVE  \/ (\A lane \in Lane : s.que[lane] = <<>>) /\ TakeFreePB(s) = GivenUp(s)
         \/ \E lane \in Lane : s.que[lane] # <<>> /\ TakeFreePB(s) = GivenAt(s, lane)
<1>. DEFINE visits == Visits(s.cursor)
            hits == {i \in DOMAIN visits : s.que[visits[i]] # <<>>}
            lane == visits[Min(hits)]
<1>1. s.cursor \in Lane /\ s = [que |-> s.que, cursor |-> s.cursor, pbs |-> s.pbs, null |-> s.null]
  BY DEF Turn
<1>2. /\ Len(visits) \in Nat /\ DOMAIN visits = 1..Len(visits)
      /\ \A i \in 1..Len(visits) : visits[i] \in Lane
      /\ \A x \in Lane : \E i \in 1..Len(visits) : visits[i] = x
  BY <1>1, VisitsAll
<1>3. CASE hits = {}
  <2>1. \A x \in Lane : s.que[x] = <<>>
    <3>. HIDE DEF visits
    <3>. QED BY <1>2, <1>3
  <2>2. TakeFreePB(s) = [s EXCEPT !.cursor = NextLine(@), !.null = TRUE]
    BY <1>3 DEF TakeFreePB
  <2>3. TakeFreePB(s) = GivenUp(s)
    BY <1>1, <2>2 DEF GivenUp
  <2>. QED BY <2>1, <2>3
<1>4. CASE hits # {}
  <2>1. Min(hits) \in hits
    <3>1. hits \subseteq Nat
      BY <1>2
    <3>. HIDE DEF hits
    <3>2. \E i \in hits : \A j \in hits : i <= j
      BY <1>4, <3>1, LeastNatural, Zenon
    <3>. QED BY <3>2, Zenon DEF Min
  <2>2. lane \in Lane /\ s.que[lane] # <<>>
    <3>. DEFINE i == Min(hits)
    <3>1. i \in DOMAIN visits /\ s.que[visits[i]] # <<>>
      <4>. HIDE DEF visits, i
      <4>. QED BY <2>1 DEF i
    <3>. HIDE DEF visits, i
    <3>. QED BY <1>2, <3>1 DEF i
  <2>3. TakeFreePB(s) = [s EXCEPT !.cursor = (lane + 1) % LaneNum,
                                  !.pbs = Append(@, Head(s.que[lane])),
                                  !.que[lane] = Tail(@)]
    BY <1>4, Zenon DEF TakeFreePB
  <2>. HIDE DEF lane
  <2>4. TakeFreePB(s) = GivenAt(s, lane)
    BY <1>1, <2>3 DEF GivenAt, Turn
  <2>. QED BY <2>2, <2>4
<1>. QED BY <1>3, <1>4

\* What the loop has taken is no longer queued, and when it gives up nothing is.
TurnOK(n, s) ==
  /\ s \in Turn /\ LanesHold(s.que, With("FREE") \ Elems(s.pbs))
  /\ Once(s.pbs) /\ Elems(s.pbs) \subseteq With("FREE")
  /\ ~s.null => Len(s.pbs) = n
  /\ s.null => Len(s.pbs) < n /\ Elems(s.pbs) = With("FREE")

LEMMA TakeKeepsType ==
  ASSUME Sound, NEW s \in Turn
  PROVE  TakeFreePB(s) \in Turn
<1>1. CASE s.null
  BY <1>1 DEF TakeFreePB
<1>2. CASE ~s.null
  <2>1. s.que \in [Lane -> Seq(PB)] /\ s.cursor \in Lane /\ s.pbs \in Seq(PB)
    BY DEF Turn
  <2>2. CASE TakeFreePB(s) = GivenUp(s)
    <3>1. NextLine(s.cursor) \in Lane
      BY <2>1, VisitsAll
    <3>. QED BY <2>1, <2>2, <3>1 DEF GivenUp, Turn
  <2>3. ASSUME NEW lane \in Lane, s.que[lane] # <<>>, TakeFreePB(s) = GivenAt(s, lane)
        PROVE  TakeFreePB(s) \in Turn
    <3>1. (lane + 1) % LaneNum \in Lane
      BY VisitsAll
    <3>2. s.que[lane] \in Seq(PB)
      BY <2>1
    <3>3. Head(s.que[lane]) \in PB /\ Tail(s.que[lane]) \in Seq(PB)
      BY <2>3, <3>2, HeadLeaves
    <3>4. Append(s.pbs, Head(s.que[lane])) \in Seq(PB)
      BY <2>1, <3>3, LastJoins
    <3>5. [s.que EXCEPT ![lane] = Tail(@)] \in [Lane -> Seq(PB)]
      BY <2>1, <3>3
    <3>. QED BY <2>3, <3>1, <3>4, <3>5 DEF GivenAt, Turn
  <2>. QED BY <1>2, <2>2, <2>3, TakeFreePBIs
<1>. QED BY <1>1, <1>2

LEMMA TakeKeepsOrder ==
  ASSUME Sound, lane_of \in [PB -> Lane], NEW n \in Nat, NEW s, TurnOK(n, s)
  PROVE  TurnOK(n + 1, TakeFreePB(s))
<1>0. s \in Turn /\ s.que \in [Lane -> Seq(PB)] /\ s.pbs \in Seq(PB) /\ Len(s.pbs) \in Nat
  BY LenProperties DEF TurnOK, Turn
<1>1. CASE s.null
  <2>1. TakeFreePB(s) = s
    BY <1>1 DEF TakeFreePB
  <2>. QED BY <1>0, <1>1, <2>1 DEF TurnOK
<1>2. CASE ~s.null
  <2>0. TakeFreePB(s) \in Turn
    BY <1>0, TakeKeepsType
  <2>. DEFINE S == With("FREE") \ Elems(s.pbs)
  <2>1. S \subseteq PB /\ LanesHold(s.que, S)
    BY DEF With, TurnOK
  <2>2. CASE (\A lane \in Lane : s.que[lane] = <<>>) /\ TakeFreePB(s) = GivenUp(s)
    <3>1. S = {}
      BY <2>1, <2>2, LanesEmpty
    <3>2. Len(s.pbs) < n + 1
      BY <1>0, <1>2 DEF TurnOK
    <3>3. TakeFreePB(s).que = s.que /\ TakeFreePB(s).pbs = s.pbs /\ TakeFreePB(s).null
      BY <2>2 DEF GivenUp
    <3>. QED BY <2>0, <2>1, <3>1, <3>2, <3>3 DEF TurnOK
  <2>3. ASSUME NEW lane \in Lane, s.que[lane] # <<>>, TakeFreePB(s) = GivenAt(s, lane)
        PROVE  TurnOK(n + 1, TakeFreePB(s))
    <3>. DEFINE h == Head(s.que[lane])
                t == TakeFreePB(s)
    <3>1. t.que = [s.que EXCEPT ![lane] = Tail(@)] /\ t.pbs = Append(s.pbs, h) /\ ~t.null
      BY <2>3 DEF GivenAt
    <3>2. h \in S /\ LanesHold([s.que EXCEPT ![lane] = Tail(@)], S \ {h})
      <4>. HIDE DEF S
      <4>. QED BY <2>1, <2>3, LaneGives
    <3>. HIDE DEF t, h
    <3>3. h \in PB /\ h \notin Elems(s.pbs) /\ h \in With("FREE")
      BY <2>1, <3>2
    <3>4. Len(t.pbs) = n + 1 /\ Elems(t.pbs) = Elems(s.pbs) \cup {h} /\ Once(t.pbs)
      BY <1>0, <1>2, <3>1, <3>3, LastJoins DEF TurnOK
    <3>5. S \ {h} = With("FREE") \ Elems(t.pbs)
      BY <3>4
    <3>6. LanesHold(t.que, With("FREE") \ Elems(t.pbs))
      BY <3>1, <3>2, <3>5
    <3>7. Elems(t.pbs) \subseteq With("FREE")
      BY <3>3, <3>4 DEF TurnOK
    <3>8. TurnOK(n + 1, t)
      BY <2>0, <3>1, <3>4, <3>6, <3>7 DEF TurnOK, t
    <3>. QED BY <3>8 DEF t
  <2>. QED BY <1>0, <1>2, <2>2, <2>3, TakeFreePBIs
<1>. QED BY <1>1, <1>2

TurnsFrom(start, f) == [n \in 0..PgPbNum |-> IF n = 0 THEN start ELSE TakeFreePB(f[n - 1])]

LEMMA TurnsHold ==
  ASSUME Sound, lane_of \in [PB -> Lane], free_cursor \in Lane, LanesHold(free_block_que, With("FREE"))
  PROVE  TurnOK(PgPbNum, Turns[PgPbNum])
<1>. DEFINE N == PgPbNum
            c == [que |-> free_block_que, cursor |-> free_cursor, pbs |-> <<>>, null |-> FALSE]
            f == Turns
            G == [n \in 1..N |-> [s \in Turn |-> TakeFreePB(s)]]
            Q == {n \in 0..N : TurnOK(n, f[n])}
<1>1. N \in Nat
  BY PoolAssumption
<1>2. c \in Turn /\ TurnOK(0, c)
  <2>1. c \in Turn
    BY DEF Turn, LanesHold
  <2>2. Elems(<<>>) = {} /\ Once(<<>>) /\ Len(<<>>) = 0
    BY DEF Elems, Once
  <2>. QED BY <2>1, <2>2 DEF TurnOK
<1>3. StayIn(Turn, N, G)
  <2>. HIDE DEF TakeFreePB
  <2>. QED BY TakeKeepsType DEF StayIn
<1>. HIDE DEF N
<1>4. f = TurnsFrom(c, f)
  <2>0. f = CHOOSE g : g = TurnsFrom(c, g)
    BY DEF Turns, TurnsFrom
  <2>. HIDE DEF f, c
  <2>1. PICK g \in [0..N -> Turn] : GoesThrough(c, N, G, g)
    <3>. HIDE DEF G, Turn
    <3>. QED BY <1>1, <1>2, <1>3, Stages, Zenon
  <2>2. ASSUME NEW n \in 0..N
        PROVE  (IF n = 0 THEN c ELSE G[n][g[n - 1]]) = IF n = 0 THEN c ELSE TakeFreePB(g[n - 1])
    <3>1. n # 0 => n \in 1..N /\ n - 1 \in 0..N
      BY <1>1, <2>2
    <3>2. n # 0 => g[n - 1] \in Turn
      BY <2>1, <3>1
    <3>. HIDE DEF Turn
    <3>. QED BY <3>1, <3>2
  <2>3. [n \in 0..N |-> IF n = 0 THEN c ELSE G[n][g[n - 1]]] = TurnsFrom(c, g)
    <3>. HIDE DEF G
    <3>. QED BY <2>2 DEF TurnsFrom, N
  <2>4. g = TurnsFrom(c, g)
    BY <2>1, <2>3, Zenon DEF GoesThrough
  <2>. QED BY <2>0, <2>4, Zenon
<1>. HIDE DEF f, G, c
<1>5. \A n \in 0..N : f[n] = IF n = 0 THEN c ELSE TakeFreePB(f[n - 1])
  <2>. DEFINE h == TurnsFrom(c, f)
  <2>1. \A n \in 0..N : h[n] = IF n = 0 THEN c ELSE TakeFreePB(f[n - 1])
    BY DEF TurnsFrom, N
  <2>. HIDE DEF h
  <2>2. f = h
    BY <1>4 DEF h
  <2>. QED BY <2>1, <2>2
<1>6. 0 \in Q
  BY <1>1, <1>2, <1>5
<1>7. ASSUME NEW n \in 1..N, n - 1 \in Q PROVE n \in Q
  <2>1. n \in 0..N /\ n - 1 \in Nat /\ n # 0 /\ (n - 1) + 1 = n
    BY <1>1
  <2>2. TurnOK(n - 1, f[n - 1]) /\ f[n] = TakeFreePB(f[n - 1])
    BY <1>5, <1>7, <2>1
  <2>3. TurnOK((n - 1) + 1, f[n])
    BY <2>1, <2>2, TakeKeepsOrder
  <2>. QED BY <2>1, <2>3
<1>8. N \in Q
  <2>. HIDE DEF Q
  <2>1. 0..N \subseteq Q
    BY <1>1, <1>6, <1>7, UpTo
  <2>. QED BY <1>1, <2>1
<1>. QED BY <1>8 DEF f, N

-----------------------------------------------------------------------------
(* The search of GetEraseReq *)

Searching ==
  [que : [Lane -> Seq(PB)], resv : Seq(RegId), list : [RegId -> PB \cup {NoPB}],
   reqs : Seq(Requests), cursor : Lane]

Stuck(s, lane) == Len(s.reqs) = MaxErase \/ s.que[lane] = <<>> \/ s.resv = <<>>
Booked(s, lane) ==
  [que |-> [s.que EXCEPT ![lane] = Tail(@)], resv |-> Tail(s.resv),
   list |-> [s.list EXCEPT ![Head(s.resv)] = Head(s.que[lane])],
   reqs |-> Append(s.reqs, [pb |-> Head(s.que[lane]), reg_id |-> Head(s.resv)]),
   cursor |-> IF Len(s.reqs) + 1 = MaxErase THEN (lane + 1) % LaneNum ELSE s.cursor]

LEMMA ReserveAtIs ==
  ASSUME NEW s \in Searching, NEW lane \in Lane
  PROVE  ReserveAt(s, lane) = IF Stuck(s, lane) THEN s ELSE Booked(s, lane)
<1>1. s = [que |-> s.que, resv |-> s.resv, list |-> s.list, reqs |-> s.reqs, cursor |-> s.cursor]
  BY DEF Searching
<1>2. CASE Stuck(s, lane)
  BY <1>2, Zenon DEF ReserveAt, Stuck
<1>3. CASE ~Stuck(s, lane)
  <2>. DEFINE r == Append(s.reqs, [pb |-> Head(s.que[lane]), reg_id |-> Head(s.resv)])
              x == Head(s.resv)
              h == Head(s.que[lane])
              t == Tail(s.que[lane])
              v == Tail(s.resv)
              u == IF Len(s.reqs) + 1 = MaxErase THEN (lane + 1) % LaneNum ELSE s.cursor
  <2>1. ReserveAt(s, lane) =
          [s EXCEPT !.reqs = r, !.list[x] = h, !.que[lane] = t, !.resv = v, !.cursor = u]
    BY <1>3, Zenon DEF ReserveAt, Stuck
  <2>2. Booked(s, lane) = [que |-> [s.que EXCEPT ![lane] = t], resv |-> v,
                           list |-> [s.list EXCEPT ![x] = h], reqs |-> r, cursor |-> u]
    BY Zenon DEF Booked
  <2>. HIDE DEF r, x, h, t, v, u
  <2>3. ReserveAt(s, lane) = Booked(s, lane)
    BY <1>1, <2>1, <2>2
  <2>. QED BY <1>3, <2>3
<1>. QED BY <1>2, <1>3

LEMMA ReserveKeepsType ==
  ASSUME Sound, NEW s \in Searching, NEW lane \in Lane
  PROVE  ReserveAt(s, lane) \in Searching
<1>1. CASE Stuck(s, lane)
  BY <1>1, ReserveAtIs
<1>2. CASE ~Stuck(s, lane)
  <2>1. s.que \in [Lane -> Seq(PB)] /\ s.que[lane] \in Seq(PB) /\ s.resv \in Seq(RegId)
        /\ s.list \in [RegId -> PB \cup {NoPB}] /\ s.reqs \in Seq(Requests) /\ s.cursor \in Lane
    BY DEF Searching
  <2>2. Head(s.que[lane]) \in PB /\ Tail(s.que[lane]) \in Seq(PB)
    BY <1>2, <2>1, HeadLeaves DEF Stuck
  <2>3. Head(s.resv) \in RegId /\ Tail(s.resv) \in Seq(RegId)
    BY <1>2, <2>1, HeadLeaves DEF Stuck
  <2>4. (lane + 1) % LaneNum \in Lane
    BY VisitsAll
  <2>5. [pb |-> Head(s.que[lane]), reg_id |-> Head(s.resv)] \in Requests
    BY <2>2, <2>3 DEF Requests
  <2>6. Booked(s, lane).reqs \in Seq(Requests)
    BY <2>1, <2>5, LastJoins DEF Booked
  <2>7. Booked(s, lane).que \in [Lane -> Seq(PB)]
    BY <2>1, <2>2 DEF Booked
  <2>8. Booked(s, lane).list \in [RegId -> PB \cup {NoPB}]
    BY <2>1, <2>2, <2>3 DEF Booked
  <2>9. Booked(s, lane) \in Searching
    BY <2>1, <2>3, <2>4, <2>6, <2>7, <2>8 DEF Booked, Searching
  <2>. QED BY <1>2, <2>9, ReserveAtIs
<1>. QED BY <1>1, <1>2

LEMMA Booking ==
  ASSUME NEW reqs, NEW resv, NEW list, Reserved(reqs, resv, list), resv # <<>>,
         NEW pb \in PB, pb \notin Taken(reqs)
  PROVE  /\ Reserved(Append(reqs, [pb |-> pb, reg_id |-> Head(resv)]), Tail(resv),
                     [list EXCEPT ![Head(resv)] = pb])
         /\ Taken(Append(reqs, [pb |-> pb, reg_id |-> Head(resv)])) = Taken(reqs) \cup {pb}
<1>. DEFINE id == Head(resv)
            new == Append(reqs, [pb |-> pb, reg_id |-> Head(resv)])
            ids == Tail(resv)
            names == [list EXCEPT ![Head(resv)] = pb]
<1>1. /\ reqs \in Seq(Requests) /\ resv \in Seq(RegId) /\ list \in [RegId -> PB \cup {NoPB}]
      /\ Once(resv)
      /\ \A i, j \in 1..Len(reqs) : reqs[i].reg_id = reqs[j].reg_id \/ reqs[i].pb = reqs[j].pb => i = j
      /\ \A k \in 1..Len(reqs) : list[reqs[k].reg_id] = reqs[k].pb /\ reqs[k].reg_id \notin Elems(resv)
      /\ \A x \in Elems(resv) : list[x] = NoPB
      /\ \A x \in RegId : x \in Elems(resv) \/ \E k \in 1..Len(reqs) : reqs[k].reg_id = x
  BY DEF Reserved
<1>2. id \in RegId /\ id \in Elems(resv) /\ ids \in Seq(RegId) /\ Once(ids) /\ Elems(ids) = Elems(resv) \ {id}
  BY <1>1, HeadLeaves
<1>3. [pb |-> pb, reg_id |-> id] \in Requests
  BY <1>2 DEF Requests
<1>4. PICK n \in Nat : n = Len(reqs)
  BY <1>1, LenProperties
<1>5. new \in Seq(Requests) /\ Len(new) = n + 1 /\ new[n + 1] = [pb |-> pb, reg_id |-> id]
      /\ \A i \in 1..n : new[i] = reqs[i]
  BY <1>1, <1>3, <1>4, LastJoins
<1>6. names \in [RegId -> PB \cup {NoPB}] /\ names[id] = pb /\ \A x \in RegId : x # id => names[x] = list[x]
  BY <1>1, <1>2
<1>7. \A i \in 1..n : reqs[i].reg_id \in RegId /\ reqs[i].reg_id # id /\ reqs[i].pb # pb /\ reqs[i].pb \in PB
  <2>1. \A i \in 1..n : reqs[i] \in Requests
    BY <1>1, <1>4, ElementOfSeq
  <2>. QED BY <1>1, <1>2, <1>4, <2>1 DEF Requests, Taken
<1>8. \A i \in 1..(n + 1) : i \in 1..n \/ i = n + 1
  OBVIOUS
<1>9. (\A i \in 1..n : i \in 1..(n + 1) /\ i # n + 1) /\ n + 1 \in 1..(n + 1)
  OBVIOUS
<1>. HIDE DEF id, new, ids, names
<1>10. new[n + 1].pb = pb /\ new[n + 1].reg_id = id
  BY <1>5
<1>11. \A i, j \in 1..(n + 1) : new[i].reg_id = new[j].reg_id \/ new[i].pb = new[j].pb => i = j
  <2>1. \A i, j \in 1..n : new[i].reg_id = new[j].reg_id \/ new[i].pb = new[j].pb => i = j
    BY <1>1, <1>4, <1>5
  <2>2. \A i \in 1..n : new[i].reg_id # id /\ new[i].pb # pb
    BY <1>5, <1>7
  <2>. QED BY <1>8, <1>10, <2>1, <2>2
<1>12. \A k \in 1..(n + 1) : names[new[k].reg_id] = new[k].pb /\ new[k].reg_id \notin Elems(ids)
  <2>1. \A k \in 1..n : names[new[k].reg_id] = new[k].pb /\ new[k].reg_id \notin Elems(ids)
    BY <1>1, <1>2, <1>4, <1>5, <1>6, <1>7
  <2>. QED BY <1>2, <1>6, <1>8, <1>10, <2>1
<1>13. \A x \in Elems(ids) : names[x] = NoPB
  <2>1. \A x \in Elems(resv) : x \in RegId
    BY <1>1, ElementOfSeq DEF Elems
  <2>. QED BY <1>1, <1>2, <1>6, <2>1
<1>14. \A x \in RegId : x \in Elems(ids) \/ \E k \in 1..(n + 1) : new[k].reg_id = x
  <2>1. ASSUME NEW x \in RegId, x \notin Elems(ids) PROVE \E k \in 1..(n + 1) : new[k].reg_id = x
    <3>1. CASE x = id
      BY <1>9, <1>10, <3>1
    <3>2. CASE x # id
      <4>1. PICK k \in 1..n : reqs[k].reg_id = x
        BY <1>1, <1>2, <1>4, <2>1, <3>2
      <4>. QED BY <1>5, <1>9, <4>1
    <3>. QED BY <3>1, <3>2
  <2>. QED BY <2>1
<1>15. Reserved(new, ids, names)
  BY <1>2, <1>5, <1>6, <1>11, <1>12, <1>13, <1>14 DEF Reserved
<1>16. Taken(new) = Taken(reqs) \cup {pb}
  <2>1. \A x \in Taken(new) : x \in Taken(reqs) \cup {pb}
    BY <1>4, <1>5, <1>8, <1>10 DEF Taken
  <2>2. \A x \in Taken(reqs) : x \in Taken(new)
    BY <1>4, <1>5, <1>9 DEF Taken
  <2>3. pb \in Taken(new)
    BY <1>5, <1>9, <1>10 DEF Taken
  <2>. QED BY <2>1, <2>2, <2>3
<1>. QED BY <1>15, <1>16 DEF new, ids, names

\* The first n lanes of the search were empty when no block has been found.
SearchOK(n, s) ==
  /\ s \in Searching /\ LanesHold(s.que, With("INVALID") \ Taken(s.reqs))
  /\ Taken(s.reqs) \subseteq With("INVALID")
  /\ Reserved(s.reqs, s.resv, s.list) /\ Len(s.reqs) <= MaxErase
  /\ s.reqs = <<>> => /\ s.que = invalid_block_que /\ s.resv = erase_resv_que
                      /\ \A i \in 1..n : s.que[Visits(erase_cursor)[i]] = <<>>

LEMMA ReserveKeepsOrder ==
  ASSUME Sound, erase_resv_que # <<>>, NEW n \in Nat, NEW s, SearchOK(n, s),
         NEW lane \in Lane, lane = Visits(erase_cursor)[n + 1]
  PROVE  SearchOK(n + 1, ReserveAt(s, lane))
<1>0. s \in Searching /\ s.reqs \in Seq(Requests) /\ s.resv \in Seq(RegId) /\ Len(s.reqs) \in Nat
      /\ MaxErase \in Nat \ {0}
  BY PoolAssumption, LenProperties DEF SearchOK, Searching
<1>1. ReserveAt(s, lane) \in Searching
  BY <1>0, ReserveKeepsType
<1>2. CASE Stuck(s, lane)
  <2>1. ReserveAt(s, lane) = s
    BY <1>0, <1>2, ReserveAtIs
  <2>2. s.reqs = <<>> => s.que[lane] = <<>>
    <3>1. s.reqs = <<>> => Len(s.reqs) # MaxErase /\ s.resv # <<>>
      BY <1>0 DEF SearchOK
    <3>. QED BY <1>2, <3>1 DEF Stuck
  <2>3. \A i \in 1..(n + 1) : i \in 1..n \/ i = n + 1
    OBVIOUS
  <2>4. SearchOK(n + 1, s)
    BY <2>2, <2>3 DEF SearchOK
  <2>. QED BY <2>1, <2>4
<1>3. CASE ~Stuck(s, lane)
  <2>. DEFINE t == ReserveAt(s, lane)
              h == Head(s.que[lane])
              S == With("INVALID") \ Taken(s.reqs)
  <2>1. /\ t.que = [s.que EXCEPT ![lane] = Tail(@)] /\ t.resv = Tail(s.resv)
        /\ t.list = [s.list EXCEPT ![Head(s.resv)] = h]
        /\ t.reqs = Append(s.reqs, [pb |-> h, reg_id |-> Head(s.resv)])
    <3>1. t = Booked(s, lane)
      BY <1>0, <1>3, ReserveAtIs, Zenon
    <3>. HIDE DEF t
    <3>. QED BY <3>1 DEF Booked
  <2>2. h \in S /\ LanesHold([s.que EXCEPT ![lane] = Tail(@)], S \ {h})
    <3>1. S \subseteq PB /\ LanesHold(s.que, S) /\ s.que[lane] # <<>>
      BY <1>3 DEF With, SearchOK, Stuck
    <3>. HIDE DEF S
    <3>. QED BY <3>1, LaneGives
  <2>. HIDE DEF t, h
  <2>3. h \in PB /\ h \notin Taken(s.reqs) /\ h \in With("INVALID")
    BY <2>2 DEF With
  <2>4. Reserved(t.reqs, t.resv, t.list) /\ Taken(t.reqs) = Taken(s.reqs) \cup {h}
    <3>1. Reserved(s.reqs, s.resv, s.list) /\ s.resv # <<>>
      BY <1>3 DEF SearchOK, Stuck
    <3>. QED BY <2>1, <2>3, <3>1, Booking
  <2>5. S \ {h} = With("INVALID") \ Taken(t.reqs)
    BY <2>4
  <2>6. Len(t.reqs) = Len(s.reqs) + 1
    <3>1. t.reqs \in Seq(Requests) /\ [pb |-> h, reg_id |-> Head(s.resv)] \in Requests
      <4>1. Head(s.resv) \in RegId
        BY <1>0, <1>3, HeadLeaves DEF Stuck
      <4>. QED BY <1>1, <2>3, <4>1 DEF Requests, Searching, t
    <3>. QED BY <1>0, <2>1, <3>1, LastJoins
  <2>7. Len(s.reqs) # MaxErase /\ Len(s.reqs) <= MaxErase
    BY <1>3 DEF Stuck, SearchOK
  <2>8. Len(t.reqs) <= MaxErase /\ t.reqs # <<>>
    BY <1>0, <2>6, <2>7
  <2>9. Taken(t.reqs) \subseteq With("INVALID")
    BY <2>3, <2>4 DEF SearchOK
  <2>10. LanesHold(t.que, With("INVALID") \ Taken(t.reqs))
    BY <2>1, <2>2, <2>5, Zenon
  <2>11. SearchOK(n + 1, t)
    BY <1>1, <2>4, <2>8, <2>9, <2>10 DEF SearchOK, t
  <2>. QED BY <2>11 DEF t
<1>. QED BY <1>2, <1>3

SearchFrom(start, visits, f) ==
  [n \in 0..Len(visits) |-> IF n = 0 THEN start ELSE ReserveAt(f[n - 1], visits[n])]

LEMMA SearchHolds ==
  ASSUME Sound, erase_cursor \in Lane, erase_resv_que # <<>>, erase_req = <<>>,
         LanesHold(invalid_block_que, Waiting), Reserved(erase_req, erase_resv_que, erase_resv_list)
  PROVE  /\ SearchOK(Len(Visits(erase_cursor)), EraseSearch)
         /\ EraseSearch.reqs = <<>> => \A lane \in Lane : invalid_block_que[lane] = <<>>
<1>. DEFINE visits == Visits(erase_cursor)
            N == Len(visits)
            c == [que |-> invalid_block_que, resv |-> erase_resv_que, list |-> erase_resv_list,
                  reqs |-> <<>>, cursor |-> NextLine(erase_cursor)]
            f == Searched
            G == [n \in 1..N |-> [s \in Searching |-> ReserveAt(s, visits[n])]]
            Q == {n \in 0..N : SearchOK(n, f[n])}
<1>1. N \in Nat /\ (\A i \in 1..N : visits[i] \in Lane) /\ NextLine(erase_cursor) \in Lane
      /\ \A lane \in Lane : \E i \in 1..N : visits[i] = lane
  BY VisitsAll
<1>2. c \in Searching /\ SearchOK(0, c)
  <2>1. <<>> \in Seq(Requests) /\ Len(<<>>) = 0 /\ Taken(<<>>) = {} /\ MaxErase \in Nat
    BY PoolAssumption DEF Taken
  <2>2. c \in Searching
    BY <1>1, <2>1 DEF Searching, LanesHold, Reserved
  <2>3. Waiting = With("INVALID") \ Taken(<<>>) /\ Reserved(<<>>, erase_resv_que, erase_resv_list)
    BY DEF Waiting
  <2>4. \A i \in 1..0 : FALSE
    OBVIOUS
  <2>. QED BY <2>1, <2>2, <2>3, <2>4 DEF SearchOK
<1>3. StayIn(Searching, N, G)
  <2>. HIDE DEF N, visits
  <2>1. ASSUME NEW n \in 1..N, NEW s \in Searching PROVE ReserveAt(s, visits[n]) \in Searching
    BY <1>1, ReserveKeepsType
  <2>. QED BY <2>1 DEF StayIn
<1>. HIDE DEF N, visits
<1>4. f = SearchFrom(c, visits, f)
  <2>0. f = CHOOSE g : g = SearchFrom(c, visits, g)
    BY Zenon DEF Searched, SearchFrom, visits
  <2>. HIDE DEF f, c
  <2>1. PICK g \in [0..N -> Searching] : GoesThrough(c, N, G, g)
    <3>. HIDE DEF G
    <3>. QED BY <1>1, <1>2, <1>3, Stages, Zenon
  <2>2. ASSUME NEW n \in 0..N
        PROVE  (IF n = 0 THEN c ELSE G[n][g[n - 1]]) = IF n = 0 THEN c ELSE ReserveAt(g[n - 1], visits[n])
    <3>1. n # 0 => n \in 1..N /\ n - 1 \in 0..N
      BY <1>1, <2>2
    <3>2. n # 0 => g[n - 1] \in Searching
      BY <2>1, <3>1
    <3>. QED BY <3>1, <3>2
  <2>3. [n \in 0..N |-> IF n = 0 THEN c ELSE G[n][g[n - 1]]] = SearchFrom(c, visits, g)
    <3>. HIDE DEF G
    <3>. QED BY <2>2 DEF SearchFrom, N
  <2>4. g = SearchFrom(c, visits, g)
    BY <2>1, <2>3, Zenon DEF GoesThrough
  <2>. QED BY <2>0, <2>4, Zenon
<1>. HIDE DEF f, G, c
<1>5. \A n \in 0..N : f[n] = IF n = 0 THEN c ELSE ReserveAt(f[n - 1], visits[n])
  <2>. DEFINE h == SearchFrom(c, visits, f)
  <2>1. \A n \in 0..N : h[n] = IF n = 0 THEN c ELSE ReserveAt(f[n - 1], visits[n])
    BY DEF SearchFrom, N
  <2>. HIDE DEF h
  <2>2. f = h
    BY <1>4 DEF h
  <2>. QED BY <2>1, <2>2
<1>6. 0 \in Q
  BY <1>1, <1>2, <1>5
<1>7. ASSUME NEW n \in 1..N, n - 1 \in Q PROVE n \in Q
  <2>1. n \in 0..N /\ n - 1 \in Nat /\ n # 0 /\ (n - 1) + 1 = n
    BY <1>1
  <2>2. SearchOK(n - 1, f[n - 1]) /\ f[n] = ReserveAt(f[n - 1], visits[n])
    BY <1>5, <1>7, <2>1
  <2>3. visits[n] \in Lane /\ visits[n] = Visits(erase_cursor)[(n - 1) + 1]
    BY <1>1, <2>1 DEF visits
  <2>4. SearchOK((n - 1) + 1, f[n])
    BY <2>1, <2>2, <2>3, ReserveKeepsOrder
  <2>. QED BY <2>1, <2>4
<1>8. N \in Q
  <2>. HIDE DEF Q
  <2>1. 0..N \subseteq Q
    BY <1>1, <1>6, <1>7, UpTo
  <2>. QED BY <1>1, <2>1
<1>9. EraseSearch = f[N]
  BY DEF EraseSearch, f, N, visits
<1>10. SearchOK(N, EraseSearch)
  BY <1>8, <1>9
<1>11. EraseSearch.reqs = <<>> => \A lane \in Lane : invalid_block_que[lane] = <<>>
  <2>1. EraseSearch.reqs = <<>> => \A i \in 1..N : invalid_block_que[visits[i]] = <<>>
    BY <1>10 DEF SearchOK, visits
  <2>. QED BY <1>1, <2>1
<1>. QED BY <1>10, <1>11 DEF N, visits

-----------------------------------------------------------------------------
(* What an action does to the parts of the invariant *)

LEMMA Unbooking ==
  ASSUME NEW reqs, NEW resv, NEW list, Reserved(reqs, resv, list), reqs # <<>>
  PROVE  /\ Head(reqs) \in Requests /\ Head(reqs).pb \in Taken(reqs)
         /\ list[Head(reqs).reg_id] = Head(reqs).pb /\ Len(Tail(reqs)) = Len(reqs) - 1
         /\ Reserved(Tail(reqs), Append(resv, Head(reqs).reg_id), [list EXCEPT ![Head(reqs).reg_id] = NoPB])
         /\ Taken(Tail(reqs)) = Taken(reqs) \ {Head(reqs).pb}
<1>. DEFINE r == Head(reqs)
            rest == Tail(reqs)
            ids == Append(resv, Head(reqs).reg_id)
            names == [list EXCEPT ![Head(reqs).reg_id] = NoPB]
<1>1. /\ reqs \in Seq(Requests) /\ resv \in Seq(RegId) /\ list \in [RegId -> PB \cup {NoPB}]
      /\ Once(resv)
      /\ \A i, j \in 1..Len(reqs) : reqs[i].reg_id = reqs[j].reg_id \/ reqs[i].pb = reqs[j].pb => i = j
      /\ \A k \in 1..Len(reqs) : list[reqs[k].reg_id] = reqs[k].pb /\ reqs[k].reg_id \notin Elems(resv)
      /\ \A x \in Elems(resv) : list[x] = NoPB
      /\ \A x \in RegId : x \in Elems(resv) \/ \E k \in 1..Len(reqs) : reqs[k].reg_id = x
  BY DEF Reserved
<1>2. PICK n \in Nat : n = Len(reqs)
  BY <1>1, LenProperties
<1>3. /\ n # 0 /\ rest \in Seq(Requests) /\ Len(rest) = n - 1 /\ r = reqs[1] /\ r \in Requests
      /\ \A i \in 1..(n - 1) : rest[i] = reqs[i + 1]
  BY <1>1, <1>2, EmptySeq, HeadTailProperties
<1>4. r.pb \in PB /\ r.reg_id \in RegId /\ 1 \in 1..n
  BY <1>2, <1>3 DEF Requests
<1>5. ids \in Seq(RegId) /\ Elems(ids) = Elems(resv) \cup {r.reg_id} /\ Once(ids)
  <2>1. r.reg_id \notin Elems(resv)
    BY <1>1, <1>2, <1>3, <1>4
  <2>. QED BY <1>1, <1>4, <2>1, LastJoins
<1>6. names \in [RegId -> PB \cup {NoPB}] /\ names[r.reg_id] = NoPB
      /\ \A x \in RegId : x # r.reg_id => names[x] = list[x]
  BY <1>1, <1>4
<1>7. \A i \in 1..n : reqs[i].reg_id \in RegId /\ reqs[i].pb \in PB
  <2>1. \A i \in 1..n : reqs[i] \in Requests
    BY <1>1, <1>2, ElementOfSeq
  <2>. QED BY <2>1 DEF Requests
<1>8. \A i \in 1..(n - 1) : i + 1 \in 1..n /\ i + 1 # 1
  BY <1>2
<1>9. \A i \in 1..n : i # 1 => i - 1 \in 1..(n - 1) /\ (i - 1) + 1 = i
  BY <1>2
<1>10. \A i, j \in 1..(n - 1) : i + 1 = j + 1 => i = j
  BY <1>2
<1>. HIDE DEF r, rest, ids, names
<1>11. \A i \in 2..n : reqs[i].reg_id # r.reg_id /\ reqs[i].pb # r.pb
  <2>1. \A i \in 2..n : i \in 1..n /\ i # 1
    BY <1>2
  <2>. QED BY <1>1, <1>2, <1>3, <1>4, <2>1
<1>12. \A i \in 1..(n - 1) : i + 1 \in 2..n
  BY <1>2
<1>13. \A i, j \in 1..(n - 1) : rest[i].reg_id = rest[j].reg_id \/ rest[i].pb = rest[j].pb => i = j
  BY <1>1, <1>2, <1>3, <1>8, <1>10
<1>14. \A k \in 1..(n - 1) : names[rest[k].reg_id] = rest[k].pb /\ rest[k].reg_id \notin Elems(ids)
  BY <1>1, <1>2, <1>3, <1>5, <1>6, <1>7, <1>8, <1>11, <1>12
<1>15. \A x \in Elems(ids) : names[x] = NoPB
  <2>1. \A x \in Elems(resv) : x \in RegId
    BY <1>1, ElementOfSeq DEF Elems
  <2>. QED BY <1>1, <1>5, <1>6, <2>1
<1>16. \A x \in RegId : x \in Elems(ids) \/ \E k \in 1..(n - 1) : rest[k].reg_id = x
  <2>1. ASSUME NEW x \in RegId, x \notin Elems(ids) PROVE \E k \in 1..(n - 1) : rest[k].reg_id = x
    <3>1. PICK k \in 1..n : reqs[k].reg_id = x
      BY <1>1, <1>2, <1>5, <2>1
    <3>2. k # 1
      BY <1>3, <1>5, <2>1, <3>1
    <3>3. k - 1 \in 1..(n - 1) /\ rest[k - 1] = reqs[k]
      BY <1>3, <1>9, <3>2
    <3>. QED BY <3>1, <3>3
  <2>. QED BY <2>1
<1>17. Reserved(rest, ids, names)
  BY <1>3, <1>5, <1>6, <1>13, <1>14, <1>15, <1>16 DEF Reserved
<1>18. Taken(rest) = Taken(reqs) \ {r.pb}
  <2>1. ASSUME NEW x \in Taken(rest) PROVE x \in Taken(reqs) /\ x # r.pb
    <3>1. PICK i \in 1..(n - 1) : x = rest[i].pb
      BY <1>3 DEF Taken
    <3>2. i + 1 \in 1..n /\ i + 1 \in 2..n /\ x = reqs[i + 1].pb
      BY <1>3, <1>8, <1>12, <3>1
    <3>. QED BY <1>2, <1>11, <3>2 DEF Taken
  <2>2. ASSUME NEW x \in Taken(reqs), x # r.pb PROVE x \in Taken(rest)
    <3>1. PICK i \in 1..n : x = reqs[i].pb
      BY <1>2 DEF Taken
    <3>2. i - 1 \in 1..(n - 1) /\ x = rest[i - 1].pb
      BY <1>3, <1>9, <2>2, <3>1
    <3>. QED BY <1>3, <3>2 DEF Taken
  <2>. QED BY <2>1, <2>2
<1>19. r.pb \in Taken(reqs) /\ list[r.reg_id] = r.pb
  BY <1>1, <1>2, <1>3, <1>4 DEF Taken
<1>. QED BY <1>2, <1>3, <1>17, <1>18, <1>19 DEF r, rest, ids, names

\* The requests hold a block each.
LEMMA TakenCount ==
  ASSUME NEW reqs, NEW resv, NEW list, Reserved(reqs, resv, list)
  PROVE  IsFiniteSet(Taken(reqs)) /\ Cardinality(Taken(reqs)) = Len(reqs) /\ Len(reqs) \in Nat
<1>. DEFINE s == [k \in 1..Len(reqs) |-> reqs[k].pb]
<1>1. reqs \in Seq(Requests) /\ \A i, j \in 1..Len(reqs) : reqs[i].pb = reqs[j].pb => i = j
  BY DEF Reserved
<1>2. Len(reqs) \in Nat /\ \A k \in 1..Len(reqs) : reqs[k].pb \in PB
  <2>1. Len(reqs) \in Nat /\ \A k \in 1..Len(reqs) : reqs[k] \in Requests
    BY <1>1, LenProperties, ElementOfSeq
  <2>. QED BY <2>1 DEF Requests
<1>3. s \in Seq(PB) /\ Len(s) = Len(reqs) /\ \A k \in 1..Len(reqs) : s[k] = reqs[k].pb
  <2>1. s \in [1..Len(reqs) -> PB]
    BY <1>2
  <2>2. s \in Seq(PB)
    BY <1>2, <2>1
  <2>3. DOMAIN s = 1..Len(s) /\ Len(s) \in Nat
    BY <2>2, LenProperties
  <2>4. \A k \in 1..Len(reqs) : s[k] = reqs[k].pb
    OBVIOUS
  <2>. HIDE DEF s
  <2>. QED BY <1>2, <2>1, <2>2, <2>3, <2>4
<1>. HIDE DEF s
<1>4. Once(s) /\ Elems(s) = Taken(reqs)
  BY <1>1, <1>3 DEF Once, Elems, Taken
<1>. QED BY <1>2, <1>3, <1>4, CountElems

\* A PG is given blocks, and gives them up.
LEMMA PGGains ==
  ASSUME NEW pgs, NEW S, PGsHold(pgs, S), NEW pg \in PG, pgs[pg] = <<>>,
         NEW pbs \in Seq(PB), Once(pbs), Elems(pbs) \cap S = {}
  PROVE  PGsHold([pgs EXCEPT ![pg] = pbs], S \cup Elems(pbs))
<1>. DEFINE new == [pgs EXCEPT ![pg] = pbs]
<1>1. /\ pgs \in [PG -> Seq(PB)]
      /\ \A x, y \in PG : \A i \in 1..Len(pgs[x]), j \in 1..Len(pgs[y]) : pgs[x][i] = pgs[y][j] => x = y /\ i = j
      /\ \A pb \in PB : pb \in S <=> \E x \in PG : pb \in Elems(pgs[x])
  BY DEF PGsHold
<1>2. new \in [PG -> Seq(PB)] /\ new[pg] = pbs /\ \A x \in PG : x # pg => new[x] = pgs[x]
  BY <1>1
<1>. HIDE DEF new
<1>3. \A x \in PG : \A i \in 1..Len(pgs[x]) : pgs[x][i] \in PB
  BY <1>1, ElementOfSeq
<1>4. \A x \in PG : \A i \in 1..Len(pgs[x]), j \in 1..Len(pbs) : pgs[x][i] # pbs[j]
  <2>1. \A x \in PG : \A i \in 1..Len(pgs[x]) : pgs[x][i] \in S
    BY <1>1, <1>3 DEF Elems
  <2>2. \A j \in 1..Len(pbs) : pbs[j] \in Elems(pbs)
    BY DEF Elems
  <2>. QED BY <2>1, <2>2
<1>5. ASSUME NEW x \in PG, NEW y \in PG, NEW i \in 1..Len(new[x]), NEW j \in 1..Len(new[y]),
             new[x][i] = new[y][j]
      PROVE  x = y /\ i = j
  <2>1. CASE x # pg /\ y # pg
    BY <1>1, <1>2, <1>5, <2>1
  <2>2. CASE x = pg /\ y = pg
    BY <1>2, <1>5, <2>2 DEF Once
  <2>3. CASE x = pg /\ y # pg
    BY <1>2, <1>4, <1>5, <2>3
  <2>4. CASE x # pg /\ y = pg
    BY <1>2, <1>4, <1>5, <2>4
  <2>. QED BY <2>1, <2>2, <2>3, <2>4
<1>6. Elems(pgs[pg]) = {}
  BY DEF Elems
<1>7. ASSUME NEW pb \in PB PROVE pb \in S \cup Elems(pbs) <=> \E x \in PG : pb \in Elems(new[x])
  BY <1>1, <1>2, <1>6
<1>. QED BY <1>2, <1>5, <1>7 DEF PGsHold, new

LEMMA PGLoses ==
  ASSUME NEW pgs, NEW S, PGsHold(pgs, S), NEW pg \in PG
  PROVE  /\ pgs[pg] \in Seq(PB) /\ Once(pgs[pg]) /\ Elems(pgs[pg]) \subseteq S
         /\ PGsHold([pgs EXCEPT ![pg] = <<>>], S \ Elems(pgs[pg]))
<1>. DEFINE new == [pgs EXCEPT ![pg] = <<>>]
<1>1. /\ pgs \in [PG -> Seq(PB)]
      /\ \A x, y \in PG : \A i \in 1..Len(pgs[x]), j \in 1..Len(pgs[y]) : pgs[x][i] = pgs[y][j] => x = y /\ i = j
      /\ \A pb \in PB : pb \in S <=> \E x \in PG : pb \in Elems(pgs[x])
  BY DEF PGsHold
<1>2. new \in [PG -> Seq(PB)] /\ new[pg] = <<>> /\ \A x \in PG : x # pg => new[x] = pgs[x]
  BY <1>1
<1>. HIDE DEF new
<1>3. \A x \in PG : Elems(pgs[x]) \subseteq PB
  BY <1>1, ElementOfSeq DEF Elems
<1>4. Once(pgs[pg]) /\ Elems(pgs[pg]) \subseteq S
  BY <1>1, <1>3 DEF Once
<1>5. ASSUME NEW x \in PG, NEW y \in PG, NEW i \in 1..Len(new[x]), NEW j \in 1..Len(new[y]),
             new[x][i] = new[y][j]
      PROVE  x = y /\ i = j
  <2>1. x # pg /\ y # pg
    BY <1>2
  <2>. QED BY <1>1, <1>2, <1>5, <2>1
<1>6. Elems(new[pg]) = {}
  BY <1>2 DEF Elems
<1>7. \A x, y \in PG : \A pb : pb \in Elems(pgs[x]) /\ pb \in Elems(pgs[y]) => x = y
  BY <1>1 DEF Elems
<1>8. ASSUME NEW pb \in PB PROVE pb \in S \ Elems(pgs[pg]) <=> \E x \in PG : pb \in Elems(new[x])
  <2>1. \A x \in PG : pb \in Elems(new[x]) <=> x # pg /\ pb \in Elems(pgs[x])
    BY <1>2, <1>6
  <2>. QED BY <1>1, <1>7, <2>1
<1>. QED BY <1>1, <1>2, <1>4, <1>5, <1>8 DEF PGsHold, new

-----------------------------------------------------------------------------
(* The invariant holds *)

LEMMA InitHolds == Init => PoolInv
<1>. SUFFICES ASSUME Init PROVE PoolInv
  OBVIOUS
<1>. DEFINE all == [i \in 1..PbNum |-> i - 1]
            ids == [i \in 1..MaxEraseReg |-> i - 1]
<1>1. Sound
  BY DEF Init, Sound
<1>2. PICK n \in Nat : n = PbNum /\ PB = 0..(n - 1) /\ IsFiniteSet(PB) /\ Cardinality(PB) = n
  BY <1>1, PoolSizes
<1>3. lane_of \in [PB -> Lane]
  <2>1. lane_of = [pb \in PB |-> LaneOf(fm_info, pb)]
    BY DEF Init
  <2>. QED BY <1>1, <2>1, PoolSizes
<1>4. 0 \in Lane
  <2>1. LaneNum \in Nat \ {0} /\ Lane = 0..(LaneNum - 1)
    BY <1>1, PoolSizes
  <2>. QED BY <2>1
<1>5. all \in Seq(PB) /\ Once(all) /\ Elems(all) = PB
  <2>1. all \in [1..n -> PB]
    BY <1>2
  <2>2. all \in Seq(PB)
    <3>. HIDE DEF all
    <3>. QED BY <2>1
  <2>3. DOMAIN all = 1..Len(all) /\ Len(all) \in Nat
    BY <2>2, LenProperties
  <2>4. \A i \in 1..n : all[i] = i - 1
    BY <1>2
  <2>. HIDE DEF all
  <2>5. Len(all) = n
    BY <2>1, <2>3
  <2>6. \A i, j \in 1..n : i - 1 = j - 1 => i = j
    OBVIOUS
  <2>7. \A pb \in 0..(n - 1) : pb + 1 \in 1..n /\ (pb + 1) - 1 = pb
    OBVIOUS
  <2>8. Elems(all) = PB
    <3>1. \A pb \in PB : pb + 1 \in 1..n /\ all[pb + 1] = pb
      BY <1>2, <2>4, <2>7
    <3>. QED BY <2>1, <2>5, <3>1 DEF Elems
  <2>. QED BY <2>2, <2>4, <2>5, <2>6, <2>8 DEF Once
<1>6. LanesHold(NoBlocks, {})
  <2>1. Once(<<>>) /\ Elems(<<>>) = {} /\ <<>> \in Seq(PB)
    BY DEF Once, Elems
  <2>. QED BY <2>1 DEF LanesHold, NoBlocks
<1>7. With("FREE") = PB /\ With("BIND") = {} /\ With("INVALID") = {}
  <2>1. \A pb \in PB : status[pb] = "FREE"
    BY DEF Init
  <2>. QED BY <2>1 DEF With
<1>8. LanesHold(free_block_que, With("FREE"))
  <2>1. LanesHold(PushAll(NoBlocks, all), {} \cup Elems(all))
    <3>. HIDE DEF all
    <3>. QED BY <1>3, <1>5, <1>6, LanesTake
  <2>2. free_block_que = PushAll(NoBlocks, all) /\ {} \cup Elems(all) = With("FREE")
    BY <1>5, <1>7 DEF Init
  <2>. QED BY <2>1, <2>2
<1>9. erase_req = <<>> /\ Taken(erase_req) = {} /\ Waiting = {} /\ Len(erase_req) <= MaxErase
  <2>1. erase_req = <<>> /\ MaxErase \in Nat /\ Len(<<>>) = 0 /\ Taken(<<>>) = {}
    BY PoolAssumption DEF Init, Taken
  <2>. QED BY <1>7, <2>1 DEF Waiting
<1>10. LanesHold(invalid_block_que, Waiting)
  BY <1>6, <1>9 DEF Init
<1>11. total_free = Cardinality(With("FREE")) /\ total_invalid = Cardinality(Waiting)
  BY <1>2, <1>7, <1>9, FS_EmptySet DEF Init
<1>12. Reserved(erase_req, erase_resv_que, erase_resv_list)
  <2>0. MaxEraseReg \in Nat
    BY PoolAssumption
  <2>1. erase_resv_que = ids /\ erase_resv_list = [id \in RegId |-> NoPB]
    BY DEF Init
  <2>2. ids \in [1..MaxEraseReg -> RegId] /\ \A i \in 1..MaxEraseReg : ids[i] = i - 1
    BY <2>0 DEF RegId
  <2>3. ids \in Seq(RegId)
    BY <2>0, <2>2
  <2>4. Len(ids) = MaxEraseReg
    <3>1. DOMAIN ids = 1..Len(ids) /\ Len(ids) \in Nat
      BY <2>3, LenProperties
    <3>. HIDE DEF ids
    <3>. QED BY <2>0, <2>2, <3>1
  <2>. HIDE DEF ids
  <2>5. Once(ids)
    <3>1. \A i, j \in 1..MaxEraseReg : i - 1 = j - 1 => i = j
      OBVIOUS
    <3>. QED BY <2>2, <2>4, <3>1 DEF Once
  <2>6. Elems(ids) = RegId
    <3>1. \A id \in RegId : id + 1 \in 1..MaxEraseReg /\ ids[id + 1] = id
      BY <2>0, <2>2 DEF RegId
    <3>. QED BY <2>2, <2>4, <3>1 DEF Elems
  <2>7. erase_req \in Seq(Requests) /\ \A i \in 1..Len(erase_req) : FALSE
    BY <1>9
  <2>. QED BY <2>1, <2>3, <2>5, <2>6, <2>7 DEF Reserved
<1>13. PGsHold(pb_list, With("BIND")) /\ PGsWhole
  <2>1. pb_list = [pg \in PG |-> <<>>]
    BY DEF Init
  <2>2. pb_list \in [PG -> Seq(PB)] /\ \A pg \in PG : Elems(pb_list[pg]) = {} /\ Len(pb_list[pg]) = 0
    BY <2>1 DEF Elems
  <2>. QED BY <1>7, <2>1, <2>2 DEF PGsHold, PGsWhole
<1>14. status \in [PB -> {"FREE", "BIND", "INVALID"}] /\ free_cursor \in Lane /\ erase_cursor \in Lane
       /\ failed \in BOOLEAN
  BY <1>4 DEF Init
<1>. QED BY <1>1, <1>3, <1>7, <1>8, <1>9, <1>10, <1>11, <1>12, <1>13, <1>14 DEF PoolInv

\* The geometry stays, and all that is made of it.
Frame ==
  /\ fm_info' = fm_info /\ lane_of' = lane_of
  /\ PB' = PB /\ Lane' = Lane /\ PG' = PG /\ Sound'

LEMMA FrameHolds ==
  ASSUME Sound, fm_info' = fm_info, lane_of' = lane_of
  PROVE  Frame
BY DEF Frame, Sound, PB, Lane, PG, PbNum, LaneNum, BusNum

\* A queue of the next state that holds what has the state there.
LEMMA WithChanged ==
  ASSUME Frame, NEW pbs, NEW to,
         status' = [pb \in PB |-> IF Contains(pbs, pb) THEN to ELSE status[pb]],
         Elems(pbs) \subseteq PB
  PROVE  \A state : With(state)' = IF state = to THEN With(state) \cup Elems(pbs) ELSE With(state) \ Elems(pbs)
<1>1. \A pb : Contains(pbs, pb) <=> pb \in Elems(pbs)
  BY DEF Contains, Elems
<1>. QED BY <1>1 DEF With, Frame

\* What the invariant says of the blocks in a state.
LEMMA WithTypes ==
  ASSUME PoolInv
  PROVE  /\ IsFiniteSet(With("FREE")) /\ IsFiniteSet(Waiting) /\ Waiting \subseteq PB
         /\ With("FREE") \subseteq PB /\ With("BIND") \subseteq PB /\ With("INVALID") \subseteq PB
         /\ Cardinality(With("FREE")) \in 0..PbNum /\ Cardinality(Waiting) \in 0..PbNum
<1>1. IsFiniteSet(PB) /\ Cardinality(PB) = PbNum /\ PbNum \in Nat
  BY PoolSizes DEF PoolInv
<1>2. Waiting \subseteq PB /\ With("FREE") \subseteq PB /\ With("BIND") \subseteq PB /\ With("INVALID") \subseteq PB
  BY DEF Waiting, With
<1>3. ASSUME NEW S, S \subseteq PB PROVE IsFiniteSet(S) /\ Cardinality(S) \in 0..PbNum
  <2>1. IsFiniteSet(S) /\ Cardinality(S) <= Cardinality(PB)
    BY <1>1, <1>3, FS_Subset
  <2>2. Cardinality(S) \in Nat
    BY <2>1, FS_CardinalityType
  <2>. QED BY <1>1, <2>1, <2>2
<1>. QED BY <1>2, <1>3

\* With no request out, there is a reservation to be had.
LEMMA SomeReservation ==
  ASSUME Reserved(<<>>, erase_resv_que, erase_resv_list)
  PROVE  erase_resv_que # <<>>
<1>1. 0 \in RegId
  BY PoolAssumption DEF RegId
<1>2. 0 \in Elems(erase_resv_que)
  <2>1. \A k \in 1..Len(<<>>) : FALSE
    OBVIOUS
  <2>. QED BY <1>1, <2>1 DEF Reserved
<1>. QED BY <1>2 DEF Elems

LEMMA BuildPGKeeps ==
  ASSUME PoolInv, NEW pg \in PG, BuildPG(pg)
  PROVE  /\ PoolInv' /\ (failed' => total_free < PgPbNum)
         /\ total_free' = IF total_free >= PgPbNum THEN total_free - PgPbNum ELSE 0
<1>. DEFINE end == Turns[PgPbNum]
            pbs == end.pbs
<1>1. Sound /\ lane_of \in [PB -> Lane] /\ free_cursor \in Lane /\ LanesHold(free_block_que, With("FREE"))
  BY DEF PoolInv
<1>2. TurnOK(PgPbNum, end)
  BY <1>1, TurnsHold
<1>3. /\ free_block_que' = end.que /\ free_cursor' = end.cursor
      /\ pb_list' = [pb_list EXCEPT ![pg] = pbs]
      /\ status' = [pb \in PB |-> IF Contains(pbs, pb) THEN "BIND" ELSE status[pb]]
      /\ total_free' = total_free - Len(pbs) /\ failed' = end.null
      /\ ~failed /\ erase_req = <<>> /\ pb_list[pg] = <<>>
      /\ fm_info' = fm_info /\ lane_of' = lane_of
      /\ invalid_block_que' = invalid_block_que /\ total_invalid' = total_invalid
      /\ erase_resv_que' = erase_resv_que /\ erase_resv_list' = erase_resv_list
      /\ erase_cursor' = erase_cursor /\ erase_req' = erase_req
  BY DEF BuildPG
<1>. HIDE DEF end
<1>4. Frame
  BY <1>1, <1>3, FrameHolds
<1>5. /\ end.que \in [Lane -> Seq(PB)] /\ end.cursor \in Lane /\ pbs \in Seq(PB) /\ end.null \in BOOLEAN
      /\ LanesHold(end.que, With("FREE") \ Elems(pbs)) /\ Once(pbs) /\ Elems(pbs) \subseteq With("FREE")
      /\ (~end.null => Len(pbs) = PgPbNum) /\ (end.null => Len(pbs) < PgPbNum /\ Elems(pbs) = With("FREE"))
  BY <1>2 DEF TurnOK, Turn
<1>6. IsFiniteSet(Elems(pbs)) /\ Cardinality(Elems(pbs)) = Len(pbs) /\ Elems(pbs) \subseteq PB /\ Len(pbs) \in Nat
  BY <1>5, CountElems, LenProperties
<1>. HIDE DEF pbs
<1>7. \A state : With(state)' = IF state = "BIND" THEN With(state) \cup Elems(pbs) ELSE With(state) \ Elems(pbs)
  BY <1>3, <1>4, <1>6, WithChanged
<1>8. With("FREE")' = With("FREE") \ Elems(pbs) /\ With("BIND")' = With("BIND") \cup Elems(pbs)
      /\ With("INVALID")' = With("INVALID")
  <2>1. With("INVALID") \cap With("FREE") = {}
    BY DEF With
  <2>. QED BY <1>5, <1>7, <2>1
<1>9. LanesHold(free_block_que, With("FREE"))'
  BY <1>3, <1>4, <1>5, <1>8 DEF LanesHold, Frame
<1>10. total_free' = Cardinality(With("FREE")')
  <2>1. With("FREE") \cap Elems(pbs) = Elems(pbs)
    BY <1>5
  <2>2. Cardinality(With("FREE") \ Elems(pbs)) = Cardinality(With("FREE")) - Cardinality(Elems(pbs))
    BY <2>1, WithTypes, FS_Difference
  <2>. QED BY <1>3, <1>6, <1>8, <2>2 DEF PoolInv
<1>11. Taken(erase_req)' = Taken(erase_req) /\ Waiting' = Waiting
  BY <1>3, <1>8 DEF Waiting, Taken
<1>12. LanesHold(invalid_block_que, Waiting)' /\ total_invalid' = Cardinality(Waiting')
  BY <1>3, <1>4, <1>11 DEF LanesHold, Frame, PoolInv
<1>13. Reserved(erase_req, erase_resv_que, erase_resv_list)' /\ Len(erase_req') <= MaxErase
       /\ Taken(erase_req)' \subseteq With("INVALID")'
  <2>1. Requests' = Requests
    BY <1>4 DEF Requests, Frame, RegId
  <2>. QED BY <1>3, <1>4, <1>8, <1>11, <2>1 DEF Reserved, Frame, PoolInv, RegId
<1>14. PGsHold(pb_list, With("BIND"))'
  <2>1. Elems(pbs) \cap With("BIND") = {}
    BY <1>5 DEF With
  <2>2. PGsHold(pb_list, With("BIND"))
    BY DEF PoolInv
  <2>3. PGsHold([pb_list EXCEPT ![pg] = pbs], With("BIND") \cup Elems(pbs))
    BY <1>3, <1>5, <2>1, <2>2, PGGains
  <2>. QED BY <1>3, <1>4, <1>8, <2>3 DEF PGsHold, Frame
<1>15. (failed \/ PGsWhole)'
  <2>1. PGsWhole /\ pb_list \in [PG -> Seq(PB)]
    BY <1>3 DEF PoolInv, PGsHold
  <2>. QED BY <1>3, <1>4, <1>5, <2>1 DEF PGsWhole, Frame
<1>16. lane_of' \in [PB' -> Lane'] /\ status' \in [PB' -> {"FREE", "BIND", "INVALID"}]
       /\ free_cursor' \in Lane' /\ erase_cursor' \in Lane' /\ failed' \in BOOLEAN /\ Sound'
  BY <1>3, <1>4, <1>5 DEF PoolInv, Frame
<1>17. PoolInv'
  BY <1>9, <1>10, <1>12, <1>13, <1>14, <1>15, <1>16 DEF PoolInv
<1>18. failed' => total_free < PgPbNum
  BY <1>3, <1>5, <1>6 DEF PoolInv
<1>19. total_free' = IF total_free >= PgPbNum THEN total_free - PgPbNum ELSE 0
  <2>1. total_free \in Nat /\ PgPbNum \in Nat /\ total_free = Cardinality(With("FREE"))
    BY WithTypes, PoolAssumption DEF PoolInv
  <2>2. CASE end.null
    <3>1. Len(pbs) < PgPbNum /\ total_free = Len(pbs)
      BY <1>5, <1>6, <2>1, <2>2
    <3>. QED BY <1>3, <1>6, <2>1, <3>1
  <2>3. CASE ~end.null
    <3>1. Cardinality(Elems(pbs)) <= Cardinality(With("FREE"))
      BY <1>5, WithTypes, FS_Subset
    <3>2. Len(pbs) = PgPbNum /\ Len(pbs) <= total_free
      BY <1>5, <1>6, <2>1, <2>3, <3>1
    <3>. QED BY <1>3, <1>6, <2>1, <3>2
  <2>. QED BY <1>5, <2>2, <2>3
<1>. QED BY <1>17, <1>18, <1>19

LEMMA CloseToInvalidKeeps ==
  ASSUME PoolInv, NEW pg \in PG, CloseToInvalid(pg)
  PROVE  PoolInv'
<1>. DEFINE pbs == pb_list[pg]
<1>1. Sound /\ lane_of \in [PB -> Lane]
  BY DEF PoolInv
<1>2. /\ invalid_block_que' = PushAll(invalid_block_que, pbs)
      /\ status' = [pb \in PB |-> IF Contains(pbs, pb) THEN "INVALID" ELSE status[pb]]
      /\ total_invalid' = total_invalid + Len(pbs)
      /\ pb_list' = [pb_list EXCEPT ![pg] = <<>>]
      /\ erase_req = <<>> /\ fm_info' = fm_info /\ lane_of' = lane_of
      /\ free_block_que' = free_block_que /\ total_free' = total_free
      /\ erase_resv_que' = erase_resv_que /\ erase_resv_list' = erase_resv_list
      /\ free_cursor' = free_cursor /\ erase_cursor' = erase_cursor
      /\ erase_req' = erase_req /\ failed' = failed
  BY DEF CloseToInvalid
<1>3. Frame
  BY <1>1, <1>2, FrameHolds
<1>4. pbs \in Seq(PB) /\ Once(pbs) /\ Elems(pbs) \subseteq With("BIND")
      /\ PGsHold([pb_list EXCEPT ![pg] = <<>>], With("BIND") \ Elems(pbs))
  BY PGLoses DEF PoolInv
<1>5. IsFiniteSet(Elems(pbs)) /\ Cardinality(Elems(pbs)) = Len(pbs) /\ Elems(pbs) \subseteq PB
  BY <1>4, CountElems
<1>. HIDE DEF pbs
<1>6. \A state : With(state)' = IF state = "INVALID" THEN With(state) \cup Elems(pbs) ELSE With(state) \ Elems(pbs)
  BY <1>2, <1>3, <1>5, WithChanged
<1>7. With("INVALID")' = With("INVALID") \cup Elems(pbs) /\ With("BIND")' = With("BIND") \ Elems(pbs)
      /\ With("FREE")' = With("FREE")
  <2>1. With("BIND") \cap With("FREE") = {}
    BY DEF With
  <2>. QED BY <1>4, <1>6, <2>1
<1>8. Taken(erase_req) = {} /\ Taken(erase_req)' = {}
  BY <1>2 DEF Taken
<1>9. Waiting = With("INVALID") /\ Waiting' = Waiting \cup Elems(pbs) /\ Waiting \cap Elems(pbs) = {}
  <2>1. With("BIND") \cap With("INVALID") = {}
    BY DEF With
  <2>. QED BY <1>4, <1>7, <1>8, <2>1 DEF Waiting
<1>10. LanesHold(invalid_block_que, Waiting)'
  <2>1. LanesHold(invalid_block_que, Waiting) /\ Waiting \subseteq PB
    BY WithTypes DEF PoolInv
  <2>2. Elems(pbs) \cap Waiting = {}
    BY <1>9
  <2>3. LanesHold(PushAll(invalid_block_que, pbs), Waiting \cup Elems(pbs))
    BY <1>1, <1>4, <2>1, <2>2, LanesTake
  <2>. QED BY <1>2, <1>3, <1>9, <2>3 DEF LanesHold, Frame
<1>11. total_invalid' = Cardinality(Waiting')
  <2>1. IsFiniteSet(Waiting) /\ Cardinality(Waiting) \in Nat /\ total_invalid = Cardinality(Waiting)
    BY WithTypes, FS_CardinalityType DEF PoolInv
  <2>2. Cardinality({}) = 0
    BY FS_EmptySet
  <2>3. Cardinality(Waiting \cup Elems(pbs)) = Cardinality(Waiting) + Cardinality(Elems(pbs)) - Cardinality({})
    BY <1>5, <1>9, <2>1, FS_Union
  <2>4. Cardinality(Elems(pbs)) \in Nat
    BY <1>5, FS_CardinalityType
  <2>. QED BY <1>2, <1>5, <1>9, <2>1, <2>2, <2>3, <2>4
<1>12. LanesHold(free_block_que, With("FREE"))' /\ total_free' = Cardinality(With("FREE")')
  BY <1>2, <1>3, <1>7 DEF LanesHold, Frame, PoolInv
<1>13. Reserved(erase_req, erase_resv_que, erase_resv_list)' /\ Len(erase_req') <= MaxErase
       /\ Taken(erase_req)' \subseteq With("INVALID")'
  <2>1. Requests' = Requests
    BY <1>3 DEF Requests, Frame, RegId
  <2>. QED BY <1>2, <1>3, <1>8, <2>1 DEF Reserved, Frame, PoolInv, RegId
<1>14. PGsHold(pb_list, With("BIND"))'
  BY <1>2, <1>3, <1>4, <1>7 DEF PGsHold, Frame
<1>15. (failed \/ PGsWhole)'
  <2>1. (failed \/ PGsWhole) /\ pb_list \in [PG -> Seq(PB)]
    BY DEF PoolInv, PGsHold
  <2>. QED BY <1>2, <1>3, <2>1 DEF PGsWhole, Frame
<1>16. lane_of' \in [PB' -> Lane'] /\ status' \in [PB' -> {"FREE", "BIND", "INVALID"}]
       /\ free_cursor' \in Lane' /\ erase_cursor' \in Lane' /\ failed' \in BOOLEAN /\ Sound'
  BY <1>2, <1>3 DEF PoolInv, Frame
<1>. QED BY <1>10, <1>11, <1>12, <1>13, <1>14, <1>15, <1>16 DEF PoolInv

LEMMA GetEraseReqKeeps ==
  ASSUME PoolInv, GetEraseReq
  PROVE  PoolInv'
<1>. DEFINE end == EraseSearch
<1>1. Sound /\ lane_of \in [PB -> Lane] /\ erase_cursor \in Lane
      /\ LanesHold(invalid_block_que, Waiting) /\ Reserved(erase_req, erase_resv_que, erase_resv_list)
  BY DEF PoolInv
<1>2. /\ erase_req' = end.reqs
      /\ invalid_block_que' = end.que /\ total_invalid' = total_invalid - Len(end.reqs)
      /\ erase_resv_que' = end.resv /\ erase_resv_list' = end.list /\ erase_cursor' = end.cursor
      /\ erase_req = <<>> /\ fm_info' = fm_info /\ lane_of' = lane_of
      /\ status' = status /\ free_block_que' = free_block_que /\ total_free' = total_free
      /\ pb_list' = pb_list /\ free_cursor' = free_cursor /\ failed' = failed
  BY DEF GetEraseReq
<1>3. erase_resv_que # <<>>
  BY <1>1, <1>2, SomeReservation
<1>4. SearchOK(Len(Visits(erase_cursor)), end)
  BY <1>1, <1>2, <1>3, SearchHolds
<1>. HIDE DEF end
<1>5. /\ end.que \in [Lane -> Seq(PB)] /\ end.cursor \in Lane
      /\ LanesHold(end.que, With("INVALID") \ Taken(end.reqs)) /\ Taken(end.reqs) \subseteq With("INVALID")
      /\ Reserved(end.reqs, end.resv, end.list) /\ Len(end.reqs) <= MaxErase
  BY <1>4 DEF SearchOK, Searching
<1>6. Frame
  BY <1>1, <1>2, FrameHolds
<1>7. \A state : With(state)' = With(state)
  BY <1>2, <1>6 DEF With, Frame
<1>8. Taken(erase_req)' = Taken(end.reqs) /\ Waiting = With("INVALID")
      /\ Waiting' = With("INVALID") \ Taken(end.reqs)
  BY <1>2, <1>7 DEF Waiting, Taken
<1>9. LanesHold(invalid_block_que, Waiting)'
  BY <1>2, <1>5, <1>6, <1>8 DEF LanesHold, Frame
<1>10. total_invalid' = Cardinality(Waiting')
  <2>1. IsFiniteSet(Waiting) /\ total_invalid = Cardinality(Waiting)
    BY WithTypes DEF PoolInv
  <2>2. Waiting \cap Taken(end.reqs) = Taken(end.reqs)
    BY <1>5, <1>8
  <2>3. Cardinality(Waiting \ Taken(end.reqs)) = Cardinality(Waiting) - Cardinality(Taken(end.reqs))
    BY <2>1, <2>2, FS_Difference
  <2>4. Cardinality(Taken(end.reqs)) = Len(end.reqs)
    BY <1>5, TakenCount
  <2>. QED BY <1>2, <1>8, <2>1, <2>3, <2>4
<1>11. LanesHold(free_block_que, With("FREE"))' /\ total_free' = Cardinality(With("FREE")')
  BY <1>2, <1>6, <1>7 DEF LanesHold, Frame, PoolInv
<1>12. Reserved(erase_req, erase_resv_que, erase_resv_list)' /\ Len(erase_req') <= MaxErase
       /\ Taken(erase_req)' \subseteq With("INVALID")'
  <2>1. Requests' = Requests
    BY <1>6 DEF Requests, Frame, RegId
  <2>. QED BY <1>2, <1>5, <1>6, <1>7, <1>8, <2>1 DEF Reserved, Frame, RegId
<1>13. PGsHold(pb_list, With("BIND"))' /\ (failed \/ PGsWhole)'
  BY <1>2, <1>6, <1>7 DEF PGsHold, PGsWhole, Frame, PoolInv
<1>14. lane_of' \in [PB' -> Lane'] /\ status' \in [PB' -> {"FREE", "BIND", "INVALID"}]
       /\ free_cursor' \in Lane' /\ erase_cursor' \in Lane' /\ failed' \in BOOLEAN /\ Sound'
  BY <1>2, <1>5, <1>6 DEF PoolInv, Frame
<1>. QED BY <1>9, <1>10, <1>11, <1>12, <1>13, <1>14 DEF PoolInv

LEMMA ErasePBKeeps ==
  ASSUME PoolInv, ErasePB
  PROVE  PoolInv'
<1>. DEFINE req == Head(erase_req)
<1>1. Sound /\ lane_of \in [PB -> Lane] /\ status \in [PB -> {"FREE", "BIND", "INVALID"}]
      /\ Reserved(erase_req, erase_resv_que, erase_resv_list)
      /\ Taken(erase_req) \subseteq With("INVALID") /\ Len(erase_req) <= MaxErase
  BY DEF PoolInv
<1>2. /\ erase_req # <<>>
      /\ erase_resv_list' = [erase_resv_list EXCEPT ![req.reg_id] = NoPB]
      /\ erase_resv_que' = Append(erase_resv_que, req.reg_id)
      /\ status' = [status EXCEPT ![req.pb] = "FREE"]
      /\ free_block_que' = PushBack(free_block_que, req.pb)
      /\ total_free' = total_free + 1 /\ erase_req' = Tail(erase_req)
      /\ fm_info' = fm_info /\ lane_of' = lane_of
      /\ invalid_block_que' = invalid_block_que /\ total_invalid' = total_invalid
      /\ pb_list' = pb_list /\ free_cursor' = free_cursor /\ erase_cursor' = erase_cursor
      /\ failed' = failed
  BY DEF ErasePB
<1>3. /\ req \in Requests /\ req.pb \in Taken(erase_req) /\ Len(Tail(erase_req)) = Len(erase_req) - 1
      /\ Reserved(Tail(erase_req), Append(erase_resv_que, req.reg_id), [erase_resv_list EXCEPT ![req.reg_id] = NoPB])
      /\ Taken(Tail(erase_req)) = Taken(erase_req) \ {req.pb}
  BY <1>1, <1>2, Unbooking
<1>. HIDE DEF req
<1>4. Frame
  BY <1>1, <1>2, FrameHolds
<1>5. PICK pb \in PB : pb = req.pb
  BY <1>3 DEF Requests
<1>6. pb \in With("INVALID") /\ pb \in Taken(erase_req)
  BY <1>1, <1>3, <1>5
<1>7. \A b \in PB : status'[b] = IF b = pb THEN "FREE" ELSE status[b]
  BY <1>1, <1>2, <1>5
<1>8. With("FREE")' = With("FREE") \cup {pb} /\ With("BIND")' = With("BIND")
      /\ With("INVALID")' = With("INVALID") \ {pb} /\ pb \notin With("FREE")
  <2>1. status[pb] = "INVALID"
    BY <1>6 DEF With
  <2>. QED BY <1>4, <1>7, <2>1 DEF With, Frame
<1>9. Taken(erase_req)' = Taken(erase_req) \ {pb}
  <2>1. Taken(erase_req)' = Taken(Tail(erase_req))
    BY <1>2 DEF Taken
  <2>. QED BY <1>3, <1>5, <2>1
<1>10. Waiting' = Waiting
  BY <1>6, <1>8, <1>9 DEF Waiting
<1>11. LanesHold(free_block_que, With("FREE"))'
  <2>1. LanesHold(free_block_que, With("FREE")) /\ With("FREE") \subseteq PB
    BY WithTypes DEF PoolInv
  <2>2. pb \in PB \ With("FREE")
    BY <1>8
  <2>3. LanesHold(PushBack(free_block_que, pb), With("FREE") \cup {pb})
    BY <1>1, <2>1, <2>2, LaneTakes
  <2>. QED BY <1>2, <1>4, <1>5, <1>8, <2>3 DEF LanesHold, Frame
<1>12. total_free' = Cardinality(With("FREE")')
  <2>1. IsFiniteSet(With("FREE")) /\ total_free = Cardinality(With("FREE"))
    BY WithTypes DEF PoolInv
  <2>2. Cardinality(With("FREE") \cup {pb}) = Cardinality(With("FREE")) + 1
    BY <1>8, <2>1, FS_AddElement
  <2>. QED BY <1>2, <1>8, <2>1, <2>2
<1>13. LanesHold(invalid_block_que, Waiting)' /\ total_invalid' = Cardinality(Waiting')
  BY <1>2, <1>4, <1>10 DEF LanesHold, Frame, PoolInv
<1>14. Reserved(erase_req, erase_resv_que, erase_resv_list)' /\ Len(erase_req') <= MaxErase
       /\ Taken(erase_req)' \subseteq With("INVALID")'
  <2>1. Requests' = Requests
    BY <1>4 DEF Requests, Frame, RegId
  <2>2. Reserved(erase_req, erase_resv_que, erase_resv_list)'
    BY <1>2, <1>3, <1>4, <2>1 DEF Reserved, Frame, RegId
  <2>3. Taken(erase_req)' \subseteq With("INVALID")'
    BY <1>1, <1>8, <1>9
  <2>4. Len(erase_req') <= MaxErase
    <3>1. Len(erase_req) \in Nat /\ MaxErase \in Nat
      BY <1>1, LenProperties, PoolAssumption DEF Reserved
    <3>. QED BY <1>1, <1>2, <1>3, <3>1
  <2>. QED BY <2>2, <2>3, <2>4
<1>15. PGsHold(pb_list, With("BIND"))' /\ (failed \/ PGsWhole)'
  BY <1>2, <1>4, <1>8 DEF PGsHold, PGsWhole, Frame, PoolInv
<1>16. lane_of' \in [PB' -> Lane'] /\ status' \in [PB' -> {"FREE", "BIND", "INVALID"}]
       /\ free_cursor' \in Lane' /\ erase_cursor' \in Lane' /\ failed' \in BOOLEAN /\ Sound'
  BY <1>1, <1>2, <1>4 DEF PoolInv, Frame
<1>. QED BY <1>11, <1>12, <1>13, <1>14, <1>15, <1>16 DEF PoolInv

\* The rest of a step leaves the blocks alone.
LEMMA OthersKeep ==
  ASSUME PoolInv, OtherDevice \/ UNCHANGED vars
  PROVE  PoolInv'
<1>1. /\ fm_info' = fm_info /\ lane_of' = lane_of /\ status' = status
      /\ free_block_que' = free_block_que /\ invalid_block_que' = invalid_block_que
      /\ total_free' = total_free /\ total_invalid' = total_invalid
      /\ erase_resv_que' = erase_resv_que /\ erase_resv_list' = erase_resv_list
      /\ pb_list' = pb_list /\ erase_req' = erase_req /\ failed' = failed
      /\ free_cursor' \in Lane /\ erase_cursor' \in Lane
  <2>1. free_cursor \in Lane /\ erase_cursor \in Lane
    BY DEF PoolInv
  <2>2. CASE OtherDevice
    BY <2>2 DEF OtherDevice
  <2>3. CASE UNCHANGED vars
    BY <2>1, <2>3 DEF vars
  <2>. QED BY <2>2, <2>3
<1>2. Frame
  BY <1>1, FrameHolds DEF PoolInv
<1>3. \A state : With(state)' = With(state)
  BY <1>1, <1>2 DEF With, Frame
<1>4. Waiting' = Waiting /\ Taken(erase_req)' = Taken(erase_req)
  BY <1>1, <1>3 DEF Waiting, Taken
<1>5. LanesHold(free_block_que, With("FREE"))' /\ LanesHold(invalid_block_que, Waiting)'
      /\ total_free' = Cardinality(With("FREE")') /\ total_invalid' = Cardinality(Waiting')
  BY <1>1, <1>2, <1>3, <1>4 DEF LanesHold, Frame, PoolInv
<1>6. Reserved(erase_req, erase_resv_que, erase_resv_list)' /\ Len(erase_req') <= MaxErase
      /\ Taken(erase_req)' \subseteq With("INVALID")'
  <2>1. Requests' = Requests
    BY <1>2 DEF Requests, Frame, RegId
  <2>. QED BY <1>1, <1>2, <1>3, <1>4, <2>1 DEF Reserved, Frame, PoolInv, RegId
<1>7. PGsHold(pb_list, With("BIND"))' /\ (failed \/ PGsWhole)'
  BY <1>1, <1>2, <1>3 DEF PGsHold, PGsWhole, Frame, PoolInv
<1>8. lane_of' \in [PB' -> Lane'] /\ status' \in [PB' -> {"FREE", "BIND", "INVALID"}]
      /\ free_cursor' \in Lane' /\ erase_cursor' \in Lane' /\ failed' \in BOOLEAN /\ Sound'
  BY <1>1, <1>2 DEF PoolInv, Frame
<1>. QED BY <1>5, <1>6, <1>7, <1>8 DEF PoolInv

LEMMA StepHolds == PoolInv /\ [Next]_vars => PoolInv'
<1>. SUFFICES ASSUME PoolInv, [Next]_vars PROVE PoolInv'
  OBVIOUS
<1>1. ASSUME NEW pg \in PG, BuildPG(pg) PROVE PoolInv'
  BY <1>1, BuildPGKeeps
<1>2. ASSUME NEW pg \in PG, CloseToInvalid(pg) PROVE PoolInv'
  BY <1>2, CloseToInvalidKeeps
<1>3. CASE GetEraseReq
  BY <1>3, GetEraseReqKeeps
<1>4. CASE ErasePB
  BY <1>4, ErasePBKeeps
<1>5. CASE OtherDevice \/ UNCHANGED vars
  BY <1>5, OthersKeep
<1>. QED BY <1>1, <1>2, <1>3, <1>4, <1>5 DEF Next

-----------------------------------------------------------------------------
(* What the invariant says of each block *)

LEMMA TypesFollow ==
  ASSUME PoolInv
  PROVE  PoolTypeOK
<1>1. fm_info \in Geometries
  BY DEF PoolInv, Sound
<1>2. free_block_que \in [Lane -> Seq(PB)] /\ invalid_block_que \in [Lane -> Seq(PB)]
      /\ pb_list \in [PG -> Seq(PB)]
  BY DEF PoolInv, LanesHold, PGsHold
<1>3. total_free \in 0..PbNum /\ total_invalid \in 0..PbNum
  BY WithTypes DEF PoolInv
<1>4. erase_resv_que \in Seq(RegId) /\ erase_resv_list \in [RegId -> PB \cup {NoPB}]
      /\ erase_req \in Seq([pb : PB, reg_id : RegId])
  BY DEF PoolInv, Reserved, Requests
<1>. QED BY <1>1, <1>2, <1>3, <1>4 DEF PoolTypeOK, PoolInv

\* One when it is so, none otherwise.
LEMMA CountUpToOne ==
  ASSUME NEW S, NEW P, \A x, y \in S : x = y, P <=> S # {}
  PROVE  Cardinality(S) = IF P THEN 1 ELSE 0
<1>1. CASE S = {}
  BY <1>1, FS_EmptySet
<1>2. CASE S # {}
  <2>1. PICK x \in S : TRUE
    BY <1>2
  <2>2. S = {x}
    BY <2>1
  <2>. QED BY <1>2, <2>2, FS_Singleton
<1>. QED BY <1>1, <1>2

\* The queue of a block's lane has the block once, or not at all.
LEMMA InItsLane ==
  ASSUME lane_of \in [PB -> Lane], NEW que, NEW S, LanesHold(que, S), NEW pb \in PB
  PROVE  Times(pb, que[lane_of[pb]]) = IF pb \in S THEN 1 ELSE 0
<1>1. PICK lane \in Lane : lane = lane_of[pb]
  OBVIOUS
<1>2. que[lane] \in Seq(PB) /\ Once(que[lane]) /\ Elems(que[lane]) = {b \in S : lane_of[b] = lane}
  BY DEF LanesHold
<1>3. Times(pb, que[lane]) = IF pb \in Elems(que[lane]) THEN 1 ELSE 0
  BY <1>2, TimesOnce
<1>4. pb \in Elems(que[lane]) <=> pb \in S
  BY <1>1, <1>2
<1>. QED BY <1>1, <1>3, <1>4

\* The PGs have a bound block once.
LEMMA InOnePG ==
  ASSUME NEW pgs, NEW S, PGsHold(pgs, S), NEW pb \in PB
  PROVE  TimesIn(pb, pgs) = IF pb \in S THEN 1 ELSE 0
<1>. DEFINE P == Places(pgs)
            A == {at \in P : pgs[at[1]][at[2]] = pb}
<1>1. /\ pgs \in [PG -> Seq(PB)]
      /\ \A x, y \in PG : \A i \in 1..Len(pgs[x]), j \in 1..Len(pgs[y]) : pgs[x][i] = pgs[y][j] => x = y /\ i = j
      /\ pb \in S <=> \E x \in PG : pb \in Elems(pgs[x])
  BY DEF PGsHold
<1>2. \A x \in PG : DOMAIN pgs[x] = 1..Len(pgs[x])
  BY <1>1, LenProperties
<1>3. \A at \in P : at[1] \in PG /\ at[2] \in 1..Len(pgs[at[1]]) /\ at = <<at[1], at[2]>>
  BY <1>1, <1>2 DEF Places
<1>4. \A x \in PG : \A i \in 1..Len(pgs[x]) : <<x, i>> \in P
  BY <1>1, <1>2 DEF Places
<1>. HIDE DEF P
<1>5. \A at, to \in A : at = to
  <2>1. ASSUME NEW at \in A, NEW to \in A PROVE at = to
    <3>1. at[1] = to[1] /\ at[2] = to[2]
      BY <1>1, <1>3
    <3>. QED BY <1>3, <3>1
  <2>. QED BY <2>1
<1>6. pb \in S <=> A # {}
  <2>1. ASSUME pb \in S PROVE A # {}
    <3>1. PICK x \in PG : pb \in Elems(pgs[x])
      BY <1>1, <2>1
    <3>2. PICK i \in 1..Len(pgs[x]) : pgs[x][i] = pb
      BY <3>1 DEF Elems
    <3>3. <<x, i>> \in A
      BY <1>4, <3>2
    <3>. QED BY <3>3
  <2>2. ASSUME NEW at \in A PROVE pb \in S
    <3>1. at[1] \in PG /\ pb \in Elems(pgs[at[1]])
      BY <1>3 DEF Elems
    <3>. QED BY <1>1, <3>1
  <2>. QED BY <2>1, <2>2
<1>. HIDE DEF A
<1>7. Cardinality(A) = IF pb \in S THEN 1 ELSE 0
  BY <1>5, <1>6, CountUpToOne
<1>. QED BY <1>7 DEF TimesIn, A, P

\* A reservation names a block when a request for it is out, and no other does.
LEMMA UnderOneReservation ==
  ASSUME NEW reqs, NEW resv, NEW list, Reserved(reqs, resv, list), NEW pb \in PB, NoPB \notin PB
  PROVE  Cardinality({id \in RegId : list[id] = pb}) = IF pb \in Taken(reqs) THEN 1 ELSE 0
<1>. DEFINE A == {id \in RegId : list[id] = pb}
<1>1. /\ reqs \in Seq(Requests)
      /\ \A i, j \in 1..Len(reqs) : reqs[i].reg_id = reqs[j].reg_id \/ reqs[i].pb = reqs[j].pb => i = j
      /\ \A k \in 1..Len(reqs) : list[reqs[k].reg_id] = reqs[k].pb
      /\ \A id \in Elems(resv) : list[id] = NoPB
      /\ \A id \in RegId : id \in Elems(resv) \/ \E k \in 1..Len(reqs) : reqs[k].reg_id = id
  BY DEF Reserved
<1>2. \A k \in 1..Len(reqs) : reqs[k].reg_id \in RegId
  <2>1. \A k \in 1..Len(reqs) : reqs[k] \in Requests
    BY <1>1, ElementOfSeq
  <2>. QED BY <2>1 DEF Requests
<1>3. \A id \in A : \E k \in 1..Len(reqs) : reqs[k].reg_id = id /\ reqs[k].pb = pb
  BY <1>1
<1>4. \A x, y \in A : x = y
  BY <1>1, <1>3
<1>5. pb \in Taken(reqs) <=> A # {}
  <2>1. ASSUME pb \in Taken(reqs) PROVE A # {}
    <3>1. PICK k \in 1..Len(reqs) : reqs[k].pb = pb
      BY <2>1 DEF Taken
    <3>2. reqs[k].reg_id \in A
      BY <1>1, <1>2, <3>1
    <3>. QED BY <3>2
  <2>2. ASSUME NEW id \in A PROVE pb \in Taken(reqs)
    BY <1>3 DEF Taken
  <2>. QED BY <2>1, <2>2
<1>. HIDE DEF A
<1>6. Cardinality(A) = IF pb \in Taken(reqs) THEN 1 ELSE 0
  BY <1>4, <1>5, CountUpToOne
<1>. QED BY <1>6 DEF A

LEMMA PlacesFollow ==
  ASSUME PoolInv
  PROVE  BlockInOnePlace
<1>1. lane_of \in [PB -> Lane] /\ status \in [PB -> {"FREE", "BIND", "INVALID"}]
      /\ LanesHold(free_block_que, With("FREE")) /\ LanesHold(invalid_block_que, Waiting)
      /\ Taken(erase_req) \subseteq With("INVALID") /\ PGsHold(pb_list, With("BIND"))
      /\ Reserved(erase_req, erase_resv_que, erase_resv_list) /\ NoPB \notin PB
  BY PoolSizes DEF PoolInv
<1>2. SUFFICES ASSUME NEW pb \in PB
               PROVE  /\ Times(pb, free_block_que[lane_of[pb]]) = (IF status[pb] = "FREE" THEN 1 ELSE 0)
                      /\ TimesIn(pb, pb_list) = (IF status[pb] = "BIND" THEN 1 ELSE 0)
                      /\ Times(pb, invalid_block_que[lane_of[pb]])
                           + Cardinality({id \in RegId : erase_resv_list[id] = pb})
                           = (IF status[pb] = "INVALID" THEN 1 ELSE 0)
  BY DEF BlockInOnePlace
<1>3. \A state : pb \in With(state) <=> status[pb] = state
  BY DEF With
<1>4. Times(pb, free_block_que[lane_of[pb]]) = (IF status[pb] = "FREE" THEN 1 ELSE 0)
  BY <1>1, <1>3, InItsLane
<1>5. TimesIn(pb, pb_list) = (IF status[pb] = "BIND" THEN 1 ELSE 0)
  BY <1>1, <1>3, InOnePG
<1>6. Times(pb, invalid_block_que[lane_of[pb]]) = IF pb \in Waiting THEN 1 ELSE 0
  BY <1>1, InItsLane
<1>7. Cardinality({id \in RegId : erase_resv_list[id] = pb}) = IF pb \in Taken(erase_req) THEN 1 ELSE 0
  BY <1>1, UnderOneReservation
<1>8. /\ status[pb] = "INVALID" => (pb \in Waiting <=> pb \notin Taken(erase_req))
      /\ status[pb] # "INVALID" => pb \notin Waiting /\ pb \notin Taken(erase_req)
  BY <1>1, <1>3 DEF Waiting
<1>. QED BY <1>4, <1>5, <1>6, <1>7, <1>8

LEMMA ReservationsFollow ==
  ASSUME PoolInv
  PROVE  ReservationsExact
<1>1. /\ erase_req \in Seq(Requests) /\ erase_resv_que \in Seq(RegId) /\ Once(erase_resv_que)
      /\ \A i, j \in 1..Len(erase_req) : erase_req[i].reg_id = erase_req[j].reg_id => i = j
      /\ \A k \in 1..Len(erase_req) : /\ erase_resv_list[erase_req[k].reg_id] = erase_req[k].pb
                                      /\ erase_req[k].reg_id \notin Elems(erase_resv_que)
      /\ \A id \in Elems(erase_resv_que) : erase_resv_list[id] = NoPB
      /\ \A id \in RegId : id \in Elems(erase_resv_que) \/ \E k \in 1..Len(erase_req) : erase_req[k].reg_id = id
  BY DEF PoolInv, Reserved
<1>2. DOMAIN erase_req = 1..Len(erase_req) /\ DOMAIN erase_resv_que = 1..Len(erase_resv_que)
  BY <1>1, LenProperties
<1>3. \A req \in ToSet(erase_req) : erase_resv_list[req.reg_id] = req.pb
  BY <1>1, <1>2 DEF ToSet
<1>4. \A id \in ToSet(erase_resv_que) : erase_resv_list[id] = NoPB
  BY <1>1, <1>2 DEF ToSet, Elems
<1>5. ASSUME NEW id \in RegId
      PROVE  Times(id, erase_resv_que) + Cardinality({i \in DOMAIN erase_req : erase_req[i].reg_id = id}) = 1
  <2>. DEFINE A == {i \in DOMAIN erase_req : erase_req[i].reg_id = id}
  <2>1. Times(id, erase_resv_que) = IF id \in Elems(erase_resv_que) THEN 1 ELSE 0
    BY <1>1, TimesOnce
  <2>2. \A i, j \in A : i = j
    BY <1>1, <1>2
  <2>3. id \notin Elems(erase_resv_que) <=> A # {}
    BY <1>1, <1>2
  <2>. HIDE DEF A
  <2>4. Cardinality(A) = IF id \notin Elems(erase_resv_que) THEN 1 ELSE 0
    BY <2>2, <2>3, CountUpToOne
  <2>. QED BY <2>1, <2>4 DEF A
<1>. QED BY <1>3, <1>4, <1>5 DEF ReservationsExact

LEMMA BlocksFollow == PoolInv => BlocksExact
<1>. SUFFICES ASSUME PoolInv PROVE BlocksExact
  OBVIOUS
<1>1. CountersMatch
  <2>1. Sound /\ lane_of \in [PB -> Lane]
        /\ LanesHold(free_block_que, With("FREE")) /\ total_free = Cardinality(With("FREE"))
        /\ LanesHold(invalid_block_que, Waiting) /\ total_invalid = Cardinality(Waiting)
    BY DEF PoolInv
  <2>2. IsFiniteSet(PB)
    BY <2>1, PoolSizes
  <2>3. With("FREE") \subseteq PB /\ Waiting \subseteq PB
    BY WithTypes
  <2>4. Cardinality(Places(free_block_que)) = Cardinality(With("FREE"))
    BY <2>1, <2>2, <2>3, LanesCount
  <2>5. Cardinality(Places(invalid_block_que)) = Cardinality(Waiting)
    BY <2>1, <2>2, <2>3, LanesCount
  <2>. QED BY <2>1, <2>4, <2>5 DEF CountersMatch
<1>. QED BY <1>1, TypesFollow, PlacesFollow, ReservationsFollow DEF BlocksExact

\* Every block is in exactly one place, the queues' lengths are the counters
\* and a reservation is free or out, whatever GetFreePB, GetEraseReq, ErasePB
\* and another device do, for every geometry and every number of blocks.
THEOREM BlocksHold == Spec => []BlocksExact
<1>1. Init => PoolInv
  BY InitHolds
<1>2. PoolInv /\ [Next]_vars => PoolInv'
  BY StepHolds
<1>3. PoolInv => BlocksExact
  BY BlocksFollow
<1>. QED BY <1>1, <1>2, <1>3, PTL DEF Spec

\* The addresses of FM_INFO lead back to the block they were made from, and the
\* buses and chip enables have equally many blocks, in every module that
\* InitFlashModule accepts.
THEOREM AddressesHold == Spec => []AddressesExact
<1>1. Init => PoolInv
  BY InitHolds
<1>2. PoolInv /\ [Next]_vars => PoolInv'
  BY StepHolds
<1>3. PoolInv => AddressesExact
  BY LaneInterval DEF PoolInv
<1>. QED BY <1>1, <1>2, <1>3, PTL DEF Spec

-----------------------------------------------------------------------------
(* The searches *)

LEMMA EraseReqFinds == PoolInv => EraseReqFindsBlocks
<1>. SUFFICES ASSUME PoolInv, total_invalid > 0, erase_req = <<>>, EraseSearch.reqs = <<>>
              PROVE  FALSE
  BY DEF EraseReqFindsBlocks
<1>1. Sound /\ lane_of \in [PB -> Lane] /\ erase_cursor \in Lane
      /\ LanesHold(invalid_block_que, Waiting) /\ Reserved(erase_req, erase_resv_que, erase_resv_list)
      /\ total_invalid = Cardinality(Waiting) /\ Waiting \subseteq PB /\ IsFiniteSet(Waiting)
  BY WithTypes DEF PoolInv
<1>2. erase_resv_que # <<>>
  BY <1>1, SomeReservation
<1>. HIDE DEF EraseSearch
<1>3. \A lane \in Lane : invalid_block_que[lane] = <<>>
  BY <1>1, <1>2, SearchHolds
<1>4. Waiting = {}
  BY <1>1, <1>3, LanesEmpty
<1>5. Cardinality({}) = 0
  BY FS_EmptySet
<1>. QED BY <1>1, <1>4, <1>5

LEMMA BuildPGFinds == PoolInv /\ [Next]_vars => [~failed /\ failed' => total_free < PgPbNum]_vars
<1>. SUFFICES ASSUME PoolInv, Next, ~failed, failed' PROVE total_free < PgPbNum
  OBVIOUS
<1>1. PICK pg \in PG : BuildPG(pg)
  <2>1. ASSUME NEW pg \in PG, CloseToInvalid(pg) PROVE FALSE
    BY <2>1 DEF CloseToInvalid
  <2>2. CASE GetEraseReq
    BY <2>2 DEF GetEraseReq
  <2>3. CASE ErasePB
    BY <2>3 DEF ErasePB
  <2>4. CASE OtherDevice
    BY <2>4 DEF OtherDevice
  <2>. QED BY <2>1, <2>2, <2>3, <2>4 DEF Next
<1>. QED BY <1>1, BuildPGKeeps

\* GetEraseReq returns a request whenever a block is invalid and none is out,
\* and BuildPG fails only when the free blocks are fewer than a PG takes,
\* wherever the blocks are and wherever the static cursors have been left.
THEOREM SearchesFind == Spec => SearchesFindBlocks
<1>1. Init => PoolInv
  BY InitHolds
<1>2. PoolInv /\ [Next]_vars => PoolInv'
  BY StepHolds
<1>3. PoolInv => EraseReqFindsBlocks
  BY EraseReqFinds
<1>4. PoolInv /\ [Next]_vars => [~failed /\ failed' => total_free < PgPbNum]_vars
  BY BuildPGFinds
<1>. QED BY <1>1, <1>2, <1>3, <1>4, PTL DEF Spec, SearchesFindBlocks, BuildPGFindsBlocks

-----------------------------------------------------------------------------
(* The numbers *)

\* What the counters may be.
LEMMA CountTypes ==
  ASSUME PoolInv
  PROVE  /\ total_free \in Nat /\ total_invalid \in Nat /\ Len(erase_req) \in Nat /\ PbNum \in Nat
         /\ Len(erase_req) <= MaxErase /\ MaxErase \in Nat /\ PgPbNum \in Nat \ {0}
<1>1. erase_req \in Seq(Requests)
  BY DEF PoolInv, Reserved
<1>. QED BY <1>1, WithTypes, PoolSizes, LenProperties, PoolAssumption DEF PoolInv

LEMMA CountTypesThen ==
  PoolInv' => (total_invalid \in Nat /\ Len(erase_req) \in Nat /\ Len(erase_req) <= MaxErase)'
<1>1. PoolInv => total_invalid \in Nat /\ Len(erase_req) \in Nat /\ Len(erase_req) <= MaxErase
  BY CountTypes
<1>. QED BY <1>1, PTL

\* A PG that is closed has all its blocks, and they are none of the others.
LEMMA Dissolves ==
  ASSUME PoolInv, NEW pg \in PG, CloseToInvalid(pg)
  PROVE  Len(pb_list[pg]) = PgPbNum /\ PbNum - (total_free + total_invalid) >= PgPbNum
<1>. DEFINE pbs == pb_list[pg]
            F == With("FREE")
            I == With("INVALID")
<1>1. ~failed /\ erase_req = <<>> /\ pbs # <<>>
  BY DEF CloseToInvalid
<1>2. Len(pbs) = PgPbNum
  BY <1>1 DEF PoolInv, PGsWhole
<1>3. pbs \in Seq(PB) /\ Once(pbs) /\ Elems(pbs) \subseteq With("BIND")
  BY PGLoses DEF PoolInv
<1>4. IsFiniteSet(Elems(pbs)) /\ Cardinality(Elems(pbs)) = PgPbNum /\ Elems(pbs) \subseteq PB
  BY <1>2, <1>3, CountElems
<1>5. Waiting = I
  <2>1. Taken(erase_req) = {}
    BY <1>1 DEF Taken
  <2>. QED BY <2>1 DEF Waiting
<1>. HIDE DEF pbs
<1>6. /\ IsFiniteSet(F) /\ IsFiniteSet(I) /\ F \subseteq PB /\ I \subseteq PB
      /\ total_free = Cardinality(F) /\ total_invalid = Cardinality(I)
  BY <1>5, WithTypes DEF PoolInv
<1>7. F \cap I = {} /\ (F \cup I) \cap Elems(pbs) = {}
  BY <1>3 DEF With
<1>. HIDE DEF F, I
<1>8. Cardinality({}) = 0
  BY FS_EmptySet
<1>9. PICK U : U = F \cup I
  OBVIOUS
<1>10. IsFiniteSet(U) /\ Cardinality(U) = Cardinality(F) + Cardinality(I)
  <2>1. IsFiniteSet(F \cup I) /\ Cardinality(F \cup I) = Cardinality(F) + Cardinality(I) - Cardinality({})
    BY <1>6, <1>7, FS_Union
  <2>. QED BY <1>6, <1>8, <1>9, <2>1, CountTypes
<1>11. IsFiniteSet(U \cup Elems(pbs)) /\ Cardinality(U \cup Elems(pbs)) = total_free + total_invalid + PgPbNum
  <2>1. IsFiniteSet(U \cup Elems(pbs))
        /\ Cardinality(U \cup Elems(pbs)) = Cardinality(U) + Cardinality(Elems(pbs)) - Cardinality({})
    BY <1>4, <1>7, <1>9, <1>10, FS_Union
  <2>. QED BY <1>4, <1>6, <1>8, <1>10, <2>1, CountTypes
<1>12. Cardinality(U \cup Elems(pbs)) <= Cardinality(PB)
  <2>1. IsFiniteSet(PB) /\ U \cup Elems(pbs) \subseteq PB
    BY <1>4, <1>6, <1>9, PoolSizes DEF PoolInv
  <2>. QED BY <2>1, FS_Subset
<1>13. Cardinality(PB) = PbNum
  BY PoolSizes DEF PoolInv
<1>14. PbNum - (total_free + total_invalid) >= PgPbNum
  BY <1>11, <1>12, <1>13, CountTypes
<1>. QED BY <1>2, <1>14 DEF pbs

LEMMA StepCounts ==
  PoolInv /\ PoolInv' /\ [Next]_vars
    => [Counts!CountsNext]_<<total_free, total_invalid, Len(erase_req)>>
<1>. SUFFICES ASSUME PoolInv, PoolInv', [Next]_vars
              PROVE  [Counts!CountsNext]_<<total_free, total_invalid, Len(erase_req)>>
  OBVIOUS
<1>0. /\ total_free \in Nat /\ total_invalid \in Nat /\ Len(erase_req) \in Nat /\ PbNum \in Nat
      /\ Len(erase_req) <= MaxErase /\ MaxErase \in Nat /\ PgPbNum \in Nat \ {0}
      /\ Len(<<>>) = 0
  BY CountTypes
<1>1. ASSUME NEW pg \in PG, BuildPG(pg) PROVE Counts!Bind
  <2>1. total_free' = IF total_free >= PgPbNum THEN total_free - PgPbNum ELSE 0
    BY <1>1, BuildPGKeeps
  <2>2. erase_req = <<>> /\ erase_req' = erase_req /\ total_invalid' = total_invalid
    BY <1>1 DEF BuildPG
  <2>. QED BY <1>0, <2>1, <2>2 DEF Counts!Bind
<1>2. ASSUME NEW pg \in PG, CloseToInvalid(pg) PROVE Counts!Dissolve
  <2>1. erase_req = <<>> /\ erase_req' = erase_req /\ total_free' = total_free
        /\ total_invalid' = total_invalid + Len(pb_list[pg])
    BY <1>2 DEF CloseToInvalid
  <2>2. Len(pb_list[pg]) = PgPbNum /\ PbNum - (total_free + total_invalid) >= PgPbNum
    BY <1>2, Dissolves
  <2>. QED BY <1>0, <2>1, <2>2 DEF Counts!Dissolve, Counts!Bound
<1>3. CASE GetEraseReq
  <2>1. PICK reqs : reqs = EraseSearch.reqs
    OBVIOUS
  <2>2. erase_req = <<>> /\ erase_req' = reqs /\ total_invalid' = total_invalid - Len(reqs)
        /\ total_free' = total_free
    BY <1>3, <2>1 DEF GetEraseReq
  <2>3. PICK num \in Nat : num = Len(reqs) /\ num <= MaxErase /\ total_invalid' \in Nat
    BY <2>2, CountTypesThen
  <2>4. Len(erase_req) = 0 /\ Len(erase_req)' = num /\ total_invalid' = total_invalid - num
    BY <1>0, <2>2, <2>3
  <2>5. CASE num = 0
    BY <1>0, <2>2, <2>4, <2>5
  <2>6. CASE num # 0
    <3>1. num \in 1..MaxErase /\ num <= total_invalid
      BY <1>0, <2>3, <2>4, <2>6
    <3>2. Counts!Reserve
      BY <2>2, <2>4, <3>1 DEF Counts!Reserve
    <3>. QED BY <3>2 DEF Counts!CountsNext
  <2>. QED BY <2>5, <2>6
<1>4. CASE ErasePB
  <2>1. erase_req # <<>> /\ erase_req' = Tail(erase_req) /\ total_free' = total_free + 1
        /\ total_invalid' = total_invalid
    BY <1>4 DEF ErasePB
  <2>2. Len(erase_req') = Len(erase_req) - 1 /\ Len(erase_req) # 0
    <3>1. erase_req \in Seq(Requests)
      BY DEF PoolInv, Reserved
    <3>. QED BY <2>1, <3>1, HeadLeaves
  <2>3. PICK n \in Nat : n = Len(erase_req) /\ n > 0
    BY <1>0, <2>2
  <2>4. Len(erase_req)' = n - 1
    BY <2>2, <2>3
  <2>5. Counts!Erased
    BY <2>1, <2>3, <2>4 DEF Counts!Erased
  <2>. QED BY <2>5 DEF Counts!CountsNext
<1>5. CASE OtherDevice \/ UNCHANGED vars
  BY <1>5 DEF OtherDevice, vars
<1>. QED BY <1>1, <1>2, <1>3, <1>4, <1>5 DEF Next, Counts!CountsNext

\* Only numbers looked at, the pool's queues are the counters Ftl keeps: a PG
\* takes its worth of blocks or all there are, and none comes back unerased.
THEOREM PoolImplementsCounts == Spec => ImplementsCounts
<1>1. Init => PoolInv
  BY InitHolds
<1>2. PoolInv /\ [Next]_vars => PoolInv'
  BY StepHolds
<1>3. Init => Counts!CountsInit
  BY DEF Init, Counts!CountsInit
<1>4. PoolInv /\ PoolInv' /\ [Next]_vars
        => [Counts!CountsNext]_<<total_free, total_invalid, Len(erase_req)>>
  BY StepCounts
<1>. QED BY <1>1, <1>2, <1>3, <1>4, PTL DEF Spec, ImplementsCounts, Counts!CountsSpec
=============================================================================
