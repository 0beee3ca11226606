------------------------------- MODULE Numbers -------------------------------
(***************************************************************************)
(* Facts about natural numbers that the layout proofs share: least         *)
(* elements, division with rest at one and at two levels, and functions    *)
(* defined by iteration.                                                   *)
(***************************************************************************)
EXTENDS Integers, WellFoundedInduction, TLAPS

\* Every non-empty set of naturals has a least element.
LEMMA LeastNatural ==
  ASSUME NEW I, I \subseteq Nat, I # {}
  PROVE  \E i \in I : \A j \in I : i <= j
<1>1. PICK x \in I : \A y \in I : <<y, x>> \notin OpToRel(<, Nat)
  BY NatLessThanWellFounded, WFMin, Zenon
<1>2. \A y \in I : ~(y < x)
  BY <1>1, Zenon DEF OpToRel
<1>. QED BY <1>2

-----------------------------------------------------------------------------
(* Division *)

\* Division with rest.
LEMMA DivMod ==
  ASSUME NEW a \in Nat, NEW b \in Nat \ {0}
  PROVE  /\ a \div b \in Nat /\ a % b \in 0..(b - 1)
         /\ a = b * (a \div b) + (a % b)
<1>1. a % b \in 0..(b - 1)
  OBVIOUS
<1>2. a \div b \in Int
  OBVIOUS
<1>3. a = b * (a \div b) + (a % b)
  OBVIOUS
<1>4. \A q \in Int : q < 0 => b * q <= 0 - b
  OBVIOUS
<1>5. a \div b >= 0
  BY <1>1, <1>2, <1>3, <1>4
<1>. QED BY <1>1, <1>2, <1>3, <1>5

LEMMA DivModUnique ==
  ASSUME NEW b \in Nat \ {0}, NEW q \in Nat, NEW r \in 0..(b - 1)
  PROVE  (b * q + r) \div b = q /\ (b * q + r) % b = r
OBVIOUS

LEMMA DivModIs ==
  ASSUME NEW b \in Nat \ {0}, NEW a, NEW q \in Nat, NEW r \in 0..(b - 1), a = b * q + r
  PROVE  a \div b = q /\ a % b = r
OBVIOUS

\* A multiple is left behind by at least the factor.
LEMMA NextMultiple ==
  ASSUME NEW b \in Nat, NEW p \in Nat, NEW q \in Nat, p < q
  PROVE  b * p + b <= b * q
OBVIOUS

LEMMA Multiples ==
  ASSUME NEW a \in Nat, NEW b \in Nat, NEW c \in Nat
  PROVE  /\ a * b \in Nat
         /\ (a * b) * c = a * (b * c)
         /\ a * b + a * c = a * (b + c)
         /\ a * (b + 1) = a * b + a
OBVIOUS

\* x = w * r + i, where the rest i lies u whole units of s and d sectors deep.
Levels(s, m, w, x, r, i, u, d) ==
  /\ w \in Nat \ {0} /\ r \in Nat /\ i \in 0..(w - 1) /\ x = w * r + i
  /\ u \in 0..(m - 1) /\ d \in 0..(s - 1) /\ i = s * u + d
  /\ s * u + s <= w /\ i % s = d

\* Two levels of division: x in groups of m units of s.
LEMMA TwoLevels ==
  ASSUME NEW s \in Nat \ {0}, NEW m \in Nat \ {0}, NEW w, w = s * m, NEW x \in Nat
  PROVE  Levels(s, m, w, x, x \div w, x % w, (x % w) \div s, x % s)
<1>. DEFINE r == x \div w
            i == x % w
            u == i \div s
            d == i % s
<1>1. w \in Nat \ {0}
  OBVIOUS
<1>2. r \in Nat /\ i \in 0..(w - 1) /\ x = w * r + i
  BY <1>1, DivMod
<1>3. u \in Nat /\ d \in 0..(s - 1) /\ i = s * u + d
  <2>. HIDE DEF i
  <2>1. i \in Nat
    BY <1>1, <1>2
  <2>. QED BY <2>1, DivMod
<1>4. u < m
  <2>. HIDE DEF u, d, i
  <2>1. \A a, b \in Nat : a <= b => s * a <= s * b
    OBVIOUS
  <2>. QED BY <1>1, <1>2, <1>3, <2>1
<1>5. s * u + s <= w
  BY <1>3, <1>4, NextMultiple
<1>6. x % s = d
  <2>. HIDE DEF r
  <2>1. w * r = s * (m * r) /\ m * r \in Nat
    BY <1>2, Multiples
  <2>2. s * (m * r) + s * u = s * (m * r + u) /\ m * r + u \in Nat
    BY <1>3, <2>1, Multiples
  <2>. HIDE DEF r, i, u, d
  <2>3. PICK q \in Nat : q = m * r + u
    BY <2>2
  <2>4. x = s * q + d
    BY <1>2, <1>3, <2>1, <2>2, <2>3
  <2>. QED BY <1>3, <2>4, DivModUnique
<1>. HIDE DEF r, i, u, d
<1>7. i % s = d
  BY DEF d
<1>8. Levels(s, m, w, x, r, i, u, d)
  BY <1>1, <1>2, <1>3, <1>4, <1>5, <1>7 DEF Levels
<1>. QED BY <1>6, <1>8 DEF r, i, u, d

-----------------------------------------------------------------------------
(* Iteration *)

\* The steps of G, numbered up to N, stay in S; f goes through them from c on.
StayIn(S, N, G) == \A n \in 1..N : \A s \in S : G[n][s] \in S
GoesThrough(c, N, G, f) == f = [n \in 0..N |-> IF n = 0 THEN c ELSE G[n][f[n - 1]]]

\* A function defined by going on from its last value exists, and takes its
\* values in any set the start is in and the steps stay in.
LEMMA Stages ==
  ASSUME NEW S, NEW c \in S, NEW N \in Nat, NEW G, StayIn(S, N, G)
  PROVE  \E f \in [0..N -> S] : GoesThrough(c, N, G, f)
<1>0. \A n \in 1..N : \A s \in S : G[n][s] \in S
  BY DEF StayIn
<1>. DEFINE Defined(n) == \E f \in [0..n -> S] : f = [i \in 0..n |-> IF i = 0 THEN c ELSE G[i][f[i - 1]]]
            Bad == {n \in 0..N : ~Defined(n)}
<1>. SUFFICES ASSUME Bad # {} PROVE FALSE
  <2>1. N \in 0..N
    OBVIOUS
  <2>2. Bad = {} => Defined(N)
    <3>. HIDE DEF Defined
    <3>. QED BY <2>1
  <2>. QED BY <2>2, Zenon DEF GoesThrough
<1>1. PICK n \in Bad : \A m \in Bad : n <= m
  <2>. HIDE DEF Bad
  <2>1. Bad \subseteq Nat
    BY DEF Bad
  <2>. QED BY <2>1, LeastNatural
<1>2. n \in Nat /\ n <= N /\ ~Defined(n)
  BY <1>1
<1>3. n # 0
  <2>. DEFINE f == [i \in 0..0 |-> c]
  <2>1. f \in [0..0 -> S] /\ f = [i \in 0..0 |-> IF i = 0 THEN c ELSE G[i][f[i - 1]]]
    OBVIOUS
  <2>2. Defined(0)
    BY <2>1
  <2>. HIDE DEF Defined
  <2>. QED BY <1>2, <2>2
<1>4. n - 1 \in Nat /\ Defined(n - 1)
  <2>. HIDE DEF Defined
  <2>1. n - 1 \in 0..N /\ ~(n <= n - 1)
    BY <1>2, <1>3
  <2>. QED BY <1>1, <1>2, <2>1
<1>5. PICK f \in [0..(n - 1) -> S] : f = [i \in 0..(n - 1) |-> IF i = 0 THEN c ELSE G[i][f[i - 1]]]
  BY <1>4
<1>. DEFINE g == [i \in 0..n |-> IF i < n THEN f[i] ELSE G[n][f[n - 1]]]
<1>6. ASSUME NEW i \in 0..n
      PROVE  g[i] \in S /\ g[i] = IF i = 0 THEN c ELSE G[i][g[i - 1]]
  <2>1. CASE i = 0
    <3>1. 0 \in 0..(n - 1) /\ g[0] = f[0]
      BY <1>2, <1>3
    <3>. QED BY <1>5, <2>1, <3>1
  <2>2. CASE i # 0 /\ i < n
    <3>1. i \in 0..(n - 1) /\ i - 1 \in 0..(n - 1) /\ g[i] = f[i] /\ g[i - 1] = f[i - 1] /\ i \in 1..N
      BY <1>2, <1>6, <2>2
    <3>. HIDE DEF g
    <3>2. f[i] = G[i][f[i - 1]]
      BY <1>5, <2>2, <3>1
    <3>. QED BY <1>0, <1>5, <2>2, <3>1, <3>2
  <2>3. CASE i = n
    <3>1. n - 1 \in 0..(n - 1) /\ n - 1 \in 0..n /\ n \in 0..n /\ n - 1 < n /\ ~(n < n)
      BY <1>2, <1>3, <1>4
    <3>2. g[n] = G[n][f[n - 1]] /\ g[n - 1] = f[n - 1] /\ f[n - 1] \in S /\ n \in 1..N
      BY <1>2, <1>3, <1>5, <3>1
    <3>. HIDE DEF g
    <3>. QED BY <1>0, <1>3, <2>3, <3>2
  <2>. QED BY <1>2, <1>6, <2>1, <2>2, <2>3
<1>7. g \in [0..n -> S] /\ g = [i \in 0..n |-> IF i = 0 THEN c ELSE G[i][g[i - 1]]]
  <2>. DEFINE h == [i \in 0..n |-> IF i = 0 THEN c ELSE G[i][g[i - 1]]]
  <2>1. DOMAIN g = 0..n /\ g = [i \in 0..n |-> g[i]]
    OBVIOUS
  <2>. HIDE DEF g
  <2>2. \A i \in 0..n : g[i] = h[i]
    BY <1>6
  <2>3. DOMAIN h = 0..n /\ h = [i \in 0..n |-> h[i]]
    OBVIOUS
  <2>. HIDE DEF h
  <2>4. g = h
    BY <2>1, <2>2, <2>3
  <2>. QED BY <1>6, <2>1, <2>4 DEF h
<1>8. Defined(n)
  <2>. HIDE DEF g
  <2>. QED BY <1>7
<1>9. FALSE
  <2>. HIDE DEF Defined
  <2>. QED BY <1>2, <1>8
<1>. QED BY <1>9

\* The same when every step is the same.
LEMMA Iteration ==
  ASSUME NEW S, NEW c \in S, NEW G \in [S -> S], NEW N \in Nat
  PROVE  \E f \in [0..N -> S] : f = [n \in 0..N |-> IF n = 0 THEN c ELSE G[f[n - 1]]]
<1>. DEFINE H == [n \in 1..N |-> G]
<1>1. StayIn(S, N, H)
  BY DEF StayIn
<1>2. PICK f \in [0..N -> S] : f = [n \in 0..N |-> IF n = 0 THEN c ELSE H[n][f[n - 1]]]
  <2>. HIDE DEF H
  <2>1. \E f \in [0..N -> S] : GoesThrough(c, N, H, f)
    BY <1>1, Stages, Zenon
  <2>. QED BY <2>1 DEF GoesThrough
<1>3. \A n \in 0..N : (IF n = 0 THEN c ELSE H[n][f[n - 1]]) = IF n = 0 THEN c ELSE G[f[n - 1]]
  <2>1. \A n \in 0..N : n # 0 => n \in 1..N
    OBVIOUS
  <2>. QED BY <2>1
<1>4. [n \in 0..N |-> IF n = 0 THEN c ELSE H[n][f[n - 1]]]
        = [n \in 0..N |-> IF n = 0 THEN c ELSE G[f[n - 1]]]
  <2>. HIDE DEF H
  <2>. QED BY <1>3
<1>5. f = [n \in 0..N |-> IF n = 0 THEN c ELSE G[f[n - 1]]]
  <2>. HIDE DEF H
  <2>. QED BY <1>2, <1>4
<1>. QED BY <1>5

\* What holds of 0, and of a number when it holds of the one before.
LEMMA UpTo ==
  ASSUME NEW N \in Nat, NEW Q, 0 \in Q, \A n \in 1..N : n - 1 \in Q => n \in Q
  PROVE  0..N \subseteq Q
<1>. DEFINE Bad == {n \in 0..N : n \notin Q}
<1>. SUFFICES ASSUME Bad # {} PROVE FALSE
  OBVIOUS
<1>1. PICK n \in Bad : \A m \in Bad : n <= m
  <2>. HIDE DEF Bad
  <2>1. Bad \subseteq Nat
    BY DEF Bad
  <2>. QED BY <2>1, LeastNatural
<1>2. n \in 0..N /\ n # 0 /\ n \notin Q
  BY <1>1
<1>3. n \in 1..N /\ n - 1 \in 0..N /\ ~(n <= n - 1)
  BY <1>2
<1>4. n - 1 \in Q
  BY <1>1, <1>3
<1>. QED BY <1>2, <1>3, <1>4
=============================================================================
