------------------------------ MODULE SimProofs ------------------------------
(***************************************************************************)
(* The load of the simulation core, for every configuration: what the      *)
(* sources are drawn by, and where their commands go.                      *)
(***************************************************************************)
EXTENDS SimCore, Numbers, FiniteSetTheorems, SequenceTheorems, TLAPS

-----------------------------------------------------------------------------
(* The sums of the shares *)

Sums(gen, n, f) == [i \in 0..n |-> IF i = 0 THEN 0 ELSE f[i - 1] + gen[i].ratio]
AddsUp(gen, n, f) == f[0] = 0 /\ \A i \in 1..n : f[i] = f[i - 1] + gen[i].ratio

LEMMA SumsExist ==
  ASSUME NEW gen, NEW num \in Nat
  PROVE  \E f : f = Sums(gen, num, f)
<1>. DEFINE Bad == {n \in Nat : \A f : f # Sums(gen, n, f)}
<1>. SUFFICES ASSUME Bad # {} PROVE FALSE
  OBVIOUS
<1>1. PICK n \in Bad : \A m \in Bad : n <= m
  <2>. HIDE DEF Bad
  <2>1. Bad \subseteq Nat
    BY DEF Bad
  <2>. QED BY <2>1, LeastNatural
<1>2. n \in Nat /\ \A f : f # Sums(gen, n, f)
  BY <1>1
<1>3. n # 0
  <2>. DEFINE f == [i \in 0..0 |-> 0]
  <2>1. f = Sums(gen, 0, f)
    BY DEF Sums
  <2>. QED BY <1>2, <2>1
<1>4. n - 1 \in Nat /\ n - 1 \notin Bad
  BY <1>1, <1>2, <1>3
<1>5. PICK f : f = Sums(gen, n - 1, f)
  BY <1>4
<1>. DEFINE g == [i \in 0..n |-> IF i < n THEN f[i] ELSE f[n - 1] + gen[n].ratio]
<1>6. ASSUME NEW i \in 0..n
      PROVE  g[i] = IF i = 0 THEN 0 ELSE g[i - 1] + gen[i].ratio
  <2>1. CASE i = 0
    <3>1. 0 \in 0..(n - 1) /\ g[0] = f[0]
      BY <1>2, <1>3
    <3>2. f[0] = 0
      BY <1>5, <3>1 DEF Sums
    <3>. QED BY <2>1, <3>1, <3>2
  <2>2. CASE i # 0 /\ i < n
    <3>1. i \in 0..(n - 1) /\ g[i] = f[i] /\ g[i - 1] = f[i - 1]
      BY <1>2, <1>6, <2>2
    <3>2. f[i] = f[i - 1] + gen[i].ratio
      BY <1>5, <2>2, <3>1 DEF Sums
    <3>. QED BY <2>2, <3>1, <3>2
  <2>3. CASE i = n
    <3>1. n - 1 \in 0..n /\ n - 1 < n /\ ~(n < n)
      BY <1>2, <1>3
    <3>. QED BY <1>3, <1>6, <2>3, <3>1
  <2>. QED BY <1>2, <1>6, <2>1, <2>2, <2>3
<1>7. g = Sums(gen, n, g)
  <2>. DEFINE h == [i \in 0..n |-> IF i = 0 THEN 0 ELSE g[i - 1] + gen[i].ratio]
  <2>1. DOMAIN g = 0..n /\ g = [i \in 0..n |-> g[i]]
    OBVIOUS
  <2>. HIDE DEF g
  <2>2. h = [i \in 0..n |-> g[i]]
    BY <1>6
  <2>3. h = Sums(gen, n, g)
    BY DEF Sums
  <2>. QED BY <2>1, <2>2, <2>3
<1>. QED BY <1>2, <1>7

LEMMA SumExists ==
  ASSUME NEW gen, NEW n \in Nat
  PROVE  \E f : AddsUp(gen, n, f) /\ SumOf(gen, n) = f[n]
<1>. DEFINE f == CHOOSE f : f = Sums(gen, n, f)
<1>1. SumOf(gen, n) = f[n]
  BY DEF SumOf, Sums
<1>2. f = Sums(gen, n, f)
  BY SumsExist
<1>. HIDE DEF f
<1>3. f[0] = 0
  BY <1>2 DEF Sums
<1>4. ASSUME NEW i \in 1..n PROVE f[i] = f[i - 1] + gen[i].ratio
  <2>1. i \in 0..n /\ i # 0
    OBVIOUS
  <2>2. f[i] = Sums(gen, n, f)[i]
    BY <1>2
  <2>. HIDE <1>2
  <2>. QED BY <2>1, <2>2 DEF Sums
<1>. QED BY <1>1, <1>3, <1>4 DEF AddsUp

\* Whatever adds up the shares is their sum.
LEMMA SumIs ==
  ASSUME NEW gen, NEW n \in Nat, NEW f, AddsUp(gen, n, f)
  PROVE  SumOf(gen, n) = f[n]
<1>1. PICK g : AddsUp(gen, n, g) /\ SumOf(gen, n) = g[n]
  BY SumExists
<1>. DEFINE Bad == {i \in 0..n : f[i] # g[i]}
<1>2. Bad = {}
  <2>. SUFFICES ASSUME Bad # {} PROVE FALSE
    OBVIOUS
  <2>1. PICK i \in Bad : \A j \in Bad : i <= j
    <3>1. Bad \subseteq Nat
      OBVIOUS
    <3>. HIDE DEF Bad
    <3>. QED BY <3>1, LeastNatural
  <2>2. i # 0
    BY <1>1, <2>1 DEF AddsUp
  <2>3. i \in 1..n /\ i - 1 \in 0..n /\ ~(i <= i - 1)
    BY <2>1, <2>2
  <2>4. f[i - 1] = g[i - 1]
    BY <2>1, <2>3
  <2>. QED BY <1>1, <2>1, <2>3, <2>4 DEF AddsUp
<1>. QED BY <1>1, <1>2

LEMMA SumSteps ==
  ASSUME NEW gen
  PROVE  /\ SumOf(gen, 0) = 0
         /\ \A n \in Nat : SumOf(gen, n + 1) = SumOf(gen, n) + gen[n + 1].ratio
<1>1. SumOf(gen, 0) = 0
  <2>1. PICK f : AddsUp(gen, 0, f) /\ SumOf(gen, 0) = f[0]
    BY SumExists
  <2>. QED BY <2>1 DEF AddsUp
<1>2. ASSUME NEW n \in Nat PROVE SumOf(gen, n + 1) = SumOf(gen, n) + gen[n + 1].ratio
  <2>1. PICK f : AddsUp(gen, n + 1, f) /\ SumOf(gen, n + 1) = f[n + 1]
    BY SumExists
  <2>2. AddsUp(gen, n, f)
    BY <2>1 DEF AddsUp
  <2>3. n + 1 \in 1..(n + 1) /\ (n + 1) - 1 = n
    OBVIOUS
  <2>4. f[n + 1] = f[n] + gen[n + 1].ratio
    BY <2>1, <2>3 DEF AddsUp
  <2>. QED BY <2>1, <2>2, <2>4, SumIs
<1>. QED BY <1>1, <1>2

\* A sum depends on the shares only.
LEMMA SumSame ==
  ASSUME NEW gen, NEW other, NEW n \in Nat, \A i \in 1..n : gen[i].ratio = other[i].ratio
  PROVE  SumOf(gen, n) = SumOf(other, n)
<1>1. PICK f : AddsUp(gen, n, f) /\ SumOf(gen, n) = f[n]
  BY SumExists
<1>2. AddsUp(other, n, f)
  BY <1>1 DEF AddsUp
<1>. QED BY <1>1, <1>2, SumIs

\* The sums grow from 0.
LEMMA SumGrows ==
  ASSUME NEW gen, NEW n \in Nat, \A i \in 1..n : gen[i].ratio \in Nat
  PROVE  /\ \A i \in 0..n : SumOf(gen, i) \in Nat
         /\ \A i, j \in 0..n : i <= j => SumOf(gen, i) <= SumOf(gen, j)
<1>1. /\ SumOf(gen, 0) = 0
      /\ \A i \in 0..n : i # 0 => SumOf(gen, i) = SumOf(gen, i - 1) + gen[i].ratio
  <2>1. ASSUME NEW i \in 0..n, i # 0 PROVE SumOf(gen, i) = SumOf(gen, i - 1) + gen[i].ratio
    <3>1. i - 1 \in Nat /\ (i - 1) + 1 = i
      BY <2>1
    <3>. QED BY <3>1, SumSteps
  <2>. QED BY <2>1, SumSteps
<1>. DEFINE Bad == {i \in 0..n : SumOf(gen, i) \notin Nat}
<1>2. Bad = {}
  <2>. SUFFICES ASSUME Bad # {} PROVE FALSE
    OBVIOUS
  <2>1. PICK i \in Bad : \A j \in Bad : i <= j
    <3>1. Bad \subseteq Nat
      OBVIOUS
    <3>. HIDE DEF Bad
    <3>. QED BY <3>1, LeastNatural
  <2>2. i # 0
    BY <1>1, <2>1
  <2>3. i \in 1..n /\ i - 1 \in 0..n /\ ~(i <= i - 1)
    BY <2>1, <2>2
  <2>4. SumOf(gen, i - 1) \in Nat
    BY <2>1, <2>3
  <2>. QED BY <1>1, <2>1, <2>2, <2>3, <2>4
<1>3. \A i \in 0..n : SumOf(gen, i) \in Nat
  BY <1>2
<1>4. ASSUME NEW i \in 0..n
      PROVE  \A j \in 0..n : i <= j => SumOf(gen, i) <= SumOf(gen, j)
  <2>. DEFINE Low == {j \in 0..n : i <= j /\ ~(SumOf(gen, i) <= SumOf(gen, j))}
  <2>. SUFFICES ASSUME Low # {} PROVE FALSE
    OBVIOUS
  <2>1. PICK j \in Low : \A k \in Low : j <= k
    <3>1. Low \subseteq Nat
      OBVIOUS
    <3>. HIDE DEF Low
    <3>. QED BY <3>1, LeastNatural
  <2>2. j # i /\ j \in 0..n /\ i <= j
    BY <1>3, <2>1
  <2>3. j \in 1..n /\ j - 1 \in 0..n /\ i <= j - 1 /\ ~(j <= j - 1) /\ j # 0
    BY <2>2
  <2>4. SumOf(gen, i) <= SumOf(gen, j - 1)
    BY <2>1, <2>3
  <2>5. SumOf(gen, j) = SumOf(gen, j - 1) + gen[j].ratio
    BY <1>1, <2>3
  <2>6. SumOf(gen, i) \in Nat /\ SumOf(gen, j - 1) \in Nat /\ gen[j].ratio \in Nat
    BY <1>3, <2>3
  <2>. QED BY <2>1, <2>4, <2>5, <2>6
<1>. QED BY <1>3, <1>4

-----------------------------------------------------------------------------
(* The draw *)

\* Which source a number draws: the one whose stretch of the sums it is in.
LEMMA Draw ==
  ASSUME NEW gen, NEW n \in Nat, DOMAIN gen = 1..n, \A i \in 1..n : gen[i].ratio \in Nat,
         NEW c \in Nat, c <= SumOf(gen, n), n # 0
  PROVE  /\ Picked(gen, c) \in 1..n
         /\ \A i \in 1..n : Picked(gen, c) = i <=>
              c <= SumOf(gen, i) /\ (i = 1 \/ SumOf(gen, i - 1) < c)
<1>. DEFINE hits == {i \in DOMAIN gen : SumOf(gen, i) >= c}
            S(i) == SumOf(gen, i)
<1>1. /\ \A i \in 0..n : S(i) \in Nat
      /\ \A i, j \in 0..n : i <= j => S(i) <= S(j)
  BY SumGrows
<1>2. n \in hits
  <2>1. n \in 1..n /\ n \in 0..n
    OBVIOUS
  <2>. QED BY <1>1, <2>1
<1>3. \A i : i \in hits <=> i \in 1..n /\ c <= S(i)
  <2>1. ASSUME NEW i \in 1..n PROVE S(i) >= c <=> c <= S(i)
    <3>1. S(i) \in Nat
      BY <1>1
    <3>. QED BY <3>1
  <2>. QED BY <2>1
<1>4. PICK m \in hits : \A j \in hits : m <= j
  <2>1. hits \subseteq Nat
    BY <1>3
  <2>. HIDE DEF hits
  <2>. QED BY <1>2, <2>1, LeastNatural
<1>5. \A k \in hits : (\A j \in hits : k <= j) => k = m
  BY <1>3, <1>4
<1>6. Picked(gen, c) = m
  <2>1. Picked(gen, c) = Min(hits)
    BY <1>2 DEF Picked
  <2>. HIDE DEF hits
  <2>2. Min(hits) = CHOOSE k \in hits : \A j \in hits : k <= j
    BY DEF Min
  <2>. QED BY <1>4, <1>5, <2>1, <2>2
<1>. HIDE DEF hits
<1>7. ASSUME NEW i \in 1..n
      PROVE  m = i <=> c <= S(i) /\ (i = 1 \/ S(i - 1) < c)
  <2>1. i - 1 \in 0..n /\ S(i - 1) \in Nat /\ S(i) \in Nat /\ i \in 0..n
    BY <1>1
  <2>2. ASSUME m = i, i # 1 PROVE S(i - 1) < c
    <3>1. i - 1 \in 1..n /\ ~(m <= i - 1)
      BY <2>2
    <3>2. ~(c <= S(i - 1))
      BY <1>3, <1>4, <3>1
    <3>. QED BY <2>1, <3>2
  <2>3. ASSUME c <= S(i), i = 1 \/ S(i - 1) < c PROVE m = i
    <3>1. i \in hits /\ m <= i /\ m \in 1..n /\ c <= S(m)
      BY <1>3, <1>4, <2>3
    <3>2. CASE i = 1
      BY <3>1, <3>2
    <3>3. CASE S(i - 1) < c
      <4>1. ~(m <= i - 1)
        <5>1. m <= i - 1 => S(m) <= S(i - 1)
          BY <1>1, <2>1, <3>1
        <5>2. S(m) \in Nat
          BY <1>1, <3>1
        <5>. QED BY <2>1, <3>1, <3>3, <5>1, <5>2
      <4>. QED BY <3>1, <4>1
    <3>. QED BY <2>3, <3>2, <3>3
  <2>4. m = i => c <= S(i)
    BY <1>3, <1>4
  <2>. QED BY <2>2, <2>3, <2>4
<1>8. m \in 1..n
  BY <1>3, <1>4
<1>. QED BY <1>6, <1>7, <1>8

\* How many of the numbers draw a source, when the shares make a hundred.
LEMMA DrawnNumbers ==
  ASSUME NEW gen, NEW n \in Nat, DOMAIN gen = 1..n, \A i \in 1..n : gen[i].ratio \in Nat,
         SumOf(gen, n) = Percent, NEW i \in 1..n
  PROVE  Cardinality({c \in 0..Percent : Picked(gen, c) = i})
           = gen[i].ratio + (IF i = 1 THEN 1 ELSE 0)
<1>. DEFINE S(k) == SumOf(gen, k)
            D == {c \in 0..Percent : Picked(gen, c) = i}
            low == IF i = 1 THEN 0 ELSE S(i - 1) + 1
<1>1. /\ \A k \in 0..n : S(k) \in Nat
      /\ \A k, j \in 0..n : k <= j => S(k) <= S(j)
  BY SumGrows
<1>2. i - 1 \in Nat /\ i - 1 \in 0..n /\ i \in 0..n /\ n \in 0..n /\ (i - 1) + 1 = i /\ n # 0 /\ i <= n
  OBVIOUS
<1>3. S(i) = S(i - 1) + gen[i].ratio /\ (i = 1 => S(i - 1) = 0)
  <2>1. i = 1 => i - 1 = 0
    OBVIOUS
  <2>. QED BY <1>2, <2>1, SumSteps
<1>4. S(i) \in Nat /\ S(i - 1) \in Nat /\ S(i) <= Percent /\ gen[i].ratio \in Nat /\ Percent \in Nat
  <2>1. S(i) <= S(n) /\ S(n) \in Nat
    BY <1>1, <1>2
  <2>. QED BY <1>1, <1>2, <2>1
<1>5. D = low..S(i)
  <2>1. ASSUME NEW c \in 0..Percent
        PROVE  Picked(gen, c) = i <=> c <= S(i) /\ (i = 1 \/ S(i - 1) < c)
    <3>1. c \in Nat /\ c <= SumOf(gen, n)
      BY <1>4
    <3>. QED BY <1>2, <3>1, Draw
  <2>. HIDE DEF S
  <2>2. \A c \in 0..Percent : c \in low..S(i) <=> c <= S(i) /\ (i = 1 \/ S(i - 1) < c)
    BY <1>4
  <2>3. \A c \in low..S(i) : c \in 0..Percent
    BY <1>4
  <2>. QED BY <2>1, <2>2, <2>3
<1>. HIDE DEF S, D
<1>6. low \in Int /\ S(i) \in Int
  BY <1>4
<1>7. Cardinality(low..S(i)) = IF low > S(i) THEN 0 ELSE S(i) - low + 1
  BY <1>6, FS_Interval
<1>8. Cardinality(D) = gen[i].ratio + (IF i = 1 THEN 1 ELSE 0)
  BY <1>3, <1>4, <1>5, <1>7
<1>. QED BY <1>8 DEF D

-----------------------------------------------------------------------------
(* The areas *)

PatRec == [tgt_vol : Nat, length : Nat, align : Nat, start_sec : Nat, end_sec : Nat]
SourceRec == [pattern : PatRec, random : BOOLEAN, ratio : 0..(ShareWord - 1), current_lba : Nat]

\* What CreateIOPattern accepts,
GoodArea(pat) ==
  /\ pat \in PatRec /\ pat.align >= 1 /\ pat.align <= MaxAlign /\ pat.length <= MaxLength
  /\ pat.start_sec <= pat.end_sec /\ FarFromEnd(pat.end_sec)

\* and where a sequential source can be: at its first address, at the start of
\* its area, or with room for one more request.
GoodSource(s) ==
  /\ s \in SourceRec /\ GoodArea(s.pattern)
  /\ ~s.random =>
       \/ s.current_lba \in {s.pattern.start_sec, s.pattern.start_sec + s.pattern.align}
       \/ /\ s.pattern.start_sec <= s.current_lba
          /\ s.current_lba + s.pattern.length < s.pattern.end_sec

\* What CommandsInArea says of a command of src.
InArea(src, lba) ==
  LET pat == src.pattern
  IN  /\ src.random /\ Fits(pat) => WithinArea(pat, lba)
      /\ ~src.random =>
            /\ lba >= pat.start_sec
            /\ \/ lba + pat.length < pat.end_sec
               \/ lba \in {pat.start_sec, pat.start_sec + pat.align}

\* Rounding up to the boundary.
LEMMA AlignedIs ==
  ASSUME NEW pat \in PatRec, pat.align >= 1, NEW a \in Nat
  PROVE  /\ Aligned(pat, a) \in Nat /\ a <= Aligned(pat, a) /\ Aligned(pat, a) < a + pat.align
         /\ Aligned(pat, a) % pat.align = 0
         /\ \A m \in Nat : m % pat.align = 0 /\ a <= m => Aligned(pat, a) <= m
<1>. DEFINE b == pat.align
            A == Aligned(pat, a)
<1>1. b \in Nat \ {0}
  BY DEF PatRec
<1>. HIDE DEF b
<1>2. PICK q \in Nat : q = a \div b
  BY <1>1, DivMod
<1>3. PICK r \in 0..(b - 1) : r = a % b /\ a = b * q + r
  BY <1>1, <1>2, DivMod
<1>4. A = IF r = 0 THEN a ELSE a + (b - r)
  BY <1>3 DEF Aligned, b
<1>5. b * q \in Nat /\ b * (q + 1) = b * q + b
  BY <1>1, Multiples
<1>6. PICK e \in Nat : e = b * q
  BY <1>5
<1>7. A = IF r = 0 THEN e ELSE e + b
  BY <1>1, <1>3, <1>4, <1>6
<1>8. A % b = 0
  <2>1. \A k \in Nat : (b * k) % b = 0
    <3>. SUFFICES ASSUME NEW k \in Nat PROVE (b * k) % b = 0
      OBVIOUS
    <3>1. b * k = b * k + 0 /\ 0 \in 0..(b - 1)
      <4>1. b * k \in Nat
        BY <1>1, Multiples
      <4>. QED BY <1>1, <4>1
    <3>. QED BY <1>1, <3>1, DivModIs
  <2>2. A = b * q \/ A = b * (q + 1)
    BY <1>5, <1>6, <1>7
  <2>3. q + 1 \in Nat
    OBVIOUS
  <2>. QED BY <2>1, <2>2, <2>3
<1>9. ASSUME NEW m \in Nat, m % b = 0, a <= m PROVE A <= m
  <2>1. PICK p \in Nat : p = m \div b
    BY <1>1, DivMod
  <2>2. m = b * p + 0
    BY <1>1, <1>9, <2>1, DivMod
  <2>3. PICK f \in Nat : f = b * p
    BY <1>1, Multiples
  <2>4. m = f
    BY <2>2, <2>3
  <2>5. CASE r = 0
    BY <1>3, <1>4, <1>9, <2>5
  <2>6. CASE r # 0
    <3>1. ~(p < q) /\ p # q
      <4>1. p < q => b * p + b <= b * q
        BY <1>1, NextMultiple
      <4>. QED BY <1>1, <1>3, <1>6, <1>9, <2>3, <2>4, <2>6, <4>1
    <3>2. b * q + b <= b * p
      BY <1>1, <3>1, NextMultiple
    <3>. QED BY <1>6, <1>7, <2>3, <2>4, <2>6, <3>2
  <2>. QED BY <2>5, <2>6
<1>10. A \in Nat /\ a <= A /\ A < a + b
  BY <1>1, <1>3, <1>6, <1>7
<1>. QED BY <1>8, <1>9, <1>10 DEF b

\* Addresses below the last one do not wrap.
LEMMA NoWrap == \A x \in Nat : x < Word => x % Word = x
<1>. SUFFICES ASSUME NEW x \in Nat, x < Word PROVE x % Word = x
  OBVIOUS
<1>1. Word \in Nat \ {0}
  BY IoAssumption
<1>2. x = Word * 0 + x /\ x \in 0..(Word - 1)
  BY <1>1
<1>. QED BY <1>1, <1>2, DivModIs

\* A random command of a request that fits,
LEMMA RandomInArea ==
  ASSUME NEW src, GoodSource(src), src.random, NEW r \in RandomRange(src.pattern)
  PROVE  InArea(src, RandomLba(src.pattern, r))
<1>. DEFINE pat == src.pattern
            s == pat.start_sec
            e == pat.end_sec
            l == pat.length
            b == pat.align
            lba == RandomLba(pat, r)
<1>. SUFFICES ASSUME s + l <= e
              PROVE  /\ lba >= s /\ lba % b = 0 /\ lba + l < e + b
                     /\ (e - l) % b = 0 => lba + l <= e
  BY DEF InArea, Fits, WithinArea
<1>1. /\ pat \in PatRec /\ s \in Nat /\ e \in Nat /\ l \in Nat /\ b \in Nat
      /\ b >= 1 /\ b <= MaxAlign /\ e + 2 * (MaxAlign + MaxLength) < Word
  BY DEF GoodSource, GoodArea, PatRec, FarFromEnd
<1>2. MaxAlign \in Nat /\ MaxLength \in Nat /\ Word \in Nat \ {0}
  BY IoAssumption
<1>. HIDE DEF pat, s, e, l, b
<1>3. PICK top \in Nat : top = e - l
  BY <1>1
<1>4. \A x \in Nat : x < Word => x % Word = x
  BY NoWrap
<1>5. r \in Nat /\ r <= top - s
  <2>1. PICK g \in Nat : g = top - s
    BY <1>1, <1>3
  <2>2. g < Word
    BY <1>1, <1>2, <1>3, <2>1
  <2>3. e + 2 * Word - l - s = Word * 2 + g /\ g \in 0..(Word - 1)
    BY <1>1, <1>2, <1>3, <2>1, <2>2
  <2>4. (e + 2 * Word - l - s) % Word = g
    BY <1>2, <2>3, DivModIs
  <2>5. r \in 0..g
    BY <2>4 DEF RandomRange, pat, e, l, s
  <2>. QED BY <2>1, <2>5
<1>6. PICK a \in Nat : a = r + s
  BY <1>1, <1>5
<1>7. s <= a /\ a <= top /\ a % Word = a
  <2>1. s <= a /\ a <= top /\ a < Word
    BY <1>1, <1>2, <1>3, <1>5, <1>6
  <2>. QED BY <1>4, <2>1
<1>. DEFINE A == Aligned(pat, a)
<1>8. /\ A \in Nat /\ a <= A /\ A < a + b /\ A % b = 0
      /\ \A m \in Nat : m % b = 0 /\ a <= m => A <= m
  BY <1>1, AlignedIs DEF b
<1>. HIDE DEF A
<1>9. A < Word
  BY <1>1, <1>2, <1>3, <1>7, <1>8
<1>10. lba = A
  <2>1. A % Word = A
    BY <1>4, <1>8, <1>9
  <2>. QED BY <1>6, <1>7, <2>1 DEF RandomLba, A, s
<1>11. top % b = 0 => A <= top
  BY <1>7, <1>8
<1>. QED BY <1>1, <1>3, <1>7, <1>8, <1>10, <1>11

\* one of a request that does not fit: the range of addresses has wrapped, and
\* reaches a boundary behind the end of the area,
LEMMA LongRequestLeaves ==
  ASSUME NEW src, GoodSource(src), ~Fits(src.pattern)
  PROVE  \E r \in RandomRange(src.pattern) : ~WithinArea(src.pattern, RandomLba(src.pattern, r))
<1>. DEFINE pat == src.pattern
            s == pat.start_sec
            e == pat.end_sec
            l == pat.length
            b == pat.align
<1>1. /\ pat \in PatRec /\ s \in Nat /\ e \in Nat /\ l \in Nat /\ b \in Nat
      /\ b >= 1 /\ b <= MaxAlign /\ l <= MaxLength /\ s <= e /\ e < s + l
      /\ e + 2 * (MaxAlign + MaxLength) < Word
  BY DEF GoodSource, GoodArea, PatRec, FarFromEnd, Fits
<1>2. MaxAlign \in Nat /\ MaxLength \in Nat /\ Word \in Nat \ {0}
  BY IoAssumption
<1>. HIDE DEF pat, s, e, l, b
<1>3. PICK r \in Nat : r = e + b - s
  BY <1>1
<1>4. PICK g \in Nat : g = Word + e - l - s
  BY <1>1, <1>2
<1>5. (e + 2 * Word - l - s) % Word = g
  <2>1. e + 2 * Word - l - s = Word * 1 + g /\ g \in 0..(Word - 1)
    BY <1>1, <1>2, <1>4
  <2>. QED BY <1>2, <2>1, DivModIs
<1>6. r \in RandomRange(pat)
  <2>1. r \in 0..g
    BY <1>1, <1>2, <1>3, <1>4
  <2>. QED BY <1>5, <2>1 DEF RandomRange, e, l, s
<1>7. PICK a \in Nat : a = r + s /\ a = e + b /\ a % Word = a
  <2>1. r + s = e + b /\ e + b \in Nat /\ e + b < Word
    BY <1>1, <1>2, <1>3
  <2>. QED BY <2>1, NoWrap
<1>. DEFINE A == Aligned(pat, a)
<1>8. A \in Nat /\ a <= A /\ A < a + b
  BY <1>1, AlignedIs DEF b
<1>. HIDE DEF A
<1>9. A % Word = A
  <2>1. A < Word
    BY <1>1, <1>2, <1>7, <1>8
  <2>. QED BY <1>8, <2>1, NoWrap
<1>10. RandomLba(pat, r) = A
  BY <1>7, <1>9 DEF RandomLba, A, s
<1>11. ~(A + l < e + b)
  BY <1>1, <1>7, <1>8
<1>12. ~WithinArea(pat, RandomLba(pat, r))
  BY <1>10, <1>11 DEF WithinArea, e, l, b
<1>. QED BY <1>6, <1>12 DEF pat

\* and a sequential one, which leaves its source in a good place.
LEMMA SequentialInArea ==
  ASSUME NEW src, GoodSource(src), ~src.random
  PROVE  /\ InArea(src, src.current_lba)
         /\ GoodSource(Advanced(src))
         /\ Advanced(src).pattern = src.pattern /\ Advanced(src).random = src.random
         /\ Advanced(src).ratio = src.ratio
<1>. DEFINE pat == src.pattern
            cur == src.current_lba
            next == IF (cur + pat.length) + pat.length >= pat.end_sec
                    THEN pat.start_sec ELSE cur + pat.length
<1>1. src \in SourceRec /\ pat \in PatRec /\ GoodArea(pat) /\ pat.start_sec <= pat.end_sec
  BY DEF GoodSource, GoodArea
<1>2. /\ pat.start_sec \in Nat /\ pat.end_sec \in Nat /\ pat.length \in Nat /\ pat.align \in Nat
      /\ cur \in Nat
  BY <1>1 DEF PatRec, SourceRec
<1>3. \/ cur = pat.start_sec \/ cur = pat.start_sec + pat.align
      \/ pat.start_sec <= cur /\ cur + pat.length < pat.end_sec
  BY DEF GoodSource
<1>4. Advanced(src) = [src EXCEPT !.current_lba = next]
  BY DEF Advanced
<1>. HIDE DEF pat, cur
<1>5. next \in Nat /\ (next = pat.start_sec \/ (pat.start_sec <= next /\ next + pat.length < pat.end_sec))
  BY <1>2, <1>3
<1>6. /\ cur >= pat.start_sec
      /\ cur + pat.length < pat.end_sec \/ cur \in {pat.start_sec, pat.start_sec + pat.align}
  BY <1>2, <1>3
<1>. HIDE DEF next
<1>7. InArea(src, cur)
  BY <1>6 DEF InArea, pat
<1>8. /\ Advanced(src).pattern = pat /\ Advanced(src).random = src.random
      /\ Advanced(src).ratio = src.ratio /\ Advanced(src).current_lba = next
      /\ Advanced(src) \in SourceRec
  BY <1>1, <1>4, <1>5 DEF SourceRec, pat
<1>9. GoodSource(Advanced(src))
  BY <1>1, <1>5, <1>8 DEF GoodSource
<1>. QED BY <1>7, <1>8, <1>9 DEF pat, cur

-----------------------------------------------------------------------------
(* The invariant *)

Sum == SumOf(generator, Len(generator))

\* What is in the sources: areas CreateIOPattern accepts, and shares that add up
\* to total_ratio; no more than a hundred, unless one alone is more than that.
SharesInv ==
  /\ generator \in Seq(SourceRec)
  /\ \A i \in 1..Len(generator) : GoodSource(generator[i])
  /\ total_ratio = Sum % ShareWord
  /\ (\A i \in 1..Len(generator) : generator[i].ratio <= Percent) => Sum <= Percent
  /\ phase = "run" => total_ratio = Percent

\* How far the run is, and the command it made last.
RunInv ==
  /\ conf \in Confs
  /\ is_sim_end \in BOOLEAN /\ io_count \in 0..EndCount
  /\ is_sim_end => phase = "run" /\ io_count = EndCount
  /\ command = NoCommand \/
       /\ command.src \in 1..Len(generator)
       /\ InArea(generator[command.src], command.lba)
  /\ phase # "run" => command = NoCommand

SimInv == SharesInv /\ RunInv

\* Adding up modulo the width of a share.
LEMMA WrappedSum ==
  ASSUME NEW w \in Nat \ {0}, NEW a \in Nat, NEW r \in Nat
  PROVE  ((a % w) + r) % w = (a + r) % w
<1>1. PICK q \in Nat : q = a \div w
  BY DivMod
<1>2. PICK e \in Nat : e = a % w
  BY DivMod
<1>3. a = w * q + e
  BY <1>1, <1>2, DivMod
<1>4. PICK p \in Nat : p = (e + r) \div w
  BY DivMod
<1>5. PICK d \in 0..(w - 1) : d = (e + r) % w
  BY DivMod
<1>6. e + r = w * p + d
  BY <1>4, <1>5, DivMod
<1>7. w * q + w * p = w * (q + p) /\ w * q \in Nat /\ w * p \in Nat
  BY Multiples
<1>8. a + r = w * (q + p) + d
  BY <1>3, <1>6, <1>7
<1>9. (a + r) % w = d
  <2>1. PICK x \in Nat : x = q + p
    BY <1>1, <1>4
  <2>2. PICK y \in Nat : y = a + r
    OBVIOUS
  <2>3. y = w * x + d
    BY <1>8, <2>1, <2>2
  <2>. QED BY <2>2, <2>3, DivModIs
<1>. QED BY <1>2, <1>5, <1>9

LEMMA ShareIsNat ==
  ASSUME NEW s \in SourceRec
  PROVE  s.ratio \in Nat
<1>1. s.ratio \in 0..(ShareWord - 1)
  BY DEF SourceRec
<1>. QED BY <1>1, SimAssumption

\* What Initialize makes of a section it accepts.
LEMMA SectionIsGood ==
  ASSUME NEW c \in Confs, NEW i \in 1..Len(c.patterns), Usable(c.patterns[i])
  PROVE  GoodSource(Source(IoPattern(c.patterns[i]), c.patterns[i].PATTERN = "RAN",
                           c.patterns[i].RATIO))
<1>. DEFINE p == c.patterns[i]
            pat == IoPattern(p)
            kept == Pattern(pat)
            random == p.PATTERN = "RAN"
            src == Source(pat, random, p.RATIO)
<1>1. c.patterns \in Seq(PatternConf)
  BY ConfAssumption
<1>2. p \in PatternConf /\ i \in DOMAIN c.patterns
  BY <1>1
<1>3. /\ FarFromEnd(Sector(p.END_SEC))
      /\ Sector(p.END_SEC) = 0 => p.TARGET_VOL < Len(LuSectors)
  BY <1>2, ConfAssumption
<1>4. Accepted(pat)
  BY DEF Usable
<1>. HIDE DEF p
<1>5. ASSUME NEW s \in [rule : STRING, num : Nat] PROVE Sector(s) \in Nat
  <2>1. UsrArea \in Nat /\ s.num \in Nat /\ Percent \in Nat \ {0}
    BY SimAssumption, IoAssumption
  <2>2. UsrArea * s.num \in Nat
    BY <2>1, Multiples
  <2>3. (UsrArea * s.num) \div Percent \in Nat
    BY <2>1, <2>2, DivMod
  <2>. QED BY <2>1, <2>3 DEF Sector
<1>6. /\ p.TARGET_VOL \in Nat /\ p.LENGTH \in Nat /\ p.ALIGN_SEC \in Nat
      /\ Sector(p.START_SEC) \in Nat /\ Sector(p.END_SEC) \in Nat
      /\ p.RATIO \in 0..(ShareWord - 1)
  BY <1>2, <1>5 DEF PatternConf
<1>7. /\ pat \in PatRec /\ pat.end_sec = Sector(p.END_SEC) /\ pat.tgt_vol = p.TARGET_VOL
  BY <1>6 DEF IoPattern, PatRec
<1>. HIDE DEF pat
<1>8. /\ kept.tgt_vol = pat.tgt_vol /\ kept.length = pat.length /\ kept.align = pat.align
      /\ kept.start_sec = pat.start_sec
      /\ kept \in PatRec /\ FarFromEnd(kept.end_sec)
  <2>1. CASE pat.end_sec # 0
    BY <1>3, <1>7, <2>1 DEF Pattern
  <2>2. CASE pat.end_sec = 0
    <3>1. pat.tgt_vol + 1 \in 1..Len(LuSectors) /\ LuSectors \in Seq(Nat)
      BY <1>3, <1>6, <1>7, <2>2, IoAssumption
    <3>2. pat.tgt_vol + 1 \in DOMAIN LuSectors /\ LuSectors[pat.tgt_vol + 1] \in Nat
      BY <3>1
    <3>3. FarFromEnd(LuSectors[pat.tgt_vol + 1])
      BY <3>2, ConfAssumption
    <3>4. kept = [pat EXCEPT !.end_sec = LuSectors[pat.tgt_vol + 1]]
      BY <2>2 DEF Pattern
    <3>. QED BY <1>7, <3>2, <3>3, <3>4 DEF PatRec
  <2>. QED BY <2>1, <2>2
<1>9. /\ pat.align # 0 /\ pat.align <= MaxAlign /\ pat.length <= MaxLength
      /\ kept.end_sec >= pat.start_sec
  BY <1>4 DEF Accepted
<1>10. /\ pat.align \in Nat /\ pat.start_sec \in Nat /\ kept.end_sec \in Nat
  BY <1>7, <1>8 DEF PatRec
<1>. HIDE DEF kept
<1>11. GoodArea(kept)
  BY <1>8, <1>9, <1>10 DEF GoodArea
<1>. HIDE DEF random
<1>12. /\ src.pattern = kept /\ src.random = random
       /\ src.current_lba = (IF random THEN 0 ELSE pat.start_sec + pat.align)
       /\ src = [pattern |-> kept, random |-> random, ratio |-> p.RATIO,
                 current_lba |-> IF random THEN 0 ELSE pat.start_sec + pat.align]
  BY DEF Source, kept
<1>13. random \in BOOLEAN
  BY DEF random
<1>14. src \in SourceRec
  BY <1>6, <1>8, <1>10, <1>12, <1>13 DEF SourceRec
<1>15. GoodSource(src)
  BY <1>8, <1>11, <1>12, <1>14 DEF GoodSource
<1>. QED BY <1>15 DEF src, pat, random, p

LEMMA SimInvInit == Init => SimInv
<1>. SUFFICES ASSUME Init PROVE SimInv
  OBVIOUS
<1>1. generator = <<>> /\ Len(generator) = 0 /\ Sum = 0
  BY SumSteps DEF Init, Sum
<1>2. Percent \in Nat \ {0} /\ ShareWord \in Nat \ {0} /\ EndCount \in Nat
  BY IoAssumption, SimAssumption
<1>3. 0 % ShareWord = 0
  BY <1>2
<1>4. SharesInv
  <2>1. generator \in Seq(SourceRec) /\ 1..Len(generator) = {}
    BY <1>1
  <2>. QED BY <1>1, <1>2, <1>3, <2>1 DEF Init, SharesInv
<1>5. RunInv
  <2>1. io_count \in 0..EndCount
    BY <1>2 DEF Init
  <2>2. is_sim_end \in BOOLEAN /\ ~is_sim_end /\ command = NoCommand /\ conf \in Confs
    BY DEF Init
  <2>. QED BY <2>1, <2>2 DEF RunInv
<1>. QED BY <1>4, <1>5 DEF SimInv

LEMMA AddPatternStep ==
  ASSUME SimInv, AddPattern
  PROVE  SimInv'
<1>. DEFINE i == Len(generator) + 1
            c == conf.patterns[i]
            src == Source(IoPattern(c), c.PATTERN = "RAN", c.RATIO)
            gen == Append(generator, src)
<1>1. CASE ~(i <= Len(conf.patterns) /\ Usable(c) /\ SharesFit(gen))
  <2>1. Refuse
    BY <1>1 DEF AddPattern
  <2>. QED BY <2>1 DEF Refuse, SimInv, SharesInv, RunInv, AddPattern, Sum
<1>2. CASE i <= Len(conf.patterns) /\ Usable(c) /\ SharesFit(gen)
  <2>1. /\ generator' = gen /\ total_ratio' = (total_ratio + c.RATIO) % ShareWord
        /\ UNCHANGED <<conf, phase, io_count, is_sim_end, command>> /\ phase = "patterns"
    BY <1>2 DEF AddPattern
  <2>2. generator \in Seq(SourceRec) /\ conf \in Confs /\ Len(generator) \in Nat
    BY DEF SimInv, SharesInv, RunInv
  <2>3. conf.patterns \in Seq(PatternConf)
    BY <2>2, ConfAssumption
  <2>4. i \in 1..Len(conf.patterns) /\ Usable(conf.patterns[i]) /\ c \in PatternConf
    BY <1>2, <2>2, <2>3
  <2>5. GoodSource(src)
    <3>. HIDE DEF i
    <3>. QED BY <2>2, <2>4, SectionIsGood
  <2>6. src \in SourceRec /\ src.ratio = c.RATIO
    BY <2>5 DEF GoodSource, Source
  <2>. HIDE DEF src, c
  <2>7. /\ gen \in Seq(SourceRec) /\ Len(gen) = i /\ gen[i] = src
        /\ \A k \in 1..Len(generator) : gen[k] = generator[k]
    BY <2>2, <2>6, AppendProperties
  <2>. HIDE DEF gen
  <2>8. \A k \in 1..i : GoodSource(gen[k])
    BY <2>2, <2>5, <2>7 DEF SimInv, SharesInv
  <2>9. SumOf(gen, i) = Sum + c.RATIO
    <3>1. SumOf(gen, i) = SumOf(gen, Len(generator)) + gen[i].ratio
      BY <2>2, SumSteps
    <3>2. SumOf(gen, Len(generator)) = Sum
      BY <2>2, <2>7, SumSame DEF Sum
    <3>. QED BY <2>6, <2>7, <3>1, <3>2
  <2>10. Sum \in Nat
    <3>1. \A k \in 1..Len(generator) : generator[k].ratio \in Nat
      BY <2>2, ShareIsNat
    <3>2. Len(generator) \in 0..Len(generator)
      BY <2>2
    <3>. QED BY <2>2, <3>1, <3>2, SumGrows DEF Sum
  <2>11. c.RATIO \in Nat
    BY <2>4 DEF PatternConf
  <2>12. ShareWord \in Nat \ {0} /\ Percent \in Nat \ {0} /\ 2 * Percent < ShareWord
    BY IoAssumption, SimAssumption
  <2>13. total_ratio' = SumOf(gen, i) % ShareWord
    <3>1. total_ratio = Sum % ShareWord
      BY DEF SimInv, SharesInv
    <3>. HIDE DEF Sum
    <3>2. ((Sum % ShareWord) + c.RATIO) % ShareWord = (Sum + c.RATIO) % ShareWord
      BY <2>10, <2>11, <2>12, WrappedSum
    <3>. QED BY <2>1, <2>9, <3>1, <3>2
  <2>14. (\A k \in 1..i : gen[k].ratio <= Percent) => SumOf(gen, i) <= Percent
    <3>. SUFFICES ASSUME \A k \in 1..i : gen[k].ratio <= Percent
                  PROVE  SumOf(gen, i) <= Percent
      OBVIOUS
    <3>1. \A k \in 1..Len(generator) : generator[k].ratio <= Percent
      BY <2>2, <2>7
    <3>2. Sum <= Percent
      BY <3>1 DEF SimInv, SharesInv
    <3>3. c.RATIO <= Percent
      BY <2>2, <2>6, <2>7
    <3>. HIDE DEF Sum, i
    <3>4. PICK s \in Nat : s = SumOf(gen, i)
      BY <2>9, <2>10, <2>11
    <3>5. s < ShareWord
      BY <2>9, <2>10, <2>11, <2>12, <3>2, <3>3, <3>4
    <3>6. s % ShareWord = s
      <4>1. s = ShareWord * 0 + s /\ s \in 0..(ShareWord - 1)
        BY <2>12, <3>5
      <4>. QED BY <2>12, <4>1, DivModIs
    <3>7. SumOf(gen, i) % ShareWord <= Percent
      BY <1>2, <2>7 DEF SharesFit, gen, src, c
    <3>. QED BY <3>4, <3>6, <3>7
  <2>15. SharesInv'
    BY <2>1, <2>7, <2>8, <2>13, <2>14 DEF SharesInv, Sum
  <2>16. RunInv'
    BY <2>1, <2>2 DEF SimInv, RunInv
  <2>. QED BY <2>15, <2>16 DEF SimInv
<1>. QED BY <1>1, <1>2

\* While it runs every number draws a source.
LEMMA RunDraws ==
  ASSUME SimInv, phase = "run", NEW choise \in 0..Percent
  PROVE  Picked(generator, choise) \in 1..Len(generator)
<1>. DEFINE n == Len(generator)
<1>1. generator \in Seq(SourceRec) /\ n \in Nat /\ DOMAIN generator = 1..n
  BY DEF SimInv, SharesInv
<1>2. \A k \in 1..n : generator[k].ratio \in Nat
  BY <1>1, ShareIsNat
<1>3. Sum \in Nat
  <2>1. n \in 0..n
    BY <1>1
  <2>. QED BY <1>1, <1>2, <2>1, SumGrows DEF Sum
<1>4. ShareWord \in Nat \ {0} /\ Percent \in Nat \ {0}
  BY IoAssumption, SimAssumption
<1>5. Sum % ShareWord = Percent
  BY DEF SimInv, SharesInv
<1>6. Percent <= Sum
  <2>. HIDE DEF Sum
  <2>1. PICK e \in Nat : e = Sum % ShareWord
    BY <1>3, <1>4, DivMod
  <2>2. PICK q \in Nat : q = Sum \div ShareWord
    BY <1>3, <1>4, DivMod
  <2>3. Sum = ShareWord * q + e /\ ShareWord * q \in Nat
    BY <1>3, <1>4, <2>1, <2>2, DivMod, Multiples
  <2>. QED BY <1>3, <1>5, <2>1, <2>3
<1>7. n # 0
  <2>1. n = 0 => Sum = 0
    BY SumSteps DEF Sum
  <2>. QED BY <1>4, <1>6, <2>1
<1>8. choise \in Nat /\ choise <= SumOf(generator, n)
  BY <1>3, <1>4, <1>6 DEF Sum
<1>. QED BY <1>1, <1>2, <1>7, <1>8, Draw

LEMMA IssueStep ==
  ASSUME SimInv, phase = "run", NEW i \in 1..Len(generator), Issue(i)
  PROVE  /\ generator' \in Seq(SourceRec) /\ Len(generator') = Len(generator)
         /\ \A k \in 1..Len(generator) :
              GoodSource(generator'[k]) /\ generator'[k].ratio = generator[k].ratio
         /\ command'.src = i
         /\ InArea(generator'[i], command'.lba)
<1>. DEFINE src == generator[i]
<1>1. generator \in Seq(SourceRec) /\ \A k \in 1..Len(generator) : GoodSource(generator[k])
  BY DEF SimInv, SharesInv
<1>2. GoodSource(src)
  BY <1>1
<1>3. CASE src.random
  <2>1. PICK r \in RandomRange(src.pattern) :
           command' = Command(i, src, RandomLba(src.pattern, r)) /\ generator' = generator
    BY <1>3 DEF Issue
  <2>2. InArea(src, RandomLba(src.pattern, r))
    BY <1>2, <1>3, RandomInArea
  <2>3. command'.src = i /\ command'.lba = RandomLba(src.pattern, r)
    BY <2>1 DEF Command
  <2>. QED BY <1>1, <2>1, <2>2, <2>3
<1>4. CASE ~src.random
  <2>1. command' = Command(i, src, src.current_lba)
        /\ generator' = [generator EXCEPT ![i] = Advanced(src)]
    BY <1>4 DEF Issue
  <2>2. /\ InArea(src, src.current_lba)
        /\ GoodSource(Advanced(src))
        /\ Advanced(src).pattern = src.pattern /\ Advanced(src).random = src.random
        /\ Advanced(src).ratio = src.ratio
    BY <1>2, <1>4, SequentialInArea
  <2>3. command'.src = i /\ command'.lba = src.current_lba
    BY <2>1 DEF Command
  <2>4. Advanced(src) \in SourceRec
    BY <2>2 DEF GoodSource
  <2>. DEFINE adv == Advanced(src)
  <2>. HIDE DEF adv
  <2>5. /\ generator' \in Seq(SourceRec) /\ Len(generator') = Len(generator)
        /\ generator'[i] = adv
        /\ \A k \in 1..Len(generator) : k # i => generator'[k] = generator[k]
    BY <1>1, <2>1, <2>4 DEF adv
  <2>6. InArea(adv, src.current_lba)
    BY <2>2 DEF InArea, adv
  <2>7. \A k \in 1..Len(generator) :
           GoodSource(generator'[k]) /\ generator'[k].ratio = generator[k].ratio
    BY <1>1, <2>2, <2>5 DEF adv
  <2>. QED BY <2>3, <2>5, <2>6, <2>7
<1>. QED BY <1>3, <1>4

LEMMA RunStepKeeps ==
  ASSUME SimInv, RunStep
  PROVE  SimInv'
<1>1. /\ phase = "run" /\ phase' = "run" /\ ~is_sim_end /\ conf' = conf
      /\ total_ratio' = total_ratio /\ EndCount \in Nat /\ io_count \in 0..EndCount
  BY SimAssumption DEF RunStep, SimInv, RunInv
<1>2. ASSUME NEW choise \in 0..Percent, io_count < EndCount,
             Issue(Picked(generator, choise)), Counted, UNCHANGED is_sim_end
      PROVE  SimInv'
  <2>. DEFINE i == Picked(generator, choise)
  <2>1. i \in 1..Len(generator)
    BY <1>1, RunDraws
  <2>. HIDE DEF i
  <2>2. /\ generator' \in Seq(SourceRec) /\ Len(generator') = Len(generator)
        /\ \A k \in 1..Len(generator) :
             GoodSource(generator'[k]) /\ generator'[k].ratio = generator[k].ratio
        /\ command'.src = i
        /\ InArea(generator'[i], command'.lba)
    BY <1>1, <1>2, <2>1, IssueStep DEF i
  <2>3. Sum' = Sum
    <3>1. Len(generator) \in Nat
      BY DEF SimInv, SharesInv
    <3>2. \A k \in 1..Len(generator) : generator[k].ratio = generator'[k].ratio
      BY <2>2
    <3>3. SumOf(generator, Len(generator)) = SumOf(generator', Len(generator))
      BY <3>1, <3>2, SumSame
    <3>. QED BY <2>2, <3>3 DEF Sum
  <2>4. SharesInv'
    <3>. HIDE DEF Sum
    <3>1. (\A k \in 1..Len(generator') : generator'[k].ratio <= Percent) =>
            (\A k \in 1..Len(generator) : generator[k].ratio <= Percent)
      BY <2>2
    <3>. QED BY <1>1, <2>2, <2>3, <3>1 DEF SimInv, SharesInv
  <2>5. RunInv'
    BY <1>1, <1>2, <2>1, <2>2 DEF SimInv, RunInv, Counted
  <2>. QED BY <2>4, <2>5 DEF SimInv
<1>3. ASSUME NEW choise \in 0..Percent, Picked(generator, choise) = 0 PROVE FALSE
  BY <1>1, <1>3, RunDraws
<1>4. ASSUME io_count >= EndCount, is_sim_end' = TRUE, UNCHANGED <<generator, io_count, command>>
      PROVE  SimInv'
  BY <1>1, <1>4 DEF SimInv, SharesInv, RunInv, Sum
<1>. QED BY <1>2, <1>3, <1>4 DEF RunStep

LEMMA SimInvStep == SimInv /\ [Next]_vars => SimInv'
<1>. SUFFICES ASSUME SimInv, [Next]_vars PROVE SimInv'
  OBVIOUS
<1>1. CASE CheckFile
  BY <1>1 DEF CheckFile, Refuse, SimInv, SharesInv, RunInv, Sum
<1>2. CASE StartRun
  BY <1>2 DEF StartRun, SimInv, SharesInv, RunInv, Sum
<1>3. CASE Stopped \/ UNCHANGED vars
  BY <1>3 DEF Stopped, vars, SimInv, SharesInv, RunInv, Sum
<1>. QED BY <1>1, <1>2, <1>3, AddPatternStep, RunStepKeeps DEF Next

THEOREM SimInvHolds == Spec => []SimInv
<1>. QED BY SimInvInit, SimInvStep, PTL DEF Spec

\* For every configuration Initialize accepts, requests longer than their area
\* included: a random source keeps to its area exactly if its requests fit, and a
\* sequential one leaves it only from the two addresses it may start at
\* (CreateIOPattern and NextIo, iosrc.cpp).
THEOREM CommandsStay == Spec => []CommandsInArea
<1>1. ASSUME SimInv, NEW i \in DOMAIN generator, generator[i].random
      PROVE  LET pat == generator[i].pattern
             IN  Fits(pat) <=> \A r \in RandomRange(pat) : WithinArea(pat, RandomLba(pat, r))
  <2>1. GoodSource(generator[i])
    <3>1. DOMAIN generator = 1..Len(generator)
      BY <1>1 DEF SimInv, SharesInv
    <3>. QED BY <1>1, <3>1 DEF SimInv, SharesInv
  <2>. DEFINE src == generator[i]
  <2>. HIDE DEF src
  <2>2. ASSUME Fits(src.pattern), NEW r \in RandomRange(src.pattern)
        PROVE  WithinArea(src.pattern, RandomLba(src.pattern, r))
    <3>1. InArea(src, RandomLba(src.pattern, r))
      BY <1>1, <2>1, RandomInArea DEF src
    <3>. QED BY <1>1, <2>2, <3>1 DEF InArea, src
  <2>3. (\A r \in RandomRange(src.pattern) : WithinArea(src.pattern, RandomLba(src.pattern, r)))
          => Fits(src.pattern)
    BY <2>1, LongRequestLeaves DEF src
  <2>. QED BY <2>2, <2>3 DEF src
<1>2. SimInv => CommandsInArea
  BY <1>1 DEF SimInv, RunInv, CommandsInArea, InArea
<1>. QED BY <1>2, SimInvHolds, PTL

\* Once Initialize has succeeded GetNextCommand finds a source for every number
\* drawn, and draws the sources in the shares the file gives them.
THEOREM RunsAsConfigured == Spec => []RunAsConfigured
<1>1. SimInv => EndsAfterAllCommands
  BY DEF SimInv, RunInv, EndsAfterAllCommands
<1>2. ASSUME SimInv, phase = "run", \A i \in DOMAIN generator : generator[i].ratio <= Percent,
             NEW i \in DOMAIN generator
      PROVE  Cardinality({c \in 0..Percent : Picked(generator, c) = i})
               = generator[i].ratio + (IF i = 1 THEN 1 ELSE 0)
  <2>. DEFINE n == Len(generator)
  <2>1. generator \in Seq(SourceRec) /\ n \in Nat /\ DOMAIN generator = 1..n
    BY <1>2 DEF SimInv, SharesInv
  <2>2. \A k \in 1..n : generator[k].ratio \in Nat
    BY <2>1, ShareIsNat
  <2>3. Sum \in Nat
    <3>1. n \in 0..n
      BY <2>1
    <3>. QED BY <2>1, <2>2, <3>1, SumGrows DEF Sum
  <2>4. Sum <= Percent /\ Sum % ShareWord = Percent
    BY <1>2, <2>1 DEF SimInv, SharesInv
  <2>5. ShareWord \in Nat \ {0} /\ Percent \in Nat \ {0} /\ 2 * Percent < ShareWord
    BY IoAssumption, SimAssumption
  <2>6. Sum % ShareWord = Sum
    <3>. HIDE DEF Sum
    <3>1. Sum = ShareWord * 0 + Sum /\ Sum \in 0..(ShareWord - 1)
      BY <2>3, <2>4, <2>5
    <3>. QED BY <2>5, <3>1, DivModIs
  <2>7. SumOf(generator, n) = Percent
    BY <2>4, <2>6 DEF Sum
  <2>. QED BY <1>2, <2>1, <2>2, <2>7, DrawnNumbers
<1>3. SimInv => SharesAsConfigured
  BY <1>2 DEF SharesAsConfigured
<1>4. SimInv => RunAsConfigured
  BY <1>1, <1>3 DEF RunAsConfigured
<1>. QED BY <1>4, SimInvHolds, PTL
=============================================================================
