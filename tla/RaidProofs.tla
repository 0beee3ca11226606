------------------------------ MODULE RaidProofs ------------------------------
(***************************************************************************)
(* The RAID controller and its drives, for every number and capacity of    *)
(* drives, every stripe unit, page and command.                            *)
(*                                                                         *)
(* raid_translation cuts a command at the borders of stripe units and      *)
(* keeps two flags from turn to turn.  What the list of drive commands is  *)
(* good for follows from one invariant of its loop (TurnInv); what the     *)
(* controller and the driver then do is hand the list over unchanged.      *)
(***************************************************************************)
EXTENDS Array, Numbers, SequenceTheorems, FiniteSetTheorems, TLAPS

-----------------------------------------------------------------------------
(* The layout *)

\* What build_raid makes of the drives it accepts.
Group(rg) ==
  /\ rg \in RGInfo /\ rg.drive_num >= 2
  /\ rg.stripe_width = StripeSize * (rg.drive_num - 1)
  /\ \E rows \in Nat : rg.max_lba = rg.stripe_width * rows /\ StripeSize * rows <= rg.drv_lba

\* The units of a row skip its parity drive.
Skip(unit, parity) == IF unit >= parity THEN unit + 1 ELSE unit

\* The data drive the textbook layout chooses, in closed form.
LEMMA DataDriveIsSkip ==
  ASSUME NEW rg, rg.drive_num \in Nat, rg.drive_num >= 2, NEW row \in Nat,
         NEW unit \in 0..(rg.drive_num - 2)
  PROVE  /\ ParityDrive(rg, row) \in 0..(rg.drive_num - 1)
         /\ DataDrive(rg, row, unit) = Skip(unit, ParityDrive(rg, row))
         /\ TgtDrive(rg, unit, ParityDrive(rg, row)) = Skip(unit, ParityDrive(rg, row))
         /\ Skip(unit, ParityDrive(rg, row)) \in 0..(rg.drive_num - 1) \ {ParityDrive(rg, row)}
<1>. DEFINE n == rg.drive_num
            p == ParityDrive(rg, row)
            Before(d) == {e \in 0..(d - 1) : e # p}
<1>2. n \in Nat /\ n >= 2 /\ unit \in 0..(n - 2)
  OBVIOUS
<1>. HIDE DEF n
<1>1. p \in 0..(n - 1)
  <2>1. p = row % n
    BY DEF ParityDrive, n
  <2>. QED BY <1>2, <2>1
<1>. HIDE DEF p
<1>3. ASSUME NEW d \in 0..(n - 1)
      PROVE  Cardinality(Before(d)) = IF p < d THEN d - 1 ELSE d
  <2>1. IsFiniteSet(0..(d - 1)) /\ Cardinality(0..(d - 1)) = d
    <3>1. 0 \in Int /\ d - 1 \in Int
      BY <1>3
    <3>2. IsFiniteSet(0..(d - 1)) /\ Cardinality(0..(d - 1)) = IF 0 > d - 1 THEN 0 ELSE (d - 1) - 0 + 1
      BY <3>1, FS_Interval
    <3>. QED BY <1>3, <3>2
  <2>2. Before(d) = (0..(d - 1)) \ {p}
    OBVIOUS
  <2>3. Cardinality(Before(d)) = IF p \in 0..(d - 1) THEN Cardinality(0..(d - 1)) - 1
                                                     ELSE Cardinality(0..(d - 1))
    BY <2>1, <2>2, FS_RemoveElement
  <2>4. p \in 0..(d - 1) <=> p < d
    BY <1>1, <1>2, <1>3
  <2>. HIDE DEF Before
  <2>. QED BY <1>3, <2>1, <2>3, <2>4
<1>. HIDE DEF Before
<1>4. Skip(unit, p) \in 0..(n - 1) \ {p}
  BY <1>1, <1>2 DEF Skip
<1>5. Cardinality(Before(Skip(unit, p))) = unit
  BY <1>1, <1>2, <1>3, <1>4 DEF Skip
<1>6. \A d \in 0..(n - 1) \ {p} : Cardinality(Before(d)) = unit => d = Skip(unit, p)
  BY <1>1, <1>2, <1>3 DEF Skip
<1>7. DataDrive(rg, row, unit) = CHOOSE d \in 0..(n - 1) \ {p} : Cardinality(Before(d)) = unit
  BY DEF DataDrive, Before, n, p
<1>8. DataDrive(rg, row, unit) = Skip(unit, p)
  BY <1>4, <1>5, <1>6, <1>7
<1>9. TgtDrive(rg, unit, p) = Skip(unit, p)
  BY <1>2 DEF TgtDrive, Skip, n
<1>. QED BY <1>1, <1>4, <1>8, <1>9 DEF n, p

\* Where a sector of the group lives, in closed form.
LEMMA HomeIs ==
  ASSUME NEW rg, Group(rg), NEW x \in Nat
  PROVE  LET row  == Row(rg, x)
             unit == (x % rg.stripe_width) \div StripeSize
             ofs  == x % StripeSize
         IN  /\ row \in Nat /\ unit \in 0..(rg.drive_num - 2) /\ ofs \in 0..(StripeSize - 1)
             /\ x % rg.stripe_width = StripeSize * unit + ofs
             /\ x = rg.stripe_width * row + (StripeSize * unit + ofs)
             /\ StripeSize * unit + StripeSize <= rg.stripe_width
             /\ (x % rg.stripe_width) % StripeSize = ofs
             /\ Home(rg, x) = <<Skip(unit, ParityDrive(rg, row)), StripeSize * row + ofs>>
             /\ rg.stripe_width \in Nat \ {0}
<1>. DEFINE s == StripeSize
            m == rg.drive_num - 1
            w == rg.stripe_width
<1>1. s \in Nat \ {0} /\ m \in Nat \ {0} /\ rg.drive_num \in Nat /\ m - 1 = rg.drive_num - 2
  BY RaidAssumption DEF Group, RGInfo
<1>2. w = s * m
  BY DEF Group
<1>. HIDE DEF s, m, w
<1>. DEFINE row  == x \div w
            i    == x % w
            unit == i \div s
            ofs  == x % s
<1>3. /\ w \in Nat \ {0} /\ row \in Nat /\ i \in 0..(w - 1) /\ x = w * row + i
      /\ unit \in 0..(m - 1) /\ ofs \in 0..(s - 1) /\ i = s * unit + ofs
      /\ s * unit + s <= w /\ i % s = ofs
  <2>1. Levels(s, m, w, x, row, i, unit, ofs)
    BY <1>1, <1>2, TwoLevels, Zenon
  <2>. HIDE DEF row, i, unit, ofs
  <2>. QED BY <2>1 DEF Levels
<1>4. Home(rg, x) = <<DataDrive(rg, row, unit), s * row + ofs>>
  <2>1. row * s = s * row
    BY <1>1, <1>3
  <2>2. Home(rg, x) = <<DataDrive(rg, row, unit), row * s + ofs>>
    BY DEF Home, Row, s, w
  <2>. QED BY <2>1, <2>2
<1>. HIDE DEF s, m, w, row, i, unit, ofs
<1>5. DataDrive(rg, row, unit) = Skip(unit, ParityDrive(rg, row))
  BY <1>1, <1>3, DataDriveIsSkip DEF Group
<1>6. Row(rg, x) = row
  BY DEF Row, row, w
<1>. QED BY <1>1, <1>3, <1>4, <1>5, <1>6 DEF s, m, w, i, unit, ofs

\* No two sectors of the group live in the same place.
LEMMA HomeInjective ==
  ASSUME NEW rg, Group(rg), NEW x \in Nat, NEW y \in Nat, Home(rg, x) = Home(rg, y)
  PROVE  x = y
<1>. DEFINE s == StripeSize
            w == rg.stripe_width
            ux == (x % w) \div s
            uy == (y % w) \div s
            rx == Row(rg, x)
            ry == Row(rg, y)
            ox == x % s
            oy == y % s
<1>1. s \in Nat \ {0}
  BY RaidAssumption
<1>2. /\ rx \in Nat /\ ux \in Nat /\ ox \in 0..(s - 1) /\ x = w * rx + (s * ux + ox)
      /\ Home(rg, x) = <<Skip(ux, ParityDrive(rg, rx)), s * rx + ox>>
  BY HomeIs
<1>3. /\ ry \in Nat /\ uy \in Nat /\ oy \in 0..(s - 1) /\ y = w * ry + (s * uy + oy)
      /\ Home(rg, y) = <<Skip(uy, ParityDrive(rg, ry)), s * ry + oy>>
  BY HomeIs
<1>. HIDE DEF s, ux, uy, rx, ry, ox, oy, w
<1>4. s * rx + ox = s * ry + oy /\ Skip(ux, ParityDrive(rg, rx)) = Skip(uy, ParityDrive(rg, ry))
  BY <1>2, <1>3
<1>5. rx = ry /\ ox = oy
  <2>1. (s * rx + ox) \div s = rx /\ (s * rx + ox) % s = ox
    BY <1>1, <1>2, DivModUnique
  <2>2. (s * ry + oy) \div s = ry /\ (s * ry + oy) % s = oy
    BY <1>1, <1>3, DivModUnique
  <2>. QED BY <1>4, <2>1, <2>2
<1>6. ParityDrive(rg, rx) \in Nat
  <2>1. PICK n \in Nat \ {0} : n = rg.drive_num
    BY DEF Group, RGInfo
  <2>2. rx % n \in Nat
    BY <1>2, <2>1
  <2>. QED BY <2>1, <2>2 DEF ParityDrive
<1>7. ux = uy
  BY <1>2, <1>3, <1>4, <1>5, <1>6 DEF Skip
<1>. QED BY <1>2, <1>3, <1>5, <1>7

-----------------------------------------------------------------------------
(* The turns of raid_translation *)

Start(c) == [ofs_in_rg |-> c.lba, ttl_length |-> c.sector_num,
               multi_drive |-> FALSE, parity_update |-> FALSE, cmd_list |-> <<>>]
Turn(rg, c, s) == IF s.ttl_length = 0 THEN s ELSE Segment(rg, c.opcode, s)
Turns(rg, c, num, f) ==
  [n \in 0..num |-> IF n = 0 THEN Start(c) ELSE Turn(rg, c, f[n - 1])]

\* The loop can make any number of turns,
LEMMA TurnsExist ==
  ASSUME NEW rg, NEW c, NEW num \in Nat
  PROVE  \E f : f = Turns(rg, c, num, f)
<1>. DEFINE Bad == {n \in Nat : \A f : f # Turns(rg, c, n, f)}
<1>. SUFFICES ASSUME Bad # {} PROVE FALSE
  OBVIOUS
<1>1. PICK n \in Bad : \A m \in Bad : n <= m
  <2>. HIDE DEF Bad
  <2>1. Bad \subseteq Nat
    BY DEF Bad
  <2>. QED BY <2>1, LeastNatural
<1>2. n \in Nat /\ \A f : f # Turns(rg, c, n, f)
  BY <1>1
<1>3. n # 0
  <2>. DEFINE f == [i \in 0..0 |-> Start(c)]
  <2>1. f = Turns(rg, c, 0, f)
    BY DEF Turns
  <2>. QED BY <1>2, <2>1
<1>4. n - 1 \in Nat /\ n - 1 \notin Bad
  BY <1>1, <1>2, <1>3
<1>5. PICK f : f = Turns(rg, c, n - 1, f)
  BY <1>4
<1>. DEFINE g == [i \in 0..n |-> IF i < n THEN f[i] ELSE Turn(rg, c, f[n - 1])]
<1>6. ASSUME NEW i \in 0..n
      PROVE  g[i] = IF i = 0 THEN Start(c) ELSE Turn(rg, c, g[i - 1])
  <2>1. CASE i = 0
    <3>1. 0 \in 0..(n - 1) /\ g[0] = f[0]
      BY <1>2, <1>3
    <3>2. f[0] = Start(c)
      BY <1>5, <3>1 DEF Turns
    <3>. QED BY <2>1, <3>1, <3>2
  <2>2. CASE i # 0 /\ i < n
    <3>1. i \in 0..(n - 1) /\ g[i] = f[i] /\ g[i - 1] = f[i - 1]
      BY <1>2, <1>6, <2>2
    <3>2. f[i] = Turn(rg, c, f[i - 1])
      BY <1>5, <2>2, <3>1 DEF Turns
    <3>. QED BY <2>2, <3>1, <3>2
  <2>3. CASE i = n
    <3>1. n - 1 \in 0..n /\ n - 1 < n /\ ~(n < n)
      BY <1>2, <1>3
    <3>. QED BY <1>3, <1>6, <2>3, <3>1
  <2>. QED BY <1>2, <1>6, <2>1, <2>2, <2>3
<1>7. g = Turns(rg, c, n, g)
  <2>. DEFINE h == [i \in 0..n |-> IF i = 0 THEN Start(c) ELSE Turn(rg, c, g[i - 1])]
  <2>1. DOMAIN g = 0..n /\ g = [i \in 0..n |-> g[i]]
    OBVIOUS
  <2>. HIDE DEF g
  <2>2. h = [i \in 0..n |-> g[i]]
    BY <1>6
  <2>3. h = Turns(rg, c, n, g)
    BY DEF Turns
  <2>. QED BY <2>1, <2>2, <2>3
<1>. QED BY <1>2, <1>7

\* and raid_translation returns the list the last of them leaves.
LEMMA TranslationTurns ==
  ASSUME NEW rg, NEW c, c.sector_num \in Nat
  PROVE  \E f : /\ f[0] = Start(c)
                /\ \A n \in 1..c.sector_num : f[n] = Turn(rg, c, f[n - 1])
                /\ raid_translation(rg, c) = f[c.sector_num].cmd_list
<1>. DEFINE f == CHOOSE f : f = Turns(rg, c, c.sector_num, f)
<1>1. raid_translation(rg, c) = f[c.sector_num].cmd_list
  BY DEF raid_translation, Turns, Turn, Start
<1>2. f = Turns(rg, c, c.sector_num, f)
  BY TurnsExist
<1>. HIDE DEF f
<1>3. f[0] = Start(c)
  BY <1>2 DEF Turns
<1>4. ASSUME NEW n \in 1..c.sector_num PROVE f[n] = Turn(rg, c, f[n - 1])
  <2>1. n \in 0..c.sector_num /\ n # 0
    OBVIOUS
  <2>2. f[n] = Turns(rg, c, c.sector_num, f)[n]
    BY <1>2
  <2>. HIDE <1>2
  <2>. QED BY <2>1, <2>2 DEF Turns
<1>. QED BY <1>1, <1>3, <1>4

-----------------------------------------------------------------------------
(* One turn *)

\* A command for the parity of its row.
ToParity(rg, c) == c.tgt_drive = ParityDrive(rg, c.lba \div StripeSize)

\* A drive command within one stripe unit of row.
InRow(rg, c, row) ==
  /\ c \in DriveCommandInfo /\ c.tgt_drive < rg.drive_num /\ c.sector_num >= 1
  /\ c.lba >= StripeSize * row
  /\ c.lba + c.sector_num <= StripeSize * row + StripeSize

AsRead(c) == [c EXCEPT !.opcode = "IO_READ"]

\* The data command of a turn of the loop at sector o with ttl sectors to go.
SegNum(o, ttl) ==
  IF (o % StripeSize) + ttl <= StripeSize THEN ttl ELSE StripeSize - (o % StripeSize)
SegOf(rg, op, o, ttl) ==
  [tgt_drive |-> Skip((o % rg.stripe_width) \div StripeSize, ParityDrive(rg, Row(rg, o))),
   opcode |-> op, lba |-> StripeSize * Row(rg, o) + (o % StripeSize),
   sector_num |-> SegNum(o, ttl)]

\* Its sectors are the homes of the sectors in its turn.
SegAt(rg, o, ttl, seg) ==
  LET num == seg.sector_num
      row == Row(rg, o)
  IN  /\ row \in Nat /\ num \in Nat /\ num >= 1 /\ num <= ttl
      /\ InRow(rg, seg, row) /\ ~ToParity(rg, seg)
      /\ \A k \in 0..(num - 1) : Home(rg, o + k) = <<seg.tgt_drive, seg.lba + k>>
      /\ num = ttl \/ (o % StripeSize) + ttl > StripeSize
      /\ Row(rg, o + num) = IF (o % rg.stripe_width) + num = rg.stripe_width
                            THEN row + 1 ELSE row

LEMMA SegPlace ==
  ASSUME NEW rg, Group(rg), NEW op \in Opcode, NEW o \in Nat, NEW ttl \in Nat \ {0}
  PROVE  SegAt(rg, o, ttl, SegOf(rg, op, o, ttl))
<1>. DEFINE s == StripeSize
            w == rg.stripe_width
            row == Row(rg, o)
            u == (o % w) \div s
            d == o % s
            num == SegNum(o, ttl)
            seg == SegOf(rg, op, o, ttl)
<1>1. s \in Nat \ {0} /\ rg.drive_num \in Nat /\ rg.drive_num >= 2
  BY RaidAssumption DEF Group, RGInfo
<1>2. /\ row \in Nat /\ u \in 0..(rg.drive_num - 2) /\ d \in 0..(s - 1)
      /\ o % w = s * u + d /\ o = w * row + (s * u + d) /\ s * u + s <= w
      /\ w \in Nat \ {0}
  BY HomeIs
<1>3. /\ seg.tgt_drive = Skip(u, ParityDrive(rg, row)) /\ seg.opcode = op
      /\ seg.lba = s * row + d /\ seg.sector_num = num
      /\ seg = [tgt_drive |-> seg.tgt_drive, opcode |-> seg.opcode,
                lba |-> seg.lba, sector_num |-> seg.sector_num]
  BY DEF SegOf
<1>4. num = IF d + ttl <= s THEN ttl ELSE s - d
  BY DEF SegNum
<1>. HIDE DEF s, w, row, u, d, num, seg
<1>5. num \in Nat /\ num >= 1 /\ num <= ttl /\ d + num <= s /\ (num = ttl \/ d + ttl > s)
  BY <1>1, <1>2, <1>4
<1>6. Skip(u, ParityDrive(rg, row)) \in 0..(rg.drive_num - 1) \ {ParityDrive(rg, row)}
  BY <1>1, <1>2, DataDriveIsSkip
<1>7. s * row \in Nat /\ s * u \in Nat /\ w * row \in Nat
  BY <1>1, <1>2, Multiples
<1>8. seg.lba \div s = row
  BY <1>1, <1>2, <1>3, DivModUnique
<1>9. InRow(rg, seg, row)
  <2>1. seg \in DriveCommandInfo
    BY <1>1, <1>2, <1>3, <1>5, <1>6, <1>7 DEF DriveCommandInfo
  <2>. QED BY <1>1, <1>2, <1>3, <1>5, <1>6, <1>7, <2>1 DEF InRow, s
<1>10. ~ToParity(rg, seg)
  BY <1>3, <1>6, <1>8 DEF ToParity, s
\* The sectors of a stripe unit.
<1>11. ASSUME NEW k \in Nat, d + k < s
       PROVE  /\ (o + k) \div w = row /\ (o + k) % w = s * u + (d + k)
              /\ ((o + k) % w) \div s = u /\ (o + k) % s = d + k
  <2>1. PICK r \in Nat : r = s * u + (d + k)
    BY <1>2, <1>7
  <2>2. r \in 0..(w - 1) /\ o + k = w * row + r
    BY <1>1, <1>2, <1>7, <1>11, <2>1
  <2>3. (o + k) \div w = row /\ (o + k) % w = r
    <3>1. PICK a \in Nat : a = o + k
      BY <1>11
    <3>2. a = w * row + r
      BY <2>2, <3>1
    <3>3. a \div w = row /\ a % w = r
      BY <1>2, <2>2, <3>2, DivModIs
    <3>. QED BY <3>1, <3>3
  <2>4. d + k \in 0..(s - 1)
    BY <1>1, <1>2, <1>11
  <2>5. r \div s = u /\ r % s = d + k
    <3>1. PICK e \in Nat : e = d + k
      BY <2>4
    <3>2. u \in Nat /\ r = s * u + e /\ e \in 0..(s - 1)
      BY <1>2, <2>1, <2>4, <3>1
    <3>3. r \div s = u /\ r % s = e
      BY <1>1, <3>2, DivModIs
    <3>. QED BY <3>1, <3>3
  <2>6. ((o + k) % w) % s = (o + k) % s
    BY <1>2, HomeIs DEF s, w
  <2>. QED BY <2>1, <2>3, <2>5, <2>6
<1>12. ASSUME NEW k \in 0..(num - 1)
       PROVE  Home(rg, o + k) = <<seg.tgt_drive, seg.lba + k>>
  <2>1. k \in Nat /\ d + k < s /\ o + k \in Nat
    BY <1>1, <1>2, <1>5
  <2>2. /\ Row(rg, o + k) = row
        /\ ((o + k) % rg.stripe_width) \div StripeSize = u /\ (o + k) % StripeSize = d + k
    BY <1>11, <2>1 DEF Row, s, w
  <2>3. Home(rg, o + k) = <<Skip(u, ParityDrive(rg, row)), StripeSize * row + (d + k)>>
    BY <2>1, <2>2, HomeIs
  <2>. QED BY <1>2, <1>3, <1>7, <2>1, <2>3 DEF s
<1>13. Row(rg, o + num) = IF (o % w) + num = w THEN row + 1 ELSE row
  <2>1. CASE (o % w) + num = w
    <3>1. o + num = w * row + w
      <4>1. PICK wr \in Nat : wr = w * row
        BY <1>7
      <4>2. PICK i \in Nat : i = s * u + d
        BY <1>2, <1>7
      <4>3. o = wr + i /\ i + num = w
        BY <1>2, <2>1, <4>1, <4>2
      <4>. QED BY <1>2, <1>5, <4>1, <4>3
    <3>2. w * row + w = w * (row + 1) /\ row + 1 \in Nat
      BY <1>2, Multiples
    <3>3. PICK q \in Nat : q = row + 1
      BY <3>2
    <3>4. o + num = w * q + 0 /\ 0 \in 0..(w - 1)
      BY <1>2, <3>1, <3>2, <3>3
    <3>5. (o + num) \div w = q
      BY <1>2, <3>4, DivModUnique
    <3>. QED BY <2>1, <3>3, <3>5 DEF Row, w
  <2>2. CASE (o % w) + num # w
    <3>1. PICK r \in Nat : r = s * u + (d + num)
      BY <1>2, <1>5, <1>7
    <3>2. r \in 0..(w - 1) /\ o + num = w * row + r
      BY <1>1, <1>2, <1>5, <1>7, <2>2, <3>1
    <3>3. (o + num) \div w = row
      BY <1>2, <3>2, DivModUnique
    <3>. QED BY <2>2, <3>3 DEF Row, w
  <2>. QED BY <2>1, <2>2
<1>. QED BY <1>2, <1>3, <1>5, <1>9, <1>10, <1>12, <1>13 DEF SegAt, s, w, row, d, seg

\* What a turn appends to the list.
RangeOf(rg, op, s) ==
  ParityRange(Row(rg, s.ofs_in_rg), SegOf(rg, op, s.ofs_in_rg, s.ttl_length),
              s.multi_drive \/ (s.ofs_in_rg % StripeSize) + s.ttl_length > StripeSize)
ReadOld(rg, op, s) == AsRead(SegOf(rg, op, s.ofs_in_rg, s.ttl_length))
ParityStep(rg, kind, op, s) ==
  ParityCommand(kind, ParityDrive(rg, Row(rg, s.ofs_in_rg)), RangeOf(rg, op, s))
Added(rg, op, s) ==
  LET seg == SegOf(rg, op, s.ofs_in_rg, s.ttl_length)
  IN  IF op = "IO_READ" THEN <<seg>>
      ELSE IF s.parity_update THEN <<ReadOld(rg, op, s), seg>>
      ELSE <<ReadOld(rg, op, s), ParityStep(rg, "IO_READ", op, s),
             ParityStep(rg, "IO_WRITE", op, s), seg>>

LEMMA SegmentIs ==
  ASSUME NEW rg, Group(rg), NEW op \in Opcode, NEW s,
         s.ofs_in_rg \in Nat, s.ttl_length \in Nat \ {0},
         s.cmd_list \in Seq(DriveCommandInfo), s.parity_update \in BOOLEAN
  PROVE  LET num  == SegNum(s.ofs_in_rg, s.ttl_length)
             ends == (s.ofs_in_rg % rg.stripe_width) + num = rg.stripe_width
             t    == Segment(rg, op, s)
         IN  /\ t.ofs_in_rg = s.ofs_in_rg + num /\ t.ttl_length = s.ttl_length - num
             /\ t.parity_update = ((s.parity_update \/ op = "IO_WRITE") /\ ~ends)
             /\ t.cmd_list = s.cmd_list \o Added(rg, op, s)
<1>. DEFINE o == s.ofs_in_rg
            ttl == s.ttl_length
            w == rg.stripe_width
            row == Row(rg, o)
            d == o % StripeSize
            num == SegNum(o, ttl)
            seg == SegOf(rg, op, o, ttl)
            p == ParityDrive(rg, row)
            multi == s.multi_drive \/ d + ttl > StripeSize
            range == RangeOf(rg, op, s)
<1>1. StripeSize \in Nat \ {0} /\ rg.drive_num \in Nat /\ rg.drive_num >= 2
  BY RaidAssumption DEF Group, RGInfo
<1>2. /\ row \in Nat /\ (o % w) \div StripeSize \in 0..(rg.drive_num - 2)
      /\ d \in 0..(StripeSize - 1) /\ (o % w) % StripeSize = d
  BY HomeIs
<1>3. TgtDrive(rg, (o % w) \div StripeSize, p) = Skip((o % w) \div StripeSize, p)
  BY <1>1, <1>2, DataDriveIsSkip
<1>4. row * StripeSize = StripeSize * row
  BY <1>1, <1>2
<1>5. ((o % w) % StripeSize) + ttl <= StripeSize <=> ~(d + ttl > StripeSize)
  BY <1>1, <1>2
<1>6. seg = [tgt_drive |-> TgtDrive(rg, (o % w) \div StripeSize, row % rg.drive_num), opcode |-> op,
             lba |-> row * StripeSize + ((o % w) % StripeSize),
             sector_num |-> IF ((o % w) % StripeSize) + ttl <= StripeSize THEN ttl
                            ELSE StripeSize - ((o % w) % StripeSize)]
  BY <1>2, <1>3, <1>4 DEF SegOf, SegNum, ParityDrive
<1>7. range = ParityRange(row, seg, s.multi_drive \/ ~(((o % w) % StripeSize) + ttl <= StripeSize))
  BY <1>5 DEF RangeOf
<1>8. ParityUpdate(row % rg.drive_num, range) =
        <<ParityStep(rg, "IO_READ", op, s), ParityStep(rg, "IO_WRITE", op, s)>>
  BY DEF ParityStep, ParityDrive, ParityUpdate
<1>. HIDE DEF seg, range
<1>9. s.cmd_list \o (IF op = "IO_READ" THEN <<>>
                     ELSE <<AsRead(seg)>> \o (IF s.parity_update THEN <<>>
                                              ELSE ParityUpdate(row % rg.drive_num, range)))
                \o <<seg>>
       = s.cmd_list \o Added(rg, op, s)
  <2>. DEFINE D == DriveCommandInfo
              pr == ParityStep(rg, "IO_READ", op, s)
              pw == ParityStep(rg, "IO_WRITE", op, s)
  <2>1. seg \in D /\ AsRead(seg) \in D
    <3>1. seg \in D
      BY SegPlace DEF seg, InRow, SegAt
    <3>. HIDE DEF seg
    <3>. QED BY <3>1 DEF AsRead, DriveCommandInfo, Opcode
  <2>2. pr \in D /\ pw \in D
    <3>1. range.lba \in Nat /\ range.sector_num \in Nat
      BY <1>1, <1>2, <1>7, <2>1 DEF ParityRange, DriveCommandInfo
    <3>2. p \in Nat
      BY <1>1, <1>2, DataDriveIsSkip
    <3>. QED BY <3>1, <3>2 DEF ParityStep, ParityCommand, DriveCommandInfo, Opcode, range
  <2>3. /\ Added(rg, "IO_READ", s) = <<SegOf(rg, "IO_READ", o, ttl)>>
        /\ op # "IO_READ" /\ s.parity_update => Added(rg, op, s) = <<AsRead(seg), seg>>
        /\ op # "IO_READ" /\ ~s.parity_update => Added(rg, op, s) = <<AsRead(seg), pr, pw, seg>>
    BY DEF Added, ReadOld, seg
  <2>4. s.cmd_list \o <<>> = s.cmd_list /\ <<AsRead(seg)>> \o <<>> = <<AsRead(seg)>>
    BY <2>1, ConcatEmptySeq
  <2>. HIDE DEF D, pr, pw
  <2>5. /\ <<AsRead(seg)>> \o <<seg>> = <<AsRead(seg), seg>>
        /\ (<<AsRead(seg)>> \o <<pr, pw>>) \o <<seg>> = <<AsRead(seg), pr, pw, seg>>
    <3>1. PICK rd \in D : rd = AsRead(seg)
      BY <2>1
    <3>2. <<rd>> \o <<seg>> = <<rd, seg>> /\ (<<rd>> \o <<pr, pw>>) \o <<seg>> = <<rd, pr, pw, seg>>
      <4>1. PICK a \in D : a = seg
        BY <2>1
      <4>2. PICK b \in D : b = pr
        BY <2>2
      <4>3. PICK c \in D : c = pw
        BY <2>2
      <4>4. <<rd>> \o <<a>> = <<rd, a>>
        <5>1. <<rd>> \o <<a>> \in Seq(D) /\ <<rd, a>> \in Seq(D) /\ Len(<<rd>> \o <<a>>) = 2
          OBVIOUS
        <5>2. \A i \in 1..2 : (<<rd>> \o <<a>>)[i] = <<rd, a>>[i]
          OBVIOUS
        <5>. QED BY <5>1, <5>2, SeqEqual
      <4>5. <<rd>> \o <<b, c>> = <<rd, b, c>>
        <5>1. /\ <<rd>> \o <<b, c>> \in Seq(D) /\ <<rd, b, c>> \in Seq(D)
              /\ Len(<<rd>> \o <<b, c>>) = 3
          OBVIOUS
        <5>2. \A i \in 1..3 : (<<rd>> \o <<b, c>>)[i] = <<rd, b, c>>[i]
          OBVIOUS
        <5>. QED BY <5>1, <5>2, SeqEqual
      <4>6. <<rd, b, c>> \o <<a>> = <<rd, b, c, a>>
        <5>1. /\ <<rd, b, c>> \o <<a>> \in Seq(D) /\ <<rd, b, c, a>> \in Seq(D)
              /\ Len(<<rd, b, c>> \o <<a>>) = 4
          OBVIOUS
        <5>2. \A i \in 1..4 : (<<rd, b, c>> \o <<a>>)[i] = <<rd, b, c, a>>[i]
          OBVIOUS
        <5>. QED BY <5>1, <5>2, SeqEqual
      <4>. QED BY <4>1, <4>2, <4>3, <4>4, <4>5, <4>6, Zenon
    <3>. QED BY <3>1, <3>2, Zenon
  <2>6. /\ (s.cmd_list \o <<AsRead(seg)>>) \o <<seg>> = s.cmd_list \o (<<AsRead(seg)>> \o <<seg>>)
        /\ (s.cmd_list \o (<<AsRead(seg)>> \o <<pr, pw>>)) \o <<seg>>
             = s.cmd_list \o ((<<AsRead(seg)>> \o <<pr, pw>>) \o <<seg>>)
    <3>1. /\ s.cmd_list \in Seq(D) /\ <<AsRead(seg)>> \in Seq(D) /\ <<seg>> \in Seq(D)
          /\ <<AsRead(seg)>> \o <<pr, pw>> \in Seq(D)
      BY <2>1, <2>2 DEF D
    <3>. QED BY <3>1, ConcatAssociative
  <2>7. CASE op = "IO_READ"
    BY <2>3, <2>4, <2>7 DEF seg
  <2>8. CASE op # "IO_READ" /\ s.parity_update
    BY <2>3, <2>4, <2>5, <2>6, <2>8
  <2>9. CASE op # "IO_READ" /\ ~s.parity_update
    BY <1>8, <2>3, <2>5, <2>6, <2>9 DEF pr, pw
  <2>. QED BY <2>7, <2>8, <2>9
<1>. DEFINE inRow == o % w
            inDrv == inRow % StripeSize
            fits == inDrv + ttl <= StripeSize
            drive0 == TgtDrive(rg, inRow \div StripeSize, row % rg.drive_num)
<1>10. /\ seg.sector_num = num
       /\ [seg EXCEPT !.opcode = "IO_READ"] = AsRead(seg)
  BY DEF seg, SegOf, AsRead
<1>11. Segment(rg, op, s) =
         [ofs_in_rg |-> o + seg.sector_num, ttl_length |-> ttl - seg.sector_num,
          multi_drive |-> (s.multi_drive \/ ~fits) /\ ~RowEnds(rg, inRow, seg),
          parity_update |-> (s.parity_update \/ op = "IO_WRITE") /\ ~RowEnds(rg, inRow, seg),
          cmd_list |-> s.cmd_list \o
            (IF op = "IO_READ" THEN <<>>
             ELSE <<[seg EXCEPT !.opcode = "IO_READ"]>> \o
                    (IF s.parity_update THEN <<>>
                     ELSE ParityUpdate(row % rg.drive_num,
                            ParityRange(row, seg, s.multi_drive \/ ~fits))))
            \o <<seg>>]
  BY <1>6, Zenon DEF Segment, Row
<1>12. RowEnds(rg, inRow, seg) = (inRow + num = w)
  BY <1>10 DEF RowEnds
<1>. DEFINE t == Segment(rg, op, s)
            more == (s.parity_update \/ op = "IO_WRITE") /\ ~RowEnds(rg, inRow, seg)
<1>13. \E m : t = [ofs_in_rg |-> o + seg.sector_num, ttl_length |-> ttl - seg.sector_num,
                   multi_drive |-> m, parity_update |-> more,
                   cmd_list |-> s.cmd_list \o Added(rg, op, s)]
  BY <1>7, <1>9, <1>10, <1>11, Zenon
<1>. HIDE DEF t, more
<1>14. /\ t.ofs_in_rg = o + seg.sector_num /\ t.ttl_length = ttl - seg.sector_num
       /\ t.parity_update = more /\ t.cmd_list = s.cmd_list \o Added(rg, op, s)
  BY <1>13
<1>. QED BY <1>10, <1>12, <1>14, Zenon DEF t, more

LEMMA InRowSectors ==
  ASSUME NEW rg, NEW c, NEW row \in Nat, InRow(rg, c, row)
  PROVE  /\ c.lba \div StripeSize = row
         /\ \A x \in Sectors(c) : x \in Nat /\ x \div StripeSize = row
<1>. DEFINE s == StripeSize
<1>1. s \in Nat \ {0}
  BY RaidAssumption
<1>2. /\ c.lba \in Nat /\ c.sector_num \in Nat /\ c.sector_num >= 1
      /\ c.lba >= s * row /\ c.lba + c.sector_num <= s * row + s
  BY DEF InRow, DriveCommandInfo
<1>. HIDE DEF s
<1>3. ASSUME NEW x \in c.lba..(c.lba + c.sector_num - 1)
      PROVE  x \in Nat /\ x \div s = row
  <2>1. PICK b \in Nat : b = s * row
    BY <1>1, Multiples
  <2>2. PICK d \in 0..(s - 1) : x = b + d
    <3>1. x - b \in 0..(s - 1) /\ x = b + (x - b)
      BY <1>1, <1>2, <1>3, <2>1
    <3>. QED BY <3>1
  <2>3. x = s * row + d
    BY <2>1, <2>2
  <2>4. x \in Nat
    BY <1>1, <2>1, <2>2
  <2>. QED BY <1>1, <2>3, <2>4, DivModIs
<1>4. c.lba \in c.lba..(c.lba + c.sector_num - 1)
  BY <1>2
<1>. QED BY <1>3, <1>4 DEF Sectors, s

IsData(rg, op, c) == c.opcode = op /\ ~ToParity(rg, c)
StoresParity(rg, c) == IsWrite(c) /\ ToParity(rg, c)

\* The transfers of a turn: one data command, which comes last; before a write
\* what it overwrites is read; the first turn of a row also reads and writes
\* parity, over all of the stripe unit unless the command ends in the turn.
Shape(rg, op, begun, ttl, row, seg, A) ==
  /\ A \in Seq(DriveCommandInfo) /\ Len(A) >= 1
  /\ \A k \in 1..Len(A) : InRow(rg, A[k], row)
  /\ A[Len(A)] = seg
  /\ \A k \in 1..Len(A) : IsData(rg, op, A[k]) <=> k = Len(A)
  /\ op = "IO_READ" => \A k \in 1..Len(A) : ~IsWrite(A[k])
  /\ \A j, k \in 1..Len(A) : StoresParity(rg, A[j]) =>
       ~begun /\ (StoresParity(rg, A[k]) => j = k)
  /\ op = "IO_WRITE" /\ ~begun =>
       \E k \in 1..Len(A) :
         /\ StoresParity(rg, A[k]) /\ Sectors(seg) \subseteq Sectors(A[k])
         /\ seg.sector_num # ttl =>
              A[k].lba = StripeSize * row /\ A[k].sector_num = StripeSize
  /\ \A k \in 1..Len(A) : IsWrite(A[k]) => \E j \in 1..(k - 1) : A[j] = AsRead(A[k])

LEMMA AddedShape ==
  ASSUME NEW rg, Group(rg), NEW op \in Opcode, NEW s,
         s.ofs_in_rg \in Nat, s.ttl_length \in Nat \ {0}, s.parity_update \in BOOLEAN
  PROVE  Shape(rg, op, s.parity_update, s.ttl_length, Row(rg, s.ofs_in_rg),
               SegOf(rg, op, s.ofs_in_rg, s.ttl_length), Added(rg, op, s))
<1>. DEFINE o == s.ofs_in_rg
            ttl == s.ttl_length
            row == Row(rg, o)
            d == o % StripeSize
            p == ParityDrive(rg, row)
            seg == SegOf(rg, op, o, ttl)
            rd == ReadOld(rg, op, s)
            pr == ParityStep(rg, "IO_READ", op, s)
            pw == ParityStep(rg, "IO_WRITE", op, s)
            A == Added(rg, op, s)
            whole == s.multi_drive \/ d + ttl > StripeSize
            range == RangeOf(rg, op, s)
<1>1. StripeSize \in Nat \ {0} /\ rg.drive_num \in Nat /\ rg.drive_num >= 2
  BY RaidAssumption DEF Group, RGInfo
<1>2. row \in Nat /\ d \in 0..(StripeSize - 1)
  BY HomeIs
<1>3. /\ InRow(rg, seg, row) /\ ~ToParity(rg, seg) /\ seg.opcode = op
      /\ (seg.sector_num = ttl \/ d + ttl > StripeSize)
  <2>1. SegAt(rg, o, ttl, seg)
    BY SegPlace
  <2>2. seg.opcode = op
    BY DEF SegOf
  <2>. HIDE DEF seg
  <2>. QED BY <2>1, <2>2 DEF SegAt
<1>4. InRow(rg, rd, row) /\ ~ToParity(rg, rd) /\ rd.opcode = "IO_READ" /\ rd = AsRead(seg)
  <2>1. rd = AsRead(seg)
    BY DEF ReadOld
  <2>. HIDE DEF rd, seg
  <2>2. seg \in DriveCommandInfo
    BY <1>3 DEF InRow
  <2>. QED BY <1>3, <2>1, <2>2 DEF AsRead, InRow, ToParity, DriveCommandInfo, Opcode
<1>5. /\ range.lba >= StripeSize * row /\ range.lba \in Nat /\ range.sector_num \in Nat
      /\ range.lba + range.sector_num <= StripeSize * row + StripeSize
      /\ range.sector_num >= 1 /\ Sectors(seg) \subseteq Sectors(range)
      /\ seg.sector_num # ttl => range.lba = StripeSize * row /\ range.sector_num = StripeSize
  <2>1. PICK b \in Nat : b = StripeSize * row /\ b = row * StripeSize
    BY <1>1, <1>2, Multiples
  <2>2. range = IF whole THEN [lba |-> b, sector_num |-> StripeSize]
                         ELSE [lba |-> seg.lba, sector_num |-> seg.sector_num]
    BY <2>1 DEF RangeOf, ParityRange
  <2>3. /\ seg.lba \in Nat /\ seg.sector_num \in Nat /\ seg.sector_num >= 1
        /\ seg.lba >= b /\ seg.lba + seg.sector_num <= b + StripeSize
    BY <1>3, <2>1 DEF InRow, DriveCommandInfo
  <2>. HIDE DEF range, seg
  <2>4. CASE whole
    <3>1. range.lba = b /\ range.sector_num = StripeSize
      BY <2>2, <2>4
    <3>. QED BY <1>1, <2>1, <2>3, <3>1 DEF Sectors
  <2>5. CASE ~whole
    <3>1. range.lba = seg.lba /\ range.sector_num = seg.sector_num
      BY <2>2, <2>5
    <3>. QED BY <1>1, <1>3, <2>1, <2>3, <2>5, <3>1 DEF Sectors
  <2>. QED BY <2>4, <2>5
<1>6. /\ p \in Nat /\ p < rg.drive_num
      /\ pr = [tgt_drive |-> p, opcode |-> "IO_READ", lba |-> range.lba, sector_num |-> range.sector_num]
      /\ pw = [tgt_drive |-> p, opcode |-> "IO_WRITE", lba |-> range.lba, sector_num |-> range.sector_num]
  <2>1. p \in 0..(rg.drive_num - 1)
    BY <1>1, <1>2, DataDriveIsSkip
  <2>. QED BY <1>1, <2>1 DEF ParityStep, ParityCommand
<1>. HIDE DEF range, pr, pw, rd, seg, p
<1>7. /\ InRow(rg, pr, row) /\ InRow(rg, pw, row)
      /\ pr.opcode = "IO_READ" /\ pw.opcode = "IO_WRITE" /\ pr = AsRead(pw)
      /\ pr.tgt_drive = p /\ pw.tgt_drive = p
      /\ pw.lba = range.lba /\ pw.sector_num = range.sector_num
  BY <1>5, <1>6 DEF InRow, DriveCommandInfo, Opcode, AsRead
<1>8. ToParity(rg, pr) /\ ToParity(rg, pw)
  <2>1. pr.lba \div StripeSize = row /\ pw.lba \div StripeSize = row
    BY <1>2, <1>7, InRowSectors
  <2>. QED BY <1>7, <2>1 DEF ToParity, p
<1>9. Sectors(pw) = Sectors(range)
  BY <1>7 DEF Sectors
<1>10. /\ op = "IO_READ" => A = <<seg>>
       /\ op = "IO_WRITE" /\ s.parity_update => A = <<rd, seg>>
       /\ op = "IO_WRITE" /\ ~s.parity_update => A = <<rd, pr, pw, seg>>
  BY DEF Added, rd, pr, pw, seg
<1>. HIDE DEF A, row, o, ttl
<1>11. seg \in DriveCommandInfo /\ rd \in DriveCommandInfo /\ pr \in DriveCommandInfo
       /\ pw \in DriveCommandInfo
  BY <1>3, <1>4, <1>7 DEF InRow
<1>12. op = "IO_READ" \/ op = "IO_WRITE"
  BY DEF Opcode
<1>. DEFINE Goal ==
       /\ A \in Seq(DriveCommandInfo) /\ Len(A) >= 1
       /\ \A k \in 1..Len(A) : InRow(rg, A[k], row)
       /\ A[Len(A)] = seg
       /\ \A k \in 1..Len(A) : IsData(rg, op, A[k]) <=> k = Len(A)
       /\ op = "IO_READ" => \A k \in 1..Len(A) : ~IsWrite(A[k])
       /\ \A j, k \in 1..Len(A) : StoresParity(rg, A[j]) =>
            ~s.parity_update /\ (StoresParity(rg, A[k]) => j = k)
       /\ op = "IO_WRITE" /\ ~s.parity_update =>
            \E k \in 1..Len(A) :
              /\ StoresParity(rg, A[k]) /\ Sectors(seg) \subseteq Sectors(A[k])
              /\ seg.sector_num # ttl =>
                   A[k].lba = StripeSize * row /\ A[k].sector_num = StripeSize
       /\ \A k \in 1..Len(A) : IsWrite(A[k]) => \E j \in 1..(k - 1) : A[j] = AsRead(A[k])
<1>13. ASSUME op = "IO_READ" PROVE Goal
  <2>1. A = <<seg>> /\ Len(A) = 1 /\ A[1] = seg
    BY <1>10, <1>13
  <2>2. ~IsWrite(seg) /\ ~StoresParity(rg, seg) /\ IsData(rg, op, seg)
    BY <1>3, <1>13 DEF IsWrite, StoresParity, IsData
  <2>3. A \in Seq(DriveCommandInfo)
    BY <1>11, <2>1
  <2>4. \A k \in 1..Len(A) : k = 1
    BY <2>1
  <2>. QED BY <1>3, <1>13, <2>1, <2>2, <2>3, <2>4
<1>14. ASSUME op = "IO_WRITE" /\ s.parity_update PROVE Goal
  <2>1. A = <<rd, seg>> /\ Len(A) = 2 /\ A[1] = rd /\ A[2] = seg
    BY <1>10, <1>14
  <2>2. /\ ~StoresParity(rg, seg) /\ IsData(rg, op, seg) /\ ~StoresParity(rg, rd)
        /\ ~IsData(rg, op, rd) /\ ~IsWrite(rd)
    BY <1>3, <1>4, <1>14 DEF IsWrite, StoresParity, IsData
  <2>3. A \in Seq(DriveCommandInfo)
    BY <1>11, <2>1
  <2>4. \A k \in 1..Len(A) : k = 1 \/ k = 2
    BY <2>1
  <2>5. 1 \in 1..(2 - 1)
    OBVIOUS
  <2>. QED BY <1>3, <1>4, <1>14, <2>1, <2>2, <2>3, <2>4, <2>5
<1>15. ASSUME op = "IO_WRITE" /\ ~s.parity_update PROVE Goal
  <2>1. /\ A = <<rd, pr, pw, seg>> /\ Len(A) = 4
        /\ A[1] = rd /\ A[2] = pr /\ A[3] = pw /\ A[4] = seg
    BY <1>10, <1>15
  <2>2. /\ ~StoresParity(rg, seg) /\ IsData(rg, op, seg) /\ ~StoresParity(rg, rd)
        /\ ~IsData(rg, op, rd) /\ ~IsWrite(rd)
        /\ ~StoresParity(rg, pr) /\ StoresParity(rg, pw) /\ ~IsWrite(pr)
        /\ ~IsData(rg, op, pr) /\ ~IsData(rg, op, pw)
    BY <1>3, <1>4, <1>7, <1>8, <1>15 DEF IsWrite, StoresParity, IsData
  <2>3. A \in Seq(DriveCommandInfo)
    BY <1>11, <2>1
  <2>4. \A k \in 1..Len(A) : k = 1 \/ k = 2 \/ k = 3 \/ k = 4
    BY <2>1
  <2>5. 1 \in 1..(4 - 1) /\ 2 \in 1..(3 - 1) /\ 3 \in 1..4
    OBVIOUS
  <2>6. \A k \in 1..Len(A) : InRow(rg, A[k], row)
    BY <1>3, <1>4, <1>7, <2>1, <2>4
  <2>7. \A k \in 1..Len(A) : IsData(rg, op, A[k]) <=> k = Len(A)
    BY <2>1, <2>2, <2>4
  <2>8. \A k \in 1..Len(A) : StoresParity(rg, A[k]) => k = 3
    BY <2>1, <2>2, <2>4
  <2>9. \A k \in 1..Len(A) : IsWrite(A[k]) => \E j \in 1..(k - 1) : A[j] = AsRead(A[k])
    BY <1>4, <1>7, <2>1, <2>2, <2>4, <2>5
  <2>10. /\ StoresParity(rg, A[3]) /\ Sectors(seg) \subseteq Sectors(A[3])
         /\ seg.sector_num # ttl => A[3].lba = StripeSize * row /\ A[3].sector_num = StripeSize
    BY <1>5, <1>7, <1>9, <2>1, <2>2
  <2>. QED BY <1>15, <2>1, <2>3, <2>5, <2>6, <2>7, <2>8, <2>9, <2>10
<1>16. Shape(rg, op, s.parity_update, ttl, row, seg, A)
  BY <1>12, <1>13, <1>14, <1>15, Zenon DEF Shape
<1>. QED BY <1>16 DEF A, row, o, ttl, seg

-----------------------------------------------------------------------------
(* The invariant of the loop: what the list L is good for when the sectors *)
(* of c below o have been dealt with.                                      *)

Placed(rg, L, o) ==
  \A i \in 1..Len(L) : \E row \in Nat : rg.stripe_width * row < o /\ InRow(rg, L[i], row)

\* The data commands transfer those sectors, no other, and none twice.
DataMoved(rg, c, L, o) ==
  /\ \A x \in c.lba..(o - 1) :
       \E i \in 1..Len(L) : /\ IsData(rg, c.opcode, L[i])
                            /\ Touches(L[i], Home(rg, x)[1], Home(rg, x)[2])
  /\ \A i \in 1..Len(L) : IsData(rg, c.opcode, L[i]) =>
       \A z \in Sectors(L[i]) : \E x \in c.lba..(o - 1) : Home(rg, x) = <<L[i].tgt_drive, z>>
  /\ \A i, j \in 1..Len(L) :
       (/\ IsData(rg, c.opcode, L[i]) /\ IsData(rg, c.opcode, L[j])
        /\ L[i].tgt_drive = L[j].tgt_drive /\ Sectors(L[i]) \cap Sectors(L[j]) # {}) => i = j

\* Parity is stored once for a row, in a row that is behind or begun, and over
\* all that is stored there.
ParityKept(rg, L, row, begun) ==
  /\ \A i \in 1..Len(L) : StoresParity(rg, L[i]) =>
       LET r == L[i].lba \div StripeSize IN r < row \/ (r = row /\ begun)
  /\ \A i, j \in 1..Len(L) :
       (/\ StoresParity(rg, L[i]) /\ StoresParity(rg, L[j])
        /\ L[i].lba \div StripeSize = L[j].lba \div StripeSize) => i = j
  /\ \A i \in 1..Len(L) : IsWrite(L[i]) /\ ~ToParity(rg, L[i]) =>
       \A z \in Sectors(L[i]) :
         \E j \in 1..Len(L) : StoresParity(rg, L[j]) /\ z \in Sectors(L[j])

\* The parity of the row the loop is in, over the whole stripe unit.
WholeUnit(rg, L, row) ==
  \E j \in 1..Len(L) :
    StoresParity(rg, L[j]) /\ L[j].lba = StripeSize * row /\ L[j].sector_num = StripeSize

ReadFirst(L) ==
  \A i \in 1..Len(L) : IsWrite(L[i]) => \E j \in 1..(i - 1) : L[j] = AsRead(L[i])

TurnInv(rg, c, s) ==
  LET o   == s.ofs_in_rg
      L   == s.cmd_list
      row == Row(rg, o)
  IN  /\ o \in Nat /\ s.ttl_length \in Nat /\ s.parity_update \in BOOLEAN
      /\ L \in Seq(DriveCommandInfo)
      /\ o >= c.lba /\ o + s.ttl_length = c.lba + c.sector_num
      /\ Placed(rg, L, o)
      /\ DataMoved(rg, c, L, o)
      /\ c.opcode = "IO_READ" => \A i \in 1..Len(L) : ~IsWrite(L[i])
      /\ ParityKept(rg, L, row, s.parity_update)
      /\ s.parity_update => c.opcode = "IO_WRITE"
      /\ s.parity_update /\ s.ttl_length > 0 => WholeUnit(rg, L, row)
      /\ ReadFirst(L)

LEMMA StartInv ==
  ASSUME NEW rg, Group(rg), NEW c \in CommandInfo
  PROVE  TurnInv(rg, c, Start(c))
<1>1. /\ Start(c).ofs_in_rg = c.lba /\ Start(c).ttl_length = c.sector_num
      /\ Start(c).parity_update = FALSE /\ Start(c).cmd_list = <<>>
  BY DEF Start
<1>2. c.lba \in Nat /\ c.sector_num \in Nat
  BY DEF CommandInfo
<1>3. Len(<<>>) = 0 /\ <<>> \in Seq(DriveCommandInfo) /\ \A i \in 1..0 : FALSE
  OBVIOUS
<1>4. \A x \in c.lba..(c.lba - 1) : FALSE
  BY <1>2
<1>5. /\ Placed(rg, <<>>, c.lba) /\ ReadFirst(<<>>)
      /\ ParityKept(rg, <<>>, Row(rg, c.lba), FALSE)
  BY <1>3 DEF Placed, ParityKept, ReadFirst
<1>6. DataMoved(rg, c, <<>>, c.lba)
  BY <1>3, <1>4 DEF DataMoved
<1>7. \A i \in 1..Len(<<>>) : ~IsWrite(<<>>[i])
  BY <1>3
<1>. DEFINE t == Start(c)
<1>. HIDE DEF t
<1>8. ParityKept(rg, t.cmd_list, Row(rg, t.ofs_in_rg), t.parity_update)
  BY <1>1, <1>5, Zenon DEF t
<1>9. /\ Placed(rg, t.cmd_list, t.ofs_in_rg) /\ ReadFirst(t.cmd_list)
      /\ DataMoved(rg, c, t.cmd_list, t.ofs_in_rg)
      /\ \A i \in 1..Len(t.cmd_list) : ~IsWrite(t.cmd_list[i])
  BY <1>1, <1>5, <1>6, <1>7, Zenon DEF t
<1>10. /\ t.ofs_in_rg \in Nat /\ t.ttl_length \in Nat /\ t.cmd_list \in Seq(DriveCommandInfo)
       /\ t.ofs_in_rg >= c.lba /\ t.ofs_in_rg + t.ttl_length = c.lba + c.sector_num
  BY <1>1, <1>2, <1>3 DEF t
<1>11. t.parity_update \in BOOLEAN /\ ~t.parity_update
  BY <1>1 DEF t
<1>12. TurnInv(rg, c, t)
  BY <1>8, <1>9, <1>10, <1>11 DEF TurnInv
<1>. QED BY <1>12 DEF t

\* The places of a list to which something was appended.
Joins(L, A, J) ==
  /\ J \in Seq(DriveCommandInfo) /\ Len(L) \in Nat /\ Len(A) \in Nat
  /\ \A i \in 1..Len(L) : i \in 1..Len(J) /\ J[i] = L[i]
  /\ \A k \in 1..Len(A) : Len(L) + k \in 1..Len(J) /\ J[Len(L) + k] = A[k]
  /\ \A i \in 1..Len(J) : i \in 1..Len(L) \/ \E k \in 1..Len(A) : i = Len(L) + k

LEMMA Joined ==
  ASSUME NEW L \in Seq(DriveCommandInfo), NEW A \in Seq(DriveCommandInfo)
  PROVE  Joins(L, A, L \o A)
<1>. DEFINE D == DriveCommandInfo
<1>1. Len(L) \in Nat /\ Len(A) \in Nat
  OBVIOUS
<1>2. /\ L \o A \in Seq(D) /\ Len(L \o A) = Len(L) + Len(A)
      /\ \A i \in 1..(Len(L) + Len(A)) :
           (L \o A)[i] = IF i <= Len(L) THEN L[i] ELSE A[i - Len(L)]
  BY ConcatProperties
<1>3. \A i \in 1..(Len(L) + Len(A)) :
        i \in 1..Len(L) \/ (i - Len(L) \in 1..Len(A) /\ i = Len(L) + (i - Len(L)))
  BY <1>1
<1>4. \A k \in 1..Len(A) :
        /\ Len(L) + k \in 1..(Len(L) + Len(A)) /\ ~(Len(L) + k <= Len(L))
        /\ (Len(L) + k) - Len(L) = k
  BY <1>1
<1>5. \A i \in 1..Len(L) : i \in 1..(Len(L) + Len(A)) /\ i <= Len(L)
  BY <1>1
<1>. QED BY <1>1, <1>2, <1>3, <1>4, <1>5 DEF Joins

LEMMA Within ==
  ASSUME NEW b \in Nat, NEW s \in Nat, NEW l \in Nat, NEW m \in Nat,
         l >= b, l + m <= b + s, NEW z \in l..(l + m - 1)
  PROVE  z \in b..(b + s - 1)
OBVIOUS

\* A turn keeps the data part: what it adds is the homes of the next sectors.
LEMMA DataMovedStep ==
  ASSUME NEW rg, Group(rg), NEW c \in CommandInfo, NEW o \in Nat, o >= c.lba, NEW num \in Nat,
         NEW L \in Seq(DriveCommandInfo), NEW A \in Seq(DriveCommandInfo), NEW seg,
         Len(A) >= 1, A[Len(A)] = seg, seg.sector_num = num, num >= 1,
         seg.lba \in Nat, seg.tgt_drive \in Nat,
         \A k \in 1..Len(A) : IsData(rg, c.opcode, A[k]) <=> k = Len(A),
         \A k \in 0..(num - 1) : Home(rg, o + k) = <<seg.tgt_drive, seg.lba + k>>,
         DataMoved(rg, c, L, o)
  PROVE  DataMoved(rg, c, L \o A, o + num)
<1>. DEFINE J == L \o A
            n == Len(L)
            a == Len(A)
            D(d) == IsData(rg, c.opcode, d)
<1>1. c.lba \in Nat
  BY DEF CommandInfo
<1>2. /\ J \in Seq(DriveCommandInfo) /\ n \in Nat /\ a \in Nat
      /\ \A i \in 1..n : i \in 1..Len(J) /\ J[i] = L[i]
      /\ \A k \in 1..a : n + k \in 1..Len(J) /\ J[n + k] = A[k]
      /\ \A i \in 1..Len(J) : i \in 1..n \/ \E k \in 1..a : i = n + k
  <2>1. Joins(L, A, J)
    BY Joined
  <2>. HIDE DEF J
  <2>. QED BY <2>1, Zenon DEF Joins
<1>3. /\ \A x \in c.lba..(o - 1) :
           \E i \in 1..n : D(L[i]) /\ Touches(L[i], Home(rg, x)[1], Home(rg, x)[2])
      /\ \A i \in 1..n : D(L[i]) =>
           \A z \in Sectors(L[i]) : \E x \in c.lba..(o - 1) : Home(rg, x) = <<L[i].tgt_drive, z>>
      /\ \A i, j \in 1..n :
           (/\ D(L[i]) /\ D(L[j]) /\ L[i].tgt_drive = L[j].tgt_drive
            /\ Sectors(L[i]) \cap Sectors(L[j]) # {}) => i = j
  BY DEF DataMoved
<1>. HIDE DEF J, n, a, D
<1>4. a \in 1..a /\ A[a] = seg /\ D(seg) /\ \A k \in 1..a : D(A[k]) <=> k = a
  <2>1. a >= 1 /\ A[a] = seg
    BY DEF a
  <2>2. a \in 1..a
    BY <1>2, <2>1
  <2>3. \A k \in 1..a : D(A[k]) <=> k = a
    BY Zenon DEF a, D
  <2>. QED BY <2>1, <2>2, <2>3
\* The data commands of the longer list.
<1>5. \A i \in 1..Len(J) : D(J[i]) => (i \in 1..n /\ J[i] = L[i]) \/ (i = n + a /\ J[i] = seg)
  BY <1>2, <1>4
<1>6. n + a \in 1..Len(J) /\ J[n + a] = seg
  BY <1>2, <1>4
<1>7. Sectors(seg) = seg.lba..(seg.lba + num - 1)
  BY DEF Sectors
<1>8. ASSUME NEW x \in c.lba..(o + num - 1)
      PROVE  \E i \in 1..Len(J) : D(J[i]) /\ Touches(J[i], Home(rg, x)[1], Home(rg, x)[2])
  <2>1. CASE x < o
    <3>1. x \in c.lba..(o - 1)
      BY <1>1, <1>8, <2>1
    <3>. QED BY <1>2, <1>3, <3>1
  <2>2. CASE x >= o
    <3>1. PICK k \in 0..(num - 1) : x = o + k
      <4>1. x - o \in 0..(num - 1) /\ x = o + (x - o)
        BY <1>1, <1>8, <2>2
      <4>. QED BY <4>1
    <3>2. Home(rg, x)[1] = seg.tgt_drive /\ Home(rg, x)[2] = seg.lba + k
      BY <3>1
    <3>3. seg.lba + k \in seg.lba..(seg.lba + num - 1)
      BY <3>1
    <3>. QED BY <1>4, <1>6, <1>7, <3>2, <3>3 DEF Touches
  <2>. QED BY <1>1, <1>8, <2>1, <2>2
<1>9. ASSUME NEW z \in Sectors(seg)
      PROVE  \E x \in o..(o + num - 1) : Home(rg, x) = <<seg.tgt_drive, z>>
  <2>1. PICK k \in 0..(num - 1) : z = seg.lba + k
    <3>1. z - seg.lba \in 0..(num - 1) /\ z = seg.lba + (z - seg.lba)
      BY <1>7, <1>9
    <3>. QED BY <3>1
  <2>2. o + k \in o..(o + num - 1)
    BY <2>1
  <2>. QED BY <2>1, <2>2
<1>10. ASSUME NEW i \in 1..Len(J), D(J[i]), NEW z \in Sectors(J[i])
       PROVE  \E x \in c.lba..(o + num - 1) : Home(rg, x) = <<J[i].tgt_drive, z>>
  <2>1. CASE i \in 1..n /\ J[i] = L[i]
    <3>1. PICK x \in c.lba..(o - 1) : Home(rg, x) = <<L[i].tgt_drive, z>>
      BY <1>3, <1>10, <2>1
    <3>2. x \in c.lba..(o + num - 1)
      BY <1>1
    <3>. QED BY <2>1, <3>1, <3>2
  <2>2. CASE i = n + a /\ J[i] = seg
    <3>1. PICK x \in o..(o + num - 1) : Home(rg, x) = <<seg.tgt_drive, z>>
      BY <1>9, <1>10, <2>2
    <3>2. x \in c.lba..(o + num - 1)
      BY <1>1
    <3>. QED BY <2>2, <3>1, <3>2
  <2>. QED BY <1>5, <1>10, <2>1, <2>2
\* What was transferred before lives elsewhere.
<1>11. ASSUME NEW i \in 1..n, D(L[i]), L[i].tgt_drive = seg.tgt_drive,
              NEW z \in Sectors(L[i]), z \in Sectors(seg)
       PROVE  FALSE
  <2>1. PICK x \in c.lba..(o - 1) : Home(rg, x) = <<seg.tgt_drive, z>>
    BY <1>3, <1>11
  <2>2. PICK y \in o..(o + num - 1) : Home(rg, y) = <<seg.tgt_drive, z>>
    BY <1>9, <1>11
  <2>3. x \in Nat /\ y \in Nat /\ x # y
    BY <1>1
  <2>. QED BY <2>1, <2>2, <2>3, HomeInjective
<1>12. ASSUME NEW i \in 1..Len(J), NEW j \in 1..Len(J), D(J[i]), D(J[j]),
              J[i].tgt_drive = J[j].tgt_drive, Sectors(J[i]) \cap Sectors(J[j]) # {}
       PROVE  i = j
  <2>1. CASE i \in 1..n /\ J[i] = L[i] /\ j \in 1..n /\ J[j] = L[j]
    BY <1>3, <1>12, <2>1
  <2>2. CASE i = n + a /\ j = n + a
    BY <2>2
  <2>3. CASE i \in 1..n /\ J[i] = L[i] /\ J[j] = seg
    BY <1>11, <1>12, <2>3
  <2>4. CASE j \in 1..n /\ J[j] = L[j] /\ J[i] = seg
    BY <1>11, <1>12, <2>4
  <2>. QED BY <1>5, <1>12, <2>1, <2>2, <2>3, <2>4
<1>13. /\ \A x \in c.lba..(o + num - 1) :
            \E i \in 1..Len(J) : D(J[i]) /\ Touches(J[i], Home(rg, x)[1], Home(rg, x)[2])
       /\ \A i \in 1..Len(J) : D(J[i]) =>
            \A z \in Sectors(J[i]) :
              \E x \in c.lba..(o + num - 1) : Home(rg, x) = <<J[i].tgt_drive, z>>
  BY <1>8, <1>10
<1>14. \A i, j \in 1..Len(J) :
         (/\ D(J[i]) /\ D(J[j]) /\ J[i].tgt_drive = J[j].tgt_drive
          /\ Sectors(J[i]) \cap Sectors(J[j]) # {}) => i = j
  BY <1>12
<1>15. DataMoved(rg, c, J, o + num)
  <2>1. DataMoved(rg, c, J, o + num) <=>
          /\ \A x \in c.lba..(o + num - 1) :
               \E i \in 1..Len(J) : D(J[i]) /\ Touches(J[i], Home(rg, x)[1], Home(rg, x)[2])
          /\ \A i \in 1..Len(J) : D(J[i]) =>
               \A z \in Sectors(J[i]) :
                 \E x \in c.lba..(o + num - 1) : Home(rg, x) = <<J[i].tgt_drive, z>>
          /\ \A i, j \in 1..Len(J) :
               (/\ D(J[i]) /\ D(J[j]) /\ J[i].tgt_drive = J[j].tgt_drive
                /\ Sectors(J[i]) \cap Sectors(J[j]) # {}) => i = j
    BY DEF DataMoved, D
  <2>. QED BY <1>13, <1>14, <2>1
<1>. QED BY <1>15 DEF J

\* A turn keeps the parity part.
ParityTurn(rg, row, next, begun, begun2, L, A, seg) ==
  /\ row \in Nat /\ next \in {row, row + 1}
  /\ L \in Seq(DriveCommandInfo) /\ A \in Seq(DriveCommandInfo)
  /\ Len(A) >= 1 /\ A[Len(A)] = seg
  /\ \A k \in 1..Len(A) : InRow(rg, A[k], row)
  /\ \A k \in 1..Len(A) : IsWrite(A[k]) /\ ~ToParity(rg, A[k]) => k = Len(A)
  /\ \A j, k \in 1..Len(A) : StoresParity(rg, A[j]) =>
       ~begun /\ (StoresParity(rg, A[k]) => j = k)
  /\ IsWrite(seg) => \/ begun /\ WholeUnit(rg, L, row)
                     \/ ~begun /\ \E k \in 1..Len(A) :
                          StoresParity(rg, A[k]) /\ Sectors(seg) \subseteq Sectors(A[k])
  /\ next = row => begun2 \/ ~IsWrite(seg)
  /\ \A k \in 1..Len(A) : StoresParity(rg, A[k]) => IsWrite(seg)
  /\ begun => IsWrite(seg)

LEMMA ParityKeptStep ==
  ASSUME NEW rg, Group(rg), NEW row, NEW next, NEW begun \in BOOLEAN, NEW begun2 \in BOOLEAN,
         NEW L, NEW A, NEW seg, ParityTurn(rg, row, next, begun, begun2, L, A, seg),
         ParityKept(rg, L, row, begun)
  PROVE  ParityKept(rg, L \o A, next, begun2)
<1>. SUFFICES ASSUME row \in Nat, next \in {row, row + 1},
                L \in Seq(DriveCommandInfo), A \in Seq(DriveCommandInfo),
                Len(A) >= 1, A[Len(A)] = seg,
                \A k \in 1..Len(A) : InRow(rg, A[k], row),
                \A k \in 1..Len(A) : IsWrite(A[k]) /\ ~ToParity(rg, A[k]) => k = Len(A),
                \A j, k \in 1..Len(A) : StoresParity(rg, A[j]) =>
                  ~begun /\ (StoresParity(rg, A[k]) => j = k),
                IsWrite(seg) => \/ begun /\ WholeUnit(rg, L, row)
                                \/ ~begun /\ \E k \in 1..Len(A) :
                                     /\ StoresParity(rg, A[k])
                                     /\ Sectors(seg) \subseteq Sectors(A[k]),
                next = row => begun2 \/ ~IsWrite(seg),
                \A k \in 1..Len(A) : StoresParity(rg, A[k]) => IsWrite(seg),
                begun => IsWrite(seg)
         PROVE  ParityKept(rg, L \o A, next, begun2)
  BY Zenon DEF ParityTurn
<1>. DEFINE J == L \o A
            n == Len(L)
            a == Len(A)
            P(d) == StoresParity(rg, d)
            R(d) == d.lba \div StripeSize
            W(d) == IsWrite(d) /\ ~ToParity(rg, d)
<1>1. /\ J \in Seq(DriveCommandInfo) /\ n \in Nat /\ a \in Nat
      /\ \A i \in 1..n : i \in 1..Len(J) /\ J[i] = L[i]
      /\ \A k \in 1..a : n + k \in 1..Len(J) /\ J[n + k] = A[k]
      /\ \A i \in 1..Len(J) : i \in 1..n \/ \E k \in 1..a : i = n + k
  <2>1. Joins(L, A, J)
    BY Joined
  <2>. HIDE DEF J
  <2>. QED BY <2>1, Zenon DEF Joins
<1>2. /\ \A i \in 1..n : P(L[i]) => R(L[i]) < row \/ (R(L[i]) = row /\ begun)
      /\ \A i, j \in 1..n : P(L[i]) /\ P(L[j]) /\ R(L[i]) = R(L[j]) => i = j
      /\ \A i \in 1..n : W(L[i]) =>
           \A z \in Sectors(L[i]) : \E j \in 1..n : P(L[j]) /\ z \in Sectors(L[j])
  BY DEF ParityKept
<1>3. \A k \in 1..a : R(A[k]) = row /\ \A z \in Sectors(A[k]) : z \div StripeSize = row /\ z \in Nat
  BY InRowSectors
<1>4. \A i \in 1..n : P(L[i]) => R(L[i]) \in Int
  <2>1. \A i \in 1..n : L[i] \in DriveCommandInfo
    BY ElementOfSeq
  <2>2. StripeSize \in Nat \ {0}
    BY RaidAssumption
  <2>3. \A l \in Nat : l \div StripeSize \in Int
    BY <2>2
  <2>. QED BY <2>1, <2>3 DEF DriveCommandInfo
<1>5. /\ \A k \in 1..a : W(A[k]) => k = a
      /\ \A j, k \in 1..a : P(A[j]) => ~begun /\ (P(A[k]) => j = k)
      /\ a \in 1..a /\ A[a] = seg
  BY <1>1
<1>. HIDE DEF J, n, a, P, R, W
<1>6. \A i \in 1..Len(J) : (i \in 1..n /\ J[i] = L[i]) \/ \E k \in 1..a : i = n + k /\ J[i] = A[k]
  BY <1>1
<1>7. ASSUME NEW i \in 1..Len(J), P(J[i])
      PROVE  R(J[i]) < next \/ (R(J[i]) = next /\ begun2)
  <2>1. CASE i \in 1..n /\ J[i] = L[i]
    <3>1. R(L[i]) \in Int /\ (R(L[i]) < row \/ (R(L[i]) = row /\ begun))
      BY <1>2, <1>4, <1>7, <2>1
    <3>. QED BY <2>1, <3>1
  <2>2. ASSUME NEW k \in 1..a, i = n + k, J[i] = A[k]
        PROVE  R(J[i]) < next \/ (R(J[i]) = next /\ begun2)
    <3>1. IsWrite(seg) /\ R(A[k]) = row
      BY <1>3, <1>7, <2>2 DEF P, a
    <3>. QED BY <2>2, <3>1
  <2>. QED BY <1>6, <2>1, <2>2
<1>8. ASSUME NEW i \in 1..Len(J), NEW j \in 1..Len(J), P(J[i]), P(J[j]), R(J[i]) = R(J[j])
      PROVE  i = j
  <2>1. ASSUME NEW m \in 1..n, P(L[m]), NEW k \in 1..a, P(A[k]) PROVE R(L[m]) # R(A[k])
    BY <1>2, <1>3, <1>4, <1>5, <2>1
  <2>. QED BY <1>2, <1>5, <1>6, <1>8, <2>1
<1>9. ASSUME NEW i \in 1..Len(J), W(J[i]), NEW z \in Sectors(J[i])
      PROVE  \E j \in 1..Len(J) : P(J[j]) /\ z \in Sectors(J[j])
  <2>1. CASE i \in 1..n /\ J[i] = L[i]
    BY <1>1, <1>2, <1>9, <2>1
  <2>2. CASE J[i] = seg
    <3>1. IsWrite(seg)
      BY <1>9, <2>2 DEF W
    <3>2. CASE begun /\ WholeUnit(rg, L, row)
      <4>1. PICK j \in 1..n : P(L[j]) /\ L[j].lba = StripeSize * row /\ L[j].sector_num = StripeSize
        BY <3>2 DEF WholeUnit, n, P
      <4>2. InRow(rg, seg, row)
        BY <1>5 DEF a
      <4>3. z \in StripeSize * row..(StripeSize * row + StripeSize - 1)
        <5>1. PICK b \in Nat : b = StripeSize * row
          BY RaidAssumption, Multiples
        <5>2. z \in seg.lba..(seg.lba + seg.sector_num - 1)
          BY <1>9, <2>2 DEF Sectors
        <5>3. /\ seg.lba \in Nat /\ seg.sector_num \in Nat /\ StripeSize \in Nat
              /\ seg.lba >= b /\ seg.lba + seg.sector_num <= b + StripeSize
          BY <4>2, <5>1, RaidAssumption DEF InRow, DriveCommandInfo
        <5>4. z \in b..(b + StripeSize - 1)
          BY <5>2, <5>3, Within
        <5>. QED BY <5>1, <5>4
      <4>4. z \in Sectors(L[j])
        BY <4>1, <4>3 DEF Sectors
      <4>. QED BY <1>1, <4>1, <4>4
    <3>3. CASE \E k \in 1..a : P(A[k]) /\ Sectors(seg) \subseteq Sectors(A[k])
      BY <1>1, <1>9, <2>2, <3>3
    <3>. QED BY <3>1, <3>2, <3>3 DEF P, a
  <2>. QED BY <1>5, <1>6, <1>9, <2>1, <2>2
<1>. QED BY <1>7, <1>8, <1>9 DEF ParityKept, J, P, R, W

LEMMA TurnStep ==
  ASSUME NEW rg, Group(rg), NEW c \in CommandInfo, NEW s, TurnInv(rg, c, s), s.ttl_length > 0
  PROVE  LET t == Segment(rg, c.opcode, s)
         IN  TurnInv(rg, c, t) /\ t.ttl_length < s.ttl_length
<1>. DEFINE op == c.opcode
            o == s.ofs_in_rg
            ttl == s.ttl_length
            begun == s.parity_update
            L == s.cmd_list
            row == Row(rg, o)
            w == rg.stripe_width
            seg == SegOf(rg, op, o, ttl)
            num == SegNum(o, ttl)
            A == Added(rg, op, s)
            J == L \o A
            t == Segment(rg, op, s)
            ends == (o % w) + num = w
<1>1. /\ o \in Nat /\ ttl \in Nat \ {0} /\ begun \in BOOLEAN /\ L \in Seq(DriveCommandInfo)
      /\ o >= c.lba /\ o + ttl = c.lba + c.sector_num
      /\ Placed(rg, L, o) /\ DataMoved(rg, c, L, o)
      /\ op = "IO_READ" => \A i \in 1..Len(L) : ~IsWrite(L[i])
      /\ ParityKept(rg, L, row, begun) /\ (begun => op = "IO_WRITE")
      /\ begun => WholeUnit(rg, L, row)
      /\ ReadFirst(L)
  BY DEF TurnInv
<1>2. op \in Opcode /\ c.lba \in Nat /\ c.sector_num \in Nat
  BY DEF CommandInfo
<1>3. /\ t.ofs_in_rg = o + num /\ t.ttl_length = ttl - num
      /\ t.parity_update = ((begun \/ op = "IO_WRITE") /\ ~ends)
      /\ t.cmd_list = J
  BY <1>1, <1>2, SegmentIs
<1>4. /\ row \in Nat /\ num \in Nat /\ num >= 1 /\ num <= ttl
      /\ InRow(rg, seg, row) /\ seg.sector_num = num /\ seg.opcode = op
      /\ \A k \in 0..(num - 1) : Home(rg, o + k) = <<seg.tgt_drive, seg.lba + k>>
      /\ Row(rg, o + num) = IF ends THEN row + 1 ELSE row
  <2>1. seg.sector_num = num /\ seg.opcode = op
    BY DEF SegOf
  <2>2. SegAt(rg, o, ttl, seg)
    BY <1>1, <1>2, SegPlace
  <2>. HIDE DEF seg, o, ttl, op, num
  <2>. QED BY <2>1, <2>2 DEF SegAt
<1>5. /\ A \in Seq(DriveCommandInfo) /\ Len(A) >= 1
      /\ \A k \in 1..Len(A) : InRow(rg, A[k], row)
      /\ A[Len(A)] = seg
      /\ \A k \in 1..Len(A) : IsData(rg, op, A[k]) <=> k = Len(A)
      /\ op = "IO_READ" => \A k \in 1..Len(A) : ~IsWrite(A[k])
      /\ \A j, k \in 1..Len(A) : StoresParity(rg, A[j]) =>
           ~begun /\ (StoresParity(rg, A[k]) => j = k)
      /\ op = "IO_WRITE" /\ ~begun =>
           \E k \in 1..Len(A) :
             /\ StoresParity(rg, A[k]) /\ Sectors(seg) \subseteq Sectors(A[k])
             /\ num # ttl => A[k].lba = StripeSize * row /\ A[k].sector_num = StripeSize
      /\ \A k \in 1..Len(A) : IsWrite(A[k]) => \E j \in 1..(k - 1) : A[j] = AsRead(A[k])
  <2>1. Shape(rg, op, begun, ttl, row, seg, A)
    BY <1>1, <1>2, AddedShape
  <2>. HIDE DEF A, seg, row, ttl, begun, op, num
  <2>. QED BY <1>4, <2>1, Zenon DEF Shape
<1>6. o = w * row + (o % w) /\ o % w \in Nat /\ w * row \in Nat
  <2>1. /\ o % w = StripeSize * ((o % w) \div StripeSize) + (o % StripeSize)
        /\ o = w * row + (StripeSize * ((o % w) \div StripeSize) + (o % StripeSize))
        /\ w \in Nat \ {0}
    BY <1>1, HomeIs
  <2>2. o % w \in Nat
    <3>1. \A a \in Nat \ {0} : o % a \in Nat
      BY <1>1
    <3>. QED BY <2>1, <3>1
  <2>. QED BY <1>4, <2>1, <2>2, Multiples
<1>. HIDE DEF op, o, ttl, begun, L, row, w, seg, num, A, J, t, ends
<1>7. op = "IO_READ" \/ op = "IO_WRITE"
  BY <1>2 DEF Opcode
<1>8. IsWrite(seg) <=> op = "IO_WRITE"
  BY <1>4 DEF IsWrite
<1>9. Joins(L, A, J)
  BY <1>1, <1>5, Joined DEF J
<1>10. Placed(rg, J, o + num)
  <2>1. ASSUME NEW i \in 1..Len(J)
        PROVE  \E r \in Nat : w * r < o + num /\ InRow(rg, J[i], r)
    <3>1. CASE i \in 1..Len(L)
      <4>1. PICK r \in Nat : w * r < o /\ InRow(rg, L[i], r)
        BY <1>1, <3>1 DEF Placed, w
      <4>2. PICK b \in Int : b = w * r
        <5>1. w \in Nat
          BY HomeIs, <1>1 DEF w
        <5>. QED BY <5>1
      <4>3. b < o + num
        BY <1>1, <1>4, <4>1, <4>2
      <4>. QED BY <1>9, <3>1, <4>1, <4>2, <4>3 DEF Joins
    <3>2. ASSUME NEW k \in 1..Len(A), i = Len(L) + k
          PROVE  \E r \in Nat : w * r < o + num /\ InRow(rg, J[i], r)
      <4>1. PICK b \in Nat : b = w * row
        BY <1>6
      <4>2. b < o + num
        BY <1>1, <1>4, <1>6, <4>1
      <4>. QED BY <1>4, <1>5, <1>9, <3>2, <4>1, <4>2 DEF Joins
    <3>. QED BY <1>9, <3>1, <3>2 DEF Joins
  <2>. QED BY <2>1 DEF Placed, w
<1>11. DataMoved(rg, c, J, o + num)
  <2>1. seg.lba \in Nat /\ seg.tgt_drive \in Nat
    BY <1>4 DEF InRow, DriveCommandInfo
  <2>. QED BY <1>1, <1>4, <1>5, <2>1, DataMovedStep DEF J, op
<1>12. op = "IO_READ" => \A i \in 1..Len(J) : ~IsWrite(J[i])
  <2>1. ASSUME op = "IO_READ", NEW i \in 1..Len(J) PROVE ~IsWrite(J[i])
    <3>1. CASE i \in 1..Len(L)
      BY <1>1, <1>9, <2>1, <3>1 DEF Joins
    <3>2. ASSUME NEW k \in 1..Len(A), i = Len(L) + k PROVE ~IsWrite(J[i])
      BY <1>5, <1>9, <2>1, <3>2 DEF Joins
    <3>. QED BY <1>9, <3>1, <3>2 DEF Joins
  <2>. QED BY <2>1
<1>13. ReadFirst(J)
  <2>1. ASSUME NEW i \in 1..Len(J), IsWrite(J[i])
        PROVE  \E j \in 1..(i - 1) : J[j] = AsRead(J[i])
    <3>1. CASE i \in 1..Len(L)
      <4>1. J[i] = L[i]
        BY <1>9, <3>1 DEF Joins
      <4>2. PICK j \in 1..(i - 1) : L[j] = AsRead(L[i])
        BY <1>1, <2>1, <3>1, <4>1 DEF ReadFirst
      <4>3. j \in 1..Len(L)
        BY <1>9, <3>1 DEF Joins
      <4>4. J[j] = L[j]
        BY <1>9, <4>3 DEF Joins
      <4>. QED BY <4>1, <4>2, <4>4
    <3>2. ASSUME NEW k \in 1..Len(A), i = Len(L) + k
          PROVE  \E j \in 1..(i - 1) : J[j] = AsRead(J[i])
      <4>1. J[i] = A[k]
        BY <1>9, <3>2 DEF Joins
      <4>2. PICK j \in 1..(k - 1) : A[j] = AsRead(A[k])
        BY <1>5, <2>1, <4>1
      <4>3. j \in 1..Len(A) /\ Len(L) + j \in 1..(i - 1)
        BY <1>9, <3>2 DEF Joins
      <4>4. J[Len(L) + j] = A[j]
        BY <1>9, <4>3 DEF Joins
      <4>. QED BY <4>1, <4>2, <4>3, <4>4
    <3>. QED BY <1>9, <2>1, <3>1, <3>2 DEF Joins
  <2>. QED BY <2>1 DEF ReadFirst
<1>14. t.parity_update \in BOOLEAN /\ (t.parity_update <=> op = "IO_WRITE" /\ ~ends)
  BY <1>1, <1>3, Zenon
<1>15. ParityKept(rg, J, Row(rg, o + num), t.parity_update)
  <2>1. Row(rg, o + num) \in {row, row + 1}
    BY <1>4
  <2>2. \A k \in 1..Len(A) : IsWrite(A[k]) /\ ~ToParity(rg, A[k]) => k = Len(A)
    BY <1>5, <1>7 DEF IsData, IsWrite
  <2>3. IsWrite(seg) => \/ begun /\ WholeUnit(rg, L, row)
                        \/ ~begun /\ \E k \in 1..Len(A) :
                             StoresParity(rg, A[k]) /\ Sectors(seg) \subseteq Sectors(A[k])
    BY <1>1, <1>5, <1>8
  <2>4. Row(rg, o + num) = row => t.parity_update \/ ~IsWrite(seg)
    BY <1>4, <1>8, <1>14
  <2>5. \A k \in 1..Len(A) : StoresParity(rg, A[k]) => IsWrite(seg)
    BY <1>5, <1>7, <1>8 DEF StoresParity
  <2>6. begun => IsWrite(seg)
    BY <1>1, <1>8
  <2>7. ParityTurn(rg, row, Row(rg, o + num), begun, t.parity_update, L, A, seg)
    BY <1>1, <1>4, <1>5, <2>1, <2>2, <2>3, <2>4, <2>5, <2>6, Zenon DEF ParityTurn
  <2>. QED BY <1>1, <1>14, <2>7, ParityKeptStep, Zenon DEF J
<1>16. ASSUME t.parity_update, t.ttl_length > 0
       PROVE  WholeUnit(rg, J, Row(rg, o + num))
  <2>1. op = "IO_WRITE" /\ ~ends /\ num # ttl /\ Row(rg, o + num) = row
    BY <1>1, <1>3, <1>4, <1>14, <1>16
  <2>2. CASE begun
    <3>1. WholeUnit(rg, L, row)
      BY <1>1, <2>2
    <3>. QED BY <1>9, <2>1, <3>1 DEF WholeUnit, Joins
  <2>3. CASE ~begun
    <3>1. PICK k \in 1..Len(A) : /\ StoresParity(rg, A[k])
                                 /\ A[k].lba = StripeSize * row /\ A[k].sector_num = StripeSize
      BY <1>5, <2>1, <2>3
    <3>. QED BY <1>9, <2>1, <3>1 DEF WholeUnit, Joins
  <2>. QED BY <1>1, <2>2, <2>3
<1>17. /\ o + num \in Nat /\ t.ttl_length \in Nat /\ t.ttl_length < ttl /\ o + num >= c.lba
       /\ (o + num) + t.ttl_length = c.lba + c.sector_num
  BY <1>1, <1>2, <1>3, <1>4
<1>18. TurnInv(rg, c, t)
  <2>1. t.ofs_in_rg = o + num /\ t.cmd_list = J /\ J \in Seq(DriveCommandInfo)
    BY <1>3, <1>9 DEF Joins
  <2>. QED
    BY <1>10, <1>11, <1>12, <1>13, <1>14, <1>15, <1>16, <1>17, <2>1 DEF TurnInv, op
<1>. QED BY <1>17, <1>18 DEF t, ttl, op

-----------------------------------------------------------------------------
(* Pages: what the loop keeps of the multiples of a page, and the rows it  *)
(* comes through.                                                          *)

Whole(n) == \E k \in Nat : n = SectsPerLp * k

LEMMA WholeIs ==
  ASSUME NEW n \in Nat
  PROVE  Whole(n) <=> n % SectsPerLp = 0
<1>1. SectsPerLp \in Nat \ {0}
  BY ArrayAssumption
<1>2. ASSUME n % SectsPerLp = 0 PROVE Whole(n)
  <2>1. PICK k \in Nat : k = n \div SectsPerLp
    BY <1>1, DivMod
  <2>2. n = SectsPerLp * k + 0
    BY <1>1, <1>2, <2>1, DivMod
  <2>3. SectsPerLp * k \in Nat
    BY <1>1, Multiples
  <2>4. n = SectsPerLp * k
    BY <2>2, <2>3
  <2>. QED BY <2>4 DEF Whole
<1>3. ASSUME Whole(n) PROVE n % SectsPerLp = 0
  <2>1. PICK k \in Nat : n = SectsPerLp * k
    BY <1>3 DEF Whole
  <2>2. n = SectsPerLp * k + 0 /\ 0 \in 0..(SectsPerLp - 1)
    BY <1>1, <2>1
  <2>. QED BY <1>1, <2>2, DivModIs
<1>. QED BY <1>2, <1>3

LEMMA WholeSums ==
  ASSUME NEW a \in Nat, NEW b \in Nat, Whole(a), Whole(b)
  PROVE  Whole(a + b) /\ (b <= a => Whole(a - b))
<1>. DEFINE s == SectsPerLp
<1>1. s \in Nat \ {0}
  BY ArrayAssumption
<1>2. PICK k \in Nat : a = s * k
  BY DEF Whole
<1>3. PICK j \in Nat : b = s * j
  BY DEF Whole
<1>. HIDE DEF s
<1>4. a + b = s * (k + j)
  BY <1>1, <1>2, <1>3, Multiples
<1>5. ASSUME b <= a PROVE \E i \in Nat : a - b = s * i
  <2>1. ~(k < j)
    <3>1. k < j => s * k + s <= s * j
      BY <1>1, NextMultiple
    <3>. QED BY <1>1, <1>2, <1>3, <1>5, <3>1
  <2>2. PICK i \in Nat : k = j + i
    <3>1. k - j \in Nat /\ k = j + (k - j)
      BY <2>1
    <3>. QED BY <3>1
  <2>3. s * j + s * i = s * k /\ s * i \in Nat
    BY <1>1, <2>2, Multiples
  <2>4. PICK e \in Nat : e = s * i
    BY <2>3
  <2>5. a = b + e
    BY <1>2, <1>3, <2>3, <2>4
  <2>. QED BY <2>4, <2>5
<1>. QED BY <1>4, <1>5 DEF Whole, s

LEMMA WholeProduct ==
  ASSUME NEW a \in Nat, NEW r \in Nat, Whole(a)
  PROVE  Whole(a * r) /\ a * r \in Nat
<1>1. PICK k \in Nat : a = SectsPerLp * k
  BY DEF Whole
<1>2. SectsPerLp \in Nat
  BY ArrayAssumption
<1>3. a * r = SectsPerLp * (k * r) /\ k * r \in Nat /\ a * r \in Nat
  BY <1>1, <1>2, Multiples
<1>. QED BY <1>3 DEF Whole

\* The command begins and ends with a page, and so does every stripe unit.
PagesWhole(c) == Whole(StripeSize) /\ Whole(c.lba) /\ Whole(c.sector_num)
\* So do then all drive commands,
WholePages(L) == \A i \in 1..Len(L) : Whole(L[i].lba) /\ Whole(L[i].sector_num)
\* and each, parity or data, is in a row the command has sectors in.
InRows(rg, c, L, o) ==
  \A i \in 1..Len(L) : \E x \in c.lba..(o - 1) : Row(rg, x) = L[i].lba \div StripeSize
PagesInv(rg, c, s) ==
  /\ InRows(rg, c, s.cmd_list, s.ofs_in_rg)
  /\ PagesWhole(c) => Whole(s.ofs_in_rg) /\ Whole(s.ttl_length) /\ WholePages(s.cmd_list)

LEMMA StartPages ==
  ASSUME NEW rg, NEW c \in CommandInfo
  PROVE  PagesInv(rg, c, Start(c))
<1>1. /\ Start(c).ofs_in_rg = c.lba /\ Start(c).ttl_length = c.sector_num
      /\ Start(c).cmd_list = <<>>
  BY DEF Start
<1>2. Len(<<>>) = 0 /\ \A i \in 1..0 : FALSE
  OBVIOUS
<1>. QED BY <1>1, <1>2, Zenon DEF PagesInv, InRows, WholePages, PagesWhole

\* What a turn adds is cut at stripe units and at the ends of the command.
LEMMA AddedWhole ==
  ASSUME NEW rg, Group(rg), NEW op \in Opcode, NEW s,
         s.ofs_in_rg \in Nat, s.ttl_length \in Nat \ {0}, s.parity_update \in BOOLEAN,
         Whole(StripeSize), Whole(s.ofs_in_rg), Whole(s.ttl_length)
  PROVE  LET num == SegNum(s.ofs_in_rg, s.ttl_length)
         IN  Whole(num) /\ WholePages(Added(rg, op, s))
<1>. DEFINE z == StripeSize
            o == s.ofs_in_rg
            ttl == s.ttl_length
            row == Row(rg, o)
            d == o % z
            num == SegNum(o, ttl)
            seg == SegOf(rg, op, o, ttl)
            whole == s.multi_drive \/ d + ttl > z
            Good(a) == Whole(a.lba) /\ Whole(a.sector_num)
<1>1. z \in Nat \ {0}
  BY RaidAssumption
<1>2. row \in Nat
  BY HomeIs
<1>. HIDE DEF z, row
<1>3. d \in 0..(z - 1) /\ Whole(d)
  <2>1. PICK q \in Nat : q = o \div z
    BY <1>1, DivMod
  <2>2. o = z * q + d /\ d \in 0..(z - 1)
    BY <1>1, <2>1, DivMod
  <2>3. Whole(z * q) /\ z * q \in Nat
    BY <1>1, WholeProduct DEF z
  <2>4. PICK b \in Nat : b = z * q /\ Whole(b)
    BY <2>3
  <2>. HIDE DEF d, o
  <2>5. b <= o /\ o - b = d /\ o \in Nat
    BY <2>2, <2>4 DEF o
  <2>6. Whole(o - b)
    BY <2>4, <2>5, WholeSums DEF o
  <2>. QED BY <2>2, <2>5, <2>6
<1>. HIDE DEF d
<1>4. Whole(num)
  <2>1. num = IF d + ttl <= z THEN ttl ELSE z - d
    BY DEF SegNum, d, z
  <2>2. Whole(z - d)
    BY <1>1, <1>3, WholeSums DEF z
  <2>. QED BY <2>1, <2>2
<1>5. Whole(z * row) /\ z * row \in Nat /\ row * z = z * row
  BY <1>1, <1>2, WholeProduct DEF z
<1>6. Whole(z * row + d)
  BY <1>1, <1>3, <1>5, WholeSums
<1>7. seg.lba = z * row + d /\ seg.sector_num = num /\ Good(seg)
  BY <1>4, <1>6 DEF SegOf, z, row, d
<1>8. ReadOld(rg, op, s).lba = seg.lba /\ ReadOld(rg, op, s).sector_num = seg.sector_num
  BY DEF ReadOld, AsRead, SegOf
<1>9. ASSUME NEW kind
      PROVE  Good(ParityStep(rg, kind, op, s))
  <2>. DEFINE r == RangeOf(rg, op, s)
  <2>1. r = ParityRange(row, seg, whole)
    BY DEF RangeOf, row, d, z
  <2>. HIDE DEF seg, whole
  <2>2. Whole(r.lba) /\ Whole(r.sector_num)
    BY <1>5, <1>7, <2>1 DEF ParityRange, z
  <2>. QED BY <2>2 DEF ParityStep, ParityCommand
<1>. DEFINE A == Added(rg, op, s)
<1>10. \A i \in 1..Len(A) : Good(A[i])
  <2>. DEFINE rd == ReadOld(rg, op, s)
              pr == ParityStep(rg, "IO_READ", op, s)
              pw == ParityStep(rg, "IO_WRITE", op, s)
  <2>1. Good(seg) /\ Good(rd) /\ Good(pr) /\ Good(pw)
    BY <1>7, <1>8, <1>9
  <2>2. A = IF op = "IO_READ" THEN <<seg>>
            ELSE IF s.parity_update THEN <<rd, seg>> ELSE <<rd, pr, pw, seg>>
    BY DEF Added
  <2>. HIDE DEF A, seg, rd, pr, pw, Good
  <2>3. \A i \in 1..Len(<<seg>>) : Good(<<seg>>[i])
    BY <2>1
  <2>4. \A i \in 1..Len(<<rd, seg>>) : Good(<<rd, seg>>[i])
    <3>1. Len(<<rd, seg>>) = 2 /\ \A i \in 1..2 : i = 1 \/ i = 2
      OBVIOUS
    <3>. QED BY <2>1, <3>1
  <2>5. \A i \in 1..Len(<<rd, pr, pw, seg>>) : Good(<<rd, pr, pw, seg>>[i])
    <3>1. Len(<<rd, pr, pw, seg>>) = 4 /\ \A i \in 1..4 : i = 1 \/ i = 2 \/ i = 3 \/ i = 4
      OBVIOUS
    <3>. QED BY <2>1, <3>1
  <2>. QED BY <2>2, <2>3, <2>4, <2>5
<1>. QED BY <1>4, <1>10 DEF WholePages

LEMMA PagesStep ==
  ASSUME NEW rg, Group(rg), NEW c \in CommandInfo, NEW s, TurnInv(rg, c, s), s.ttl_length > 0,
         PagesInv(rg, c, s)
  PROVE  PagesInv(rg, c, Segment(rg, c.opcode, s))
<1>. DEFINE op == c.opcode
            o == s.ofs_in_rg
            ttl == s.ttl_length
            L == s.cmd_list
            row == Row(rg, o)
            seg == SegOf(rg, op, o, ttl)
            num == SegNum(o, ttl)
            A == Added(rg, op, s)
            J == L \o A
            t == Segment(rg, op, s)
<1>1. /\ o \in Nat /\ ttl \in Nat \ {0} /\ L \in Seq(DriveCommandInfo)
      /\ s.parity_update \in BOOLEAN /\ o >= c.lba /\ op \in Opcode /\ c.lba \in Nat
  BY DEF TurnInv, CommandInfo
<1>2. t.ofs_in_rg = o + num /\ t.ttl_length = ttl - num /\ t.cmd_list = J
  BY <1>1, SegmentIs
<1>3. row \in Nat /\ num \in Nat /\ num >= 1 /\ num <= ttl
  <2>1. SegAt(rg, o, ttl, seg) /\ seg.sector_num = num
    BY <1>1, SegPlace DEF SegOf
  <2>. HIDE DEF seg, num
  <2>. QED BY <2>1 DEF SegAt
<1>4. A \in Seq(DriveCommandInfo) /\ \A k \in 1..Len(A) : InRow(rg, A[k], row)
  <2>1. Shape(rg, op, s.parity_update, ttl, row, seg, A)
    BY <1>1, AddedShape
  <2>. HIDE DEF A, seg, row
  <2>. QED BY <2>1 DEF Shape
<1>5. Whole(StripeSize) /\ Whole(o) /\ Whole(ttl) => Whole(num) /\ WholePages(A)
  BY <1>1, AddedWhole
<1>. HIDE DEF op, o, ttl, L, row, seg, num, A, t
<1>6. Joins(L, A, J)
  BY <1>1, <1>4, Joined
<1>7. ASSUME NEW i \in 1..Len(J)
      PROVE  \E x \in c.lba..((o + num) - 1) : Row(rg, x) = J[i].lba \div StripeSize
  <2>1. CASE i \in 1..Len(L)
    <3>1. PICK x \in c.lba..(o - 1) : Row(rg, x) = L[i].lba \div StripeSize
      BY <2>1 DEF PagesInv, InRows, L, o
    <3>2. x \in c.lba..((o + num) - 1)
      BY <1>1, <1>3
    <3>3. J[i] = L[i]
      BY <1>6, <2>1 DEF Joins
    <3>. QED BY <3>1, <3>2, <3>3
  <2>2. ASSUME NEW k \in 1..Len(A), i = Len(L) + k
        PROVE  \E x \in c.lba..((o + num) - 1) : Row(rg, x) = J[i].lba \div StripeSize
    <3>1. A[k].lba \div StripeSize = row
      BY <1>3, <1>4, InRowSectors
    <3>2. o \in c.lba..((o + num) - 1)
      BY <1>1, <1>3
    <3>3. J[i] = A[k]
      BY <1>6, <2>2 DEF Joins
    <3>. QED BY <3>1, <3>2, <3>3 DEF row
  <2>. QED BY <1>6, <2>1, <2>2 DEF Joins
<1>8. ASSUME PagesWhole(c)
      PROVE  Whole(o + num) /\ Whole(ttl - num) /\ WholePages(J)
  <2>1. Whole(StripeSize) /\ Whole(o) /\ Whole(ttl) /\ WholePages(L)
    BY <1>8 DEF PagesInv, PagesWhole, o, ttl, L
  <2>2. Whole(num) /\ WholePages(A)
    BY <1>5, <2>1
  <2>3. Whole(o + num) /\ Whole(ttl - num)
    BY <1>1, <1>3, <2>1, <2>2, WholeSums
  <2>4. WholePages(J)
    <3>1. ASSUME NEW i \in 1..Len(J) PROVE Whole(J[i].lba) /\ Whole(J[i].sector_num)
      <4>1. CASE i \in 1..Len(L)
        BY <1>6, <2>1, <4>1 DEF Joins, WholePages
      <4>2. ASSUME NEW k \in 1..Len(A), i = Len(L) + k
            PROVE  Whole(J[i].lba) /\ Whole(J[i].sector_num)
        BY <1>6, <2>2, <4>2 DEF Joins, WholePages
      <4>. QED BY <1>6, <4>1, <4>2 DEF Joins
    <3>. QED BY <3>1 DEF WholePages
  <2>. QED BY <2>3, <2>4
<1>9. PagesInv(rg, c, t)
  BY <1>2, <1>7, <1>8 DEF PagesInv, InRows
<1>. QED BY <1>9 DEF t, op

-----------------------------------------------------------------------------
(* What raid_translation returns *)

\* Everything of a command is done when the loop ends.
LEMMA LoopEnds ==
  ASSUME NEW rg, Group(rg), NEW c \in CommandInfo
  PROVE  \E s : /\ TurnInv(rg, c, s) /\ PagesInv(rg, c, s) /\ s.ttl_length = 0
               /\ raid_translation(rg, c) = s.cmd_list
<1>. DEFINE num == c.sector_num
<1>1. num \in Nat
  BY DEF CommandInfo
<1>2. PICK f : /\ f[0] = Start(c)
               /\ \A n \in 1..num : f[n] = Turn(rg, c, f[n - 1])
               /\ raid_translation(rg, c) = f[num].cmd_list
  BY <1>1, TranslationTurns
<1>. HIDE DEF num
<1>. DEFINE Good(n) == TurnInv(rg, c, f[n]) /\ PagesInv(rg, c, f[n]) /\ f[n].ttl_length <= num - n
            Bad == {n \in 0..num : ~Good(n)}
<1>3. Good(0)
  <2>1. f[0].ttl_length = num
    BY <1>2 DEF Start, num
  <2>2. TurnInv(rg, c, f[0]) /\ PagesInv(rg, c, f[0])
    BY <1>2, StartInv, StartPages
  <2>. QED BY <1>1, <2>1, <2>2
<1>4. ASSUME NEW n \in 1..num, Good(n - 1) PROVE Good(n)
  <2>1. PICK s : s = f[n - 1]
    OBVIOUS
  <2>2. /\ TurnInv(rg, c, s) /\ PagesInv(rg, c, s) /\ s.ttl_length <= num - (n - 1)
        /\ f[n] = Turn(rg, c, s)
    BY <1>2, <1>4, <2>1
  <2>3. s.ttl_length \in Nat
    BY <2>2 DEF TurnInv
  <2>4. CASE s.ttl_length = 0
    BY <1>1, <1>4, <2>2, <2>4 DEF Turn
  <2>5. CASE s.ttl_length > 0
    <3>1. f[n] = Segment(rg, c.opcode, s)
      BY <2>2, <2>5 DEF Turn
    <3>2. TurnInv(rg, c, f[n]) /\ f[n].ttl_length < s.ttl_length
      BY <2>2, <2>5, <3>1, TurnStep
    <3>3. f[n].ttl_length \in Nat
      BY <3>2 DEF TurnInv
    <3>4. PagesInv(rg, c, f[n])
      BY <2>2, <2>5, <3>1, PagesStep
    <3>. QED BY <1>1, <1>4, <2>2, <2>3, <3>2, <3>3, <3>4
  <2>. QED BY <2>3, <2>4, <2>5
<1>. HIDE DEF Good
<1>5. Bad = {}
  <2>. SUFFICES ASSUME Bad # {} PROVE FALSE
    OBVIOUS
  <2>1. PICK n \in Bad : \A m \in Bad : n <= m
    <3>1. Bad \subseteq Nat
      BY <1>1
    <3>. HIDE DEF Bad
    <3>. QED BY <3>1, LeastNatural
  <2>2. n \in 1..num /\ n - 1 \in 0..num /\ ~(n <= n - 1)
    BY <1>1, <1>3, <2>1
  <2>. QED BY <1>4, <2>1, <2>2
<1>6. Good(num)
  BY <1>1, <1>5
<1>7. f[num].ttl_length = 0
  <2>1. f[num].ttl_length \in Nat /\ f[num].ttl_length <= num - num
    BY <1>6 DEF Good, TurnInv
  <2>. QED BY <1>1, <2>1
<1>. QED BY <1>2, <1>6, <1>7 DEF Good

\* A list of drive commands that is good for the host command c.
Serves(rg, c, L) ==
  /\ L \in Seq(DriveCommandInfo)
  /\ \A i \in 1..Len(L) : /\ \E row \in Nat : InRow(rg, L[i], row)
                          /\ L[i].tgt_drive < rg.drive_num
                          /\ L[i].sector_num \in 1..StripeSize
                          /\ L[i].lba + L[i].sector_num <= rg.drv_lba
  /\ DataMoved(rg, c, L, c.lba + c.sector_num)
  /\ \E row \in Nat, begun \in BOOLEAN : ParityKept(rg, L, row, begun)
  /\ ReadFirst(L)
  /\ InRows(rg, c, L, c.lba + c.sector_num)
  /\ PagesWhole(c) => WholePages(L)

LEMMA TranslationServes ==
  ASSUME NEW rg, Group(rg), NEW c \in CommandInfo, c.lba + c.sector_num <= rg.max_lba
  PROVE  Serves(rg, c, raid_translation(rg, c))
<1>1. PICK s : /\ TurnInv(rg, c, s) /\ PagesInv(rg, c, s) /\ s.ttl_length = 0
               /\ raid_translation(rg, c) = s.cmd_list
  BY LoopEnds
<1>. DEFINE L == s.cmd_list
            o == s.ofs_in_rg
            w == rg.stripe_width
            z == StripeSize
<1>2. /\ o \in Nat /\ o + s.ttl_length = c.lba + c.sector_num /\ s.parity_update \in BOOLEAN
      /\ L \in Seq(DriveCommandInfo) /\ Placed(rg, L, o) /\ DataMoved(rg, c, L, o)
      /\ ParityKept(rg, L, Row(rg, o), s.parity_update) /\ ReadFirst(L)
  BY <1>1 DEF TurnInv
<1>3. o = c.lba + c.sector_num
  BY <1>1, <1>2 DEF CommandInfo
<1>4. Row(rg, o) \in Nat /\ w \in Nat \ {0}
  BY <1>2, HomeIs
<1>5. PICK rows \in Nat : rg.max_lba = w * rows /\ z * rows <= rg.drv_lba
  BY DEF Group
<1>6. z \in Nat \ {0} /\ rg.drv_lba \in Nat /\ rg.drive_num \in Nat
  BY RaidAssumption DEF Group, RGInfo
<1>. HIDE DEF L, o, w, z
<1>7. ASSUME NEW i \in 1..Len(L)
      PROVE  /\ \E row \in Nat : InRow(rg, L[i], row)
             /\ L[i].tgt_drive < rg.drive_num /\ L[i].sector_num \in 1..StripeSize
             /\ L[i].lba + L[i].sector_num <= rg.drv_lba
  <2>1. PICK row \in Nat : w * row < o /\ InRow(rg, L[i], row)
    BY <1>2 DEF Placed, w
  <2>2. PICK b \in Nat : b = z * row
    BY <1>6, Multiples
  <2>3. /\ L[i].lba \in Nat /\ L[i].sector_num \in Nat /\ L[i].tgt_drive < rg.drive_num
        /\ L[i].sector_num >= 1 /\ L[i].lba >= b /\ L[i].lba + L[i].sector_num <= b + z
    BY <2>1, <2>2 DEF InRow, DriveCommandInfo, z
  <2>4. row < rows
    <3>1. w * row < w * rows
      <4>1. PICK a \in Nat : a = w * row
        BY <1>4, Multiples
      <4>2. PICK e \in Nat : e = w * rows
        BY <1>4, Multiples
      <4>. QED BY <1>2, <1>3, <1>5, <2>1, <4>1, <4>2
    <3>2. ~(rows < row) /\ row # rows
      <4>1. rows < row => w * rows + w <= w * row
        BY <1>4, NextMultiple
      <4>2. PICK a \in Nat : a = w * row
        BY <1>4, Multiples
      <4>3. PICK e \in Nat : e = w * rows
        BY <1>4, Multiples
      <4>. QED BY <1>4, <3>1, <4>1, <4>2, <4>3
    <3>. QED BY <3>2
  <2>5. b + z <= z * rows
    BY <1>6, <2>2, <2>4, NextMultiple
  <2>6. PICK e \in Nat : e = z * rows
    BY <1>6, Multiples
  <2>7. L[i].sector_num <= z /\ L[i].lba + L[i].sector_num <= rg.drv_lba
    BY <1>5, <1>6, <2>3, <2>5, <2>6
  <2>. QED BY <1>6, <2>1, <2>3, <2>7 DEF z
<1>8. \E row \in Nat, begun \in BOOLEAN : ParityKept(rg, L, row, begun)
  BY <1>2, <1>4, Zenon
<1>9. InRows(rg, c, L, c.lba + c.sector_num) /\ (PagesWhole(c) => WholePages(L))
  BY <1>1, <1>3, Zenon DEF PagesInv, L, o
<1>. QED BY <1>1, <1>2, <1>3, <1>7, <1>8, <1>9 DEF Serves, L

\* A list that serves a command transfers each of its sectors once, at its home.
LEMMA ServesOnce ==
  ASSUME NEW rg, Group(rg), NEW c \in CommandInfo, NEW L, Serves(rg, c, L), NEW place
  PROVE  Cardinality({i \in 1..Len(L) : /\ L[i].opcode = c.opcode /\ ~ToParity(rg, L[i])
                                        /\ Touches(L[i], place[1], place[2])})
           = Cardinality({x \in Sectors(c) : Home(rg, x) = <<place[1], place[2]>>})
<1>. DEFINE o == c.lba + c.sector_num
            D(d) == IsData(rg, c.opcode, d)
            T == {i \in 1..Len(L) : /\ L[i].opcode = c.opcode /\ ~ToParity(rg, L[i])
                                    /\ Touches(L[i], place[1], place[2])}
            X == {x \in Sectors(c) : Home(rg, x) = <<place[1], place[2]>>}
<1>1. c.lba \in Nat /\ c.sector_num \in Nat /\ Sectors(c) = c.lba..(o - 1)
  BY DEF CommandInfo, Sectors
<1>2. \A i : i \in T <=> /\ i \in 1..Len(L) /\ D(L[i])
                         /\ L[i].tgt_drive = place[1] /\ place[2] \in Sectors(L[i])
  BY DEF IsData, Touches
<1>3. /\ \A x \in c.lba..(o - 1) :
           \E i \in 1..Len(L) : D(L[i]) /\ Touches(L[i], Home(rg, x)[1], Home(rg, x)[2])
      /\ \A i \in 1..Len(L) : D(L[i]) =>
           \A z \in Sectors(L[i]) : \E x \in c.lba..(o - 1) : Home(rg, x) = <<L[i].tgt_drive, z>>
      /\ \A i, j \in 1..Len(L) :
           (/\ D(L[i]) /\ D(L[j]) /\ L[i].tgt_drive = L[j].tgt_drive
            /\ Sectors(L[i]) \cap Sectors(L[j]) # {}) => i = j
  BY DEF Serves, DataMoved
<1>4. X # {} <=> T # {}
  <2>1. ASSUME NEW x \in X PROVE T # {}
    <3>1. x \in c.lba..(o - 1) /\ Home(rg, x) = <<place[1], place[2]>>
      BY <1>1
    <3>2. PICK i \in 1..Len(L) : D(L[i]) /\ Touches(L[i], Home(rg, x)[1], Home(rg, x)[2])
      BY <1>3, <3>1
    <3>3. Touches(L[i], place[1], place[2])
      BY <3>1, <3>2
    <3>. QED BY <1>2, <3>2, <3>3 DEF Touches
  <2>2. ASSUME NEW i \in T PROVE X # {}
    <3>1. i \in 1..Len(L) /\ D(L[i]) /\ L[i].tgt_drive = place[1] /\ place[2] \in Sectors(L[i])
      BY <1>2
    <3>2. PICK x \in c.lba..(o - 1) : Home(rg, x) = <<L[i].tgt_drive, place[2]>>
      BY <1>3, <3>1
    <3>. QED BY <1>1, <3>1, <3>2
  <2>. QED BY <2>1, <2>2
<1>5. \A x, y \in X : x = y
  <2>. SUFFICES ASSUME NEW x \in X, NEW y \in X PROVE x = y
    OBVIOUS
  <2>1. x \in Nat /\ y \in Nat
    BY <1>1
  <2>. QED BY <2>1, HomeInjective
<1>. HIDE DEF D
<1>6. \A i, j \in T : i = j
  <2>. SUFFICES ASSUME NEW i \in T, NEW j \in T PROVE i = j
    OBVIOUS
  <2>. HIDE DEF T
  <2>1. place[2] \in Sectors(L[i]) \cap Sectors(L[j])
    BY <1>2
  <2>. QED BY <1>2, <1>3, <2>1
<1>. HIDE DEF T, X
<1>7. ASSUME NEW S, \A a, b \in S : a = b
      PROVE  Cardinality(S) = IF S = {} THEN 0 ELSE 1
  <2>1. CASE S = {}
    BY <2>1, FS_EmptySet
  <2>2. CASE S # {}
    <3>1. PICK a : a \in S
      BY <2>2
    <3>2. S = {a}
      BY <1>7, <3>1
    <3>. QED BY <2>2, <3>2, FS_Singleton
  <2>. QED BY <2>1, <2>2
<1>8. Cardinality(T) = Cardinality(X)
  BY <1>4, <1>5, <1>6, <1>7
<1>. QED BY <1>8 DEF T, X

\* It stores parity once over all it stores of the data.
ParityWrites(rg, L, z) ==
  {j \in 1..Len(L) : IsWrite(L[j]) /\ ToParity(rg, L[j]) /\ z \in Sectors(L[j])}

LEMMA ServesParity ==
  ASSUME NEW rg, NEW c, NEW L, Serves(rg, c, L),
         NEW i \in 1..Len(L), IsWrite(L[i]), ~ToParity(rg, L[i]), NEW z \in Sectors(L[i])
  PROVE  Cardinality(ParityWrites(rg, L, z)) = 1
<1>1. PICK row \in Nat, begun \in BOOLEAN : ParityKept(rg, L, row, begun)
  BY DEF Serves
<1>2. PICK j \in 1..Len(L) : StoresParity(rg, L[j]) /\ z \in Sectors(L[j])
  BY <1>1 DEF ParityKept
<1>3. ASSUME NEW k \in 1..Len(L), z \in Sectors(L[k])
      PROVE  L[k].lba \div StripeSize = z \div StripeSize
  <2>1. PICK r \in Nat : InRow(rg, L[k], r)
    BY DEF Serves
  <2>. QED BY <1>3, <2>1, InRowSectors
<1>4. ParityWrites(rg, L, z) = {j}
  BY <1>1, <1>2, <1>3 DEF ParityKept, StoresParity, ParityWrites
<1>. QED BY <1>4, FS_Singleton

-----------------------------------------------------------------------------
(* The controller *)

\* The group is one of drives build_raid accepts, none bigger than the device,
\* and the commands pulled and pending are those that serve the host command.
RaidInv ==
  /\ RaidTypeOK
  /\ rg_list # <<>> => Group(rg_list[1]) /\ rg_list[1].drv_lba <= LpNum * SectsPerLp
  /\ host_cmd = <<>> => pulled = <<>> /\ pending_cmd = <<>>
  /\ host_cmd # <<>> => rg_list # <<>> /\ Serves(rg_list[1], host_cmd[1], Issued)

LEMMA RaidInit == ArrayInit => RaidInv
<1>. SUFFICES ASSUME Init PROVE RaidInv
  BY DEF ArrayInit
<1>1. \A S : <<>> \in Seq(S) /\ Len(<<>>) = 0
  OBVIOUS
<1>. QED BY <1>1 DEF Init, RaidInv, RaidTypeOK

\* A record list of at most one element.
LEMMA OneElement ==
  ASSUME NEW D, NEW s \in Seq(D), Len(s) <= 1, s # <<>>
  PROVE  s[1] \in D /\ s = <<s[1]>> /\ DOMAIN s = {1} /\ ToSet(s) = {s[1]}
<1>1. Len(s) = 1
  <2>1. Len(s) \in Nat /\ (Len(s) = 0 => s = <<>>)
    BY EmptySeq
  <2>2. PICK n \in Nat : n = Len(s)
    BY <2>1
  <2>3. n # 0
    BY <2>1, <2>2, Zenon
  <2>. QED BY <2>2, <2>3
<1>2. s[1] \in D /\ s = <<s[1]>> /\ DOMAIN s = {1}
  BY <1>1
<1>. QED BY <1>2 DEF ToSet

LEMMA BuildGroup ==
  ASSUME NEW drives \in DriveLists, build_raid(drives), RaidInv
  PROVE  \E rg \in RGInfo : rg_list' = <<rg>> /\ Group(rg) /\ rg.drv_lba <= LpNum * SectsPerLp
<1>. DEFINE h == Head(drives)
            n == Len(drives)
            s == StripeSize
            rg == [max_lba |-> (h - (h % s)) * (n - 1), drive_num |-> n,
                   stripe_width |-> s * (n - 1), drv_lba |-> h]
<1>1. drives \in Seq(Nat) /\ n \in Nat /\ n >= 2 /\ s \in Nat \ {0}
  BY RaidAssumption DEF build_raid
<1>2. h = drives[1] /\ 1 \in DOMAIN drives /\ h \in Nat
  BY <1>1
<1>3. h <= LpNum * SectsPerLp
  BY <1>2, ArrayAssumption
<1>4. rg_list = <<>> /\ rg_list' = Append(rg_list, rg)
  BY DEF build_raid
<1>. HIDE DEF h, n, s
<1>5. PICK rows \in Nat : rows = h \div s
  BY <1>1, <1>2, DivMod
<1>6. h - (h % s) = s * rows /\ s * rows <= h /\ s * rows \in Nat
  <2>1. h % s \in 0..(s - 1) /\ h = s * rows + (h % s)
    BY <1>1, <1>2, <1>5, DivMod
  <2>2. PICK a \in Nat : a = s * rows
    BY <1>1, Multiples
  <2>3. PICK b \in Nat : b = h % s
    BY <1>1, <2>1
  <2>4. h = a + b
    BY <2>1, <2>2, <2>3
  <2>5. h - b = a /\ a <= h
    BY <1>2, <2>4
  <2>. QED BY <2>2, <2>3, <2>5
<1>7. PICK m \in Nat \ {0} : m = n - 1
  BY <1>1
<1>8. (s * rows) * m = (s * m) * rows /\ (s * m) * rows \in Nat /\ s * m \in Nat
  BY <1>1, <1>7
<1>9. rg = [max_lba |-> (s * m) * rows, drive_num |-> n, stripe_width |-> s * m, drv_lba |-> h]
  BY <1>6, <1>7, <1>8
<1>10. rg \in RGInfo
  BY <1>1, <1>2, <1>8, <1>9 DEF RGInfo
<1>11. /\ rg.drive_num = n /\ rg.stripe_width = s * (n - 1) /\ rg.drv_lba = h
       /\ rg.max_lba = (s * m) * rows
  BY <1>9, <1>7
<1>. HIDE DEF rg
<1>12. Group(rg)
  BY <1>1, <1>6, <1>7, <1>10, <1>11 DEF Group, s
<1>13. rg_list' = <<rg>>
  BY <1>4
<1>. QED BY <1>3, <1>10, <1>11, <1>12, <1>13

\* Pulling a command moves it from the front of one list to the end of the other.
LEMMA PullKeeps ==
  ASSUME NEW D, NEW a \in Seq(D), NEW b \in Seq(D), b # <<>>
  PROVE  /\ Append(a, Head(b)) \o Tail(b) = a \o b
         /\ Append(a, Head(b)) \in Seq(D) /\ Tail(b) \in Seq(D)
         /\ Head(b) = (a \o b)[Len(a) + 1] /\ Len(a) + 1 \in 1..Len(a \o b)
<1>1. Head(b) \in D /\ Tail(b) \in Seq(D) /\ Len(b) \in Nat /\ Len(b) > 0 /\ Head(b) = b[1]
      /\ Len(Tail(b)) = Len(b) - 1 /\ \A i \in 1..(Len(b) - 1) : Tail(b)[i] = b[i + 1]
  <2>1. Len(b) \in Nat /\ (Len(b) = 0 => b = <<>>)
    BY EmptySeq
  <2>. QED BY <2>1, HeadTailProperties
<1>2. Append(a, Head(b)) \in Seq(D) /\ Len(Append(a, Head(b))) = Len(a) + 1 /\ Len(a) \in Nat
      /\ \A i \in 1..(Len(a) + 1) : Append(a, Head(b))[i] = IF i = Len(a) + 1 THEN Head(b) ELSE a[i]
  BY <1>1, AppendProperties
<1>3. /\ a \o b \in Seq(D) /\ Len(a \o b) = Len(a) + Len(b)
      /\ \A i \in 1..(Len(a) + Len(b)) :
           (a \o b)[i] = IF i <= Len(a) THEN a[i] ELSE b[i - Len(a)]
  BY ConcatProperties
<1>. DEFINE p == Append(a, Head(b))
            t == Tail(b)
<1>. HIDE DEF p, t
<1>4. /\ p \o t \in Seq(D) /\ Len(p \o t) = Len(p) + Len(t)
      /\ \A i \in 1..(Len(p) + Len(t)) :
           (p \o t)[i] = IF i <= Len(p) THEN p[i] ELSE t[i - Len(p)]
  BY <1>1, <1>2, ConcatProperties DEF p, t
<1>5. Len(p) = Len(a) + 1 /\ Len(t) = Len(b) - 1
  BY <1>1, <1>2 DEF p, t
<1>6. ASSUME NEW i \in 1..(Len(a) + Len(b)) PROVE (p \o t)[i] = (a \o b)[i]
  <2>1. CASE i <= Len(a)
    BY <1>1, <1>2, <1>3, <1>4, <1>5, <2>1 DEF p
  <2>2. CASE i = Len(a) + 1
    BY <1>1, <1>2, <1>3, <1>4, <1>5, <2>2 DEF p
  <2>3. CASE i > Len(a) + 1
    <3>1. PICK k \in 1..(Len(b) - 1) : i = Len(a) + 1 + k
      <4>1. PICK la \in Nat : la = Len(a)
        BY <1>2
      <4>2. PICK lb \in Nat : lb = Len(b)
        BY <1>1
      <4>3. i \in 1..(la + lb) /\ i > la + 1
        BY <2>3, <4>1, <4>2
      <4>4. i - (la + 1) \in 1..(lb - 1) /\ i = la + 1 + (i - (la + 1))
        BY <4>3
      <4>. QED BY <4>1, <4>2, <4>4
    <3>2. (p \o t)[i] = t[k] /\ t[k] = b[k + 1]
      BY <1>1, <1>2, <1>4, <1>5, <2>3, <3>1 DEF t
    <3>3. (a \o b)[i] = b[k + 1]
      BY <1>1, <1>2, <1>3, <2>3, <3>1
    <3>. QED BY <3>2, <3>3
  <2>4. i \in Int /\ Len(a) \in Int
    BY <1>1, <1>2
  <2>5. i <= Len(a) \/ i = Len(a) + 1 \/ i > Len(a) + 1
    BY <2>4
  <2>. QED BY <2>1, <2>2, <2>3, <2>5
<1>7. p \o t = a \o b
  <2>1. Len(p \o t) = Len(a \o b)
    BY <1>1, <1>2, <1>3, <1>4, <1>5
  <2>. QED BY <1>3, <1>4, <1>6, <2>1, SeqEqual
<1>8. Head(b) = (a \o b)[Len(a) + 1] /\ Len(a) + 1 \in 1..Len(a \o b)
  BY <1>1, <1>2, <1>3
<1>. QED BY <1>1, <1>2, <1>7, <1>8 DEF p, t

LEMMA RaidUnchanged == RaidInv /\ UNCHANGED vars => RaidInv'
BY DEF RaidInv, RaidTypeOK, vars, Issued

LEMMA RaidBuild ==
  ASSUME RaidInv, NEW drives \in DriveLists, build_raid(drives)
  PROVE  RaidInv'
<1>1. rg_list = <<>> /\ UNCHANGED <<pending_cmd, host_cmd, pulled>>
  BY DEF build_raid
<1>2. PICK rg \in RGInfo : rg_list' = <<rg>> /\ Group(rg) /\ rg.drv_lba <= LpNum * SectsPerLp
  BY BuildGroup
<1>3. rg_list'[1] = rg /\ rg_list' \in Seq(RGInfo) /\ Len(rg_list') <= 1
  BY <1>2
<1>4. host_cmd' = <<>> /\ pulled' = <<>> /\ pending_cmd' = <<>>
  BY <1>1 DEF RaidInv
<1>5. RaidTypeOK'
  BY <1>1, <1>3 DEF RaidInv, RaidTypeOK
<1>. QED BY <1>2, <1>3, <1>4, <1>5 DEF RaidInv

LEMMA RaidReceive ==
  ASSUME RaidInv, rg_list # <<>>, NEW c \in HostCommands, receive_command(c)
  PROVE  RaidInv'
<1>. DEFINE rg == rg_list[1]
            L == raid_translation(rg, c)
<1>1. /\ c.lba + c.sector_num <= rg.max_lba
      /\ pending_cmd' = L /\ host_cmd' = <<c>> /\ pulled' = <<>> /\ UNCHANGED rg_list
  BY DEF receive_command
<1>2. Group(rg) /\ rg \in RGInfo /\ rg.max_lba \in Nat
  BY DEF RaidInv, Group, RGInfo
<1>3. c \in CommandInfo
  <2>1. PICK op \in Opcode, num \in 0..MaxSectors, lba \in 0..rg.max_lba :
          c = [opcode |-> op, lba |-> lba, sector_num |-> num]
    BY DEF HostCommands
  <2>. HIDE DEF rg
  <2>. QED BY <1>2, <2>1, RaidAssumption DEF CommandInfo
<1>4. Serves(rg, c, L)
  BY <1>1, <1>2, <1>3, TranslationServes
<1>. HIDE DEF L
<1>5. L \in Seq(DriveCommandInfo) /\ <<>> \in Seq(DriveCommandInfo)
  BY <1>4 DEF Serves
<1>6. Issued' = L
  <2>1. <<>> \o L = L
    BY <1>5, ConcatEmptySeq
  <2>. QED BY <1>1, <2>1, Zenon DEF Issued
<1>7. host_cmd' # <<>> /\ host_cmd'[1] = c /\ host_cmd' \in Seq(CommandInfo) /\ Len(host_cmd') <= 1
  BY <1>1, <1>3
<1>8. RaidTypeOK'
  BY <1>1, <1>5, <1>7 DEF RaidInv, RaidTypeOK
<1>9. Serves(rg_list', host_cmd'[1], Issued')
        <=> Serves(rg_list', c, L)
  BY <1>6, <1>7, Zenon
<1>10. Serves(rg_list'[1], host_cmd'[1], Issued')
  BY <1>1, <1>4, <1>6, <1>7, Zenon
<1>. QED BY <1>1, <1>7, <1>8, <1>10 DEF RaidInv

LEMMA RaidPull ==
  ASSUME RaidInv, pull_next_command
  PROVE  /\ RaidInv'
         /\ host_cmd # <<>> /\ rg_list # <<>>
         /\ \E i \in 1..Len(Issued) : Head(pending_cmd) = Issued[i]
<1>1. /\ pending_cmd # <<>> /\ pending_cmd' = Tail(pending_cmd)
      /\ pulled' = Append(pulled, Head(pending_cmd)) /\ UNCHANGED <<rg_list, host_cmd>>
  BY DEF pull_next_command
<1>2. pending_cmd \in Seq(DriveCommandInfo) /\ pulled \in Seq(DriveCommandInfo)
  BY DEF RaidInv, RaidTypeOK
<1>3. /\ Append(pulled, Head(pending_cmd)) \o Tail(pending_cmd) = pulled \o pending_cmd
      /\ Append(pulled, Head(pending_cmd)) \in Seq(DriveCommandInfo)
      /\ Tail(pending_cmd) \in Seq(DriveCommandInfo)
      /\ Head(pending_cmd) = (pulled \o pending_cmd)[Len(pulled) + 1]
      /\ Len(pulled) + 1 \in 1..Len(pulled \o pending_cmd)
  BY <1>1, <1>2, PullKeeps
<1>4. Issued' = Issued
  BY <1>1, <1>3 DEF Issued
<1>5. host_cmd # <<>> /\ rg_list # <<>>
  BY <1>1 DEF RaidInv
<1>6. RaidTypeOK'
  BY <1>1, <1>3 DEF RaidInv, RaidTypeOK
<1>7. RaidInv'
  BY <1>1, <1>4, <1>5, <1>6 DEF RaidInv
<1>. QED BY <1>3, <1>5, <1>7 DEF Issued

\* Every step of the program keeps the controller's part.
LEMMA RaidStep == RaidInv /\ [ArrayNext]_arrayVars => RaidInv'
<1>. SUFFICES ASSUME RaidInv, [ArrayNext]_arrayVars PROVE RaidInv'
  OBVIOUS
<1>1. CASE BuildRaid
  BY <1>1, RaidBuild DEF BuildRaid
<1>2. CASE Receive
  BY <1>2, RaidReceive DEF Receive
<1>3. CASE Dispatch
  BY <1>3, RaidPull DEF Dispatch
<1>4. CASE DriveWrites
  BY <1>4, RaidUnchanged DEF DriveWrites
<1>5. CASE DriveStep
  BY <1>5, RaidUnchanged DEF DriveStep
<1>6. CASE UNCHANGED arrayVars
  BY <1>6, RaidUnchanged DEF arrayVars
<1>. QED BY <1>1, <1>2, <1>3, <1>4, <1>5, <1>6 DEF ArrayNext

LEMMA RaidAlways == ArraySpec => []RaidInv
BY RaidInit, RaidStep, PTL DEF ArraySpec

-----------------------------------------------------------------------------
\* The properties of the drive commands follow.
LEMMA InvDataAtHome == RaidInv => DataAtHome
<1>. SUFFICES ASSUME RaidInv PROVE DataAtHome
  OBVIOUS
<1>. DEFINE rg == rg_list[1]
            c == host_cmd[1]
            L == Issued
<1>1. CASE host_cmd = <<>>
  <2>1. Issued = <<>> /\ ToSet(host_cmd) = {} /\ ToSet(Issued) = {}
    <3>1. <<>> \o <<>> = <<>> /\ DOMAIN <<>> = {}
      OBVIOUS
    <3>2. Issued = <<>>
      BY <1>1, <3>1 DEF RaidInv, Issued
    <3>. QED BY <1>1, <3>1, <3>2 DEF ToSet
  <2>. QED BY <2>1 DEF DataAtHome, EverySectorOnce, WithinDrives, RaidInv
<1>2. CASE host_cmd # <<>>
  <2>1. Group(rg) /\ Serves(rg, c, L)
    BY <1>2 DEF RaidInv
  <2>2. c \in CommandInfo /\ ToSet(host_cmd) = {c}
    BY <1>2, OneElement DEF RaidInv, RaidTypeOK
  <2>3. L \in Seq(DriveCommandInfo) /\ DOMAIN L = 1..Len(L)
    BY <2>1 DEF Serves
  <2>. HIDE DEF L, c
  <2>4. ASSUME NEW place \in DriveSectors(rg)
        PROVE  Cardinality({i \in DOMAIN L : /\ L[i].opcode = c.opcode /\ ~IsParity(L[i])
                                             /\ Touches(L[i], place[1], place[2])})
                 = Cardinality({x \in Sectors(c) : Home(rg, x) = place})
    <3>1. place = <<place[1], place[2]>>
      BY <2>4 DEF DriveSectors
    <3>2. \A i \in DOMAIN L : IsParity(L[i]) <=> ToParity(rg, L[i])
      BY DEF IsParity, ToParity
    <3>3. {i \in DOMAIN L : /\ L[i].opcode = c.opcode /\ ~IsParity(L[i])
                            /\ Touches(L[i], place[1], place[2])}
            = {i \in 1..Len(L) : /\ L[i].opcode = c.opcode /\ ~ToParity(rg, L[i])
                                 /\ Touches(L[i], place[1], place[2])}
      BY <2>3, <3>2
    <3>4. {x \in Sectors(c) : Home(rg, x) = place}
            = {x \in Sectors(c) : Home(rg, x) = <<place[1], place[2]>>}
      BY <3>1
    <3>. HIDE DEF rg
    <3>5. Cardinality({i \in 1..Len(L) : /\ L[i].opcode = c.opcode /\ ~ToParity(rg, L[i])
                                        /\ Touches(L[i], place[1], place[2])})
           = Cardinality({x \in Sectors(c) : Home(rg, x) = <<place[1], place[2]>>})
      BY <2>1, <2>2, ServesOnce
    <3>. QED BY <3>3, <3>4, <3>5, Zenon
  <2>5. EverySectorOnce
    BY <2>2, <2>4, Zenon DEF EverySectorOnce, L
  <2>6. ASSUME NEW d \in ToSet(L)
        PROVE  d.tgt_drive < rg.drive_num /\ d.lba + d.sector_num <= rg.drv_lba
    <3>1. PICK i \in 1..Len(L) : d = L[i]
      BY <2>3 DEF ToSet
    <3>. QED BY <2>1, <3>1 DEF Serves
  <2>7. WithinDrives
    BY <2>6 DEF WithinDrives, RaidInv, L
  <2>. QED BY <2>5, <2>7 DEF DataAtHome
<1>. QED BY <1>1, <1>2

LEMMA InvParityFollowsData == RaidInv => ParityFollowsData
<1>. SUFFICES ASSUME RaidInv PROVE ParityFollowsData
  OBVIOUS
<1>. DEFINE rg == rg_list[1]
            c == host_cmd[1]
            L == Issued
<1>1. CASE host_cmd = <<>>
  <2>1. Issued = <<>>
    <3>1. <<>> \o <<>> = <<>>
      OBVIOUS
    <3>. QED BY <1>1, <3>1 DEF RaidInv, Issued
  <2>2. DOMAIN <<>> = {}
    OBVIOUS
  <2>. QED BY <2>1, <2>2 DEF ParityFollowsData, ParityCoversData, ReadBeforeWrite
<1>2. CASE host_cmd # <<>>
  <2>1. Serves(rg, c, L)
    BY <1>2 DEF RaidInv
  <2>2. L \in Seq(DriveCommandInfo) /\ DOMAIN L = 1..Len(L)
    BY <2>1 DEF Serves
  <2>. HIDE DEF L, c
  <2>3. \A i \in 1..Len(L) : IsParity(L[i]) <=> ToParity(rg, L[i])
    BY DEF IsParity, ToParity
  <2>. HIDE DEF rg
  <2>4. ASSUME NEW i \in 1..Len(L), IsWrite(L[i]), ~IsParity(L[i]), NEW z \in Sectors(L[i])
        PROVE  Cardinality({j \in 1..Len(L) :
                 IsWrite(L[j]) /\ IsParity(L[j]) /\ z \in Sectors(L[j])}) = 1
    <3>1. {j \in 1..Len(L) : IsWrite(L[j]) /\ IsParity(L[j]) /\ z \in Sectors(L[j])}
            = ParityWrites(rg, L, z)
      BY <2>3 DEF ParityWrites
    <3>2. Cardinality(ParityWrites(rg, L, z)) = 1
      <4>1. ~ToParity(rg, L[i])
        BY <2>3, <2>4
      <4>. QED BY <2>1, <2>4, <4>1, ServesParity
    <3>. QED BY <3>1, <3>2, Zenon
  <2>5. ParityCoversData
    BY <2>2, <2>4, Zenon DEF ParityCoversData, L
  <2>6. ReadFirst(L)
    BY <2>1 DEF Serves
  <2>7. ReadBeforeWrite
    BY <2>2, <2>6, Zenon DEF ReadBeforeWrite, ReadFirst, AsRead, L
  <2>. QED BY <2>5, <2>7 DEF ParityFollowsData
<1>. QED BY <1>1, <1>2

\* The data commands transfer every sector of the host command exactly once and
\* at its home, on drives that have it: neither a gap nor an overlap where
\* raid_translation cuts a command at stripe units and rows.
THEOREM SectorsAtHome == ArraySpec => []DataAtHome
BY RaidAlways, InvDataAtHome, PTL

\* Whatever is stored on a data drive of a row, the parity of the row is written
\* over the same sectors once, and nothing is written that was not read before.
THEOREM ParityIsKept == ArraySpec => []ParityFollowsData
BY RaidAlways, InvParityFollowsData, PTL

-----------------------------------------------------------------------------
(* A drive at work: module HostIo under the commands of the controller *)

FirstPage(c) == c.lba \div SectsPerLp
EndPage(c) == (c.lba + c.len) \div SectsPerLp
StartsInside(c) == c.lba % SectsPerLp # 0
EndsInside(c) == (c.lba + c.len) % SectsPerLp # 0
Part(c, p) ==
  (p * SectsPerLp)..(p * SectsPerLp + SectsPerLp - 1) \cap c.lba..(c.lba + c.len - 1)

\* Pages and sectors of a command.
LEMMA PagesOfCommand ==
  ASSUME NEW c \in Dev!Commands
  PROVE  /\ FirstPage(c) \in Nat /\ EndPage(c) \in 0..LpNum /\ FirstPage(c) <= EndPage(c)
         /\ \A p \in FirstPage(c)..(EndPage(c) - 1) :
              p \in Nat /\ p < LpNum /\ p * SectsPerLp + SectsPerLp - 1 \in Part(c, p)
         /\ FirstPage(c) # EndPage(c) /\ EndsInside(c) =>
              EndPage(c) < LpNum /\ EndPage(c) * SectsPerLp \in Part(c, EndPage(c))
         /\ \A p \in Nat : p * SectsPerLp + SectsPerLp - 1 \in Part(c, p) =>
              /\ p \in FirstPage(c)..(EndPage(c) - 1)
              /\ Cardinality(Part(c, p)) < SectsPerLp => p = FirstPage(c) /\ StartsInside(c)
<1>. DEFINE s == SectsPerLp
            a == c.lba
            b == c.lba + c.len
            f == FirstPage(c)
            e == EndPage(c)
            ra == a % s
            rb == b % s
<1>1. s \in Nat \ {0} /\ LpNum \in Nat
  BY ArrayAssumption
<1>2. a \in Nat /\ c.len \in Nat /\ b \in Nat /\ a <= b /\ b <= LpNum * s
  <2>1. LpNum * s \in Nat /\ StripeSize \in Nat
    BY <1>1, RaidAssumption
  <2>2. a \in 0..(LpNum * s) /\ c.len \in 0..StripeSize /\ b <= LpNum * s
    BY DEF Dev!Commands, Dev!MaxLba
  <2>. QED BY <2>1, <2>2
<1>. DEFINE z == c.lba + c.len - 1
<1>13. \A p : Part(c, p) = (p * s)..(p * s + s - 1) \cap a..z
  BY Zenon DEF Part
<1>14. z = b - 1
  BY <1>2
<1>. HIDE DEF s, a, b, z
<1>8. \A p : Part(c, p) = (p * s)..(p * s + s - 1) \cap a..(b - 1)
  BY <1>13, <1>14, Zenon
<1>3. f \in Nat /\ ra \in 0..(s - 1) /\ a = s * f + ra
  BY <1>1, <1>2, DivMod DEF FirstPage, a, s
<1>4. e \in Nat /\ rb \in 0..(s - 1) /\ b = s * e + rb
  BY <1>1, <1>2, DivMod DEF EndPage, b, s
<1>. HIDE DEF f, e, ra, rb
\* Multiples of the page, named.
<1>5. ASSUME NEW p \in Nat, NEW q \in Nat
      PROVE  s * p \in Nat /\ (p < q => s * p + s <= s * q) /\ p * s = s * p
  <2>1. s * p \in Nat /\ p * s = s * p
    BY <1>1
  <2>2. p < q => s * p + s <= s * q
    BY <1>1, NextMultiple
  <2>. QED BY <2>1, <2>2
<1>6. f <= e
  <2>1. e < f => s * e + s <= s * f
    BY <1>3, <1>4, <1>5
  <2>2. PICK sf \in Nat : sf = s * f
    BY <1>3, <1>5
  <2>3. PICK se \in Nat : se = s * e
    BY <1>4, <1>5
  <2>. QED BY <1>1, <1>2, <1>3, <1>4, <2>1, <2>2, <2>3
<1>7. e <= LpNum /\ (rb # 0 => e < LpNum)
  <2>1. PICK se \in Nat : se = s * e
    BY <1>4, <1>5
  <2>2. PICK sl \in Nat : sl = s * LpNum /\ sl = LpNum * s
    BY <1>1, <1>5
  <2>3. LpNum < e => sl + s <= se
    BY <1>1, <1>4, <1>5, <2>1, <2>2
  <2>4. LpNum = e => sl = se
    BY <2>1, <2>2
  <2>5. b <= sl /\ b = se + rb
    BY <1>2, <1>4, <2>1, <2>2
  <2>6. ~(LpNum < e) /\ (LpNum = e => rb = 0)
    BY <1>1, <1>4, <2>3, <2>4, <2>5
  <2>. QED BY <1>1, <1>4, <2>6
<1>9. ASSUME NEW p \in f..(e - 1)
      PROVE  p \in Nat /\ p < LpNum /\ p * s + s - 1 \in Part(c, p)
  <2>1. p \in Nat /\ p < e /\ f <= p
    BY <1>3, <1>4, <1>9
  <2>2. PICK sp \in Nat : sp = s * p /\ sp = p * s
    BY <1>5, <2>1
  <2>3. PICK sf \in Nat : sf = s * f
    BY <1>3, <1>5
  <2>4. PICK se \in Nat : se = s * e
    BY <1>4, <1>5
  <2>5. sp + s <= se
    BY <1>4, <1>5, <2>1, <2>2, <2>4
  <2>6. sf <= sp
    <3>1. f < p => sf + s <= sp
      BY <1>3, <1>5, <2>1, <2>2, <2>3
    <3>2. f = p => sf = sp
      BY <2>2, <2>3
    <3>. QED BY <1>1, <1>3, <2>1, <3>1, <3>2
  <2>7. sp + s - 1 >= a /\ sp + s - 1 <= b - 1 /\ sp + s - 1 \in Int
    BY <1>1, <1>2, <1>3, <1>4, <2>3, <2>4, <2>5, <2>6
  <2>8. sp + s - 1 \in sp..(sp + s - 1) \cap a..(b - 1)
    BY <1>1, <1>2, <2>7
  <2>. QED BY <1>1, <1>4, <1>7, <1>8, <2>1, <2>2, <2>8
<1>10. ASSUME f # e, rb # 0 PROVE e < LpNum /\ e * s \in Part(c, e)
  <2>1. PICK se \in Nat : se = s * e /\ se = e * s
    BY <1>4, <1>5
  <2>2. PICK sf \in Nat : sf = s * f
    BY <1>3, <1>5
  <2>3. sf + s <= se
    BY <1>3, <1>4, <1>5, <1>6, <1>10, <2>1, <2>2
  <2>4. se \in se..(se + s - 1) \cap a..(b - 1)
    BY <1>1, <1>2, <1>3, <1>4, <1>10, <2>1, <2>2, <2>3
  <2>. QED BY <1>7, <1>8, <1>10, <2>1, <2>4
<1>11. ASSUME NEW p \in Nat, p * s + s - 1 \in Part(c, p)
       PROVE  p \in f..(e - 1) /\ (Cardinality(Part(c, p)) < s => p = f /\ ra # 0)
  <2>1. PICK sp \in Nat : sp = s * p /\ sp = p * s
    BY <1>5
  <2>2. PICK sf \in Nat : sf = s * f
    BY <1>3, <1>5
  <2>3. PICK se \in Nat : se = s * e
    BY <1>4, <1>5
  <2>4. Part(c, p) = sp..(sp + s - 1) \cap a..(b - 1) /\ sp + s - 1 \in a..(b - 1)
    BY <1>8, <1>11, <2>1
  <2>5. f <= p
    <3>1. p < f => sp + s <= sf
      BY <1>3, <1>5, <2>1, <2>2
    <3>. QED BY <1>1, <1>2, <1>3, <2>2, <2>4, <3>1
  <2>6. p < e
    <3>1. e < p => se + s <= sp
      BY <1>4, <1>5, <2>1, <2>3
    <3>2. e = p => se = sp
      BY <2>1, <2>3
    <3>. QED BY <1>1, <1>2, <1>4, <2>3, <2>4, <3>1, <3>2
  <2>7. ASSUME ~(p = f /\ ra # 0) PROVE ~(Cardinality(Part(c, p)) < s)
    <3>1. sp >= a
      <4>1. f < p => sf + s <= sp
        BY <1>3, <1>5, <2>1, <2>2
      <4>2. f = p => sf = sp /\ ra = 0
        BY <2>1, <2>2, <2>7
      <4>. QED BY <1>1, <1>2, <1>3, <2>2, <2>5, <4>1, <4>2
    <3>2. Part(c, p) = sp..(sp + s - 1)
      BY <1>1, <1>2, <2>4, <3>1
    <3>3. Cardinality(sp..(sp + s - 1)) = s
      <4>1. sp \in Int /\ sp + s - 1 \in Int
        BY <1>1
      <4>2. Cardinality(sp..(sp + s - 1)) = IF sp > sp + s - 1 THEN 0 ELSE (sp + s - 1) - sp + 1
        BY <4>1, FS_Interval
      <4>. QED BY <1>1, <4>2
    <3>. QED BY <1>1, <3>2, <3>3
  <2>. QED BY <1>3, <1>4, <2>5, <2>6, <2>7
<1>. QED BY <1>3, <1>4, <1>6, <1>7, <1>9, <1>10, <1>11 DEF StartsInside, EndsInside, s, a, b, f, e, ra, rb

\* The calls a drive has made, as a sequence.
DevCall == [op : {"lp_read", "lp_write", "do_gc"}, lpn : Nat]
CallsOf(L, name, p) == {i \in DOMAIN L : L[i] = Dev!Call(name, p)}
InPages(c, p) ==
  \/ p \in FirstPage(c)..(EndPage(c) - 1)
  \/ p = EndPage(c) /\ FirstPage(c) # EndPage(c) /\ EndsInside(c)
OldIsRead(L, c, p, i) ==
  p = FirstPage(c) /\ StartsInside(c) => \E j \in CallsOf(L, "lp_read", p) : j < i
\* Page p is written, once, after it was read where it had to be: and do_gc
\* was called right after, or is the call to come.
PageDone(L, c, p) ==
  \E i \in Nat : /\ CallsOf(L, "lp_write", p) = {i} /\ OldIsRead(L, c, p, i)
                 /\ i + 1 \in CallsOf(L, "do_gc", p)
PageWritten(L, c, p) == CallsOf(L, "lp_write", p) = {Len(L)} /\ OldIsRead(L, c, p, Len(L))
WritesBelow(L, n) == \A i \in DOMAIN L : L[i].op = "lp_write" => L[i].lpn < n

\* One more call.
LEMMA OneMoreCall ==
  ASSUME NEW L \in Seq(DevCall), NEW e \in DevCall, NEW c, NEW p
  PROVE  /\ Append(L, e) \in Seq(DevCall) /\ Len(Append(L, e)) = Len(L) + 1
         /\ (\A i \in DOMAIN L : InPages(c, L[i].lpn)) /\ InPages(c, e.lpn) =>
              \A i \in DOMAIN Append(L, e) : InPages(c, Append(L, e)[i].lpn)
         /\ \A n : WritesBelow(L, n) /\ (e.op = "lp_write" => e.lpn < n) => WritesBelow(Append(L, e), n)
         /\ PageDone(L, c, p) /\ e # Dev!Call("lp_write", p) => PageDone(Append(L, e), c, p)
         /\ \A name : e # Dev!Call(name, p) => CallsOf(Append(L, e), name, p) = CallsOf(L, name, p)
         /\ \A name : e = Dev!Call(name, p) =>
              CallsOf(Append(L, e), name, p) = CallsOf(L, name, p) \cup {Len(L) + 1}
         /\ \A name : CallsOf(L, name, p) \subseteq 1..Len(L)
<1>. DEFINE M == Append(L, e)
<1>1. /\ M \in Seq(DevCall) /\ Len(M) = Len(L) + 1 /\ Len(L) \in Nat
      /\ DOMAIN L = 1..Len(L) /\ DOMAIN M = 1..(Len(L) + 1)
      /\ \A i \in 1..Len(L) : M[i] = L[i]
      /\ M[Len(L) + 1] = e
  OBVIOUS
<1>. HIDE DEF M
<1>2. \A i \in DOMAIN M : i \in DOMAIN L \/ i = Len(L) + 1
  BY <1>1
<1>3. (\A i \in DOMAIN L : InPages(c, L[i].lpn)) /\ InPages(c, e.lpn) =>
        \A i \in DOMAIN M : InPages(c, M[i].lpn)
  BY <1>1, <1>2, Zenon
<1>4. \A n : WritesBelow(L, n) /\ (e.op = "lp_write" => e.lpn < n) => WritesBelow(M, n)
  BY <1>1, <1>2, Zenon DEF WritesBelow
<1>5. \A name : e # Dev!Call(name, p) => CallsOf(M, name, p) = CallsOf(L, name, p)
  BY <1>1 DEF CallsOf
<1>6. \A name : e = Dev!Call(name, p) => CallsOf(M, name, p) = CallsOf(L, name, p) \cup {Len(L) + 1}
  BY <1>1 DEF CallsOf
<1>7. \A name : CallsOf(L, name, p) \subseteq 1..Len(L)
  BY <1>1 DEF CallsOf
<1>8. \A name : CallsOf(L, name, p) \subseteq CallsOf(M, name, p)
  BY <1>5, <1>6
<1>9. PageDone(L, c, p) /\ e # Dev!Call("lp_write", p) => PageDone(M, c, p)
  <2>1. \A i : OldIsRead(L, c, p, i) => OldIsRead(M, c, p, i)
    BY <1>8, Zenon DEF OldIsRead
  <2>. QED BY <1>5, <1>8, <2>1, Zenon DEF PageDone
<1>. QED BY <1>1, <1>3, <1>4, <1>5, <1>6, <1>7, <1>9 DEF M

\* The calls of a kind and page, before and after one more call.
LEMMA OtherCall ==
  ASSUME NEW L \in Seq(DevCall), NEW e \in DevCall, NEW name, NEW p, e # Dev!Call(name, p)
  PROVE  CallsOf(Append(L, e), name, p) = CallsOf(L, name, p)
BY OneMoreCall, Zenon

LEMMA SuchCall ==
  ASSUME NEW L \in Seq(DevCall), NEW e \in DevCall, NEW name, NEW p, e = Dev!Call(name, p)
  PROVE  /\ CallsOf(Append(L, e), name, p) = CallsOf(L, name, p) \cup {Len(L) + 1}
         /\ Len(L) \in Nat
<1>1. CallsOf(Append(L, e), name, p) = CallsOf(L, name, p) \cup {Len(L) + 1}
  <2>1. /\ DOMAIN L = 1..Len(L) /\ DOMAIN Append(L, e) = 1..(Len(L) + 1) /\ Len(L) \in Nat
        /\ \A i \in 1..Len(L) : Append(L, e)[i] = L[i]
        /\ Append(L, e)[Len(L) + 1] = e
    OBVIOUS
  <2>. QED BY <2>1 DEF CallsOf
<1>2. Len(L) \in Nat
  OBVIOUS
<1>. QED BY <1>1, <1>2

LEMMA CallOnPage ==
  ASSUME NEW L \in Seq(DevCall), NEW i \in DOMAIN L
  PROVE  L[i].lpn \in Nat
<1>1. L[i] \in DevCall
  BY ElementOfSeq
<1>. QED BY <1>1 DEF DevCall

\* What the drive at work has done of command c at page n.
DriveInv(q, c, n, L) ==
  /\ q \in {"idle", "page", "gc", "done"} /\ c \in Dev!Commands /\ n \in 0..LpNum
  /\ L \in Seq(DevCall)
  /\ q = "idle" => L = <<>>
  /\ q # "idle" => n \in FirstPage(c)..EndPage(c) /\ \A i \in DOMAIN L : InPages(c, L[i].lpn)
  /\ q # "idle" /\ c.opcode = "IO_WRITE" => \A p \in FirstPage(c)..(n - 1) : PageDone(L, c, p)
  /\ q \in {"page", "done"} => WritesBelow(L, n)
  /\ q = "gc" => /\ c.opcode = "IO_WRITE" /\ n # EndPage(c)
                 /\ PageWritten(L, c, n) /\ WritesBelow(L, n + 1)
  /\ q = "done" => n = EndPage(c)

DevInv == DriveInv(pc, cmd, lp_no, calls)

LEMMA DevInit == Dev!Init => DevInv
<1>. SUFFICES ASSUME Dev!Init PROVE DriveInv("idle", Dev!NoCmd, 0, <<>>)
  BY DEF Dev!Init, DevInv
<1>1. LpNum \in Nat /\ SectsPerLp \in Nat /\ StripeSize \in Nat
  BY ArrayAssumption, RaidAssumption
<1>2. LpNum * SectsPerLp \in Nat
  BY <1>1
<1>3. Dev!NoCmd \in Dev!Commands
  BY <1>1, <1>2 DEF Dev!NoCmd, Dev!Commands, Dev!MaxLba
<1>4. <<>> \in Seq(DevCall)
  OBVIOUS
<1>. QED BY <1>1, <1>3, <1>4 DEF DriveInv

LEMMA DevBegin ==
  ASSUME DevInv, NEW c \in Dev!Commands, Dev!Begin(c)
  PROVE  DevInv'
<1>1. /\ cmd' = c /\ lp_no' = FirstPage(c) /\ calls' = <<>> /\ pc' = "page"
  BY DEF Dev!Begin, Dev!HlbaToLpn, FirstPage
<1>2. FirstPage(c) \in 0..LpNum /\ FirstPage(c) \in FirstPage(c)..EndPage(c)
  <2>1. FirstPage(c) \in Nat /\ EndPage(c) \in 0..LpNum /\ FirstPage(c) <= EndPage(c) /\ LpNum \in Nat
    BY PagesOfCommand, ArrayAssumption
  <2>. QED BY <2>1
<1>3. <<>> \in Seq(DevCall) /\ DOMAIN <<>> = {} /\ WritesBelow(<<>>, FirstPage(c))
  BY DEF WritesBelow
<1>4. FirstPage(c)..(FirstPage(c) - 1) = {}
  BY <1>2
<1>5. DriveInv("page", c, FirstPage(c), <<>>)
  BY <1>2, <1>3, <1>4 DEF DriveInv
<1>. QED BY <1>1, <1>5 DEF DevInv

LEMMA DevReturn == DevInv /\ Dev!Return => DevInv'
<1>. SUFFICES ASSUME Dev!Return PROVE DevInv'
  OBVIOUS
<1>1. DriveInv("idle", Dev!NoCmd, 0, <<>>)
  <2>1. LpNum \in Nat /\ SectsPerLp \in Nat /\ StripeSize \in Nat
    BY ArrayAssumption, RaidAssumption
  <2>2. LpNum * SectsPerLp \in Nat
    BY <2>1
  <2>3. Dev!NoCmd \in Dev!Commands
    BY <2>1, <2>2 DEF Dev!NoCmd, Dev!Commands, Dev!MaxLba
  <2>4. <<>> \in Seq(DevCall)
    OBVIOUS
  <2>. QED BY <2>1, <2>3, <2>4 DEF DriveInv
<1>. QED BY <1>1 DEF DevInv, Dev!Return

LEMMA DevReadPage == DevInv /\ Dev!ReadPage => DevInv'
<1>. SUFFICES ASSUME DevInv, Dev!ReadPage PROVE DevInv'
  OBVIOUS
<1>. DEFINE e == Dev!Call("lp_read", lp_no)
            n == lp_no + 1
            M == Append(calls, e)
<1>1. /\ pc = "page" /\ cmd.opcode = "IO_READ" /\ lp_no < EndPage(cmd)
      /\ calls' = M /\ lp_no' = n /\ pc' = "page" /\ cmd' = cmd
  BY DEF Dev!ReadPage, Dev!end_lp, Dev!HlbaToLpn, EndPage
<1>2. /\ cmd \in Dev!Commands /\ lp_no \in 0..LpNum /\ calls \in Seq(DevCall)
      /\ lp_no \in FirstPage(cmd)..EndPage(cmd) /\ \A i \in DOMAIN calls : InPages(cmd, calls[i].lpn)
      /\ WritesBelow(calls, lp_no)
  BY <1>1 DEF DevInv, DriveInv
<1>3. FirstPage(cmd) \in Nat /\ EndPage(cmd) \in 0..LpNum /\ LpNum \in Nat
  BY <1>2, PagesOfCommand, ArrayAssumption
<1>4. e \in DevCall /\ e.lpn = lp_no /\ e.op = "lp_read" /\ InPages(cmd, lp_no)
  BY <1>1, <1>2, <1>3 DEF Dev!Call, DevCall, InPages
<1>5. WritesBelow(calls, n)
  <2>1. \A i \in DOMAIN calls : calls[i].lpn \in Nat
    BY <1>2, CallOnPage
  <2>. QED BY <1>2, <2>1 DEF WritesBelow
<1>. HIDE DEF e
<1>6. M \in Seq(DevCall) /\ (\A i \in DOMAIN M : InPages(cmd, M[i].lpn)) /\ WritesBelow(M, n)
  BY <1>2, <1>4, <1>5, OneMoreCall
<1>7. n \in 0..LpNum /\ n \in FirstPage(cmd)..EndPage(cmd)
  BY <1>1, <1>2, <1>3
<1>. HIDE DEF M, n
<1>8. DriveInv("page", cmd, n, M)
  BY <1>1, <1>2, <1>6, <1>7 DEF DriveInv
<1>. QED BY <1>1, <1>8 DEF DevInv

LEMMA DevWritePage == DevInv /\ Dev!WritePage => DevInv'
<1>. SUFFICES ASSUME DevInv, Dev!WritePage PROVE DevInv'
  OBVIOUS
<1>. DEFINE n == lp_no
            first == n = FirstPage(cmd) /\ StartsInside(cmd)
            r == Dev!Call("lp_read", n)
            w == Dev!Call("lp_write", n)
            K == IF first THEN Append(calls, r) ELSE calls
            M == Append(K, w)
<1>1. /\ cmd \in Dev!Commands /\ n \in 0..LpNum /\ calls \in Seq(DevCall) /\ pc = "page"
      /\ n \in FirstPage(cmd)..EndPage(cmd) /\ \A i \in DOMAIN calls : InPages(cmd, calls[i].lpn)
      /\ WritesBelow(calls, n)
      /\ cmd.opcode = "IO_WRITE" /\ \A p \in FirstPage(cmd)..(n - 1) : PageDone(calls, cmd, p)
  BY DEF DevInv, DriveInv, Dev!WritePage
<1>2. FirstPage(cmd) \in Nat /\ EndPage(cmd) \in 0..LpNum /\ LpNum \in Nat
  BY <1>1, PagesOfCommand, ArrayAssumption
<1>3. n < EndPage(cmd) /\ pc' = "gc" /\ cmd' = cmd /\ lp_no' = n
  BY DEF Dev!WritePage, Dev!end_lp, Dev!HlbaToLpn, EndPage
<1>4. InPages(cmd, n) /\ n \in Nat
  BY <1>1, <1>2, <1>3 DEF InPages
<1>5. /\ r \in DevCall /\ r.lpn = n /\ r.op = "lp_read"
      /\ w \in DevCall /\ w.lpn = n /\ w.op = "lp_write" /\ r # w
  BY <1>4 DEF Dev!Call, DevCall
<1>6. calls' = M
  <2>1. calls' = calls \o (IF first THEN <<r>> ELSE <<>>) \o <<w>>
    BY DEF Dev!WritePage, Dev!start_lp, Dev!rmw_start, Dev!IsPPAligned, Dev!HlbaToLpn, FirstPage, StartsInside
  <2>. HIDE DEF r, w
  <2>2. calls \o <<r>> = Append(calls, r) /\ Append(calls, r) \in Seq(DevCall) /\ calls \o <<>> = calls
    BY <1>1, <1>5
  <2>3. K \in Seq(DevCall) /\ calls \o (IF first THEN <<r>> ELSE <<>>) = K
    BY <1>1, <2>2
  <2>4. K \o <<w>> = Append(K, w)
    BY <1>5, <2>3
  <2>. QED BY <2>1, <2>3, <2>4
<1>. HIDE DEF r, w
<1>7. \A p \in FirstPage(cmd)..(n - 1) : r # Dev!Call("lp_write", p) /\ w # Dev!Call("lp_write", p)
  <2>1. \A p \in FirstPage(cmd)..(n - 1) : p # n
    BY <1>1, <1>2
  <2>2. \A p : Dev!Call("lp_write", p).lpn = p /\ Dev!Call("lp_write", p).op = "lp_write"
    BY DEF Dev!Call
  <2>3. r.op # "lp_write"
    BY <1>5
  <2>. QED BY <1>5, <2>1, <2>2, <2>3, Zenon
\* After the read, if there is one.
<1>8. /\ K \in Seq(DevCall) /\ \A i \in DOMAIN K : InPages(cmd, K[i].lpn)
      /\ WritesBelow(K, n) /\ \A p \in FirstPage(cmd)..(n - 1) : PageDone(K, cmd, p)
      /\ first => Len(calls) + 1 \in CallsOf(K, "lp_read", n) /\ Len(K) = Len(calls) + 1
  <2>1. CASE first
    <3>. DEFINE A == Append(calls, r)
    <3>1. /\ A \in Seq(DevCall) /\ \A i \in DOMAIN A : InPages(cmd, A[i].lpn)
          /\ WritesBelow(A, n) /\ Len(A) = Len(calls) + 1
          /\ Len(calls) + 1 \in CallsOf(A, "lp_read", n)
      <4>1. Len(calls) + 1 \in CallsOf(A, "lp_read", n)
        BY <1>1, <1>5, SuchCall DEF r
      <4>2. WritesBelow(A, n)
        BY <1>1, <1>5, OneMoreCall
      <4>. QED BY <1>1, <1>4, <1>5, <4>1, <4>2, OneMoreCall
    <3>2. \A p \in FirstPage(cmd)..(n - 1) : PageDone(A, cmd, p)
      BY <1>1, <1>5, <1>7, OneMoreCall
    <3>. HIDE DEF A
    <3>3. K = A
      BY <2>1 DEF A
    <3>. QED BY <3>1, <3>2, <3>3
  <2>2. CASE ~first
    BY <1>1, <2>2
  <2>. QED BY <2>1, <2>2
<1>. HIDE DEF K
<1>9. /\ M \in Seq(DevCall) /\ \A i \in DOMAIN M : InPages(cmd, M[i].lpn)
      /\ \A p \in FirstPage(cmd)..(n - 1) : PageDone(M, cmd, p)
      /\ Len(M) = Len(K) + 1
  BY <1>4, <1>5, <1>7, <1>8, OneMoreCall
<1>10. WritesBelow(M, n + 1)
  <2>1. \A i \in DOMAIN K : K[i].lpn \in Nat
    BY <1>8, CallOnPage
  <2>2. WritesBelow(K, n + 1)
    BY <1>4, <1>8, <2>1 DEF WritesBelow
  <2>. QED BY <1>4, <1>5, <1>8, <2>2, OneMoreCall
<1>11. PageWritten(M, cmd, n)
  <2>1. CallsOf(K, "lp_write", n) = {}
    <3>1. \A i \in DOMAIN K : K[i] # Dev!Call("lp_write", n)
      BY <1>4, <1>8 DEF WritesBelow, Dev!Call
    <3>. QED BY <3>1 DEF CallsOf
  <2>2. CallsOf(M, "lp_write", n) = {Len(M)}
    <3>1. CallsOf(M, "lp_write", n) = CallsOf(K, "lp_write", n) \cup {Len(K) + 1}
      BY <1>5, <1>8, SuchCall DEF w
    <3>. QED BY <1>9, <2>1, <3>1
  <2>3. CallsOf(M, "lp_read", n) = CallsOf(K, "lp_read", n)
    <3>1. w # Dev!Call("lp_read", n)
      BY <1>5 DEF Dev!Call
    <3>. QED BY <1>5, <1>8, <3>1, OtherCall
  <2>4. Len(calls) \in Nat
    BY <1>1
  <2>5. first => Len(calls) + 1 \in CallsOf(M, "lp_read", n) /\ Len(calls) + 1 < Len(M)
    BY <1>8, <1>9, <2>3, <2>4
  <2>. QED BY <2>2, <2>5 DEF PageWritten, OldIsRead
<1>. HIDE DEF M
<1>12. DriveInv("gc", cmd, n, M)
  <2>1. n # EndPage(cmd)
    BY <1>2, <1>3, <1>4
  <2>. QED BY <1>1, <1>9, <1>10, <1>11, <2>1 DEF DriveInv
<1>. QED BY <1>3, <1>6, <1>12 DEF DevInv

LEMMA DevCollect == DevInv /\ Dev!Collect => DevInv'
<1>. SUFFICES ASSUME DevInv, Dev!Collect PROVE DevInv'
  OBVIOUS
<1>. DEFINE n == lp_no
            e == Dev!Call("do_gc", n)
            M == Append(calls, e)
<1>1. /\ cmd \in Dev!Commands /\ n \in 0..LpNum /\ calls \in Seq(DevCall)
      /\ n \in FirstPage(cmd)..EndPage(cmd) /\ \A i \in DOMAIN calls : InPages(cmd, calls[i].lpn)
      /\ cmd.opcode = "IO_WRITE" /\ \A p \in FirstPage(cmd)..(n - 1) : PageDone(calls, cmd, p)
      /\ n # EndPage(cmd) /\ PageWritten(calls, cmd, n) /\ WritesBelow(calls, n + 1)
      /\ calls' = M /\ lp_no' = n + 1 /\ pc' = "page" /\ cmd' = cmd
  BY DEF DevInv, DriveInv, Dev!Collect
<1>2. FirstPage(cmd) \in Nat /\ EndPage(cmd) \in 0..LpNum /\ LpNum \in Nat /\ n \in Nat
  BY <1>1, PagesOfCommand, ArrayAssumption
<1>3. /\ e \in DevCall /\ e.lpn = n /\ e.op = "do_gc" /\ InPages(cmd, n)
      /\ \A p : e # Dev!Call("lp_write", p) /\ e # Dev!Call("lp_read", p)
  BY <1>1, <1>2 DEF Dev!Call, DevCall, InPages
<1>. HIDE DEF e
<1>4. /\ M \in Seq(DevCall) /\ \A i \in DOMAIN M : InPages(cmd, M[i].lpn)
      /\ \A p \in FirstPage(cmd)..(n - 1) : PageDone(M, cmd, p)
      /\ WritesBelow(M, n + 1)
  BY <1>1, <1>3, OneMoreCall
<1>5. PageDone(M, cmd, n)
  <2>. DEFINE i == Len(calls)
  <2>1. /\ CallsOf(M, "lp_write", n) = {i} /\ i \in Nat
        /\ CallsOf(M, "lp_read", n) = CallsOf(calls, "lp_read", n)
        /\ i + 1 \in CallsOf(M, "do_gc", n)
    <3>1. CallsOf(M, "lp_write", n) = {i} /\ CallsOf(M, "lp_read", n) = CallsOf(calls, "lp_read", n)
      BY <1>1, <1>3, OtherCall DEF PageWritten
    <3>2. CallsOf(M, "do_gc", n) = CallsOf(calls, "do_gc", n) \cup {i + 1} /\ i \in Nat
      BY <1>1, <1>3, SuchCall DEF e
    <3>. QED BY <3>1, <3>2
  <2>2. OldIsRead(M, cmd, n, i)
    BY <1>1, <2>1, Zenon DEF PageWritten, OldIsRead
  <2>. QED BY <2>1, <2>2, Zenon DEF PageDone
<1>. HIDE DEF M
<1>6. \A p \in FirstPage(cmd)..((n + 1) - 1) : PageDone(M, cmd, p)
  <2>1. \A p \in FirstPage(cmd)..((n + 1) - 1) : p \in FirstPage(cmd)..(n - 1) \/ p = n
    BY <1>2
  <2>. QED BY <1>4, <1>5, <2>1, Zenon
<1>7. n + 1 \in FirstPage(cmd)..EndPage(cmd) /\ n + 1 \in 0..LpNum
  BY <1>1, <1>2
<1>8. DriveInv("page", cmd, n + 1, M)
  BY <1>1, <1>4, <1>6, <1>7 DEF DriveInv
<1>. QED BY <1>1, <1>8 DEF DevInv

LEMMA DevLastPage == DevInv /\ Dev!LastPage => DevInv'
<1>. SUFFICES ASSUME DevInv, Dev!LastPage PROVE DevInv'
  OBVIOUS
<1>. DEFINE n == lp_no
            e == Dev!Call("lp_read", EndPage(cmd))
            more == FirstPage(cmd) # EndPage(cmd) /\ EndsInside(cmd)
            M == IF more THEN Append(calls, e) ELSE calls
<1>1. /\ cmd \in Dev!Commands /\ n \in 0..LpNum /\ calls \in Seq(DevCall)
      /\ n \in FirstPage(cmd)..EndPage(cmd) /\ \A i \in DOMAIN calls : InPages(cmd, calls[i].lpn)
      /\ cmd.opcode = "IO_WRITE" => \A p \in FirstPage(cmd)..(n - 1) : PageDone(calls, cmd, p)
      /\ WritesBelow(calls, n)
  BY DEF DevInv, DriveInv, Dev!LastPage
<1>2. FirstPage(cmd) \in Nat /\ EndPage(cmd) \in 0..LpNum /\ LpNum \in Nat
  BY <1>1, PagesOfCommand, ArrayAssumption
<1>3. /\ n >= EndPage(cmd) /\ pc' = "done" /\ cmd' = cmd /\ lp_no' = n /\ calls' = M
  BY DEF Dev!LastPage, Dev!end_lp, Dev!start_lp, Dev!rmw_end, Dev!IsPPAligned, Dev!HlbaToLpn,
     EndPage, FirstPage, EndsInside
<1>4. n = EndPage(cmd)
  BY <1>1, <1>2, <1>3
<1>5. /\ e \in DevCall /\ e.lpn = EndPage(cmd) /\ e.op = "lp_read"
      /\ more => InPages(cmd, e.lpn)
      /\ \A p : e # Dev!Call("lp_write", p)
  BY <1>2 DEF Dev!Call, DevCall, InPages
<1>. HIDE DEF e
<1>6. /\ M \in Seq(DevCall) /\ \A i \in DOMAIN M : InPages(cmd, M[i].lpn)
      /\ cmd.opcode = "IO_WRITE" => \A p \in FirstPage(cmd)..(n - 1) : PageDone(M, cmd, p)
      /\ WritesBelow(M, n)
  <2>1. CASE more
    <3>. DEFINE A == Append(calls, e)
    <3>1. /\ A \in Seq(DevCall) /\ \A i \in DOMAIN A : InPages(cmd, A[i].lpn)
          /\ WritesBelow(A, n)
          /\ cmd.opcode = "IO_WRITE" => \A p \in FirstPage(cmd)..(n - 1) : PageDone(A, cmd, p)
      <4>1. A \in Seq(DevCall) /\ \A i \in DOMAIN A : InPages(cmd, A[i].lpn)
        BY <1>1, <1>5, <2>1, OneMoreCall
      <4>2. WritesBelow(A, n)
        BY <1>1, <1>5, OneMoreCall
      <4>3. cmd.opcode = "IO_WRITE" => \A p \in FirstPage(cmd)..(n - 1) : PageDone(A, cmd, p)
        BY <1>1, <1>5, OneMoreCall, Zenon
      <4>. QED BY <4>1, <4>2, <4>3
    <3>. HIDE DEF A
    <3>2. M = A
      BY <2>1 DEF A
    <3>. QED BY <3>1, <3>2
  <2>2. CASE ~more
    BY <1>1, <2>2
  <2>. QED BY <2>1, <2>2
<1>. HIDE DEF M
<1>7. DriveInv("done", cmd, n, M)
  BY <1>1, <1>4, <1>6 DEF DriveInv
<1>. QED BY <1>3, <1>7 DEF DevInv

\* A drive is only given commands it has the sectors for.
LEMMA Dispatched ==
  ASSUME RaidInv, pull_next_command
  PROVE  LET c == Head(pending_cmd)
         IN  [opcode |-> c.opcode, lba |-> c.lba, len |-> c.sector_num] \in Dev!Commands
<1>. DEFINE c == Head(pending_cmd)
            rg == rg_list[1]
            top == LpNum * SectsPerLp
<1>1. PICK i \in 1..Len(Issued) : c = Issued[i]
  BY RaidPull
<1>2. Serves(rg, host_cmd[1], Issued) /\ rg.drv_lba <= top /\ Group(rg)
  BY RaidPull DEF RaidInv
<1>3. Issued \in Seq(DriveCommandInfo) /\ DOMAIN Issued = 1..Len(Issued)
  BY <1>2 DEF Serves
<1>4. c \in DriveCommandInfo
  BY <1>1, <1>3, ElementOfSeq
<1>5. c.sector_num \in 1..StripeSize /\ c.lba + c.sector_num <= rg.drv_lba
  BY <1>1, <1>2 DEF Serves
<1>6. top \in Nat /\ StripeSize \in Nat
  <2>1. LpNum \in Nat /\ SectsPerLp \in Nat
    BY ArrayAssumption
  <2>. QED BY <2>1, RaidAssumption
<1>7. rg.drv_lba \in Nat
  BY <1>2 DEF Group, RGInfo
<1>8. c.opcode \in {"IO_READ", "IO_WRITE"} /\ c.lba \in Nat /\ c.sector_num \in Nat
  BY <1>4 DEF DriveCommandInfo, Opcode
<1>. HIDE DEF c, rg
<1>9. c.lba \in 0..top /\ c.sector_num \in 0..StripeSize /\ c.lba + c.sector_num <= top
  <2>. HIDE DEF top
  <2>. QED BY <1>2, <1>5, <1>6, <1>7, <1>8
<1>10. [opcode |-> c.opcode, lba |-> c.lba, len |-> c.sector_num] \in Dev!Commands
  BY <1>8, <1>9 DEF Dev!Commands, Dev!MaxLba
<1>. QED BY <1>10 DEF c

LEMMA DevStep == RaidInv /\ DevInv /\ [ArrayNext]_arrayVars => DevInv'
<1>. SUFFICES ASSUME RaidInv, DevInv, [ArrayNext]_arrayVars PROVE DevInv'
  OBVIOUS
<1>1. CASE UNCHANGED devVars
  BY <1>1 DEF DevInv, devVars
<1>2. CASE Dispatch
  <2>1. PICK c \in Dev!Commands : Dev!Begin(c)
    BY <1>2, Dispatched DEF Dispatch
  <2>. QED BY <2>1, DevBegin
<1>3. CASE DriveWrites
  BY <1>3, DevWritePage DEF DriveWrites
<1>4. CASE DriveStep
  BY <1>4, DevCollect, DevReadPage, DevLastPage, DevReturn DEF DriveStep
<1>. QED BY <1>1, <1>2, <1>3, <1>4 DEF ArrayNext, BuildRaid, Receive, arrayVars

LEMMA InvDrivePages == DevInv => DrivePagesExact
<1>. SUFFICES ASSUME DevInv PROVE Dev!OnlyItsPages /\ Dev!FrontPagesWritten
  BY DEF DrivePagesExact
<1>1. /\ cmd \in Dev!Commands /\ calls \in Seq(DevCall) /\ lp_no \in 0..LpNum
      /\ pc = "idle" => calls = <<>>
      /\ pc # "idle" => \A i \in DOMAIN calls : InPages(cmd, calls[i].lpn)
      /\ pc = "done" => lp_no = EndPage(cmd)
      /\ pc # "idle" /\ cmd.opcode = "IO_WRITE" =>
           \A p \in FirstPage(cmd)..(lp_no - 1) : PageDone(calls, cmd, p)
  BY DEF DevInv, DriveInv
<1>2. Dev!HostIoTypeOK
  BY <1>1 DEF DevInv, DriveInv, Dev!HostIoTypeOK, DevCall
<1>3. \A p : Dev!Covered(p) = Part(cmd, p)
  BY Zenon DEF Dev!Covered, Part
<1>4. ASSUME NEW i \in DOMAIN calls
      PROVE  calls[i].lpn < LpNum /\ Dev!Covered(calls[i].lpn) # {}
  <2>1. DOMAIN <<>> = {}
    OBVIOUS
  <2>2. InPages(cmd, calls[i].lpn)
    BY <1>1, <1>4, <2>1
  <2>. DEFINE p == calls[i].lpn
  <2>3. p < LpNum /\ Part(cmd, p) # {}
    <3>. HIDE DEF p
    <3>1. CASE p \in FirstPage(cmd)..(EndPage(cmd) - 1)
      BY <1>1, <3>1, PagesOfCommand
    <3>2. CASE p = EndPage(cmd) /\ FirstPage(cmd) # EndPage(cmd) /\ EndsInside(cmd)
      BY <1>1, <3>2, PagesOfCommand
    <3>. QED BY <2>2, <3>1, <3>2 DEF InPages, p
  <2>. QED BY <1>3, <2>3
<1>5. ASSUME pc = "done", cmd.opcode = "IO_WRITE", NEW p \in 0..(LpNum - 1),
             p * SectsPerLp + SectsPerLp - 1 \in Dev!Covered(p)
      PROVE  /\ Cardinality(Dev!Calls("lp_write", p)) = 1
             /\ \A i \in Dev!Calls("lp_write", p) :
                  /\ Cardinality(Dev!Covered(p)) < SectsPerLp =>
                       \E j \in Dev!Calls("lp_read", p) : j < i
                  /\ i + 1 \in Dev!Calls("do_gc", p)
  <2>1. \A name : Dev!Calls(name, p) = CallsOf(calls, name, p)
    BY Zenon DEF Dev!Calls, CallsOf
  <2>2. p \in Nat /\ p * SectsPerLp + SectsPerLp - 1 \in Part(cmd, p)
    BY <1>3, <1>5, ArrayAssumption
  <2>3. /\ p \in FirstPage(cmd)..(EndPage(cmd) - 1)
        /\ Cardinality(Part(cmd, p)) < SectsPerLp => p = FirstPage(cmd) /\ StartsInside(cmd)
    BY <1>1, <2>2, PagesOfCommand
  <2>4. PageDone(calls, cmd, p)
    BY <1>1, <1>5, <2>3
  <2>5. PICK i \in Nat : /\ CallsOf(calls, "lp_write", p) = {i} /\ OldIsRead(calls, cmd, p, i)
                         /\ i + 1 \in CallsOf(calls, "do_gc", p)
    BY <2>4, Zenon DEF PageDone
  <2>6. Cardinality({i}) = 1
    BY FS_Singleton
  <2>. QED BY <1>3, <2>1, <2>3, <2>5, <2>6 DEF OldIsRead
<1>6. \A S : Dev!Cardinality(S) = Cardinality(S)
  BY Zenon DEF Dev!Cardinality, Cardinality
<1>7. Dev!FrontPagesWritten
  BY <1>5, <1>6 DEF Dev!FrontPagesWritten
<1>. QED BY <1>2, <1>4, <1>7 DEF Dev!OnlyItsPages

\* A drive command keeps the drive within its pages, and every page a write
\* covers up to its end is written once, after it was read if it is covered in
\* part, and followed by do_gc.
THEOREM DrivesKeepToPages == ArraySpec => []DrivePagesExact
<1>1. ArrayInit => DevInv
  BY DevInit DEF ArrayInit
<1>. QED BY <1>1, RaidAlways, DevStep, InvDrivePages, PTL DEF ArraySpec

-----------------------------------------------------------------------------
(* The pages that are written: the two modules together                    *)

\* The drive's view of a command of the controller, and its whole pages.
AsDevCommand(d) == [opcode |-> d.opcode, lba |-> d.lba, len |-> d.sector_num]
PagesIn(d) == FirstPage(AsDevCommand(d))..(EndPage(AsDevCommand(d)) - 1)

\* The pages command d writes.
WrittenFor(d, w) == IsWrite(d) /\ \E p \in PagesIn(d) : w = <<d.tgt_drive, p>>

\* Nothing is written but pages of the commands pulled, and of those all
\* pages that the drive at work is done with.
WrittenInv ==
  /\ \A w \in written : \E i \in 1..Len(pulled) : WrittenFor(pulled[i], w)
  /\ \A i \in 1..Len(pulled) : IsWrite(pulled[i]) /\ (i # Len(pulled) \/ pc = "idle") =>
       \A p \in PagesIn(pulled[i]) : <<pulled[i].tgt_drive, p>> \in written
  /\ pc # "idle" =>
       /\ Len(pulled) >= 1
       /\ cmd = AsDevCommand(pulled[Len(pulled)]) /\ drive = pulled[Len(pulled)].tgt_drive
       /\ cmd.opcode = "IO_WRITE" => \A p \in FirstPage(cmd)..(lp_no - 1) : <<drive, p>> \in written
  /\ pc = "gc" => <<drive, lp_no>> \in written

LEMMA WrittenInit == ArrayInit => WrittenInv
<1>1. Len(<<>>) = 0 /\ 1..0 = {}
  OBVIOUS
<1>. QED BY <1>1 DEF ArrayInit, Init, Dev!Init, WrittenInv

LEMMA WrittenReceive == WrittenInv /\ Receive => WrittenInv'
<1>. SUFFICES ASSUME Receive PROVE WrittenInv'
  OBVIOUS
<1>1. written' = {} /\ pc' = "idle" /\ pulled' = <<>>
  BY DEF Receive, receive_command, devVars
<1>2. Len(<<>>) = 0 /\ 1..0 = {}
  OBVIOUS
<1>. QED BY <1>1, <1>2 DEF WrittenInv

LEMMA WrittenDispatch == RaidInv /\ WrittenInv /\ Dispatch => WrittenInv'
<1>. SUFFICES ASSUME RaidInv, WrittenInv, Dispatch PROVE WrittenInv'
  OBVIOUS
<1>. DEFINE c == Head(pending_cmd)
            P == Append(pulled, c)
            n == Len(pulled)
<1>1. /\ pending_cmd # <<>> /\ pulled' = P /\ written' = written
      /\ pc = "idle" /\ pc' = "page" /\ cmd' = AsDevCommand(c) /\ drive' = c.tgt_drive
      /\ lp_no' = FirstPage(AsDevCommand(c))
  BY DEF Dispatch, pull_next_command, Dev!Begin, Dev!HlbaToLpn, AsDevCommand, FirstPage
<1>2. pending_cmd \in Seq(DriveCommandInfo) /\ pulled \in Seq(DriveCommandInfo)
  BY DEF RaidInv, RaidTypeOK
<1>3. c \in DriveCommandInfo
  BY <1>1, <1>2
<1>4. AsDevCommand(c) \in Dev!Commands
  BY <1>1, Dispatched DEF Dispatch, AsDevCommand
<1>5. FirstPage(AsDevCommand(c)) \in Nat
  BY <1>4, PagesOfCommand
<1>. HIDE DEF c
<1>6. n \in Nat /\ Len(P) = n + 1 /\ P[n + 1] = c /\ \A i \in 1..n : P[i] = pulled[i]
  BY <1>2, <1>3
<1>7. \A i \in 1..(n + 1) : i # n + 1 => i \in 1..n
  BY <1>6
<1>8. n + 1 >= 1 /\ \A i \in 1..n : i \in 1..(n + 1)
  BY <1>6
<1>. HIDE DEF P, n
<1>9. \A w \in written : \E i \in 1..Len(P) : WrittenFor(P[i], w)
  <2>. SUFFICES ASSUME NEW w \in written
                PROVE  \E i \in 1..Len(P) : WrittenFor(P[i], w)
    OBVIOUS
  <2>1. PICK i \in 1..n : WrittenFor(pulled[i], w)
    BY DEF WrittenInv, n
  <2>. QED BY <1>6, <1>8, <2>1
<1>10. \A i \in 1..Len(P) : IsWrite(P[i]) /\ i # Len(P) =>
         \A p \in PagesIn(P[i]) : <<P[i].tgt_drive, p>> \in written
  <2>. SUFFICES ASSUME NEW i \in 1..Len(P), IsWrite(P[i]), i # Len(P), NEW p \in PagesIn(P[i])
                PROVE  <<P[i].tgt_drive, p>> \in written
    OBVIOUS
  <2>1. i \in 1..n /\ P[i] = pulled[i]
    BY <1>6, <1>7
  <2>. QED BY <1>1, <2>1 DEF WrittenInv, n
<1>11. \A f \in Nat : f..(f - 1) = {}
  OBVIOUS
<1>12. FirstPage(cmd')..(lp_no' - 1) = {}
  BY <1>1, <1>5, <1>11
<1>13. \A p \in FirstPage(cmd')..(lp_no' - 1) : <<drive', p>> \in written'
  BY <1>12
<1>14. cmd' = AsDevCommand(P[Len(P)]) /\ drive' = P[Len(P)].tgt_drive /\ Len(P) >= 1
  BY <1>1, <1>6, <1>8
<1>. QED BY <1>1, <1>9, <1>10, <1>13, <1>14 DEF WrittenInv

LEMMA WrittenPage == DevInv /\ RaidInv /\ WrittenInv /\ DriveWrites => WrittenInv'
<1>. SUFFICES ASSUME DevInv, RaidInv, WrittenInv, DriveWrites PROVE WrittenInv'
  OBVIOUS
<1>. DEFINE n == Len(pulled)
            d == pulled[n]
<1>1. /\ written' = written \cup {<<drive, lp_no>>} /\ UNCHANGED <<pulled, drive, cmd, lp_no>>
      /\ pc = "page" /\ pc' = "gc" /\ cmd.opcode = "IO_WRITE" /\ lp_no < EndPage(cmd)
  BY DEF DriveWrites, Dev!WritePage, Dev!end_lp, Dev!HlbaToLpn, EndPage, vars
<1>2. /\ cmd \in Dev!Commands /\ lp_no \in FirstPage(cmd)..EndPage(cmd)
  BY <1>1 DEF DevInv, DriveInv
<1>3. FirstPage(cmd) \in Nat /\ EndPage(cmd) \in Nat
  BY <1>2, PagesOfCommand
<1>4. lp_no \in FirstPage(cmd)..(EndPage(cmd) - 1)
  BY <1>1, <1>2, <1>3
<1>5. n >= 1 /\ cmd = AsDevCommand(d) /\ drive = d.tgt_drive /\ n \in Nat
  BY <1>1 DEF WrittenInv, RaidInv, RaidTypeOK
<1>6. n \in 1..n
  BY <1>5
<1>7. lp_no \in PagesIn(d) /\ IsWrite(d)
  BY <1>1, <1>4, <1>5 DEF PagesIn, IsWrite, AsDevCommand
<1>8. \A w \in written' : \E i \in 1..n : WrittenFor(pulled[i], w)
  <2>. SUFFICES ASSUME NEW w \in written'
                PROVE  \E i \in 1..n : WrittenFor(pulled[i], w)
    OBVIOUS
  <2>1. CASE w \in written
    BY <2>1 DEF WrittenInv
  <2>2. CASE w = <<drive, lp_no>>
    BY <1>5, <1>6, <1>7, <2>2 DEF WrittenFor
  <2>. QED BY <1>1, <2>1, <2>2
<1>9. \A i \in 1..n : IsWrite(pulled[i]) /\ i # n =>
        \A p \in PagesIn(pulled[i]) : <<pulled[i].tgt_drive, p>> \in written'
  BY <1>1 DEF WrittenInv
<1>10. \A p \in FirstPage(cmd)..(lp_no - 1) : <<drive, p>> \in written'
  BY <1>1 DEF WrittenInv
<1>. HIDE DEF d
<1>. QED BY <1>1, <1>5, <1>8, <1>9, <1>10 DEF WrittenInv, d

LEMMA WrittenStep == DevInv /\ RaidInv /\ WrittenInv /\ DriveStep => WrittenInv'
<1>. SUFFICES ASSUME DevInv, RaidInv, WrittenInv, DriveStep PROVE WrittenInv'
  OBVIOUS
<1>1. UNCHANGED <<pulled, drive, written>>
  BY DEF DriveStep, vars
<1>2. FirstPage(cmd) \in Nat /\ EndPage(cmd) \in Nat
  BY PagesOfCommand DEF DevInv, DriveInv
<1>3. lp_no \in Nat /\ pc \in {"idle", "page", "gc", "done"}
  <2>1. LpNum \in Nat
    BY ArrayAssumption
  <2>. QED BY <2>1 DEF DevInv, DriveInv
<1>4. CASE Dev!Collect
  <2>1. pc = "gc" /\ lp_no' = lp_no + 1 /\ pc' = "page" /\ cmd' = cmd
    BY <1>4 DEF Dev!Collect
  <2>2. \A p \in FirstPage(cmd)..((lp_no + 1) - 1) : p \in FirstPage(cmd)..(lp_no - 1) \/ p = lp_no
    BY <1>2, <1>3
  <2>3. cmd.opcode = "IO_WRITE" => \A p \in FirstPage(cmd)..(lp_no' - 1) : <<drive, p>> \in written
    BY <2>1, <2>2 DEF WrittenInv
  <2>. QED BY <1>1, <2>1, <2>3 DEF WrittenInv
<1>5. CASE Dev!ReadPage
  <2>1. pc = "page" /\ pc' = pc /\ cmd' = cmd /\ cmd.opcode # "IO_WRITE"
    BY <1>5 DEF Dev!ReadPage
  <2>. QED BY <1>1, <2>1 DEF WrittenInv
<1>6. CASE Dev!LastPage
  <2>1. pc = "page" /\ pc' = "done" /\ cmd' = cmd /\ lp_no' = lp_no
    BY <1>6 DEF Dev!LastPage
  <2>. QED BY <1>1, <2>1 DEF WrittenInv
<1>7. CASE Dev!Return
  <2>. DEFINE n == Len(pulled)
  <2>1. pc = "done" /\ pc' = "idle"
    BY <1>7 DEF Dev!Return
  <2>2. lp_no = EndPage(cmd)
    BY <2>1 DEF DevInv, DriveInv
  <2>3. cmd = AsDevCommand(pulled[n]) /\ drive = pulled[n].tgt_drive
    BY <2>1 DEF WrittenInv
  <2>4. IsWrite(pulled[n]) => \A p \in PagesIn(pulled[n]) : <<pulled[n].tgt_drive, p>> \in written
    BY <2>1, <2>2, <2>3 DEF WrittenInv, PagesIn, IsWrite, AsDevCommand
  <2>. QED BY <1>1, <2>1, <2>4 DEF WrittenInv
<1>. QED BY <1>4, <1>5, <1>6, <1>7 DEF DriveStep

LEMMA WrittenNext == RaidInv /\ DevInv /\ WrittenInv /\ [ArrayNext]_arrayVars => WrittenInv'
<1>. SUFFICES ASSUME RaidInv, DevInv, WrittenInv, [ArrayNext]_arrayVars PROVE WrittenInv'
  OBVIOUS
<1>1. CASE UNCHANGED <<devVars, pulled, drive, written>>
  BY <1>1 DEF WrittenInv, devVars
<1>2. CASE BuildRaid
  <2>1. UNCHANGED <<devVars, pulled, drive, written>>
    BY <1>2 DEF BuildRaid, build_raid
  <2>. QED BY <1>1, <2>1
<1>3. CASE UNCHANGED arrayVars
  BY <1>1, <1>3 DEF arrayVars, vars
<1>. QED BY <1>2, <1>3, WrittenReceive, WrittenDispatch, WrittenPage, WrittenStep DEF ArrayNext

\* The page of a sector of a command that begins and ends with a page.
LEMMA PageOfSector ==
  ASSUME NEW d \in DriveCommandInfo, Whole(d.lba), Whole(d.sector_num)
  PROVE  /\ \A z \in Sectors(d) : z \div SectsPerLp \in PagesIn(d)
         /\ \A p \in PagesIn(d) : /\ p \in Nat /\ p * SectsPerLp \in Sectors(d)
                                  /\ (p * SectsPerLp) \div SectsPerLp = p
<1>. DEFINE s == SectsPerLp
<1>1. s \in Nat \ {0}
  BY ArrayAssumption
<1>2. PICK a \in Nat : d.lba = s * a
  BY DEF Whole
<1>3. PICK k \in Nat : d.sector_num = s * k
  BY DEF Whole
<1>. HIDE DEF s
<1>4. s * a + s * k = s * (a + k) /\ s * a \in Nat /\ s * k \in Nat /\ s * (a + k) \in Nat
  BY <1>1, Multiples
<1>5. \A q \in Nat : s * q \in Nat /\ (s * q) \div s = q /\ q * s = s * q
  <2>. SUFFICES ASSUME NEW q \in Nat PROVE s * q \in Nat /\ (s * q) \div s = q /\ q * s = s * q
    OBVIOUS
  <2>1. s * q \in Nat /\ q * s = s * q
    BY <1>1, Multiples
  <2>2. s * q = s * q + 0 /\ 0 \in 0..(s - 1)
    BY <1>1, <2>1
  <2>3. (s * q) \div s = q
    BY <1>1, <2>2, DivModIs
  <2>. QED BY <2>1, <2>3
<1>6. PagesIn(d) = a..((a + k) - 1)
  <2>1. FirstPage(AsDevCommand(d)) = a
    BY <1>2, <1>5 DEF FirstPage, AsDevCommand, s
  <2>2. EndPage(AsDevCommand(d)) = a + k
    <3>1. a + k \in Nat
      OBVIOUS
    <3>2. (s * (a + k)) \div s = a + k
      BY <1>5, <3>1
    <3>. QED BY <1>2, <1>3, <1>4, <3>2 DEF EndPage, AsDevCommand, s
  <2>. QED BY <2>1, <2>2 DEF PagesIn
<1>7. Sectors(d) = (s * a)..(s * (a + k) - 1)
  BY <1>2, <1>3, <1>4 DEF Sectors
<1>8. ASSUME NEW z \in Sectors(d) PROVE z \div s \in PagesIn(d)
  <2>1. z \in Nat
    <3>1. PICK e \in Nat : e = s * a
      BY <1>4
    <3>2. PICK g \in Nat : g = s * (a + k)
      BY <1>4
    <3>. QED BY <1>7, <1>8, <3>1, <3>2
  <2>2. PICK q \in Nat : q = z \div s
    BY <1>1, <2>1, DivMod
  <2>3. PICK r \in 0..(s - 1) : z = s * q + r
    BY <1>1, <2>1, <2>2, DivMod
  <2>4. PICK b \in Nat : b = s * q
    BY <1>5
  <2>5. ~(q < a)
    <3>1. q < a => s * q + s <= s * a
      BY <1>1, NextMultiple
    <3>2. PICK e \in Nat : e = s * a
      BY <1>4
    <3>3. z >= e
      BY <1>4, <1>7, <1>8, <3>2
    <3>. QED BY <1>1, <2>3, <2>4, <3>1, <3>2, <3>3
  <2>6. q < a + k
    <3>1. a + k < q => s * (a + k) + s <= s * q
      BY <1>1, NextMultiple
    <3>2. PICK e \in Nat : e = s * (a + k)
      BY <1>4
    <3>3. z < e
      BY <1>4, <1>7, <1>8, <3>2
    <3>4. ~(a + k < q) /\ q # a + k
      BY <1>1, <2>3, <2>4, <3>1, <3>2, <3>3
    <3>. QED BY <3>4
  <2>. QED BY <1>6, <2>2, <2>5, <2>6
<1>9. ASSUME NEW p \in PagesIn(d)
      PROVE  p \in Nat /\ p * s \in Sectors(d) /\ (p * s) \div s = p
  <2>1. p \in Nat /\ p >= a /\ p < a + k
    BY <1>6, <1>9
  <2>2. s * p >= s * a
    <3>1. a < p => s * a + s <= s * p
      BY <1>1, <2>1, NextMultiple
    <3>2. s * p \in Nat
      BY <1>5, <2>1
    <3>. QED BY <1>1, <1>4, <2>1, <3>1, <3>2
  <2>3. s * p + s <= s * (a + k)
    BY <1>1, <2>1, NextMultiple
  <2>4. PICK b \in Nat : b = s * p
    BY <1>5, <2>1
  <2>5. b \in Sectors(d)
    BY <1>1, <1>4, <1>7, <2>2, <2>3, <2>4
  <2>. QED BY <1>5, <2>1, <2>4, <2>5
<1>. QED BY <1>8, <1>9 DEF s

\* A sector lives in its row, also where its drive is asked for its place.
LEMMA HomeInRow ==
  ASSUME NEW rg, Group(rg), NEW x \in Nat
  PROVE  Home(rg, x)[2] \in Nat /\ Home(rg, x)[2] \div StripeSize = Row(rg, x) /\ Row(rg, x) \in Nat
<1>1. Row(rg, x) \in Nat
  BY HomeIs
<1>2. StripeSize \in Nat \ {0} /\ x % StripeSize \in 0..(StripeSize - 1)
  BY RaidAssumption, DivMod
<1>3. Home(rg, x)[2] = Row(rg, x) * StripeSize + (x % StripeSize)
  BY DEF Home
<1>. DEFINE r == Row(rg, x)
            e == x % StripeSize
<1>. HIDE DEF r, e
<1>4. r \in Nat /\ e \in 0..(StripeSize - 1) /\ r * StripeSize = StripeSize * r
  BY <1>1, <1>2 DEF r, e
<1>5. Home(rg, x)[2] = StripeSize * r + e
  BY <1>3, <1>4 DEF r, e
<1>6. StripeSize * r \in Nat
  BY <1>2, <1>4, Multiples
<1>7. Home(rg, x)[2] \in Nat /\ Home(rg, x)[2] \div StripeSize = r
  BY <1>2, <1>4, <1>5, <1>6, DivModIs
<1>. QED BY <1>1, <1>7 DEF r

LEMMA InvPagesReach == RaidInv /\ DevInv /\ WrittenInv => PagesReachDrives
<1>. SUFFICES ASSUME RaidInv, WrittenInv, NEW c \in ToSet(host_cmd), Idle, IsWrite(c),
                     StripeSize % SectsPerLp = 0, c.lba % SectsPerLp = 0,
                     c.sector_num % SectsPerLp = 0
              PROVE  /\ DataPages(c) \cup ParityPages(c) \subseteq written
                     /\ \A w \in written \ (DataPages(c) \cup ParityPages(c)) :
                          \E x \in Sectors(c) :
                            /\ w[1] = ParityDrive(rg_list[1], Row(rg_list[1], x))
                            /\ Row(rg_list[1], x) = (w[2] * SectsPerLp) \div StripeSize
  BY DEF PagesReachDrives
<1>. DEFINE rg == rg_list[1]
            L == pulled
            end == c.lba + c.sector_num
            D(d) == IsData(rg, "IO_WRITE", d)
            Done(i) == \A p \in PagesIn(L[i]) : <<L[i].tgt_drive, p>> \in written
<1>1. c = host_cmd[1] /\ c \in CommandInfo /\ host_cmd # <<>> /\ pending_cmd = <<>> /\ pc = "idle"
  <2>1. host_cmd # <<>> /\ pending_cmd = <<>> /\ pc = "idle"
    BY DEF Idle
  <2>. QED BY <2>1, OneElement DEF RaidInv, RaidTypeOK
<1>2. Issued = L
  <2>1. pulled \in Seq(DriveCommandInfo)
    BY DEF RaidInv, RaidTypeOK
  <2>2. pulled \o <<>> = pulled
    BY <2>1, ConcatEmptySeq
  <2>. QED BY <1>1, <2>2 DEF Issued
<1>3. Group(rg) /\ Serves(rg, c, L)
  BY <1>1, <1>2 DEF RaidInv
<1>4. PagesWhole(c)
  <2>1. StripeSize \in Nat /\ c.lba \in Nat /\ c.sector_num \in Nat
    BY <1>1, RaidAssumption DEF CommandInfo
  <2>. QED BY <2>1, WholeIs DEF PagesWhole
<1>5. L \in Seq(DriveCommandInfo) /\ \A i \in 1..Len(L) : L[i] \in DriveCommandInfo
  <2>1. L \in Seq(DriveCommandInfo)
    BY <1>3 DEF Serves
  <2>. QED BY <2>1
<1>6. \A i \in 1..Len(L) : Whole(L[i].lba) /\ Whole(L[i].sector_num)
  BY <1>3, <1>4 DEF Serves, WholePages
<1>7. \A i \in 1..Len(L) : IsWrite(L[i]) => Done(i)
  BY <1>1 DEF WrittenInv
<1>8. c.opcode = "IO_WRITE" /\ Sectors(c) = c.lba..(end - 1) /\ c.lba \in Nat /\ end \in Nat
  BY <1>1 DEF IsWrite, Sectors, CommandInfo
<1>9. /\ \A x \in Sectors(c) :
           \E i \in 1..Len(L) : D(L[i]) /\ Touches(L[i], Home(rg, x)[1], Home(rg, x)[2])
      /\ \A i \in 1..Len(L) : D(L[i]) =>
           \A z \in Sectors(L[i]) : \E x \in Sectors(c) : Home(rg, x) = <<L[i].tgt_drive, z>>
  BY <1>3, <1>8 DEF Serves, DataMoved
<1>10. PICK last \in Nat, begun \in BOOLEAN : ParityKept(rg, L, last, begun)
  BY <1>3 DEF Serves
<1>11. \A i \in 1..Len(L) : IsWrite(L[i]) /\ ~ToParity(rg, L[i]) =>
         \A z \in Sectors(L[i]) : \E j \in 1..Len(L) : StoresParity(rg, L[j]) /\ z \in Sectors(L[j])
  BY <1>10 DEF ParityKept
<1>. HIDE DEF rg, L, D, end
\* Where a sector is stored, its page is written.
<1>12. ASSUME NEW i \in 1..Len(L), IsWrite(L[i]), NEW z \in Sectors(L[i])
       PROVE  <<L[i].tgt_drive, z \div SectsPerLp>> \in written
  <2>1. z \div SectsPerLp \in PagesIn(L[i])
    BY <1>5, <1>6, <1>12, PageOfSector
  <2>. QED BY <1>7, <1>12, <2>1
<1>13. \A i : D(L[i]) <=> IsWrite(L[i]) /\ ~ToParity(rg, L[i])
  BY DEF D, IsData, IsWrite
<1>14. ASSUME NEW x \in Sectors(c)
       PROVE  /\ <<Home(rg, x)[1], Home(rg, x)[2] \div SectsPerLp>> \in written
              /\ <<ParityDrive(rg, Row(rg, x)), Home(rg, x)[2] \div SectsPerLp>> \in written
  <2>. DEFINE z == Home(rg, x)[2]
  <2>1. PICK i \in 1..Len(L) : D(L[i]) /\ L[i].tgt_drive = Home(rg, x)[1] /\ z \in Sectors(L[i])
    BY <1>9, <1>14 DEF Touches
  <2>2. IsWrite(L[i]) /\ ~ToParity(rg, L[i])
    BY <1>13, <2>1
  <2>3. PICK j \in 1..Len(L) : StoresParity(rg, L[j]) /\ z \in Sectors(L[j])
    BY <1>11, <2>1, <2>2
  <2>4. x \in Nat
    BY <1>8, <1>14
  <2>5. z \div StripeSize = Row(rg, x)
    BY <1>3, <2>4, HomeInRow
  <2>6. L[j].lba \div StripeSize = z \div StripeSize
    <3>1. PICK row \in Nat : InRow(rg, L[j], row)
      BY <1>3 DEF Serves
    <3>. QED BY <2>3, <3>1, InRowSectors
  <2>7. L[j].tgt_drive = ParityDrive(rg, Row(rg, x)) /\ IsWrite(L[j])
    BY <2>3, <2>5, <2>6 DEF StoresParity, ToParity
  <2>. HIDE DEF z
  <2>8. <<L[i].tgt_drive, z \div SectsPerLp>> \in written
    BY <1>12, <2>1, <2>2
  <2>9. <<L[j].tgt_drive, z \div SectsPerLp>> \in written
    BY <1>12, <2>3, <2>7
  <2>. QED BY <2>1, <2>7, <2>8, <2>9 DEF z
<1>15. /\ \A w : w \in DataPages(c) <=>
            \E x \in Sectors(c) : w = <<Home(rg, x)[1], Home(rg, x)[2] \div SectsPerLp>>
       /\ \A w : w \in ParityPages(c) <=>
            \E x \in Sectors(c) : w = <<ParityDrive(rg, Row(rg, x)), Home(rg, x)[2] \div SectsPerLp>>
  <2>1. \A d, z, w : w \in PagesOf(d, {z}) <=> w = <<d, z \div SectsPerLp>>
    BY DEF PagesOf, Dev!HlbaToLpn
  <2>2. ASSUME NEW w
        PROVE  w \in DataPages(c) <=>
                 \E x \in Sectors(c) : w = <<Home(rg, x)[1], Home(rg, x)[2] \div SectsPerLp>>
    <3>1. w \in DataPages(c) <=>
            \E x \in Sectors(c) : w \in PagesOf(Home(rg, x)[1], {Home(rg, x)[2]})
      BY DEF DataPages, rg
    <3>2. \A x : w \in PagesOf(Home(rg, x)[1], {Home(rg, x)[2]}) <=>
                   w = <<Home(rg, x)[1], Home(rg, x)[2] \div SectsPerLp>>
      BY <2>1
    <3>. QED BY <3>1, <3>2, Zenon
  <2>3. ASSUME NEW w
        PROVE  w \in ParityPages(c) <=>
                 \E x \in Sectors(c) : w = <<ParityDrive(rg, Row(rg, x)), Home(rg, x)[2] \div SectsPerLp>>
    <3>1. w \in ParityPages(c) <=>
            \E x \in Sectors(c) : w \in PagesOf(ParityDrive(rg, Row(rg, x)), {Home(rg, x)[2]})
      BY DEF ParityPages, rg
    <3>2. \A x : w \in PagesOf(ParityDrive(rg, Row(rg, x)), {Home(rg, x)[2]}) <=>
                   w = <<ParityDrive(rg, Row(rg, x)), Home(rg, x)[2] \div SectsPerLp>>
      BY <2>1
    <3>. QED BY <3>1, <3>2, Zenon
  <2>. QED BY <2>2, <2>3, Zenon
<1>16. DataPages(c) \cup ParityPages(c) \subseteq written
  <2>1. ASSUME NEW w \in DataPages(c) PROVE w \in written
    <3>1. PICK x \in Sectors(c) : w = <<Home(rg, x)[1], Home(rg, x)[2] \div SectsPerLp>>
      BY <1>15, <2>1
    <3>. QED BY <1>14, <3>1
  <2>2. ASSUME NEW w \in ParityPages(c) PROVE w \in written
    <3>1. PICK x \in Sectors(c) : w = <<ParityDrive(rg, Row(rg, x)), Home(rg, x)[2] \div SectsPerLp>>
      BY <1>15, <2>2
    <3>. QED BY <1>14, <3>1
  <2>. QED BY <2>1, <2>2
<1>17. ASSUME NEW w \in written, w \notin DataPages(c)
       PROVE  \E x \in Sectors(c) :
                /\ w[1] = ParityDrive(rg, Row(rg, x))
                /\ Row(rg, x) = (w[2] * SectsPerLp) \div StripeSize
  <2>0. PICK i \in 1..Len(L) : WrittenFor(L[i], w)
    BY <1>17 DEF WrittenInv, L
  <2>1. PICK p \in PagesIn(L[i]) : w = <<L[i].tgt_drive, p>> /\ IsWrite(L[i])
    BY <2>0 DEF WrittenFor
  <2>. DEFINE z == p * SectsPerLp
  <2>2. z \in Sectors(L[i]) /\ z \div SectsPerLp = p
    BY <1>5, <1>6, <2>1, PageOfSector
  <2>. HIDE DEF z
  <2>3. ToParity(rg, L[i])
    <3>. SUFFICES ASSUME ~ToParity(rg, L[i]) PROVE FALSE
      OBVIOUS
    <3>1. PICK x \in Sectors(c) : Home(rg, x) = <<L[i].tgt_drive, z>>
      BY <1>9, <1>13, <2>1, <2>2
    <3>2. w = <<Home(rg, x)[1], Home(rg, x)[2] \div SectsPerLp>>
      BY <2>1, <2>2, <3>1
    <3>. QED BY <1>15, <1>17, <3>2
  <2>4. L[i].lba \div StripeSize = z \div StripeSize
    <3>1. PICK row \in Nat : InRow(rg, L[i], row)
      BY <1>3 DEF Serves
    <3>. QED BY <2>2, <3>1, InRowSectors
  <2>5. PICK x \in Sectors(c) : Row(rg, x) = L[i].lba \div StripeSize
    BY <1>3, <1>8 DEF Serves, InRows, end
  <2>. QED BY <2>1, <2>3, <2>4, <2>5 DEF ToParity, z
<1>. QED BY <1>16, <1>17 DEF rg

\* When a host write is done exactly the pages of its sectors and of the parity
\* over them have been written on the drives; a page of parity beside them is in
\* a row of the command.
THEOREM PagesReach == ArraySpec => []PagesReachDrives
<1>. DEFINE Inv == RaidInv /\ DevInv /\ WrittenInv
<1>1. ArrayInit => Inv
  BY RaidInit, DevInit, WrittenInit DEF ArrayInit
<1>2. Inv /\ [ArrayNext]_arrayVars => Inv'
  BY RaidStep, DevStep, WrittenNext
<1>3. Inv => PagesReachDrives
  BY InvPagesReach
<1>. QED BY <1>1, <1>2, <1>3, PTL DEF ArraySpec
=============================================================================
