------------------------------ MODULE CompProofs ------------------------------
(***************************************************************************)
(* The log blocks of the compressing controller, for every number and size *)
(* of blocks and pages and every compressed length.                        *)
(*                                                                         *)
(* lp_write gives the old place of a page back before it charges the new   *)
(* one.  When the page is the only one of the open block, the block counts *)
(* as free in between and is listed as free while it is open (run          *)
(* cc_lone_rewrite).  What is proved here holds up to that step: of every  *)
(* behaviour in which the open block stays off the free list.              *)
(***************************************************************************)
EXTENDS CompController, Numbers, SequenceTheorems, FiniteSetTheorems

-----------------------------------------------------------------------------
(* The pages of a host command *)

\* What the loop of extract_hcmd_to_lp works on: while sectors are left, they
\* are sectors of the host's pages.
Extraction ==
  {s \in [sect : Nat, len : Nat, list : Seq(LPCMD)] :
     s.len # 0 => s.sect + s.len <= LpNum * LpSize}

Extracted(c) == [sect |-> c.lba, len |-> c.sector_num, list |-> <<>>]
Extract(s) ==
  LET next_sect == (s.sect \div LpSize + 1) * LpSize
  IN  IF s.len = 0 THEN s
      ELSE [sect |-> next_sect,
            len  |-> IF s.sect \div LpSize = (s.sect + s.len) \div LpSize
                     THEN 0 ELSE s.len - (next_sect - s.sect),
            list |-> Append(s.list, LpCmd(s.sect, s.len))]
Extracts(c, f) ==
  [n \in 0..c.sector_num |-> IF n = 0 THEN Extracted(c) ELSE Extract(f[n - 1])]

LEMMA CompNumbers ==
  /\ LbNum \in Nat \ {0} /\ LbSize \in Nat \ {0} /\ LpNum \in Nat \ {0}
  /\ LpSize \in Nat \ {0} /\ AvgLen \in Nat \ {0} /\ AvgLen <= LpSize /\ LpSize <= LbSize
  /\ \A length \in Lengths : length \in Nat /\ length >= 1 /\ length <= LpSize
  /\ MaxSectors \in Nat /\ LpNum * LpSize \in Nat
<1>1. {LbNum, LbSize, LpNum, LpSize, AvgLen} \subseteq Nat \ {0} /\ LbSize % LpSize = 0
  BY CompAssumption
<1>2. LpSize <= LbSize
  <2>1. LbSize < LpSize => LbSize % LpSize = LbSize
    <3>1. ASSUME NEW a \in Nat, NEW b \in Nat, a < b PROVE a % b = a
      <4>1. a = b * 0 + a /\ a \in 0..(b - 1) /\ b \in Nat \ {0} /\ 0 \in Nat
        BY <3>1
      <4>. QED BY <4>1, DivModIs
    <3>. QED BY <1>1, <3>1
  <2>. QED BY <1>1, <2>1
<1>3. LpNum * LpSize \in Nat
  BY <1>1
<1>. QED BY <1>1, <1>2, <1>3, CompAssumption

\* A turn of the loop.
LEMMA ExtractStays ==
  ASSUME NEW s \in Extraction
  PROVE  Extract(s) \in Extraction
<1>1. CASE s.len = 0
  BY <1>1 DEF Extract
<1>2. CASE s.len # 0
  <2>. DEFINE z == LpSize
              a == s.sect
              b == s.sect + s.len
              p == a \div z
              q == b \div z
              nx == (p + 1) * z
  <2>1. z \in Nat \ {0} /\ LpNum \in Nat \ {0}
    BY CompNumbers
  <2>2. a \in Nat /\ b \in Nat /\ a < b /\ b <= LpNum * z /\ s.len \in Nat /\ s.list \in Seq(LPCMD)
        /\ s.len = b - a
    BY <1>2 DEF Extraction
  <2>. HIDE DEF a, b, z
  <2>3. p \in Nat /\ a % z \in 0..(z - 1) /\ a = z * p + (a % z)
    BY <2>1, <2>2, DivMod
  <2>4. q \in Nat /\ b % z \in 0..(z - 1) /\ b = z * q + (b % z)
    BY <2>1, <2>2, DivMod
  <2>. HIDE DEF p, q
  <2>5. PICK zp \in Nat : zp = z * p /\ nx = zp + z
    <3>1. z * p \in Nat /\ (p + 1) * z = z * p + z
      BY <2>1, <2>3
    <3>. QED BY <3>1
  <2>6. PICK zq \in Nat : zq = z * q
    BY <2>1, <2>4, Multiples
  <2>. HIDE DEF nx
  <2>14. PICK ra \in 0..(z - 1) : a = zp + ra
    BY <2>3, <2>5
  <2>15. PICK rb \in 0..(z - 1) : b = zq + rb
    BY <2>4, <2>6
  <2>7. p < LpNum
    <3>1. PICK top \in Nat : top = LpNum * z /\ top = z * LpNum
      <4>1. LpNum * z \in Nat /\ LpNum * z = z * LpNum
        BY <2>1
      <4>. QED BY <4>1
    <3>2. LpNum < p => top + z <= zp
      BY <2>1, <2>3, <2>5, <3>1, NextMultiple
    <3>3. LpNum = p => top = zp
      BY <2>5, <3>1
    <3>4. zp < top
      BY <2>1, <2>2, <2>5, <2>14, <3>1
    <3>. QED BY <2>1, <2>3, <3>1, <3>2, <3>3, <3>4
  <2>8. p # q => nx <= b
    <3>1. p < q => zp + z <= zq
      BY <2>1, <2>3, <2>4, <2>5, <2>6, NextMultiple
    <3>2. q < p => zq + z <= zp
      BY <2>1, <2>3, <2>4, <2>5, <2>6, NextMultiple
    <3>3. p \in Nat /\ q \in Nat /\ nx = zp + z
      BY <2>3, <2>4, <2>5
    <3>4. ~(q < p)
      BY <2>1, <2>2, <2>14, <2>15, <3>2
    <3>. QED BY <2>1, <2>15, <3>1, <3>3, <3>4
  <2>9. LpCmd(s.sect, s.len) \in LPCMD
    <3>1. p \in LP
      BY <2>1, <2>3, <2>7 DEF LP
    <3>2. LpCmd(s.sect, s.len).lpn = p /\ LpCmd(s.sect, s.len).rmw_needed \in BOOLEAN
      BY DEF LpCmd, p, a, z
    <3>. QED BY <3>1, <3>2 DEF LpCmd, LPCMD, p, a, z
  <2>10. Append(s.list, LpCmd(s.sect, s.len)) \in Seq(LPCMD)
    BY <2>2, <2>9
  <2>11. Extract(s) = [sect |-> nx, len |-> IF p = q THEN 0 ELSE s.len - (nx - a),
                       list |-> Append(s.list, LpCmd(s.sect, s.len))]
    BY <1>2 DEF Extract, nx, p, q, a, b, z
  <2>12. nx \in Nat /\ (p # q => s.len - (nx - a) \in Nat /\ nx + (s.len - (nx - a)) = b)
    BY <2>1, <2>2, <2>5, <2>8
  <2>13. LpNum * z \in Nat /\ z = LpSize
    BY <2>1 DEF z
  <2>. HIDE DEF nx, LpCmd
  <2>. QED BY <2>2, <2>10, <2>11, <2>12, <2>13 DEF Extraction
<1>. QED BY <1>1, <1>2

\* The list is one of pages.
LEMMA PagesAreTyped ==
  ASSUME NEW c \in HostCommands
  PROVE  extract_hcmd_to_lp(c) \in Seq(LPCMD)
<1>. DEFINE k == c.sector_num
            f == CHOOSE f : f = Extracts(c, f)
            G == [s \in Extraction |-> Extract(s)]
<1>1. extract_hcmd_to_lp(c) = f[k].list
  BY DEF extract_hcmd_to_lp, Extracts, Extract, Extracted
<1>2. k \in Nat /\ Extracted(c) \in Extraction
  <2>1. LpNum * LpSize \in Nat /\ MaxSectors \in Nat
    BY CompNumbers
  <2>2. c.lba \in Nat /\ c.sector_num \in Nat /\ c.lba + c.sector_num <= LpNum * LpSize
    BY <2>1 DEF HostCommands
  <2>. QED BY <2>2 DEF Extracted, Extraction
<1>3. G \in [Extraction -> Extraction]
  BY ExtractStays
<1>4. f = Extracts(c, f)
  <2>1. PICK g \in [0..k -> Extraction] :
          g = [n \in 0..k |-> IF n = 0 THEN Extracted(c) ELSE G[g[n - 1]]]
    <3>. HIDE DEF G, k
    <3>. QED BY <1>2, <1>3, Iteration
  <2>2. ASSUME NEW n \in 0..k
        PROVE  (IF n = 0 THEN Extracted(c) ELSE G[g[n - 1]])
                 = IF n = 0 THEN Extracted(c) ELSE Extract(g[n - 1])
    <3>1. n # 0 => n - 1 \in 0..k
      BY <1>2, <2>2
    <3>. QED BY <2>1, <3>1
  <2>3. [n \in 0..k |-> IF n = 0 THEN Extracted(c) ELSE G[g[n - 1]]] = Extracts(c, g)
    <3>. HIDE DEF G
    <3>. QED BY <2>2 DEF Extracts
  <2>4. g = Extracts(c, g)
    BY <2>1, <2>3
  <2>. QED BY <2>4
<1>. HIDE DEF f
<1>5. \A n \in 0..k : f[n] \in Extraction
  <2>. DEFINE Bad == {n \in 0..k : f[n] \notin Extraction}
  <2>. SUFFICES ASSUME Bad # {} PROVE FALSE
    OBVIOUS
  <2>1. PICK n \in Bad : \A m \in Bad : n <= m
    <3>. HIDE DEF Bad
    <3>1. Bad \subseteq Nat
      BY <1>2 DEF Bad
    <3>. QED BY <3>1, LeastNatural
  <2>2. n \in 0..k /\ f[n] = IF n = 0 THEN Extracted(c) ELSE Extract(f[n - 1])
    <3>1. f[n] = Extracts(c, f)[n]
      BY <1>4
    <3>. HIDE <1>4
    <3>. QED BY <2>1, <3>1 DEF Extracts
  <2>3. n # 0
    BY <1>2, <2>1, <2>2
  <2>4. f[n - 1] \in Extraction
    BY <1>2, <2>1, <2>2, <2>3
  <2>. QED BY <2>1, <2>2, <2>3, <2>4, ExtractStays
<1>. QED BY <1>1, <1>2, <1>5 DEF Extraction

-----------------------------------------------------------------------------
(* What lp_write does *)

\* The blocks as lp_write works on them, room not yet checked.
LogBlock == [state : {"LB_FREE", "LB_OPEN", "LB_CLOSE"}, free_sector_num : Int, rev_map : Seq(REVMAP)]

\* The block a page of a length goes to and where, and the free blocks left.
Tgt(length) == IF is_buf_full(length) THEN Head(free_list) ELSE buf.tgt_lgblock
Cur(length) == IF is_buf_full(length) THEN 0 ELSE buf.cur_sector
Rest(length) == IF is_buf_full(length) THEN Tail(free_list) ELSE free_list

\* A block before anything is written to it.
Opened == [state |-> "LB_OPEN", free_sector_num |-> LbSize, rev_map |-> <<>>]
Before0(length, lb) ==
  IF is_buf_full(length) /\ lb = Tgt(length) THEN Opened
  ELSE IF is_buf_full(length) /\ lb = buf.tgt_lgblock THEN [lbt[lb] EXCEPT !.state = "LB_CLOSE"]
  ELSE lbt[lb]

\* The room of the old block when the page is taken out of it.
Freed(lp, length) == Before0(length, lpt[lp].lb_id).free_sector_num + lpt[lp].len
Entry(lp, length) == [ofs |-> Cur(length), lpn |-> lp]

WritesPage(lp, length) ==
  /\ is_buf_full(length) => free_list # <<>>
  /\ lpt' = [lpt EXCEPT ![lp] = [lb_id |-> Tgt(length), ofs |-> Cur(length), len |-> length]]
  /\ buf' = [tgt_lgblock |-> Tgt(length), cur_sector |-> Cur(length) + length]
  /\ Freed(lp, length) <= LbSize
  /\ free_list' = IF Freed(lp, length) = LbSize THEN Append(Rest(length), lpt[lp].lb_id)
                                                ELSE Rest(length)
  /\ lbt' \in [LB -> LogBlock]
  /\ \A lb \in LB :
       /\ lbt'[lb].state = IF lb = lpt[lp].lb_id /\ Freed(lp, length) = LbSize THEN "LB_FREE"
                           ELSE Before0(length, lb).state
       /\ lbt'[lb].free_sector_num =
            (IF lb = lpt[lp].lb_id THEN Freed(lp, length) ELSE Before0(length, lb).free_sector_num)
              - (IF lb = Tgt(length) THEN length ELSE 0)
       /\ lbt'[lb].rev_map =
            IF lb = Tgt(length) THEN Append(Before0(length, lb).rev_map, Entry(lp, length))
                                ELSE Before0(length, lb).rev_map
  /\ destaged' = (destaged \ {Tgt(length)})
                   \cup (IF is_buf_full(length) THEN {buf.tgt_lgblock} ELSE {})
  /\ pending_cmd' = pending_cmd \o (IF is_buf_full(length) THEN <<buf.tgt_lgblock>> ELSE <<>>)

\* The locals of lp_write.
Work == [lbt : [LB -> LogBlock], free_list : Seq(LB),
         buf : [tgt_lgblock : LB, cur_sector : Nat], destage_tgt : Seq(LB)]

LEMMA OpenNextDoes ==
  ASSUME NEW s \in Work, s.free_list # <<>>, Head(s.free_list) # s.buf.tgt_lgblock
  PROVE  /\ OpenNext(s) \in Work
         /\ OpenNext(s).free_list = Tail(s.free_list)
         /\ OpenNext(s).buf = [tgt_lgblock |-> Head(s.free_list), cur_sector |-> 0]
         /\ OpenNext(s).destage_tgt = Append(s.destage_tgt, s.buf.tgt_lgblock)
         /\ \A lb \in LB : OpenNext(s).lbt[lb] =
              IF lb = Head(s.free_list) THEN Opened
              ELSE IF lb = s.buf.tgt_lgblock THEN [s.lbt[lb] EXCEPT !.state = "LB_CLOSE"]
              ELSE s.lbt[lb]
<1>. DEFINE hd == Head(s.free_list)
            tg == s.buf.tgt_lgblock
            u == OpenNext(s)
            L1 == [s.lbt EXCEPT ![tg] = [s.lbt[tg] EXCEPT !.state = "LB_CLOSE"]]
            L2 == [L1 EXCEPT ![hd] = Opened]
<1>1. /\ s.lbt \in [LB -> LogBlock] /\ s.free_list \in Seq(LB) /\ tg \in LB /\ hd \in LB
      /\ Tail(s.free_list) \in Seq(LB) /\ s.destage_tgt \in Seq(LB)
  BY DEF Work
<1>2. u = [s EXCEPT !.lbt = L2, !.free_list = Tail(s.free_list),
                     !.buf = [tgt_lgblock |-> hd, cur_sector |-> 0],
                     !.destage_tgt = Append(s.destage_tgt, tg)]
  BY DEF OpenNext, Work, Opened
<1>3. Opened \in LogBlock /\ [s.lbt[tg] EXCEPT !.state = "LB_CLOSE"] \in LogBlock
  <2>1. s.lbt[tg] \in LogBlock
    BY <1>1
  <2>2. LbSize \in Int
    BY CompNumbers
  <2>. QED BY <2>1, <2>2 DEF LogBlock, Opened
<1>. HIDE DEF hd, tg
<1>4. L2 \in [LB -> LogBlock]
  BY <1>1, <1>3
<1>5. \A lb \in LB : L2[lb] = IF lb = hd THEN Opened
                              ELSE IF lb = tg THEN [s.lbt[lb] EXCEPT !.state = "LB_CLOSE"]
                              ELSE s.lbt[lb]
  BY <1>1
<1>6. Append(s.destage_tgt, tg) \in Seq(LB)
  BY <1>1
<1>. HIDE DEF L1, L2, u
<1>7. /\ u \in Work /\ u.lbt = L2 /\ u.free_list = Tail(s.free_list)
      /\ u.buf = [tgt_lgblock |-> hd, cur_sector |-> 0] /\ u.destage_tgt = Append(s.destage_tgt, tg)
  BY <1>1, <1>2, <1>4, <1>6 DEF Work
<1>. QED BY <1>5, <1>7 DEF hd, tg, u

LEMMA AddRevMapDoes ==
  ASSUME NEW s \in Work, NEW lp \in LP, s.buf.cur_sector < LbSize
  PROVE  /\ AddRevMap(s, lp) \in Work
         /\ AddRevMap(s, lp).free_list = s.free_list /\ AddRevMap(s, lp).buf = s.buf
         /\ AddRevMap(s, lp).destage_tgt = s.destage_tgt
         /\ \A lb \in LB :
              /\ AddRevMap(s, lp).lbt[lb].state = s.lbt[lb].state
              /\ AddRevMap(s, lp).lbt[lb].free_sector_num = s.lbt[lb].free_sector_num
              /\ AddRevMap(s, lp).lbt[lb].rev_map =
                   IF lb = s.buf.tgt_lgblock
                   THEN Append(s.lbt[lb].rev_map, [ofs |-> s.buf.cur_sector, lpn |-> lp])
                   ELSE s.lbt[lb].rev_map
<1>. DEFINE tg == s.buf.tgt_lgblock
            e == [ofs |-> s.buf.cur_sector, lpn |-> lp]
            B == [s.lbt[tg] EXCEPT !.rev_map = Append(s.lbt[tg].rev_map, e)]
            L == [s.lbt EXCEPT ![tg] = B]
<1>1. s.lbt \in [LB -> LogBlock] /\ tg \in LB /\ s.buf.cur_sector \in Nat
  BY DEF Work
<1>2. AddRevMap(s, lp) = [s EXCEPT !.lbt = L]
  BY DEF AddRevMap
<1>3. e \in REVMAP
  BY <1>1, CompNumbers DEF REVMAP
<1>. HIDE DEF e
<1>4. B \in LogBlock
  <2>1. s.lbt[tg] \in LogBlock
    BY <1>1
  <2>2. Append(s.lbt[tg].rev_map, e) \in Seq(REVMAP)
    BY <1>3, <2>1 DEF LogBlock
  <2>. QED BY <2>1, <2>2 DEF LogBlock
<1>8. /\ B.state = s.lbt[tg].state /\ B.free_sector_num = s.lbt[tg].free_sector_num
      /\ B.rev_map = Append(s.lbt[tg].rev_map, e)
  <2>1. s.lbt[tg] \in LogBlock
    BY <1>1
  <2>. QED BY <2>1 DEF LogBlock
<1>. HIDE DEF B
<1>5. L \in [LB -> LogBlock] /\ \A lb \in LB : L[lb] = IF lb = tg THEN B ELSE s.lbt[lb]
  BY <1>1, <1>4
<1>. HIDE DEF L
<1>6. AddRevMap(s, lp) \in Work
  BY <1>2, <1>5 DEF Work
<1>7. /\ AddRevMap(s, lp).free_list = s.free_list /\ AddRevMap(s, lp).buf = s.buf
      /\ AddRevMap(s, lp).destage_tgt = s.destage_tgt /\ AddRevMap(s, lp).lbt = L
  BY <1>2 DEF Work
<1>. QED BY <1>5, <1>6, <1>7, <1>8 DEF e

LEMMA InvalidateDoes ==
  ASSUME NEW s \in Work, NEW old \in LPMAP
  PROVE  LET freed == s.lbt[old.lb_id].free_sector_num + old.len
             t == Invalidate(s, old)
         IN  /\ t \in Work /\ t.buf = s.buf /\ t.destage_tgt = s.destage_tgt
             /\ t.free_list = IF freed = LbSize THEN Append(s.free_list, old.lb_id) ELSE s.free_list
             /\ \A lb \in LB :
                  /\ t.lbt[lb].state = IF lb = old.lb_id /\ freed = LbSize THEN "LB_FREE"
                                       ELSE s.lbt[lb].state
                  /\ t.lbt[lb].free_sector_num =
                       IF lb = old.lb_id THEN freed ELSE s.lbt[lb].free_sector_num
                  /\ t.lbt[lb].rev_map = s.lbt[lb].rev_map
<1>. DEFINE o == old.lb_id
            freed == s.lbt[o].free_sector_num + old.len
            t == Invalidate(s, old)
            B == [state |-> IF freed = LbSize THEN "LB_FREE" ELSE s.lbt[o].state,
                  free_sector_num |-> freed, rev_map |-> s.lbt[o].rev_map]
            L == [s.lbt EXCEPT ![o] = B]
<1>1. s.lbt \in [LB -> LogBlock] /\ o \in LB /\ old.len \in Nat /\ s.free_list \in Seq(LB)
  BY CompNumbers DEF Work, LPMAP
<1>2. s.lbt[o] \in LogBlock
  BY <1>1
<1>3. t = [s EXCEPT !.lbt = L, !.free_list = IF freed = LbSize THEN Append(s.free_list, o) ELSE s.free_list]
  <2>1. [s.lbt[o] EXCEPT !.free_sector_num = freed]
          = [state |-> s.lbt[o].state, free_sector_num |-> freed, rev_map |-> s.lbt[o].rev_map]
    BY <1>2 DEF LogBlock
  <2>2. [[s.lbt[o] EXCEPT !.free_sector_num = freed] EXCEPT !.state = "LB_FREE"]
          = [state |-> "LB_FREE", free_sector_num |-> freed, rev_map |-> s.lbt[o].rev_map]
    <3>1. s.lbt[o].state \in {"LB_FREE", "LB_OPEN", "LB_CLOSE"} /\ freed \in Int
          /\ s.lbt[o].rev_map \in Seq(REVMAP)
      BY <1>1, <1>2 DEF LogBlock
    <3>2. ASSUME NEW x, NEW y, NEW z,
                 [s.lbt[o] EXCEPT !.free_sector_num = freed]
                   = [state |-> x, free_sector_num |-> y, rev_map |-> z]
          PROVE  [[s.lbt[o] EXCEPT !.free_sector_num = freed] EXCEPT !.state = "LB_FREE"]
                   = [state |-> "LB_FREE", free_sector_num |-> y, rev_map |-> z]
      <4>. DEFINE R == [s.lbt[o] EXCEPT !.free_sector_num = freed]
      <4>1. R = [state |-> x, free_sector_num |-> y, rev_map |-> z]
        BY <3>2
      <4>. HIDE DEF R
      <4>2. [R EXCEPT !.state = "LB_FREE"] = [state |-> "LB_FREE", free_sector_num |-> y, rev_map |-> z]
        BY <4>1
      <4>. QED BY <4>2 DEF R
    <3>. QED BY <2>1, <3>2
  <2>3. CASE freed = LbSize
    BY <1>1, <2>2, <2>3 DEF Invalidate, Work
  <2>4. CASE freed # LbSize
    BY <1>1, <2>1, <2>4 DEF Invalidate, Work
  <2>. QED BY <2>3, <2>4
<1>4. B \in LogBlock
  BY <1>1, <1>2 DEF LogBlock
<1>. HIDE DEF B, freed, o
<1>5. L \in [LB -> LogBlock] /\ \A lb \in LB : L[lb] = IF lb = o THEN B ELSE s.lbt[lb]
  BY <1>1, <1>4
<1>. HIDE DEF L
<1>6. Append(s.free_list, o) \in Seq(LB)
  BY <1>1
<1>. HIDE DEF t
<1>7. t \in Work /\ t.buf = s.buf /\ t.destage_tgt = s.destage_tgt /\ t.lbt = L
      /\ t.free_list = IF freed = LbSize THEN Append(s.free_list, o) ELSE s.free_list
  BY <1>1, <1>3, <1>5, <1>6 DEF Work
<1>. QED BY <1>5, <1>7 DEF B, t, freed, o

LEMMA ChargeDoes ==
  ASSUME NEW s \in Work, NEW length \in Nat
  PROVE  LET t == Charge(s, length)
         IN  /\ t \in Work /\ t.destage_tgt = s.destage_tgt /\ t.free_list = s.free_list
             /\ t.buf = [tgt_lgblock |-> s.buf.tgt_lgblock, cur_sector |-> s.buf.cur_sector + length]
             /\ \A lb \in LB :
                  /\ t.lbt[lb].state = s.lbt[lb].state /\ t.lbt[lb].rev_map = s.lbt[lb].rev_map
                  /\ t.lbt[lb].free_sector_num =
                       s.lbt[lb].free_sector_num - (IF lb = s.buf.tgt_lgblock THEN length ELSE 0)
<1>. DEFINE tg == s.buf.tgt_lgblock
            t == Charge(s, length)
            B == [s.lbt[tg] EXCEPT !.free_sector_num = s.lbt[tg].free_sector_num - length]
            L == [s.lbt EXCEPT ![tg] = B]
<1>1. s.lbt \in [LB -> LogBlock] /\ tg \in LB /\ s.buf \in [tgt_lgblock : LB, cur_sector : Nat]
  BY DEF Work
<1>2. t = [s EXCEPT !.buf = [s.buf EXCEPT !.cur_sector = s.buf.cur_sector + length], !.lbt = L]
  BY <1>1 DEF Charge, Work
<1>6. [s.buf EXCEPT !.cur_sector = s.buf.cur_sector + length]
        = [tgt_lgblock |-> tg, cur_sector |-> s.buf.cur_sector + length]
  BY <1>1
<1>7. [tgt_lgblock |-> tg, cur_sector |-> s.buf.cur_sector + length] \in [tgt_lgblock : LB, cur_sector : Nat]
  BY <1>1
<1>3. B \in LogBlock
  <2>1. s.lbt[tg] \in LogBlock
    BY <1>1
  <2>. QED BY <2>1 DEF LogBlock
<1>8. /\ B.state = s.lbt[tg].state /\ B.rev_map = s.lbt[tg].rev_map
      /\ B.free_sector_num = s.lbt[tg].free_sector_num - length
  <2>1. s.lbt[tg] \in LogBlock
    BY <1>1
  <2>. QED BY <2>1 DEF LogBlock
<1>9. \A lb \in LB : s.lbt[lb].free_sector_num \in Int
  BY <1>1 DEF LogBlock
<1>. HIDE DEF B
<1>4. L \in [LB -> LogBlock] /\ \A lb \in LB : L[lb] = IF lb = tg THEN B ELSE s.lbt[lb]
  BY <1>1, <1>3
<1>. HIDE DEF L, t
<1>5. /\ t \in Work /\ t.destage_tgt = s.destage_tgt /\ t.free_list = s.free_list /\ t.lbt = L
      /\ t.buf = [tgt_lgblock |-> tg, cur_sector |-> s.buf.cur_sector + length]
  BY <1>1, <1>2, <1>4, <1>6, <1>7 DEF Work
<1>10. \A lb \in LB : lb # tg => s.lbt[lb].free_sector_num - 0 = s.lbt[lb].free_sector_num
  BY <1>9
<1>. QED BY <1>4, <1>5, <1>8, <1>10 DEF t

LEMMA PlacedDoes ==
  ASSUME CompTypeOK, OpenBlockKept, NEW lp \in LP, NEW length \in Lengths, ~NoFreeBlock(length)
  PROVE  LET s == Placed(lp, length)
         IN  /\ s \in Work /\ s.free_list = Rest(length)
             /\ s.buf = [tgt_lgblock |-> Tgt(length), cur_sector |-> Cur(length)]
             /\ s.destage_tgt = IF is_buf_full(length) THEN <<buf.tgt_lgblock>> ELSE <<>>
             /\ \A lb \in LB :
                  /\ s.lbt[lb].state = Before0(length, lb).state
                  /\ s.lbt[lb].free_sector_num = Before0(length, lb).free_sector_num
                  /\ s.lbt[lb].rev_map =
                       IF lb = Tgt(length) THEN Append(Before0(length, lb).rev_map, Entry(lp, length))
                                           ELSE Before0(length, lb).rev_map
                  /\ Before0(length, lb) \in LogBlock
<1>. DEFINE full == is_buf_full(length)
            tg == Tgt(length)
            cu == Cur(length)
            b0(lb) == Before0(length, lb)
            s1 == IF full THEN OpenNext(Blocks) ELSE Blocks
            s2 == AddRevMap(s1, lp)
<1>1. /\ Blocks \in Work /\ Blocks.lbt = lbt /\ Blocks.free_list = free_list /\ Blocks.buf = buf
      /\ Blocks.destage_tgt = <<>>
  <2>1. \A lb \in LB : lbt[lb] \in LogBlock
    BY CompNumbers DEF CompTypeOK, LOGBLOCK, LogBlock
  <2>2. lbt \in [LB -> LogBlock]
    BY <2>1 DEF CompTypeOK
  <2>3. buf \in [tgt_lgblock : LB, cur_sector : Nat]
    BY CompNumbers DEF CompTypeOK
  <2>4. <<>> \in Seq(LB)
    OBVIOUS
  <2>. QED BY <2>2, <2>3, <2>4 DEF Blocks, Work, CompTypeOK
<1>2. /\ length \in Nat /\ length >= 1 /\ length <= LbSize /\ LbSize \in Nat
      /\ buf.cur_sector \in Nat
  BY CompNumbers DEF CompTypeOK
<1>3. full => /\ free_list # <<>> /\ Head(free_list) \in LB /\ Head(free_list) # buf.tgt_lgblock
  <2>1. full => free_list # <<>>
    BY DEF NoFreeBlock
  <2>2. free_list # <<>> => Head(free_list) \in LB /\ Head(free_list) \in ToSet(free_list)
    BY DEF CompTypeOK, ToSet
  <2>. QED BY <2>1, <2>2 DEF OpenBlockKept
<1>4. cu < LbSize /\ cu \in Nat
  BY <1>2 DEF Cur, is_buf_full
<1>5. /\ s1 \in Work /\ s1.free_list = Rest(length)
      /\ s1.buf = [tgt_lgblock |-> tg, cur_sector |-> cu]
      /\ s1.destage_tgt = IF full THEN <<buf.tgt_lgblock>> ELSE <<>>
      /\ \A lb \in LB : s1.lbt[lb] = b0(lb)
  <2>1. CASE full
    <3>1. Append(<<>>, buf.tgt_lgblock) = <<buf.tgt_lgblock>>
      OBVIOUS
    <3>2. s1 = OpenNext(Blocks)
      BY <2>1
    <3>. HIDE DEF s1
    <3>. QED BY <1>1, <1>3, <2>1, <3>1, <3>2, OpenNextDoes DEF Before0, Tgt, Cur, Rest
  <2>2. CASE ~full
    <3>1. buf = [tgt_lgblock |-> buf.tgt_lgblock, cur_sector |-> buf.cur_sector]
      BY DEF CompTypeOK
    <3>. QED BY <1>1, <2>2, <3>1 DEF Before0, Tgt, Cur, Rest
  <2>. QED BY <2>1, <2>2
<1>. HIDE DEF s1, b0, tg, cu
<1>6. /\ s2 \in Work /\ s2.free_list = Rest(length) /\ s2.buf = [tgt_lgblock |-> tg, cur_sector |-> cu]
      /\ s2.destage_tgt = IF full THEN <<buf.tgt_lgblock>> ELSE <<>>
      /\ \A lb \in LB :
           /\ s2.lbt[lb].state = b0(lb).state /\ s2.lbt[lb].free_sector_num = b0(lb).free_sector_num
           /\ s2.lbt[lb].rev_map =
                IF lb = tg THEN Append(b0(lb).rev_map, [ofs |-> cu, lpn |-> lp]) ELSE b0(lb).rev_map
  <2>1. s1.buf.cur_sector = cu /\ s1.buf.tgt_lgblock = tg
    BY <1>5
  <2>2. /\ s2 \in Work /\ s2.free_list = s1.free_list /\ s2.buf = s1.buf
        /\ s2.destage_tgt = s1.destage_tgt
        /\ \A lb \in LB :
             /\ s2.lbt[lb].state = s1.lbt[lb].state
             /\ s2.lbt[lb].free_sector_num = s1.lbt[lb].free_sector_num
             /\ s2.lbt[lb].rev_map =
                  IF lb = s1.buf.tgt_lgblock
                  THEN Append(s1.lbt[lb].rev_map, [ofs |-> s1.buf.cur_sector, lpn |-> lp])
                  ELSE s1.lbt[lb].rev_map
    BY <1>4, <1>5, <2>1, AddRevMapDoes
  <2>. HIDE DEF s2
  <2>. QED BY <1>5, <2>1, <2>2
<1>. HIDE DEF s2
<1>7. \A lb \in LB : b0(lb) \in LogBlock
  BY <1>5 DEF Work
<1>8. Placed(lp, length) = s2
  BY DEF Placed, s1, s2
<1>. QED BY <1>6, <1>7, <1>8, Zenon DEF b0, tg, cu, Entry

LEMMA WriteDoes ==
  ASSUME CompTypeOK, OpenBlockKept, NEW lp \in LP, NEW length \in Lengths, lp_write(lp, length)
  PROVE  WritesPage(lp, length)
<1>. DEFINE full == is_buf_full(length)
            tg == Tgt(length)
            cu == Cur(length)
            old == lpt[lp]
            o == old.lb_id
            b0(lb) == Before0(length, lb)
            s2 == Placed(lp, length)
            s3 == Invalidate(s2, old)
            s4 == Charge(s3, length)
            e == Entry(lp, length)
<1>2. /\ old \in LPMAP /\ o \in LB /\ length \in Nat /\ LbSize \in Nat
  BY CompNumbers DEF CompTypeOK, LPMAP
<1>3. full => free_list # <<>>
  BY DEF lp_write, NoFreeBlock
<1>6. /\ s2 \in Work /\ s2.free_list = Rest(length) /\ s2.buf = [tgt_lgblock |-> tg, cur_sector |-> cu]
      /\ s2.destage_tgt = IF full THEN <<buf.tgt_lgblock>> ELSE <<>>
      /\ \A lb \in LB :
           /\ s2.lbt[lb].state = b0(lb).state /\ s2.lbt[lb].free_sector_num = b0(lb).free_sector_num
           /\ s2.lbt[lb].rev_map = IF lb = tg THEN Append(b0(lb).rev_map, e) ELSE b0(lb).rev_map
           /\ b0(lb) \in LogBlock
  <2>1. ~NoFreeBlock(length)
    BY DEF lp_write
  <2>. QED BY <2>1, PlacedDoes, Zenon
<1>. HIDE DEF b0, tg, cu, old, o, s2, e
<1>7. /\ b0(o) \in LogBlock /\ \A lb \in LB : b0(lb) \in LogBlock
  BY <1>2, <1>6
<1>8. s2.lbt[o].free_sector_num + old.len = Freed(lp, length)
  <2>1. s2.lbt[o].free_sector_num = b0(o).free_sector_num
    BY <1>2, <1>6
  <2>. QED BY <2>1, Zenon DEF Freed, b0, old, o
<1>. DEFINE freed == Freed(lp, length)
<1>9. /\ s3 \in Work /\ s3.buf = [tgt_lgblock |-> tg, cur_sector |-> cu]
      /\ s3.destage_tgt = IF full THEN <<buf.tgt_lgblock>> ELSE <<>>
      /\ s3.free_list = IF freed = LbSize THEN Append(Rest(length), o) ELSE Rest(length)
      /\ \A lb \in LB :
           /\ s3.lbt[lb].state = IF lb = o /\ freed = LbSize THEN "LB_FREE" ELSE s2.lbt[lb].state
           /\ s3.lbt[lb].free_sector_num = IF lb = o THEN freed ELSE s2.lbt[lb].free_sector_num
           /\ s3.lbt[lb].rev_map = s2.lbt[lb].rev_map
  <2>. HIDE DEF freed
  <2>. QED BY <1>2, <1>6, <1>8, InvalidateDoes DEF freed, o
<1>. HIDE DEF s3
<1>10. /\ s4 \in Work /\ s4.buf = [tgt_lgblock |-> tg, cur_sector |-> cu + length]
       /\ s4.destage_tgt = IF full THEN <<buf.tgt_lgblock>> ELSE <<>>
       /\ s4.free_list = IF freed = LbSize THEN Append(Rest(length), o) ELSE Rest(length)
       /\ \A lb \in LB :
            /\ s4.lbt[lb].state = s3.lbt[lb].state /\ s4.lbt[lb].rev_map = s3.lbt[lb].rev_map
            /\ s4.lbt[lb].free_sector_num =
                 s3.lbt[lb].free_sector_num - (IF lb = tg THEN length ELSE 0)
  <2>. HIDE DEF freed
  <2>. QED BY <1>2, <1>9, ChargeDoes
<1>. HIDE DEF s4
<1>11. /\ lpt' = [lpt EXCEPT ![lp] = [lb_id |-> tg, ofs |-> cu, len |-> length]]
       /\ lbt' = s4.lbt /\ free_list' = s4.free_list /\ buf' = s4.buf
       /\ pending_cmd' = pending_cmd \o s4.destage_tgt
       /\ destaged' = (destaged \ {s4.buf.tgt_lgblock}) \cup ToSet(s4.destage_tgt)
  <2>1. Placed(lp, length) = s2
    BY DEF s2
  <2>2. Charge(Invalidate(Placed(lp, length), lpt[lp]), length) = s4
    BY <2>1 DEF s3, s4, old
  <2>3. /\ lpt' = [lpt EXCEPT ![lp] = [lb_id |-> Placed(lp, length).buf.tgt_lgblock,
                                       ofs |-> Placed(lp, length).buf.cur_sector, len |-> length]]
        /\ LET t == Charge(Invalidate(Placed(lp, length), lpt[lp]), length)
           IN  /\ lbt' = t.lbt /\ free_list' = t.free_list /\ buf' = t.buf
               /\ pending_cmd' = pending_cmd \o t.destage_tgt
               /\ destaged' = (destaged \ {t.buf.tgt_lgblock}) \cup ToSet(t.destage_tgt)
    BY Zenon DEF lp_write
  <2>4. s2.buf.tgt_lgblock = tg /\ s2.buf.cur_sector = cu
    BY <1>6
  <2>5. lpt' = [lpt EXCEPT ![lp] = [lb_id |-> tg, ofs |-> cu, len |-> length]]
    BY <2>1, <2>3, <2>4, Zenon
  <2>. QED BY <2>2, <2>3, <2>5, Zenon
<1>12. freed <= LbSize
  <2>1. Placed(lp, length).lbt[lpt[lp].lb_id].free_sector_num + lpt[lp].len = freed
    BY <1>8 DEF s2, o, old
  <2>2. freed \in Int
    <3>1. b0(o).free_sector_num \in Int /\ old.len \in Int
      BY <1>2, <1>7, CompNumbers DEF LogBlock, LPMAP
    <3>. QED BY <3>1 DEF Freed, b0, o, old
  <2>3. ~(freed > LbSize)
    BY <2>1 DEF lp_write, SizeViolation
  <2>. HIDE DEF freed
  <2>. QED BY <1>2, <2>2, <2>3
<1>13. destaged' = (destaged \ {tg}) \cup (IF full THEN {buf.tgt_lgblock} ELSE {})
  <2>1. ToSet(<<buf.tgt_lgblock>>) = {buf.tgt_lgblock} /\ ToSet(<<>>) = {}
    BY DEF ToSet
  <2>. QED BY <1>10, <1>11, <2>1
<1>14. /\ lbt' \in [LB -> LogBlock]
       /\ \A lb \in LB :
            /\ lbt'[lb].state = IF lb = o /\ freed = LbSize THEN "LB_FREE" ELSE b0(lb).state
            /\ lbt'[lb].free_sector_num = (IF lb = o THEN freed ELSE b0(lb).free_sector_num)
                                            - (IF lb = tg THEN length ELSE 0)
            /\ lbt'[lb].rev_map = IF lb = tg THEN Append(b0(lb).rev_map, e)
                                             ELSE b0(lb).rev_map
  <2>. HIDE DEF freed
  <2>1. s4.lbt \in [LB -> LogBlock]
    BY <1>10 DEF Work
  <2>2. ASSUME NEW lb \in LB
        PROVE  /\ s4.lbt[lb].state = IF lb = o /\ freed = LbSize THEN "LB_FREE" ELSE b0(lb).state
               /\ s4.lbt[lb].free_sector_num = (IF lb = o THEN freed ELSE b0(lb).free_sector_num)
                                                 - (IF lb = tg THEN length ELSE 0)
               /\ s4.lbt[lb].rev_map = IF lb = tg THEN Append(b0(lb).rev_map, e)
                                                  ELSE b0(lb).rev_map
    BY <1>6, <1>9, <1>10
  <2>. QED BY <1>11, <2>1, <2>2, Zenon
<1>15. free_list' = IF freed = LbSize THEN Append(Rest(length), o) ELSE Rest(length)
  BY <1>10, <1>11
<1>16. buf' = [tgt_lgblock |-> tg, cur_sector |-> cu + length]
  BY <1>10, <1>11
<1>17. pending_cmd' = pending_cmd \o (IF full THEN <<buf.tgt_lgblock>> ELSE <<>>)
  BY <1>10, <1>11
<1>18. lpt' = [lpt EXCEPT ![lp] = [lb_id |-> tg, ofs |-> cu, len |-> length]]
  BY <1>11
<1>. HIDE DEF freed
<1>. QED
  BY <1>3, <1>12, <1>13, <1>14, <1>15, <1>16, <1>17, <1>18, Zenon
  DEF WritesPage, e, freed, b0, tg, cu, o, old
-----------------------------------------------------------------------------
(* The invariant *)

\* The state of a block that is not open says whether it is listed as free; the
\* open block is not closed, and holds a page.
StatesMatch ==
  \A lb \in LB \ {buf.tgt_lgblock} :
    lbt[lb].state = IF lb \in ToSet(free_list) THEN "LB_FREE" ELSE "LB_CLOSE"
OpenState == lbt[buf.tgt_lgblock].state # "LB_CLOSE"
OpenNotEmpty == LiveIn(buf.tgt_lgblock) # {}

\* While do_gc is at a block, the entries of the pages still in it are ahead.
PagesAhead ==
  \A lp \in LiveIn(victim) :
    \E i \in DOMAIN lbt[victim].rev_map :
      i > rev_at /\ lbt[victim].rev_map[i] = [ofs |-> lpt[lp].ofs, lpn |-> lp]
GcInv ==
  pc = "gc" => /\ victim # buf.tgt_lgblock /\ rev_at <= Len(lbt[victim].rev_map)
               /\ PagesAhead

StoreInv ==
  /\ FreeSectorsExact /\ FreeListExact /\ LiveExtentsDisjoint
  /\ RevMapCovers /\ ClosedIsDestaged
  /\ StatesMatch /\ OpenState /\ OpenNotEmpty
CompInv == CompTypeOK /\ StoreInv /\ GcInv

-----------------------------------------------------------------------------
(* Writing a page keeps it *)

\* What the write is made in.
Writing(lp, length) ==
  /\ CompTypeOK /\ StoreInv /\ OpenBlockKept /\ OpenBlockKept'
  /\ lp \in LP /\ length \in Lengths /\ WritesPage(lp, length)

LEMMA Before0Is ==
  ASSUME CompTypeOK, NEW length, NEW lb \in LB
  PROVE  LET b == Before0(length, lb)
             opened == is_buf_full(length) /\ lb = Tgt(length)
         IN  /\ b.state = IF opened THEN "LB_OPEN"
                          ELSE IF is_buf_full(length) /\ lb = buf.tgt_lgblock THEN "LB_CLOSE"
                          ELSE lbt[lb].state
             /\ b.free_sector_num = IF opened THEN LbSize ELSE lbt[lb].free_sector_num
             /\ b.rev_map = IF opened THEN <<>> ELSE lbt[lb].rev_map
<1>1. lbt[lb] \in LOGBLOCK
  BY DEF CompTypeOK
<1>2. LET c == [lbt[lb] EXCEPT !.state = "LB_CLOSE"]
      IN  /\ c.state = "LB_CLOSE" /\ c.free_sector_num = lbt[lb].free_sector_num
          /\ c.rev_map = lbt[lb].rev_map
  BY <1>1 DEF LOGBLOCK
<1>3. CASE is_buf_full(length) /\ lb = Tgt(length)
  BY <1>3 DEF Before0, Opened
<1>4. CASE is_buf_full(length) /\ lb # Tgt(length) /\ lb = buf.tgt_lgblock
  BY <1>2, <1>4 DEF Before0
<1>5. CASE ~is_buf_full(length) \/ (lb # Tgt(length) /\ lb # buf.tgt_lgblock)
  BY <1>5 DEF Before0
<1>. QED BY <1>3, <1>4, <1>5

\* Where the page goes: there is room for it, behind every page in the block.
\* A block opened for it was free, so that it held none.
LEMMA TargetHasRoom ==
  ASSUME NEW lp, NEW length, Writing(lp, length)
  PROVE  /\ Tgt(length) \in LB /\ Cur(length) \in Nat /\ length \in Nat /\ length >= 1
         /\ Cur(length) + length <= LbSize /\ LbSize \in Nat
         /\ is_buf_full(length) => /\ Tgt(length) \in ToSet(free_list) /\ LiveIn(Tgt(length)) = {}
                                   /\ Tgt(length) # buf.tgt_lgblock /\ free_list # <<>>
         /\ ~is_buf_full(length) => Tgt(length) = buf.tgt_lgblock
         /\ \A p \in LiveIn(Tgt(length)) : lpt[p].ofs + lpt[p].len <= Cur(length)
<1>. USE DEF Writing
<1>1. /\ length \in Nat /\ length >= 1 /\ length <= LbSize /\ LbSize \in Nat
      /\ buf.cur_sector \in Nat /\ buf.cur_sector <= LbSize /\ buf.tgt_lgblock \in LB
  BY CompNumbers DEF CompTypeOK
<1>2. CASE is_buf_full(length)
  <2>1. free_list # <<>> /\ free_list \in Seq(LB)
    BY <1>2 DEF WritesPage, CompTypeOK
  <2>2. Head(free_list) \in LB /\ Head(free_list) \in ToSet(free_list)
    BY <2>1 DEF ToSet
  <2>3. Head(free_list) # buf.tgt_lgblock
    BY <2>2 DEF OpenBlockKept
  <2>4. LiveIn(Head(free_list)) = {}
    BY <2>2, <2>3 DEF StoreInv, FreeListExact
  <2>. QED BY <1>1, <1>2, <2>1, <2>2, <2>3, <2>4 DEF Tgt, Cur
<1>3. CASE ~is_buf_full(length)
  <2>1. buf.cur_sector + length <= LbSize
    BY <1>1, <1>3 DEF is_buf_full
  <2>2. \A p \in LiveIn(buf.tgt_lgblock) : lpt[p].ofs + lpt[p].len <= buf.cur_sector
    BY DEF StoreInv, LiveExtentsDisjoint, LiveIn
  <2>. QED BY <1>1, <1>3, <2>1, <2>2 DEF Tgt, Cur
<1>. QED BY <1>2, <1>3

\* The sectors the page is written to.
New(length) == Cur(length)..(Cur(length) + length - 1)

\* Which pages lie where afterwards.
LEMMA PlacesAfter ==
  ASSUME NEW lp, NEW length, Writing(lp, length)
  PROVE  /\ lpt' \in [LP -> LPMAP]
         /\ lpt'[lp] = [lb_id |-> Tgt(length), ofs |-> Cur(length), len |-> length]
         /\ \A p \in LP \ {lp} : lpt'[p] = lpt[p] /\ Extent(p)' = Extent(p)
         /\ Extent(lp)' = New(length)
         /\ \A lb \in LB : LiveIn(lb)' = (LiveIn(lb) \ {lp}) \cup (IF lb = Tgt(length) THEN {lp} ELSE {})
<1>. DEFINE new == [lb_id |-> Tgt(length), ofs |-> Cur(length), len |-> length]
<1>1. lpt \in [LP -> LPMAP] /\ lp \in LP /\ lpt' = [lpt EXCEPT ![lp] = new] /\ length \in Lengths
  BY DEF Writing, WritesPage, CompTypeOK
<1>2. new \in LPMAP
  BY <1>1, TargetHasRoom, CompNumbers DEF LPMAP
<1>3. new.lb_id = Tgt(length) /\ new.ofs = Cur(length) /\ new.len = length
  OBVIOUS
<1>. HIDE DEF new
<1>4. lpt' \in [LP -> LPMAP] /\ lpt'[lp] = new /\ \A p \in LP \ {lp} : lpt'[p] = lpt[p]
  BY <1>1, <1>2
<1>5. Extent(lp)' = New(length)
  BY <1>3, <1>4, Zenon DEF Extent, New
<1>6. \A p \in LP \ {lp} : Extent(p)' = Extent(p)
  BY <1>4, Zenon DEF Extent
<1>7. \A lb \in LB : LiveIn(lb)' = (LiveIn(lb) \ {lp}) \cup (IF lb = Tgt(length) THEN {lp} ELSE {})
  BY <1>1, <1>3, <1>4 DEF LiveIn
<1>. QED BY <1>4, <1>5, <1>6, <1>7 DEF new

\* An extent lies in its block and has as many sectors as the page is long.
LEMMA ExtentIs ==
  ASSUME CompTypeOK, LiveExtentsDisjoint, NEW p \in LP
  PROVE  /\ Extent(p) \subseteq 0..(LbSize - 1) /\ IsFiniteSet(Extent(p))
         /\ Cardinality(Extent(p)) = lpt[p].len /\ Extent(p) # {}
         /\ lpt[p].len \in Nat /\ lpt[p].lb_id \in LB /\ lpt[p].ofs \in Nat
         /\ lpt[p].ofs + lpt[p].len <= LbSize
<1>. DEFINE a == lpt[p].ofs
            n == lpt[p].len
            top == IF lpt[p].lb_id = buf.tgt_lgblock THEN buf.cur_sector ELSE LbSize
<1>1. LbSize \in Nat /\ LpSize \in Nat
  BY CompNumbers
<1>2. a \in Nat /\ n \in Nat /\ n >= 1 /\ lpt[p].lb_id \in LB
  BY <1>1 DEF CompTypeOK, LPMAP
<1>3. a + n <= top
  BY DEF LiveExtentsDisjoint
<1>4. top <= LbSize /\ top \in Nat
  BY <1>1 DEF CompTypeOK
<1>. HIDE DEF a, n, top
<1>5. a + n <= LbSize
  BY <1>1, <1>2, <1>3, <1>4
<1>6. IsFiniteSet(a..(a + n - 1)) /\ Cardinality(a..(a + n - 1)) = n
  <2>1. a \in Int /\ a + n - 1 \in Int /\ ~(a > a + n - 1) /\ (a + n - 1) - a + 1 = n
    BY <1>2
  <2>. QED BY <2>1, FS_Interval
<1>7. a..(a + n - 1) \subseteq 0..(LbSize - 1) /\ a \in a..(a + n - 1)
  BY <1>1, <1>2, <1>5
<1>. QED BY <1>2, <1>5, <1>6, <1>7 DEF Extent, a, n

LEMMA InEmpty ==
  ASSUME NEW lb, NEW x
  PROVE  x \in EmptySectors(lb) <=> x \in 0..(LbSize - 1) /\ \A p \in LiveIn(lb) : x \notin Extent(p)
BY Zenon DEF EmptySectors

LEMMA InEmptyAfter ==
  ASSUME NEW lb, NEW x
  PROVE  x \in EmptySectors(lb)' <=> x \in 0..(LbSize - 1) /\ \A p \in LiveIn(lb)' : x \notin Extent(p)'
BY Zenon DEF EmptySectors

\* The empty sectors of a block and how many they are.
LEMMA EmptyIs ==
  ASSUME NEW lb
  PROVE  /\ IsFiniteSet(EmptySectors(lb)) /\ EmptySectors(lb) \subseteq 0..(LbSize - 1)
         /\ Cardinality(EmptySectors(lb)) \in 0..LbSize
         /\ IsFiniteSet(0..(LbSize - 1)) /\ Cardinality(0..(LbSize - 1)) = LbSize
         /\ LiveIn(lb) = {} => EmptySectors(lb) = 0..(LbSize - 1)
<1>1. LbSize \in Nat \ {0}
  BY CompNumbers
<1>2. IsFiniteSet(0..(LbSize - 1)) /\ Cardinality(0..(LbSize - 1)) = LbSize
  <2>1. 0 \in Int /\ LbSize - 1 \in Int /\ ~(0 > LbSize - 1) /\ (LbSize - 1) - 0 + 1 = LbSize
    BY <1>1
  <2>. QED BY <2>1, FS_Interval
<1>3. EmptySectors(lb) \in SUBSET (0..(LbSize - 1))
  BY DEF EmptySectors
<1>4. IsFiniteSet(EmptySectors(lb)) /\ Cardinality(EmptySectors(lb)) <= LbSize
  BY <1>2, <1>3, FS_Subset
<1>5. Cardinality(EmptySectors(lb)) \in Nat
  BY <1>4, FS_CardinalityType
<1>6. LiveIn(lb) = {} => EmptySectors(lb) = 0..(LbSize - 1)
  BY InEmpty
<1>. QED BY <1>1, <1>2, <1>3, <1>4, <1>5, <1>6

\* Sectors a page leaves and sectors it takes.
Left(lp, lb) == IF lb = lpt[lp].lb_id THEN Extent(lp) ELSE {}
Taken(length, lb) == IF lb = Tgt(length) THEN New(length) ELSE {}

LEMMA NewIs ==
  ASSUME NEW lp, NEW length, Writing(lp, length)
  PROVE  /\ New(length) \subseteq EmptySectors(Tgt(length))
         /\ IsFiniteSet(New(length)) /\ Cardinality(New(length)) = length
         /\ \A p \in LiveIn(Tgt(length)) : Extent(p) \cap New(length) = {}
<1>. DEFINE c == Cur(length)
            S == LiveIn(Tgt(length))
<1>1. /\ c \in Nat /\ length \in Nat /\ length >= 1 /\ LbSize \in Nat /\ c + length <= LbSize
      /\ \A p \in S : lpt[p].ofs + lpt[p].len <= c
  BY TargetHasRoom
<1>2. \A p \in S : lpt[p].ofs \in Nat /\ lpt[p].len \in Nat
  BY ExtentIs DEF LiveIn, Writing, StoreInv
<1>. HIDE DEF c, S
<1>3. ASSUME NEW p \in S, NEW x, x \in Extent(p), x \in c..(c + length - 1) PROVE FALSE
  <2>1. x \in Nat /\ x <= lpt[p].ofs + lpt[p].len - 1
    BY <1>2, <1>3 DEF Extent
  <2>. QED BY <1>1, <1>2, <1>3, <2>1
<1>4. c..(c + length - 1) \subseteq 0..(LbSize - 1)
  BY <1>1
<1>5. IsFiniteSet(c..(c + length - 1)) /\ Cardinality(c..(c + length - 1)) = length
  <2>1. c \in Int /\ c + length - 1 \in Int /\ ~(c > c + length - 1) /\ (c + length - 1) - c + 1 = length
    BY <1>1
  <2>. QED BY <2>1, FS_Interval
<1>6. New(length) = c..(c + length - 1)
  BY DEF New, c
<1>7. New(length) \subseteq EmptySectors(Tgt(length))
  BY <1>3, <1>4, <1>6, InEmpty DEF S
<1>. QED BY <1>3, <1>5, <1>6, <1>7 DEF S

LEMMA EmptyAfter ==
  ASSUME NEW lp, NEW length, Writing(lp, length), NEW lb \in LB
  PROVE  /\ EmptySectors(lb)' = (EmptySectors(lb) \cup Left(lp, lb)) \ Taken(length, lb)
         /\ EmptySectors(lb) \cap Left(lp, lb) = {} /\ Left(lp, lb) \subseteq 0..(LbSize - 1)
         /\ Taken(length, lb) \subseteq EmptySectors(lb)
<1>1. lp \in LP /\ CompTypeOK /\ LiveExtentsDisjoint
  BY DEF Writing, StoreInv
<1>2. Extent(lp) \subseteq 0..(LbSize - 1)
  BY <1>1, ExtentIs
<1>3. \A p \in LiveIn(lb) : p # lp => Extent(p) \cap Left(lp, lb) = {}
  BY <1>1 DEF LiveExtentsDisjoint, LiveIn, Left
<1>4. lb = lpt[lp].lb_id <=> lp \in LiveIn(lb)
  BY <1>1 DEF LiveIn
<1>5. EmptySectors(lb) \cap Left(lp, lb) = {}
  BY <1>4, InEmpty DEF Left
<1>6. Taken(length, lb) \subseteq EmptySectors(lb)
  BY NewIs DEF Taken
<1>7. /\ LiveIn(lb)' = (LiveIn(lb) \ {lp}) \cup (IF lb = Tgt(length) THEN {lp} ELSE {})
      /\ Extent(lp)' = New(length) /\ \A p \in LP \ {lp} : Extent(p)' = Extent(p)
  BY PlacesAfter
<1>8. \A p \in LiveIn(lb) : p \in LP
  BY DEF LiveIn
<1>9. ASSUME NEW x
      PROVE  x \in EmptySectors(lb)' <=> x \in (EmptySectors(lb) \cup Left(lp, lb)) \ Taken(length, lb)
  <2>1. ASSUME x \in EmptySectors(lb)'
        PROVE  x \in (EmptySectors(lb) \cup Left(lp, lb)) \ Taken(length, lb)
    <3>1. x \in 0..(LbSize - 1) /\ \A p \in LiveIn(lb)' : x \notin Extent(p)'
      BY <2>1, InEmptyAfter
    <3>2. x \notin Taken(length, lb)
      BY <1>7, <3>1 DEF Taken
    <3>3. \A p \in LiveIn(lb) \ {lp} : x \notin Extent(p)
      BY <1>7, <1>8, <3>1
    <3>4. x \in EmptySectors(lb) \cup Left(lp, lb)
      BY <1>4, <3>1, <3>3, InEmpty DEF Left
    <3>. QED BY <3>2, <3>4
  <2>2. ASSUME x \in (EmptySectors(lb) \cup Left(lp, lb)) \ Taken(length, lb)
        PROVE  x \in EmptySectors(lb)'
    <3>1. x \in 0..(LbSize - 1)
      BY <1>2, <2>2, InEmpty DEF Left
    <3>2. \A p \in LiveIn(lb) \ {lp} : x \notin Extent(p)
      BY <1>3, <2>2, InEmpty
    <3>3. lb = Tgt(length) => x \notin Extent(lp)'
      BY <1>7, <2>2 DEF Taken
    <3>4. \A p \in LiveIn(lb)' : x \notin Extent(p)'
      BY <1>7, <1>8, <3>2, <3>3
    <3>. QED BY <3>1, <3>4, InEmptyAfter
  <2>. QED BY <2>1, <2>2
<1>. QED BY <1>2, <1>5, <1>6, <1>9 DEF Left

\* What is counted free is free afterwards, and the old block is found free
\* just when it has no other page.
LEMMA RoomAfter ==
  ASSUME NEW lp, NEW length, Writing(lp, length)
  PROVE  /\ FreeSectorsExact'
         /\ Freed(lp, length) = LbSize <=> LiveIn(lpt[lp].lb_id) \ {lp} = {}
         /\ Freed(lp, length) \in 0..LbSize
<1>. DEFINE o == lpt[lp].lb_id
            B(lb) == EmptySectors(lb) \cup Left(lp, lb)
            l(lb) == IF lb = o THEN lpt[lp].len ELSE 0
            k(lb) == IF lb = Tgt(length) THEN length ELSE 0
<1>1. /\ lp \in LP /\ length \in Lengths /\ CompTypeOK /\ LiveExtentsDisjoint /\ FreeSectorsExact
      /\ WritesPage(lp, length)
  BY DEF Writing, StoreInv
<1>2. /\ IsFiniteSet(Extent(lp)) /\ Cardinality(Extent(lp)) = lpt[lp].len /\ lpt[lp].len \in Nat /\ o \in LB
  BY <1>1, ExtentIs
<1>3. LbSize \in Nat /\ length \in Nat
  BY <1>1, CompNumbers
<1>4. ASSUME NEW lb \in LB
      PROVE  Before0(length, lb).free_sector_num = Cardinality(EmptySectors(lb))
  <2>1. lbt[lb].free_sector_num = Cardinality(EmptySectors(lb))
    BY <1>1 DEF FreeSectorsExact
  <2>2. is_buf_full(length) /\ lb = Tgt(length) => Cardinality(EmptySectors(lb)) = LbSize
    BY TargetHasRoom, EmptyIs
  <2>. QED BY <1>1, <2>1, <2>2, Before0Is
<1>5. ASSUME NEW lb \in LB
      PROVE  /\ IsFiniteSet(B(lb)) /\ Cardinality(B(lb)) = Cardinality(EmptySectors(lb)) + l(lb)
             /\ B(lb) \subseteq 0..(LbSize - 1) /\ Cardinality(B(lb)) \in 0..LbSize
  <2>. DEFINE E == EmptySectors(lb)
              F == Left(lp, lb)
  <2>1. IsFiniteSet(F) /\ Cardinality(F) = l(lb)
    BY <1>2, FS_EmptySet DEF Left
  <2>2. IsFiniteSet(E) /\ E \cap F = {} /\ E \subseteq 0..(LbSize - 1) /\ F \subseteq 0..(LbSize - 1)
        /\ Cardinality(E) \in Nat
    BY EmptyIs, EmptyAfter
  <2>3. l(lb) \in Nat
    BY <1>2
  <2>. HIDE DEF E, F, l
  <2>4. IsFiniteSet(E \cup F) /\ Cardinality(E \cup F) = Cardinality(E) + Cardinality(F) - Cardinality(E \cap F)
    BY <2>1, <2>2, FS_Union
  <2>5. Cardinality(E \cap F) = 0
    BY <2>2, FS_EmptySet
  <2>6. Cardinality(E \cup F) = Cardinality(E) + l(lb)
    BY <2>1, <2>2, <2>3, <2>4, <2>5
  <2>7. Cardinality(E \cup F) <= LbSize
    <3>1. IsFiniteSet(0..(LbSize - 1)) /\ Cardinality(0..(LbSize - 1)) = LbSize
      BY EmptyIs
    <3>2. E \cup F \in SUBSET (0..(LbSize - 1))
      BY <2>2
    <3>. HIDE <2>2
    <3>. QED BY <3>1, <3>2, FS_Subset
  <2>. QED BY <1>3, <2>2, <2>3, <2>4, <2>6, <2>7 DEF E, F
<1>6. Freed(lp, length) = Cardinality(B(o))
  BY <1>2, <1>4, <1>5 DEF Freed
<1>7. ASSUME NEW lb \in LB
      PROVE  lbt'[lb].free_sector_num = Cardinality(EmptySectors(lb))'
  <2>. DEFINE Y == Taken(length, lb)
              C == Cardinality(B(lb))
  <2>1. lbt'[lb].free_sector_num = (IF lb = o THEN Freed(lp, length) ELSE Before0(length, lb).free_sector_num) - k(lb)
    BY <1>1, Zenon DEF WritesPage
  <2>2. (IF lb = o THEN Freed(lp, length) ELSE Before0(length, lb).free_sector_num) = C
    <3>1. Cardinality(EmptySectors(lb)) \in Nat
      BY <1>3, EmptyIs
    <3>2. lb # o => l(lb) = 0
      OBVIOUS
    <3>. HIDE DEF B, l
    <3>3. Cardinality(B(lb)) = Cardinality(EmptySectors(lb)) + l(lb)
      BY <1>5
    <3>. QED BY <1>4, <1>6, <3>1, <3>2, <3>3
  <2>3. Y \subseteq B(lb) /\ EmptySectors(lb)' = B(lb) \ Y
    BY EmptyAfter
  <2>4. Cardinality(Y) = k(lb)
    BY NewIs, FS_EmptySet DEF Taken
  <2>. HIDE DEF B, Y
  <2>5. Cardinality(B(lb) \ Y) = Cardinality(B(lb)) - Cardinality(B(lb) \cap Y)
    BY <1>5, FS_Difference
  <2>6. B(lb) \cap Y = Y
    BY <2>3
  <2>7. Cardinality(EmptySectors(lb))' = Cardinality(B(lb) \ Y)
    BY <2>3
  <2>. QED BY <2>1, <2>2, <2>4, <2>5, <2>6, <2>7
<1>8. FreeSectorsExact'
  BY <1>7 DEF FreeSectorsExact
<1>9. ASSUME Freed(lp, length) = LbSize PROVE LiveIn(o) \ {lp} = {}
  <2>1. B(o) = 0..(LbSize - 1)
    <3>. HIDE DEF B
    <3>. QED BY <1>2, <1>5, <1>6, <1>9, EmptyIs, FS_Subset
  <2>2. ASSUME NEW p \in LiveIn(o) \ {lp} PROVE FALSE
    <3>1. p \in LP /\ p # lp /\ lpt[p].lb_id = o
      BY DEF LiveIn
    <3>2. PICK x : x \in Extent(p)
      BY <1>1, <3>1, ExtentIs
    <3>3. x \in 0..(LbSize - 1) /\ x \notin Extent(lp) /\ x \notin EmptySectors(o)
      BY <1>1, <3>1, <3>2, ExtentIs, InEmpty DEF LiveExtentsDisjoint
    <3>. QED BY <2>1, <3>3 DEF Left
  <2>. QED BY <2>2
<1>10. ASSUME LiveIn(o) \ {lp} = {} PROVE Freed(lp, length) = LbSize
  <2>1. \A x \in 0..(LbSize - 1) : x \in B(o)
    BY <1>10, InEmpty DEF Left
  <2>2. B(o) = 0..(LbSize - 1)
    <3>. HIDE DEF B
    <3>. QED BY <1>2, <1>5, <2>1
  <2>. QED BY <1>6, <2>2, EmptyIs
<1>. QED BY <1>2, <1>5, <1>6, <1>8, <1>9, <1>10

\* The free list loses the block that is opened and gains the one left empty.
LEMMA ListTail ==
  ASSUME NEW S, NEW q \in Seq(S), q # <<>>, IsInjective(q)
  PROVE  /\ Tail(q) \in Seq(S) /\ IsInjective(Tail(q))
         /\ ToSet(Tail(q)) = ToSet(q) \ {Head(q)}
<1>1. /\ Len(q) \in Nat /\ Len(q) >= 1 /\ DOMAIN q = 1..Len(q)
      /\ Tail(q) \in Seq(S) /\ Len(Tail(q)) = Len(q) - 1 /\ DOMAIN Tail(q) = 1..(Len(q) - 1)
      /\ \A i \in 1..(Len(q) - 1) : Tail(q)[i] = q[i + 1]
      /\ Head(q) = q[1]
  OBVIOUS
<1>2. \A i, j \in 1..Len(q) : q[i] = q[j] => i = j
  BY <1>1 DEF IsInjective
<1>3. ASSUME NEW i \in 1..(Len(q) - 1), NEW j \in 1..(Len(q) - 1), Tail(q)[i] = Tail(q)[j]
      PROVE  i = j
  <2>1. i + 1 \in 1..Len(q) /\ j + 1 \in 1..Len(q) /\ q[i + 1] = q[j + 1]
    BY <1>1, <1>3
  <2>2. i + 1 = j + 1
    BY <1>2, <2>1
  <2>. QED BY <1>1, <2>2
<1>4. ASSUME NEW x \in ToSet(Tail(q)) PROVE x \in ToSet(q) \ {Head(q)}
  <2>1. PICK i \in 1..(Len(q) - 1) : x = q[i + 1]
    BY <1>1 DEF ToSet
  <2>2. i + 1 \in 1..Len(q) /\ 1 \in 1..Len(q) /\ i + 1 # 1
    BY <1>1
  <2>. QED BY <1>1, <1>2, <2>1, <2>2 DEF ToSet
<1>5. ASSUME NEW x \in ToSet(q) \ {Head(q)} PROVE x \in ToSet(Tail(q))
  <2>1. PICK i \in 1..Len(q) : x = q[i]
    BY <1>1 DEF ToSet
  <2>2. i # 1
    BY <1>1, <2>1
  <2>3. i - 1 \in 1..(Len(q) - 1) /\ Tail(q)[i - 1] = q[(i - 1) + 1] /\ (i - 1) + 1 = i
    BY <1>1, <2>2
  <2>. QED BY <1>1, <2>1, <2>3 DEF ToSet
<1>. QED BY <1>1, <1>3, <1>4, <1>5 DEF IsInjective

LEMMA ListAppend ==
  ASSUME NEW S, NEW q \in Seq(S), NEW e \in S
  PROVE  /\ Append(q, e) \in Seq(S)
         /\ ToSet(Append(q, e)) = ToSet(q) \cup {e}
         /\ IsInjective(q) /\ e \notin ToSet(q) => IsInjective(Append(q, e))
<1>. DEFINE r == Append(q, e)
<1>1. /\ Len(q) \in Nat /\ DOMAIN q = 1..Len(q) /\ r \in Seq(S) /\ Len(r) = Len(q) + 1
      /\ DOMAIN r = 1..(Len(q) + 1) /\ r[Len(q) + 1] = e /\ \A i \in 1..Len(q) : r[i] = q[i]
  OBVIOUS
<1>. HIDE DEF r
<1>2. \A i \in 1..(Len(q) + 1) : i \in 1..Len(q) \/ i = Len(q) + 1
  BY <1>1
<1>3. 1..Len(q) \subseteq 1..(Len(q) + 1) /\ Len(q) + 1 \in 1..(Len(q) + 1)
  BY <1>1
<1>4. ToSet(r) = ToSet(q) \cup {e}
  BY <1>1, <1>2, <1>3 DEF ToSet
<1>5. IsInjective(q) /\ e \notin ToSet(q) => IsInjective(r)
  BY <1>1, <1>2, <1>3 DEF IsInjective, ToSet
<1>. QED BY <1>1, <1>4, <1>5 DEF r

LEMMA ListAfter ==
  ASSUME NEW lp, NEW length, Writing(lp, length)
  PROVE  /\ free_list' \in Seq(LB) /\ IsInjective(free_list')
         /\ ToSet(free_list') = (ToSet(free_list) \ (IF is_buf_full(length) THEN {Tgt(length)} ELSE {}))
                                  \cup (IF Freed(lp, length) = LbSize THEN {lpt[lp].lb_id} ELSE {})
         /\ lpt[lp].lb_id \notin ToSet(free_list)
<1>. DEFINE o == lpt[lp].lb_id
<1>1. /\ free_list \in Seq(LB) /\ IsInjective(free_list) /\ o \in LB
      /\ free_list' = IF Freed(lp, length) = LbSize THEN Append(Rest(length), o) ELSE Rest(length)
  BY ExtentIs DEF Writing, WritesPage, CompTypeOK, StoreInv, FreeListExact
<1>2. o \notin ToSet(free_list)
  <2>1. CASE o = buf.tgt_lgblock
    BY <2>1 DEF Writing, OpenBlockKept
  <2>2. CASE o # buf.tgt_lgblock
    <3>1. lp \in LiveIn(o)
      BY DEF Writing, LiveIn
    <3>. QED BY <1>1, <2>2, <3>1 DEF Writing, StoreInv, FreeListExact
  <2>. QED BY <2>1, <2>2
<1>. HIDE DEF o
<1>3. /\ Rest(length) \in Seq(LB) /\ IsInjective(Rest(length))
      /\ ToSet(Rest(length)) = ToSet(free_list) \ (IF is_buf_full(length) THEN {Tgt(length)} ELSE {})
  <2>1. CASE is_buf_full(length)
    <3>1. free_list # <<>>
      BY <2>1, TargetHasRoom
    <3>. QED BY <1>1, <2>1, <3>1, ListTail DEF Rest, Tgt
  <2>2. CASE ~is_buf_full(length)
    BY <1>1, <2>2 DEF Rest
  <2>. QED BY <2>1, <2>2
<1>4. o \notin ToSet(Rest(length))
  BY <1>2, <1>3
<1>5. CASE Freed(lp, length) = LbSize
  BY <1>1, <1>2, <1>3, <1>4, <1>5, ListAppend DEF o
<1>6. CASE Freed(lp, length) # LbSize
  BY <1>1, <1>2, <1>3, <1>6 DEF o
<1>. QED BY <1>5, <1>6

LEMMA TypesAfter ==
  ASSUME NEW lp, NEW length, Writing(lp, length)
  PROVE  /\ lpt' \in [LP -> LPMAP] /\ lbt' \in [LB -> LOGBLOCK] /\ free_list' \in Seq(LB)
         /\ buf' \in [tgt_lgblock : LB, cur_sector : 0..LbSize]
         /\ pending_cmd' \in Seq(LB) /\ destaged' \subseteq LB
<1>1. CompTypeOK /\ WritesPage(lp, length)
  BY DEF Writing
<1>2. /\ Tgt(length) \in LB /\ Cur(length) + length \in 0..LbSize /\ buf.tgt_lgblock \in LB
  BY <1>1, TargetHasRoom DEF CompTypeOK
<1>3. lbt' \in [LB -> LOGBLOCK]
  <2>1. \A lb \in LB : lbt'[lb].free_sector_num \in 0..LbSize
    <3>1. \A lb \in LB : lbt'[lb].free_sector_num = Cardinality(EmptySectors(lb))'
      BY RoomAfter DEF FreeSectorsExact
    <3>2. \A lb \in LB : Cardinality(EmptySectors(lb))' \in 0..LbSize
      <4>1. LbSize \in Nat /\ IsFiniteSet(0..(LbSize - 1)) /\ Cardinality(0..(LbSize - 1)) = LbSize
        BY EmptyIs, CompNumbers
      <4>2. ASSUME NEW lb \in LB PROVE Cardinality(EmptySectors(lb))' \in 0..LbSize
        <5>. DEFINE E == EmptySectors(lb)'
        <5>1. E \in SUBSET (0..(LbSize - 1))
          BY InEmptyAfter
        <5>. HIDE DEF E
        <5>2. IsFiniteSet(E) /\ Cardinality(E) <= LbSize
          BY <4>1, <5>1, FS_Subset
        <5>3. Cardinality(E) \in Nat
          BY <5>2, FS_CardinalityType
        <5>4. Cardinality(E) \in 0..LbSize
          BY <4>1, <5>2, <5>3
        <5>. QED BY <5>4 DEF E
      <4>. QED BY <4>2
    <3>. QED BY <3>1, <3>2
  <2>2. lbt' \in [LB -> LogBlock]
    BY <1>1 DEF WritesPage
  <2>. QED BY <2>1, <2>2 DEF LogBlock, LOGBLOCK
<1>4. buf' \in [tgt_lgblock : LB, cur_sector : 0..LbSize]
  BY <1>1, <1>2 DEF WritesPage
<1>5. pending_cmd' \in Seq(LB)
  <2>1. pending_cmd \in Seq(LB) /\ <<buf.tgt_lgblock>> \in Seq(LB) /\ <<>> \in Seq(LB)
    BY <1>1, <1>2 DEF CompTypeOK
  <2>2. pending_cmd \o <<buf.tgt_lgblock>> \in Seq(LB) /\ pending_cmd \o <<>> \in Seq(LB)
    BY <2>1
  <2>. QED BY <1>1, <2>2 DEF WritesPage
<1>6. destaged' \subseteq LB
  BY <1>1, <1>2 DEF WritesPage, CompTypeOK
<1>. QED BY <1>3, <1>4, <1>5, <1>6, PlacesAfter, ListAfter

LEMMA StoreAfter ==
  ASSUME NEW lp, NEW length, Writing(lp, length)
  PROVE  StoreInv'
<1>. DEFINE o == lpt[lp].lb_id
            tg == Tgt(length)
            full == is_buf_full(length)
            b == buf.tgt_lgblock
            empties == Freed(lp, length) = LbSize
<1>1. /\ lp \in LP /\ length \in Lengths /\ CompTypeOK /\ WritesPage(lp, length)
      /\ FreeSectorsExact /\ FreeListExact /\ LiveExtentsDisjoint /\ RevMapCovers
      /\ ClosedIsDestaged /\ StatesMatch /\ OpenState /\ OpenNotEmpty
  BY DEF Writing, StoreInv
<1>2. /\ tg \in LB /\ Cur(length) \in Nat /\ length \in Nat /\ Cur(length) + length <= LbSize
      /\ full => /\ tg \in ToSet(free_list) /\ LiveIn(tg) = {} /\ tg # b
      /\ (~full) => tg = b
      /\ LbSize \in Nat /\ o \in LB /\ b \in LB /\ lp \in LiveIn(o)
  BY <1>1, TargetHasRoom, ExtentIs DEF CompTypeOK, LiveIn
<1>3. /\ lpt'[lp] = [lb_id |-> tg, ofs |-> Cur(length), len |-> length]
      /\ \A p \in LP \ {lp} : lpt'[p] = lpt[p] /\ Extent(p)' = Extent(p)
      /\ Extent(lp)' = New(length)
      /\ \A lb \in LB : LiveIn(lb)' = (LiveIn(lb) \ {lp}) \cup (IF lb = tg THEN {lp} ELSE {})
  BY PlacesAfter
<1>4. lpt'[lp].lb_id = tg /\ lpt'[lp].ofs = Cur(length) /\ lpt'[lp].len = length
  BY <1>3
<1>5. buf'.tgt_lgblock = tg /\ buf'.cur_sector = Cur(length) + length
  BY <1>1 DEF WritesPage
<1>6. /\ IsInjective(free_list') /\ o \notin ToSet(free_list)
      /\ ToSet(free_list') = (ToSet(free_list) \ (IF full THEN {tg} ELSE {}))
                               \cup (IF empties THEN {o} ELSE {})
  BY ListAfter
<1>7. FreeSectorsExact' /\ (empties <=> LiveIn(o) \ {lp} = {})
  BY RoomAfter
<1>8. b \notin ToSet(free_list) /\ tg \notin ToSet(free_list')
  BY <1>5 DEF Writing, OpenBlockKept
<1>9. ASSUME NEW lb \in LB
      PROVE  /\ lbt'[lb].state = IF lb = o /\ empties THEN "LB_FREE"
                                 ELSE IF full /\ lb = tg THEN "LB_OPEN"
                                 ELSE IF full /\ lb = b THEN "LB_CLOSE" ELSE lbt[lb].state
             /\ LET r == IF full /\ lb = tg THEN <<>> ELSE lbt[lb].rev_map
                IN  lbt'[lb].rev_map = IF lb = tg THEN Append(r, Entry(lp, length)) ELSE r
  <2>1. /\ lbt'[lb].state = IF lb = o /\ empties THEN "LB_FREE" ELSE Before0(length, lb).state
        /\ lbt'[lb].rev_map = IF lb = tg THEN Append(Before0(length, lb).rev_map, Entry(lp, length))
                              ELSE Before0(length, lb).rev_map
    BY <1>1, Zenon DEF WritesPage
  <2>2. /\ Before0(length, lb).state = IF full /\ lb = tg THEN "LB_OPEN"
                                       ELSE IF full /\ lb = b THEN "LB_CLOSE" ELSE lbt[lb].state
        /\ Before0(length, lb).rev_map = IF full /\ lb = tg THEN <<>> ELSE lbt[lb].rev_map
    BY <1>1, Before0Is
  <2>. QED BY <2>1, <2>2
<1>. HIDE DEF o, tg, full, b, empties
<1>10. FreeListExact'
  <2>1. ASSUME NEW lb \in LB \ {tg}
        PROVE  lb \in ToSet(free_list') <=> LiveIn(lb)' = {}
    <3>1. LiveIn(lb)' = LiveIn(lb) \ {lp}
      BY <1>3
    <3>2. lb # o => LiveIn(lb)' = LiveIn(lb)
      BY <1>1, <3>1 DEF LiveIn, o
    <3>3. CASE lb = o
      BY <1>6, <1>7, <3>1, <3>3
    <3>4. CASE lb # o /\ lb # b
      <4>1. lb \in ToSet(free_list) <=> LiveIn(lb) = {}
        BY <1>1, <3>4 DEF FreeListExact, b
      <4>. QED BY <1>6, <3>2, <3>4, <4>1
    <3>5. CASE lb # o /\ lb = b
      <4>1. LiveIn(lb) # {}
        BY <1>1, <3>5 DEF OpenNotEmpty, b
      <4>. QED BY <1>6, <1>8, <3>2, <3>5, <4>1
    <3>. QED BY <3>3, <3>4, <3>5
  <2>. QED BY <1>5, <1>6, <2>1 DEF FreeListExact
<1>11. LiveExtentsDisjoint'
  <2>1. ASSUME NEW p \in LP, NEW other \in LP, p # other, lpt'[p].lb_id = lpt'[other].lb_id
        PROVE  Extent(p)' \cap Extent(other)' = {}
    <3>1. \A q \in LiveIn(tg) : Extent(q) \cap New(length) = {}
      BY NewIs DEF tg
    <3>2. \A q \in LP \ {lp} : lpt'[q].lb_id = tg => q \in LiveIn(tg)
      BY <1>3 DEF LiveIn
    <3>3. CASE p = lp
      BY <1>3, <1>4, <2>1, <3>1, <3>2, <3>3
    <3>4. CASE other = lp
      BY <1>3, <1>4, <2>1, <3>1, <3>2, <3>4
    <3>5. CASE p # lp /\ other # lp
      BY <1>1, <1>3, <2>1, <3>5 DEF LiveExtentsDisjoint
    <3>. QED BY <3>3, <3>4, <3>5
  <2>2. ASSUME NEW p \in LP
        PROVE  lpt'[p].ofs + lpt'[p].len <=
                 IF lpt'[p].lb_id = buf'.tgt_lgblock THEN buf'.cur_sector ELSE LbSize
    <3>1. CASE p = lp
      BY <1>2, <1>4, <1>5, <3>1
    <3>2. CASE p # lp
      <4>1. lpt'[p] = lpt[p]
        BY <1>3, <3>2
      <4>2. /\ lpt[p].ofs + lpt[p].len <= LbSize /\ lpt[p].ofs \in Nat /\ lpt[p].len \in Nat
        BY <1>1, ExtentIs
      <4>3. lpt[p].lb_id = tg => lpt[p].ofs + lpt[p].len <= Cur(length)
        BY TargetHasRoom DEF LiveIn, tg
      <4>. QED BY <1>2, <1>5, <4>1, <4>2, <4>3
    <3>. QED BY <3>1, <3>2
  <2>. QED BY <2>1, <2>2 DEF LiveExtentsDisjoint
<1>12. RevMapCovers'
  <2>1. ASSUME NEW p \in LP
        PROVE  [ofs |-> lpt'[p].ofs, lpn |-> p] \in ToSet(lbt'[lpt'[p].lb_id].rev_map)
    <3>1. \A lb \in LB : lbt[lb].rev_map \in Seq(REVMAP)
      BY <1>1 DEF CompTypeOK, LOGBLOCK
    <3>2. <<>> \in Seq(REVMAP)
      OBVIOUS
    <3>3. Entry(lp, length) \in REVMAP
      <4>1. Cur(length) \in 0..(LbSize - 1)
        <5>1. length >= 1
          BY TargetHasRoom
        <5>. QED BY <1>2, <5>1
      <4>. QED BY <1>1, <4>1 DEF Entry, REVMAP
    <3>4. CASE p = lp
      <4>1. \A r \in Seq(REVMAP) : Entry(lp, length) \in ToSet(Append(r, Entry(lp, length)))
        BY <3>3, ListAppend
      <4>2. Entry(lp, length) \in ToSet(lbt'[tg].rev_map)
        BY <1>2, <1>9, <3>1, <3>2, <4>1
      <4>3. Entry(lp, length) = [ofs |-> lpt'[p].ofs, lpn |-> p]
        BY <1>4, <3>4, Zenon DEF Entry
      <4>. QED BY <1>4, <3>4, <4>2, <4>3, Zenon
    <3>5. CASE p # lp
      <4>. DEFINE lb == lpt[p].lb_id
                  e == [ofs |-> lpt[p].ofs, lpn |-> p]
      <4>1. lpt'[p] = lpt[p] /\ lb \in LB /\ p \in LiveIn(lb)
        BY <1>1, <1>3, <3>5, ExtentIs DEF LiveIn
      <4>2. e \in ToSet(lbt[lb].rev_map)
        BY <1>1 DEF RevMapCovers
      <4>. HIDE DEF e
      <4>3. ~(full /\ lb = tg)
        BY <1>2, <4>1
      <4>4. lb = tg => ToSet(lbt'[lb].rev_map) = ToSet(lbt[lb].rev_map) \cup {Entry(lp, length)}
        BY <1>9, <3>1, <3>3, <4>1, <4>3, ListAppend
      <4>5. lb # tg => lbt'[lb].rev_map = lbt[lb].rev_map
        BY <1>9, <4>1
      <4>6. e \in ToSet(lbt'[lb].rev_map)
        BY <4>2, <4>4, <4>5
      <4>. QED BY <4>1, <4>6, Zenon DEF e
    <3>. QED BY <3>4, <3>5
  <2>. QED BY <2>1 DEF RevMapCovers
<1>13. ClosedIsDestaged'
  <2>1. destaged' = (destaged \ {tg}) \cup (IF full THEN {b} ELSE {})
    BY <1>1 DEF WritesPage, tg, full, b
  <2>2. ASSUME NEW p \in LP, lpt'[p].lb_id # tg PROVE lpt'[p].lb_id \in destaged'
    <3>1. p # lp /\ lpt'[p] = lpt[p]
      BY <1>3, <1>4, <2>2
    <3>2. lpt[p].lb_id # b => lpt[p].lb_id \in destaged
      BY <1>1 DEF ClosedIsDestaged, b
    <3>. QED BY <1>2, <2>1, <2>2, <3>1, <3>2
  <2>. QED BY <1>5, <2>2 DEF ClosedIsDestaged
<1>14. StatesMatch'
  <2>1. ASSUME NEW lb \in LB \ {tg}
        PROVE  lbt'[lb].state = IF lb \in ToSet(free_list') THEN "LB_FREE" ELSE "LB_CLOSE"
    <3>1. lb # b => lbt[lb].state = IF lb \in ToSet(free_list) THEN "LB_FREE" ELSE "LB_CLOSE"
      BY <1>1 DEF StatesMatch, b
    <3>2. lb # o => (lb \in ToSet(free_list') <=> lb \in ToSet(free_list))
      BY <1>6
    <3>3. lb = o => (lb \in ToSet(free_list') <=> empties)
      BY <1>6
    <3>4. lb = b => full
      BY <1>2
    <3>. QED BY <1>6, <1>8, <1>9, <3>1, <3>2, <3>3, <3>4
  <2>. QED BY <1>5, <2>1 DEF StatesMatch
<1>15. OpenState'
  <2>1. (~full) => lbt[tg].state # "LB_CLOSE"
    BY <1>1, <1>2 DEF OpenState, b
  <2>2. lbt'[tg].state # "LB_CLOSE"
    BY <1>2, <1>9, <2>1
  <2>. QED BY <1>5, <2>2 DEF OpenState
<1>16. OpenNotEmpty'
  <2>1. lp \in LiveIn(buf.tgt_lgblock)'
    BY <1>1, <1>4, <1>5 DEF LiveIn
  <2>. QED BY <2>1 DEF OpenNotEmpty
<1>. QED BY <1>7, <1>10, <1>11, <1>12, <1>13, <1>14, <1>15, <1>16 DEF StoreInv

-----------------------------------------------------------------------------
(* Steps *)

LEMMA StoreStays ==
  ASSUME StoreInv, UNCHANGED <<lpt, lbt, free_list, buf, destaged>>
  PROVE  StoreInv'
<1>1. \A p : Extent(p)' = Extent(p)
  BY DEF Extent
<1>2. \A lb : LiveIn(lb)' = LiveIn(lb)
  BY DEF LiveIn
<1>3. \A lb : EmptySectors(lb)' = EmptySectors(lb)
  BY <1>1, <1>2, Zenon DEF EmptySectors
<1>4. FreeSectorsExact'
  BY <1>3 DEF StoreInv, FreeSectorsExact
<1>5. FreeListExact'
  BY <1>2 DEF StoreInv, FreeListExact
<1>6. LiveExtentsDisjoint'
  BY <1>1 DEF StoreInv, LiveExtentsDisjoint
<1>7. RevMapCovers' /\ ClosedIsDestaged' /\ StatesMatch' /\ OpenState'
  BY DEF StoreInv, RevMapCovers, ClosedIsDestaged, StatesMatch, OpenState
<1>8. OpenNotEmpty'
  BY <1>2 DEF StoreInv, OpenNotEmpty
<1>. QED BY <1>4, <1>5, <1>6, <1>7, <1>8 DEF StoreInv

\* A step that writes no page.
LEMMA QuietStep ==
  ASSUME CompInv, UNCHANGED <<lpt, lbt, free_list, buf, destaged>>,
         pending_cmd' \in Seq(LB), pc' \in {"idle", "pages", "gc", "failed"},
         host_cmd' \in HostCommands, lp_list' \in Seq(LPCMD), at' \in 0..Len(lp_list'),
         victim' \in LB, rev_at' \in Nat, GcInv'
  PROVE  CompInv'
BY StoreStays DEF CompInv, CompTypeOK

LEMMA FailStep ==
  ASSUME CompInv, Fail
  PROVE  CompInv'
<1>1. GcInv'
  BY DEF Fail, GcInv
<1>. QED BY <1>1, QuietStep DEF Fail, store, CompInv, CompTypeOK

LEMMA NoCmdIsCommand == NoCmd \in HostCommands /\ 0 \in LB
BY CompNumbers DEF NoCmd, HostCommands, LB

LEMMA ReturnStep ==
  ASSUME CompInv, Return
  PROVE  CompInv'
<1>1. GcInv'
  BY DEF Return, GcInv
<1>2. <<>> \in Seq(LPCMD) /\ Len(<<>>) = 0 /\ 0 \in 0..0
  OBVIOUS
<1>. QED BY <1>1, <1>2, QuietStep, NoCmdIsCommand DEF Return, store, CompInv, CompTypeOK

\* do_gc takes a closed block: it is not the open one, and the reverse map has
\* all its pages, from the first entry on.
LEMMA GcAtStep ==
  ASSUME CompInv, NEW blocks \in SUBSET LB, GcAt(blocks)
  PROVE  CompInv'
<1>1. PICK lb \in FirstsOf(blocks) :
        IF Reclaimable(lb)
        THEN /\ victim' = lb /\ rev_at' = 0 /\ pc' = "gc"
             /\ UNCHANGED <<store, host_cmd, lp_list, at>>
        ELSE Fail
  BY DEF GcAt
<1>2. CASE ~Reclaimable(lb)
  BY <1>1, <1>2, FailStep
<1>3. CASE Reclaimable(lb)
  <2>1. /\ victim' = lb /\ rev_at' = 0 /\ pc' = "gc"
        /\ UNCHANGED <<lpt, lbt, free_list, buf, pending_cmd, destaged, host_cmd, lp_list, at>>
    BY <1>1, <1>3 DEF store
  <2>2. lb \in LB /\ lb # buf.tgt_lgblock
    BY <1>3 DEF FirstsOf, Reclaimable, CompInv, StoreInv, OpenState
  <2>3. lbt[lb].rev_map \in Seq(REVMAP)
    BY <2>2 DEF CompInv, CompTypeOK, LOGBLOCK
  <2>4. ASSUME NEW p \in LiveIn(lb)
        PROVE  \E i \in DOMAIN lbt[lb].rev_map :
                 i > 0 /\ lbt[lb].rev_map[i] = [ofs |-> lpt[p].ofs, lpn |-> p]
    <3>1. p \in LP /\ lpt[p].lb_id = lb
      BY DEF LiveIn
    <3>2. [ofs |-> lpt[p].ofs, lpn |-> p] \in ToSet(lbt[lb].rev_map)
      BY <3>1 DEF CompInv, StoreInv, RevMapCovers
    <3>3. PICK i \in DOMAIN lbt[lb].rev_map : lbt[lb].rev_map[i] = [ofs |-> lpt[p].ofs, lpn |-> p]
      BY <3>2 DEF ToSet
    <3>4. i > 0
      BY <2>3, <3>3
    <3>. QED BY <3>3, <3>4
  <2>5. LiveIn(victim)' = LiveIn(lb)
    BY <2>1 DEF LiveIn
  <2>6. GcInv'
    <3>1. PagesAhead'
      BY <2>1, <2>4, <2>5 DEF PagesAhead
    <3>2. victim' # buf'.tgt_lgblock /\ rev_at' <= Len(lbt'[victim'].rev_map)
      BY <2>1, <2>2, <2>3
    <3>. QED BY <3>1, <3>2 DEF GcInv
  <2>. QED BY <2>1, <2>2, <2>6, QuietStep DEF CompInv, CompTypeOK
<1>. QED BY <1>2, <1>3

LEMMA WriteKeeps ==
  ASSUME CompInv, OpenBlockKept, OpenBlockKept', NEW lp \in LP, NEW length \in Lengths,
         lp_write(lp, length)
  PROVE  /\ StoreInv' /\ Writing(lp, length)
         /\ lpt' \in [LP -> LPMAP] /\ lbt' \in [LB -> LOGBLOCK] /\ free_list' \in Seq(LB)
         /\ buf' \in [tgt_lgblock : LB, cur_sector : 0..LbSize]
         /\ pending_cmd' \in Seq(LB) /\ destaged' \subseteq LB
<1>1. Writing(lp, length)
  BY WriteDoes DEF Writing, CompInv
<1>. QED BY <1>1, StoreAfter, TypesAfter

LEMMA WritePageStep ==
  ASSUME CompInv, OpenBlockKept, OpenBlockKept', NEW length \in Lengths, WritePage(length)
  PROVE  CompInv'
<1>1. CASE LpWriteFails(Page, length)
  BY <1>1, FailStep DEF WritePage
<1>2. CASE ~LpWriteFails(Page, length)
  <2>1. /\ lp_write(Page, length) /\ at' = at + 1 /\ pc = "pages" /\ at < Len(lp_list)
        /\ UNCHANGED <<pc, host_cmd, lp_list, victim, rev_at>>
    BY <1>2 DEF WritePage, InPages
  <2>2. lp_list \in Seq(LPCMD) /\ at \in 0..Len(lp_list)
    BY DEF CompInv, CompTypeOK
  <2>3. Page \in LP /\ at' \in 0..Len(lp_list)
    <3>1. at + 1 \in 1..Len(lp_list) /\ at + 1 \in 0..Len(lp_list)
      BY <2>1, <2>2
    <3>2. lp_list[at + 1] \in LPCMD
      BY <2>2, <3>1
    <3>. QED BY <2>1, <3>1, <3>2 DEF Page, LPCMD
  <2>4. GcInv'
    BY <2>1 DEF GcInv
  <2>. QED BY <2>1, <2>3, <2>4, WriteKeeps DEF CompInv, CompTypeOK
<1>. QED BY <1>1, <1>2

LEMMA GcSkipStep ==
  ASSUME CompInv, GcSkip
  PROVE  CompInv'
<1>1. /\ pc = "gc" /\ rev_at < Len(lbt[victim].rev_map) /\ ~IsLive(Rev) /\ rev_at' = rev_at + 1
      /\ UNCHANGED <<lpt, lbt, free_list, buf, pending_cmd, destaged, pc, host_cmd, lp_list, at, victim>>
  BY DEF GcSkip, InVictim, store
<1>2. rev_at \in Nat /\ lbt[victim].rev_map \in Seq(REVMAP) /\ GcInv
  BY DEF CompInv, CompTypeOK, LOGBLOCK
<1>3. ASSUME NEW p \in LiveIn(victim)
      PROVE  \E i \in DOMAIN lbt[victim].rev_map :
               i > rev_at + 1 /\ lbt[victim].rev_map[i] = [ofs |-> lpt[p].ofs, lpn |-> p]
  <2>1. PICK i \in DOMAIN lbt[victim].rev_map :
          i > rev_at /\ lbt[victim].rev_map[i] = [ofs |-> lpt[p].ofs, lpn |-> p]
    BY <1>1, <1>2 DEF GcInv, PagesAhead
  <2>2. i # rev_at + 1
    <3>1. ASSUME i = rev_at + 1 PROVE FALSE
      <4>1. Rev = [ofs |-> lpt[p].ofs, lpn |-> p]
        BY <2>1, <3>1 DEF Rev
      <4>2. lpt[p].lb_id = victim
        BY DEF LiveIn
      <4>. QED BY <1>1, <4>1, <4>2 DEF IsLive
    <3>. QED BY <3>1
  <2>3. i \in Nat
    BY <1>2, <2>1
  <2>4. i > rev_at + 1
    BY <1>2, <2>1, <2>2, <2>3
  <2>. QED BY <2>1, <2>4
<1>4. LiveIn(victim)' = LiveIn(victim)
  BY <1>1 DEF LiveIn
<1>5. GcInv'
  <2>1. PagesAhead'
    BY <1>1, <1>3, <1>4 DEF PagesAhead
  <2>2. rev_at' <= Len(lbt'[victim'].rev_map)
    BY <1>1, <1>2
  <2>. QED BY <1>1, <1>2, <2>1, <2>2 DEF GcInv
<1>6. rev_at' \in Nat
  BY <1>1, <1>2
<1>. QED BY <1>1, <1>5, <1>6, QuietStep DEF CompInv, CompTypeOK

LEMMA GcMoveStep ==
  ASSUME CompInv, OpenBlockKept, OpenBlockKept', NEW length \in Lengths, GcMove(length)
  PROVE  CompInv'
<1>1. CASE LpWriteFails(Rev.lpn, length)
  BY <1>1, FailStep DEF GcMove
<1>2. CASE ~LpWriteFails(Rev.lpn, length)
  <2>. DEFINE lp == Rev.lpn
  <2>1. /\ lp_write(lp, length) /\ rev_at' = rev_at + 1 /\ pc = "gc" /\ IsLive(Rev)
        /\ rev_at < Len(lbt[victim].rev_map)
        /\ UNCHANGED <<pc, host_cmd, lp_list, at, victim>>
    BY <1>2 DEF GcMove, InVictim
  <2>2. /\ rev_at \in Nat /\ lbt[victim].rev_map \in Seq(REVMAP) /\ GcInv /\ victim \in LB
        /\ CompTypeOK
    BY DEF CompInv, CompTypeOK, LOGBLOCK
  <2>3. lp \in LP /\ lp \in LiveIn(victim)
    <3>1. rev_at + 1 \in 1..Len(lbt[victim].rev_map)
      BY <2>1, <2>2
    <3>2. Rev \in REVMAP
      BY <2>2, <3>1 DEF Rev
    <3>. QED BY <2>1, <3>2 DEF REVMAP, IsLive, LiveIn
  <2>4. victim # buf.tgt_lgblock /\ PagesAhead
    BY <2>1, <2>2 DEF GcInv
  <2>. HIDE DEF lp
  <2>5. Writing(lp, length)
    BY <2>1, <2>3, WriteKeeps
  <2>6. victim # Tgt(length)
    BY <2>3, <2>4, <2>5, TargetHasRoom
  <2>7. lbt'[victim].rev_map = lbt[victim].rev_map
    <3>1. lbt'[victim].rev_map = Before0(length, victim).rev_map
      BY <2>2, <2>5, <2>6 DEF Writing, WritesPage
    <3>2. Before0(length, victim).rev_map = lbt[victim].rev_map
      BY <2>2, <2>6, Before0Is
    <3>. QED BY <3>1, <3>2
  <2>8. LiveIn(victim)' = LiveIn(victim) \ {lp}
    <3>1. \A lb \in LB : LiveIn(lb)' = (LiveIn(lb) \ {lp}) \cup (IF lb = Tgt(length) THEN {lp} ELSE {})
      BY <2>5, PlacesAfter
    <3>2. LiveIn(victim)' = {p \in LP : lpt'[p].lb_id = victim}
      BY <2>1 DEF LiveIn
    <3>3. {p \in LP : lpt'[p].lb_id = victim} = (LiveIn(victim) \ {lp}) \cup (IF victim = Tgt(length) THEN {lp} ELSE {})
      BY <2>2, <3>1 DEF LiveIn
    <3>. QED BY <2>6, <3>2, <3>3
  <2>9. ASSUME NEW p \in LiveIn(victim) \ {lp}
        PROVE  \E i \in DOMAIN lbt[victim].rev_map :
                 i > rev_at + 1 /\ lbt[victim].rev_map[i] = [ofs |-> lpt'[p].ofs, lpn |-> p]
    <3>1. PICK i \in DOMAIN lbt[victim].rev_map :
            i > rev_at /\ lbt[victim].rev_map[i] = [ofs |-> lpt[p].ofs, lpn |-> p]
      BY <2>4 DEF PagesAhead
    <3>2. i # rev_at + 1
      <4>1. ASSUME i = rev_at + 1 PROVE FALSE
        <5>1. Rev.lpn = p
          BY <3>1, <4>1 DEF Rev
        <5>. QED BY <5>1 DEF lp
      <4>. QED BY <4>1
    <3>3. i \in Nat
      BY <2>2, <3>1
    <3>4. i > rev_at + 1
      BY <2>2, <3>1, <3>2, <3>3
    <3>5. lpt'[p] = lpt[p]
      <4>1. p \in LP \ {lp}
        BY DEF LiveIn
      <4>. QED BY <2>5, <4>1, PlacesAfter
    <3>. QED BY <3>1, <3>4, <3>5
  <2>10. GcInv'
    <3>1. PagesAhead'
      BY <2>1, <2>7, <2>8, <2>9 DEF PagesAhead
    <3>2. victim' # buf'.tgt_lgblock
      BY <2>1, <2>5, <2>6 DEF Writing, WritesPage
    <3>3. rev_at' <= Len(lbt'[victim'].rev_map)
      BY <2>1, <2>2, <2>7
    <3>. QED BY <3>1, <3>2, <3>3 DEF GcInv
  <2>11. rev_at' \in Nat
    BY <2>1, <2>2
  <2>. QED BY <2>1, <2>2, <2>3, <2>10, <2>11, WriteKeeps DEF CompInv, CompTypeOK
<1>. QED BY <1>1, <1>2

LEMMA CompNext ==
  ASSUME CompInv, OpenBlockKept, OpenBlockKept', [Next]_vars
  PROVE  CompInv'
<1>1. CASE UNCHANGED vars
  <2>1. UNCHANGED <<lpt, lbt, free_list, buf, pending_cmd, destaged,
                    pc, host_cmd, lp_list, at, victim, rev_at>>
    BY <1>1 DEF vars, store
  <2>2. GcInv'
    BY <2>1 DEF CompInv, GcInv, PagesAhead, LiveIn
  <2>. QED BY <2>1, <2>2, QuietStep DEF CompInv, CompTypeOK
<1>2. ASSUME NEW cmd \in HostCommands, receive_command(cmd) PROVE CompInv'
  <2>1. extract_hcmd_to_lp(cmd) \in Seq(LPCMD) /\ 0 \in 0..Len(extract_hcmd_to_lp(cmd))
    <3>. HIDE DEF extract_hcmd_to_lp
    <3>1. extract_hcmd_to_lp(cmd) \in Seq(LPCMD)
      BY PagesAreTyped
    <3>. QED BY <3>1
  <2>2. GcInv'
    BY <1>2 DEF receive_command, GcInv
  <2>. QED BY <1>2, <2>1, <2>2, QuietStep DEF receive_command, store, CompInv, CompTypeOK
<1>3. CASE ReadPage
  <2>1. GcInv'
    BY <1>3 DEF ReadPage, InPages, GcInv
  <2>2. at' \in 0..Len(lp_list)
    BY <1>3 DEF ReadPage, InPages, CompInv, CompTypeOK
  <2>. QED BY <1>3, <2>1, <2>2, QuietStep DEF ReadPage, store, CompInv, CompTypeOK
<1>4. ASSUME NEW length \in Lengths, WritePage(length) PROVE CompInv'
  BY <1>4, WritePageStep
<1>5. CASE PagesDone
  BY <1>5, ReturnStep DEF PagesDone
<1>6. CASE GcStart
  BY <1>6, GcAtStep DEF GcStart
<1>7. CASE GcSkip
  BY <1>7, GcSkipStep
<1>8. ASSUME NEW length \in Lengths, GcMove(length) PROVE CompInv'
  BY <1>8, GcMoveStep
<1>9. CASE GcNext
  <2>. DEFINE following == {lb \in LB : Before(victim, lb)}
  <2>1. Return \/ GcAt(following)
    BY <1>9 DEF GcNext
  <2>2. following \in SUBSET LB
    OBVIOUS
  <2>. HIDE DEF following
  <2>. QED BY <2>1, <2>2, ReturnStep, GcAtStep
<1>10. CASE pull_next_command
  <2>1. pc = "idle" /\ pc' = pc
    BY <1>10 DEF pull_next_command
  <2>2. GcInv'
    BY <2>1 DEF GcInv
  <2>3. Tail(pending_cmd) \in Seq(LB)
    BY <1>10 DEF pull_next_command, CompInv, CompTypeOK
  <2>. QED BY <1>10, <2>2, <2>3, QuietStep DEF pull_next_command, CompInv, CompTypeOK
<1>. QED
  BY <1>1, <1>2, <1>3, <1>4, <1>5, <1>6, <1>7, <1>8, <1>9, <1>10 DEF Next

\* The room a page gives back is room of its block: the sum stays in the block.
LEMMA SizeHolds ==
  ASSUME CompInv, OpenBlockKept, NEW lp \in LP, NEW length \in Lengths
  PROVE  ~SizeViolation(lp, length)
<1>. SUFFICES ASSUME ~NoFreeBlock(length)
              PROVE  ~(Placed(lp, length).lbt[lpt[lp].lb_id].free_sector_num + lpt[lp].len > LbSize)
  BY Zenon DEF SizeViolation
<1>. DEFINE o == lpt[lp].lb_id
            E == EmptySectors(o)
            X == Extent(lp)
<1>1. CompTypeOK /\ StoreInv
  BY DEF CompInv
<1>2. /\ IsFiniteSet(X) /\ Cardinality(X) = lpt[lp].len /\ lpt[lp].len \in Nat /\ o \in LB
      /\ X \subseteq 0..(LbSize - 1) /\ lp \in LiveIn(o)
  BY <1>1, ExtentIs DEF StoreInv, LiveIn
<1>3. /\ IsFiniteSet(E) /\ E \subseteq 0..(LbSize - 1) /\ Cardinality(E) \in Nat /\ E \cap X = {}
      /\ IsFiniteSet(0..(LbSize - 1)) /\ Cardinality(0..(LbSize - 1)) = LbSize /\ LbSize \in Nat
  BY <1>2, EmptyIs, InEmpty, CompNumbers
<1>4. ~(is_buf_full(length) /\ o = Tgt(length))
  <2>1. ASSUME is_buf_full(length), o = Tgt(length) PROVE FALSE
    <3>1. free_list # <<>> /\ free_list \in Seq(LB) /\ o = Head(free_list)
      BY <1>1, <2>1 DEF NoFreeBlock, Tgt, CompTypeOK
    <3>2. o \in ToSet(free_list)
      BY <3>1 DEF ToSet
    <3>3. o # buf.tgt_lgblock
      BY <3>2 DEF OpenBlockKept
    <3>. QED BY <1>1, <1>2, <3>2, <3>3 DEF StoreInv, FreeListExact
  <2>. QED BY <2>1
<1>5. Placed(lp, length).lbt[o].free_sector_num = Cardinality(E)
  <2>1. Placed(lp, length).lbt[o].free_sector_num = Before0(length, o).free_sector_num
    BY <1>1, <1>2, PlacedDoes
  <2>2. Before0(length, o).free_sector_num = lbt[o].free_sector_num
    BY <1>1, <1>2, <1>4, Before0Is
  <2>3. lbt[o].free_sector_num = Cardinality(E)
    BY <1>1, <1>2 DEF StoreInv, FreeSectorsExact
  <2>. QED BY <2>1, <2>2, <2>3
<1>. HIDE DEF E, X
<1>6. Cardinality(E \cup X) = Cardinality(E) + Cardinality(X) - Cardinality(E \cap X)
  BY <1>2, <1>3, FS_Union
<1>7. Cardinality(E \cap X) = 0
  BY <1>3, FS_EmptySet
<1>8. Cardinality(E \cup X) <= LbSize
  <2>1. E \cup X \in SUBSET (0..(LbSize - 1))
    BY <1>2, <1>3
  <2>2. IsFiniteSet(0..(LbSize - 1)) /\ Cardinality(0..(LbSize - 1)) = LbSize
    BY <1>3
  <2>. QED BY <2>1, <2>2, FS_Subset
<1>9. Cardinality(E) + lpt[lp].len <= LbSize
  BY <1>2, <1>3, <1>6, <1>7, <1>8
<1>. QED BY <1>2, <1>3, <1>5, <1>9

LEMMA SizeViolationNever ==
  ASSUME CompInv, OpenBlockKept
  PROVE  NoSizeViolation
<1>. SUFFICES ASSUME InPages, NEW length \in Lengths PROVE ~SizeViolation(Page, length)
  BY Zenon DEF NoSizeViolation
<1>1. lp_list \in Seq(LPCMD) /\ at + 1 \in 1..Len(lp_list)
  BY DEF InPages, CompInv, CompTypeOK
<1>2. Page \in LP
  <2>1. lp_list[at + 1] \in LPCMD
    BY <1>1
  <2>. QED BY <2>1 DEF Page, LPCMD
<1>. QED BY <1>2, SizeHolds

\* When the reverse map of the victim is done, no page is left in the block: it
\* was listed as free with the last one.
LEMMA VictimDone ==
  ASSUME CompInv, GcNext
  PROVE  lbt[victim].state = "LB_FREE"
<1>1. pc = "gc" /\ ~(rev_at < Len(lbt[victim].rev_map)) /\ victim \in LB /\ rev_at \in Nat
      /\ lbt[victim].rev_map \in Seq(REVMAP)
  BY DEF GcNext, InVictim, CompInv, CompTypeOK, LOGBLOCK
<1>2. victim # buf.tgt_lgblock /\ PagesAhead
  BY <1>1 DEF CompInv, GcInv
<1>3. LiveIn(victim) = {}
  <2>1. ASSUME NEW p \in LiveIn(victim) PROVE FALSE
    <3>1. PICK i \in DOMAIN lbt[victim].rev_map : i > rev_at
      BY <1>2 DEF PagesAhead
    <3>. QED BY <1>1, <3>1
  <2>. QED BY <2>1
<1>. QED BY <1>1, <1>2, <1>3 DEF CompInv, StoreInv, StatesMatch, FreeListExact

-----------------------------------------------------------------------------
(* The blocks after init *)

\* How many pages a block is given.
Given(lb) == IF lb < FirstOpen THEN PagesPerLB
             ELSE IF lb = FirstOpen THEN LpNum - FirstOpen * PagesPerLB ELSE 0

LEMMA InitNumbers ==
  /\ PagesPerLB \in Nat \ {0} /\ PagesPerLB * AvgLen <= LbSize /\ PagesPerLB * AvgLen \in Nat
  /\ FirstOpen \in LB /\ FirstOpen \in Nat
  /\ FirstOpen * PagesPerLB \in Nat /\ FirstOpen * PagesPerLB < LpNum
  /\ LpNum <= FirstOpen * PagesPerLB + PagesPerLB
<1>1. AvgLen \in Nat \ {0} /\ LbSize \in Nat /\ AvgLen <= LbSize /\ LpNum \in Nat \ {0}
  BY CompNumbers
<1>2. /\ PagesPerLB \in Nat /\ LbSize % AvgLen \in 0..(AvgLen - 1)
      /\ LbSize = AvgLen * PagesPerLB + (LbSize % AvgLen)
  BY <1>1, DivMod DEF PagesPerLB
<1>. DEFINE P == PagesPerLB
<1>. HIDE DEF P
<1>3. P # 0
  <2>1. P = 0 => AvgLen * P = 0
    BY <1>1
  <2>. QED BY <1>1, <1>2, <2>1 DEF P
<1>4. P * AvgLen \in Nat /\ P * AvgLen <= LbSize
  <2>1. P * AvgLen = AvgLen * P /\ AvgLen * P \in Nat
    BY <1>1, <1>2 DEF P
  <2>. QED BY <1>1, <1>2, <2>1 DEF P
<1>5. P \in Nat \ {0} /\ LpNum - 1 \in Nat
  BY <1>1, <1>2, <1>3 DEF P
<1>6. /\ (LpNum - 1) \div P \in Nat /\ (LpNum - 1) % P \in 0..(P - 1)
      /\ LpNum - 1 = P * ((LpNum - 1) \div P) + ((LpNum - 1) % P)
  BY <1>5, DivMod
<1>7. FirstOpen = (LpNum - 1) \div P
  BY DEF FirstOpen, P
<1>8. FirstOpen * P \in Nat /\ FirstOpen * P = P * FirstOpen
  <2>1. P \in Nat /\ FirstOpen \in Nat
    BY <1>5, <1>6, <1>7
  <2>. HIDE DEF P
  <2>2. \A a, b \in Nat : a * b \in Nat /\ a * b = b * a
    OBVIOUS
  <2>. QED BY <2>1, <2>2
<1>. QED BY <1>1, <1>4, <1>5, <1>6, <1>7, <1>8, CompAssumption DEF P

\* The pages of a block are numbered from that of its first.
LEMMA PagesOf ==
  ASSUME NEW lb \in LB
  PROVE  /\ lb * PagesPerLB \in Nat /\ Given(lb) \in 0..PagesPerLB
         /\ {lp \in LP : lp \div PagesPerLB = lb}
              = (lb * PagesPerLB)..(lb * PagesPerLB + Given(lb) - 1)
         /\ IsFiniteSet({lp \in LP : lp \div PagesPerLB = lb})
         /\ Cardinality({lp \in LP : lp \div PagesPerLB = lb}) = Given(lb)
         /\ Given(lb) = 0 <=> lb > FirstOpen
<1>. DEFINE P == PagesPerLB
            F == FirstOpen
            g == Given(lb)
            S == {lp \in LP : lp \div P = lb}
<1>1. /\ P \in Nat \ {0} /\ F \in Nat /\ LpNum \in Nat /\ lb \in Nat
      /\ F * P \in Nat /\ F * P < LpNum /\ LpNum <= F * P + P
  BY InitNumbers, CompNumbers DEF LB
<1>2. LP = 0..(LpNum - 1)
  BY DEF LP
<1>3. g = IF lb < F THEN P ELSE IF lb = F THEN LpNum - F * P ELSE 0
  BY DEF Given
<1>. HIDE DEF P, F, g
<1>4. PICK base \in Nat : base = lb * P
  BY <1>1
<1>5. PICK fp \in Nat : fp = F * P
  BY <1>1
<1>6. lb < F => base + P <= fp
  <2>1. P * lb = base /\ P * F = fp
    BY <1>1, <1>4, <1>5
  <2>. QED BY <1>1, <2>1, NextMultiple
<1>7. F < lb => fp + P <= base
  <2>1. P * lb = base /\ P * F = fp
    BY <1>1, <1>4, <1>5
  <2>. QED BY <1>1, <2>1, NextMultiple
<1>8. lb = F => base = fp
  BY <1>4, <1>5
<1>9. g \in 0..P /\ (g = 0 <=> lb > F)
  BY <1>1, <1>3, <1>5
<1>10. ASSUME NEW lp \in Nat PROVE lp \div P = lb <=> base <= lp /\ lp < base + P
  <2>1. /\ lp \div P \in Nat /\ lp % P \in 0..(P - 1) /\ lp = P * (lp \div P) + (lp % P)
    BY <1>1, DivMod
  <2>2. ASSUME lp \div P = lb PROVE base <= lp /\ lp < base + P
    <3>1. P * (lp \div P) = base
      BY <1>1, <1>4, <2>2
    <3>. QED BY <1>1, <2>1, <3>1
  <2>3. ASSUME base <= lp, lp < base + P PROVE lp \div P = lb
    <3>1. lp - base \in 0..(P - 1) /\ lp = P * lb + (lp - base)
      <4>1. P * lb = base
        BY <1>1, <1>4
      <4>. QED BY <1>1, <2>3, <4>1
    <3>2. lp - base \in Nat
      BY <2>3
    <3>. QED BY <1>1, <3>1, <3>2, DivModIs
  <2>. QED BY <2>2, <2>3
<1>11. S = base..(base + g - 1)
  <2>1. ASSUME NEW lp \in S PROVE lp \in base..(base + g - 1)
    <3>1. lp \in Nat /\ lp < LpNum /\ base <= lp /\ lp < base + P
      <4>1. lp \in 0..(LpNum - 1) /\ lp \div P = lb
        BY <1>2, <2>1
      <4>2. lp \in Nat /\ lp < LpNum
        BY <1>1, <4>1
      <4>. QED BY <1>10, <4>1, <4>2
    <3>. QED BY <1>1, <1>3, <1>5, <1>6, <1>7, <1>8, <1>9, <3>1
  <2>2. ASSUME NEW lp \in base..(base + g - 1) PROVE lp \in S
    <3>1. lp \in Nat /\ base <= lp /\ lp < base + P /\ lp < LpNum
      BY <1>1, <1>3, <1>5, <1>6, <1>8, <1>9
    <3>2. lp \in LP
      BY <1>1, <1>2, <3>1
    <3>. QED BY <1>10, <3>1, <3>2
  <2>. QED BY <2>1, <2>2
<1>12. IsFiniteSet(base..(base + g - 1)) /\ Cardinality(base..(base + g - 1)) = g
  <2>1. g \in Nat /\ base \in Int /\ base + g - 1 \in Int
    BY <1>1, <1>9
  <2>2. (base + g - 1) - base + 1 = g /\ (base > base + g - 1 => g = 0)
    BY <2>1
  <2>. QED BY <2>1, <2>2, FS_Interval
<1>13. S = (lb * P)..(lb * P + g - 1)
  BY <1>4, <1>11
<1>14. lb * P \in Nat /\ IsFiniteSet(S) /\ Cardinality(S) = g
  BY <1>4, <1>11, <1>12
<1>. QED BY <1>9, <1>13, <1>14 DEF P, F, g

\* Pages of one length, one behind the other.
LEMMA Rows ==
  ASSUME NEW a \in Nat, NEW r \in Nat, NEW g \in Nat, r < g
  PROVE  r * a \in Nat /\ g * a \in Nat /\ r * a + a <= g * a
<1>1. a * r + a <= a * g
  BY NextMultiple
<1>2. \A i, j \in Nat : i * j = j * i /\ i * j \in Nat
  OBVIOUS
<1>. QED BY <1>1, <1>2

LEMMA InitGiven ==
  ASSUME NEW lb \in LB
  PROVE  Given(lb) \in Nat /\ Given(lb) * AvgLen \in Nat /\ Given(lb) * AvgLen <= LbSize
<1>1. Given(lb) \in 0..PagesPerLB
  BY PagesOf
<1>2. AvgLen \in Nat /\ PagesPerLB \in Nat /\ PagesPerLB * AvgLen <= LbSize /\ LbSize \in Nat
  BY InitNumbers, CompNumbers
<1>. DEFINE g == Given(lb)
            P == PagesPerLB
<1>3. g \in Nat /\ (g < P \/ g = P)
  BY <1>1, <1>2
<1>. HIDE DEF g, P
<1>4. g * AvgLen \in Nat
  BY <1>2, <1>3
<1>5. g < P => g * AvgLen + AvgLen <= P * AvgLen
  BY <1>2, <1>3, Rows DEF P
<1>6. P * AvgLen \in Nat /\ P * AvgLen <= LbSize
  BY InitNumbers DEF P
<1>. QED BY <1>2, <1>3, <1>4, <1>5, <1>6 DEF g

\* The place init gives a page.
Row(lp) == lp % PagesPerLB
LEMMA InitPlace ==
  ASSUME Init, NEW lp \in LP
  PROVE  /\ lpt[lp].lb_id = lp \div PagesPerLB /\ lpt[lp].ofs = Row(lp) * AvgLen
         /\ lpt[lp].len = AvgLen
         /\ lp \div PagesPerLB \in LB /\ Row(lp) \in Nat /\ Row(lp) < Given(lp \div PagesPerLB)
         /\ Row(lp) * AvgLen \in Nat
         /\ Row(lp) * AvgLen + AvgLen <= Given(lp \div PagesPerLB) * AvgLen
         /\ lp = (lp \div PagesPerLB) * PagesPerLB + Row(lp)
<1>. DEFINE P == PagesPerLB
            q == lp \div P
            r == lp % P
<1>1. /\ P \in Nat \ {0} /\ FirstOpen \in Nat /\ FirstOpen \in LB /\ LpNum \in Nat /\ LbNum \in Nat
      /\ LpNum <= FirstOpen * P + P /\ FirstOpen * P \in Nat
      /\ lp \in Nat /\ lp < LpNum
  BY InitNumbers, CompNumbers DEF LP
<1>2. lpt[lp].lb_id = q /\ lpt[lp].ofs = r * AvgLen /\ lpt[lp].len = AvgLen
  <2>1. lpt[lp] = [lb_id |-> q, ofs |-> r * AvgLen, len |-> AvgLen]
    BY DEF Init
  <2>. QED BY <2>1
<1>. HIDE DEF P
<1>3. q \in Nat /\ r \in 0..(P - 1) /\ lp = P * q + r
  BY <1>1, DivMod
<1>. HIDE DEF q, r
<1>4. q <= FirstOpen
  <2>1. FirstOpen < q => P * FirstOpen + P <= P * q
    BY <1>1, <1>3, NextMultiple
  <2>2. PICK pf \in Nat : pf = FirstOpen * P /\ pf = P * FirstOpen
    BY <1>1
  <2>3. PICK pq \in Nat : pq = P * q
    BY <1>1, <1>3
  <2>. QED BY <1>1, <1>3, <2>1, <2>2, <2>3
<1>5. q \in LB
  BY <1>1, <1>3, <1>4 DEF LB
<1>6. lp = q * P + r
  BY <1>1, <1>3
<1>7. r < Given(q)
  <2>1. lp \in {p \in LP : p \div PagesPerLB = q}
    BY DEF q, P
  <2>2. lp \in (q * PagesPerLB)..(q * PagesPerLB + Given(q) - 1) /\ Given(q) \in 0..PagesPerLB
    BY <1>5, <2>1, PagesOf
  <2>3. PICK base \in Nat : base = q * P
    BY <1>1, <1>3
  <2>. QED BY <1>1, <1>3, <1>6, <2>2, <2>3 DEF P
<1>8. Given(q) \in Nat /\ AvgLen \in Nat /\ r \in Nat
  BY <1>1, <1>3, <1>5, InitGiven, CompNumbers
<1>9. r * AvgLen \in Nat /\ r * AvgLen + AvgLen <= Given(q) * AvgLen
  BY <1>7, <1>8, Rows
<1>. QED BY <1>2, <1>5, <1>6, <1>7, <1>8, <1>9, Zenon DEF Row, q, r, P

LEMMA InitEmpty ==
  ASSUME Init, NEW lb \in LB
  PROVE  /\ LiveIn(lb) = {lp \in LP : lp \div PagesPerLB = lb}
         /\ Cardinality(EmptySectors(lb)) = LbSize - Given(lb) * AvgLen
<1>. DEFINE g == Given(lb)
            top == g * AvgLen
<1>1. LiveIn(lb) = {lp \in LP : lp \div PagesPerLB = lb}
  <2>1. ASSUME NEW lp \in LP PROVE lpt[lp].lb_id = lp \div PagesPerLB
    BY InitPlace
  <2>. QED BY <2>1 DEF LiveIn
<1>2. g \in Nat /\ top \in Nat /\ top <= LbSize /\ LbSize \in Nat /\ AvgLen \in Nat \ {0}
  BY InitGiven, CompNumbers
<1>3. \A p \in LiveIn(lb) :
        /\ Extent(p) = (Row(p) * AvgLen)..(Row(p) * AvgLen + AvgLen - 1)
        /\ Row(p) * AvgLen \in Nat /\ Row(p) * AvgLen + AvgLen <= top
  <2>1. ASSUME NEW p \in LiveIn(lb)
        PROVE  /\ Extent(p) = (Row(p) * AvgLen)..(Row(p) * AvgLen + AvgLen - 1)
               /\ Row(p) * AvgLen \in Nat /\ Row(p) * AvgLen + AvgLen <= top
    <3>1. p \in LP /\ p \div PagesPerLB = lb
      BY <1>1
    <3>2. lpt[p].ofs = Row(p) * AvgLen /\ lpt[p].len = AvgLen
      BY <3>1, InitPlace
    <3>3. Row(p) * AvgLen \in Nat /\ Row(p) * AvgLen + AvgLen <= Given(p \div PagesPerLB) * AvgLen
      BY <3>1, InitPlace
    <3>4. Extent(p) = (Row(p) * AvgLen)..(Row(p) * AvgLen + AvgLen - 1)
      BY <3>2, Zenon DEF Extent
    <3>. QED BY <3>1, <3>3, <3>4, Zenon
  <2>. QED BY <2>1
<1>4. ASSUME NEW x \in 0..(LbSize - 1), x < top PROVE \E p \in LiveIn(lb) : x \in Extent(p)
  <2>. DEFINE r == x \div AvgLen
              P == PagesPerLB
              p == lb * P + r
  <2>1. /\ x \in Nat /\ r \in Nat /\ x % AvgLen \in 0..(AvgLen - 1) /\ x = AvgLen * r + (x % AvgLen)
    <3>1. x \in Nat
      BY <1>2
    <3>. QED BY <1>2, <3>1, DivMod
  <2>. HIDE DEF r, top
  <2>2. r < g
    <3>1. g < r => AvgLen * g + AvgLen <= AvgLen * r
      BY <1>2, <2>1, NextMultiple
    <3>2. top = AvgLen * g
      BY <1>2 DEF top
    <3>3. PICK ar \in Nat : ar = AvgLen * r
      BY <1>2, <2>1
    <3>4. PICK rest \in 0..(AvgLen - 1) : x = ar + rest
      BY <2>1, <3>3
    <3>5. g = r => top = ar
      BY <3>2, <3>3
    <3>. QED BY <1>2, <1>4, <2>1, <3>1, <3>2, <3>3, <3>4, <3>5
  <2>3. /\ lb * P \in Nat /\ g \in 0..P /\ P \in Nat \ {0} /\ lb \in Nat
        /\ {lp \in LP : lp \div P = lb} = (lb * P)..(lb * P + g - 1)
    <3>1. lb \in Nat
      BY CompNumbers DEF LB
    <3>. QED BY <3>1, PagesOf, InitNumbers, Zenon
  <2>. HIDE DEF P, g
  <2>4. p \in (lb * P)..(lb * P + g - 1)
    BY <2>1, <2>2, <2>3
  <2>5. p \in LiveIn(lb)
    BY <1>1, <2>3, <2>4 DEF P
  <2>6. Row(p) = r
    <3>1. r \in 0..(P - 1) /\ p = P * lb + r
      BY <2>1, <2>2, <2>3
    <3>. QED BY <2>3, <3>1, DivModIs DEF Row, P
  <2>7. PICK ra \in Nat : ra = r * AvgLen /\ ra = AvgLen * r
    BY <1>2, <2>1
  <2>8. x \in ra..(ra + AvgLen - 1)
    BY <1>2, <2>1, <2>7
  <2>. HIDE DEF p
  <2>. QED BY <1>3, <2>5, <2>6, <2>7, <2>8
<1>5. ASSUME NEW x \in 0..(LbSize - 1), ~(x < top), NEW p \in LiveIn(lb) PROVE x \notin Extent(p)
  <2>. HIDE DEF top
  <2>1. PICK ra \in Nat : ra = Row(p) * AvgLen
    BY <1>3
  <2>2. Extent(p) = ra..(ra + AvgLen - 1) /\ ra + AvgLen <= top
    BY <1>3, <2>1
  <2>. QED BY <1>2, <1>5, <2>1, <2>2
<1>6. EmptySectors(lb) = top..(LbSize - 1)
  <2>. HIDE DEF top
  <2>1. ASSUME NEW x PROVE x \in EmptySectors(lb) <=> x \in top..(LbSize - 1)
    <3>1. x \in EmptySectors(lb) <=> x \in 0..(LbSize - 1) /\ \A p \in LiveIn(lb) : x \notin Extent(p)
      BY InEmpty
    <3>2. x \in top..(LbSize - 1) <=> x \in 0..(LbSize - 1) /\ ~(x < top)
      BY <1>2
    <3>. QED BY <1>4, <1>5, <3>1, <3>2
  <2>. QED BY <2>1
<1>. HIDE DEF top
<1>7. Cardinality(top..(LbSize - 1)) = LbSize - top
  <2>1. top \in Int /\ LbSize - 1 \in Int /\ (LbSize - 1) - top + 1 = LbSize - top
        /\ (top > LbSize - 1 => LbSize - top = 0)
    BY <1>2
  <2>. QED BY <2>1, FS_Interval
<1>. QED BY <1>1, <1>6, <1>7 DEF top

\* The blocks init sets up.
LEMMA InitBlock ==
  ASSUME Init, NEW lb \in LB
  PROVE  /\ lbt[lb].state = IF lb < FirstOpen THEN "LB_CLOSE"
                            ELSE IF lb = FirstOpen /\ lb # 0 THEN "LB_OPEN" ELSE "LB_FREE"
         /\ lbt[lb].free_sector_num = LbSize - Given(lb) * AvgLen
         /\ lbt[lb].rev_map = [i \in 1..Given(lb) |->
                                 [ofs |-> (i - 1) * AvgLen, lpn |-> lb * PagesPerLB + i - 1]]
         /\ lbt[lb] \in LOGBLOCK
<1>. DEFINE pages == {lp \in LP : lp \div PagesPerLB = lb}
            n == Cardinality(pages)
            st == IF lb < FirstOpen THEN "LB_CLOSE"
                  ELSE IF lb = FirstOpen /\ lb # 0 THEN "LB_OPEN" ELSE "LB_FREE"
            rm(k) == [i \in 1..k |-> [ofs |-> (i - 1) * AvgLen, lpn |-> lb * PagesPerLB + i - 1]]
            g == Given(lb)
<1>1. lbt[lb] = [state |-> st, free_sector_num |-> LbSize - n * AvgLen, rev_map |-> rm(n)]
  BY Zenon DEF Init
<1>2. n = g
  BY PagesOf
<1>. HIDE DEF n, st, rm, g
<1>3. lbt[lb] = [state |-> st, free_sector_num |-> LbSize - g * AvgLen, rev_map |-> rm(g)]
  BY <1>1, <1>2
<1>4. /\ g \in Nat /\ g * AvgLen \in Nat /\ g * AvgLen <= LbSize /\ LbSize \in Nat \ {0}
      /\ AvgLen \in Nat \ {0}
  BY InitGiven, CompNumbers DEF g
<1>5. rm(g) \in Seq(REVMAP)
  <2>1. ASSUME NEW i \in 1..g
        PROVE  [ofs |-> (i - 1) * AvgLen, lpn |-> lb * PagesPerLB + i - 1] \in REVMAP
    <3>1. i - 1 \in Nat /\ i - 1 < g
      BY <1>4
    <3>. DEFINE j == i - 1
    <3>2. j * AvgLen \in Nat /\ j * AvgLen + AvgLen <= g * AvgLen
      <4>1. j \in Nat /\ j < g
        BY <3>1
      <4>. HIDE DEF j
      <4>. QED BY <1>4, <4>1, Rows
    <3>3. (i - 1) * AvgLen \in 0..(LbSize - 1)
      <4>. HIDE DEF j
      <4>1. j * AvgLen \in 0..(LbSize - 1)
        BY <1>4, <3>2
      <4>. QED BY <4>1 DEF j
    <3>4. lb * PagesPerLB + i - 1 \in LP
      <4>1. /\ lb * PagesPerLB \in Nat
            /\ {lp \in LP : lp \div PagesPerLB = lb}
                 = (lb * PagesPerLB)..(lb * PagesPerLB + g - 1)
        BY PagesOf DEF g
      <4>2. lb * PagesPerLB + i - 1 \in (lb * PagesPerLB)..(lb * PagesPerLB + g - 1)
        BY <1>4, <4>1
      <4>. QED BY <4>1, <4>2
    <3>. QED BY <3>3, <3>4 DEF REVMAP
  <2>2. rm(g) \in [1..g -> REVMAP]
    BY <2>1 DEF rm
  <2>. QED BY <1>4, <2>2
<1>6. st \in {"LB_FREE", "LB_OPEN", "LB_CLOSE"}
  BY DEF st
<1>7. LbSize - g * AvgLen \in 0..LbSize
  BY <1>4
<1>8. lbt[lb] \in LOGBLOCK
  BY <1>3, <1>5, <1>6, <1>7 DEF LOGBLOCK
<1>. QED BY <1>3, <1>8 DEF st, rm, g

LEMMA InitTypes ==
  ASSUME Init
  PROVE  CompTypeOK
<1>1. lpt \in [LP -> LPMAP]
  <2>1. ASSUME NEW lp \in LP
        PROVE  [lb_id |-> lp \div PagesPerLB, ofs |-> (lp % PagesPerLB) * AvgLen, len |-> AvgLen] \in LPMAP
    <3>1. /\ lp \div PagesPerLB \in LB /\ Row(lp) * AvgLen \in Nat
          /\ Row(lp) * AvgLen + AvgLen <= Given(lp \div PagesPerLB) * AvgLen
      BY InitPlace
    <3>2. Given(lp \div PagesPerLB) * AvgLen <= LbSize /\ Given(lp \div PagesPerLB) * AvgLen \in Nat
      BY <3>1, InitGiven
    <3>3. AvgLen \in Nat \ {0} /\ LbSize \in Nat /\ AvgLen <= LpSize /\ LpSize \in Nat
      BY CompNumbers
    <3>4. Row(lp) * AvgLen \in 0..(LbSize - 1) /\ AvgLen \in 1..LpSize
      BY <3>1, <3>2, <3>3
    <3>. QED BY <3>1, <3>4 DEF LPMAP, Row
  <2>. QED BY <2>1 DEF Init
<1>2. lbt \in [LB -> LOGBLOCK]
  <2>1. lbt = [lb \in LB |-> lbt[lb]]
    BY DEF Init
  <2>. QED BY <2>1, InitBlock
<1>3. FirstOpen \in Nat /\ FirstOpen \in LB /\ LbNum \in Nat \ {0} /\ LbSize \in Nat
  BY InitNumbers, CompNumbers
<1>4. free_list \in Seq(LB)
  <2>1. LbNum - 1 - FirstOpen \in Nat
    BY <1>3 DEF LB
  <2>2. free_list \in [1..(LbNum - 1 - FirstOpen) -> LB]
    BY <1>3, <2>1 DEF Init, LB
  <2>. QED BY <2>1, <2>2
<1>5. buf \in [tgt_lgblock : LB, cur_sector : 0..LbSize]
  <2>1. Given(FirstOpen) = LpNum - FirstOpen * PagesPerLB
    BY <1>3 DEF Given
  <2>2. (LpNum - FirstOpen * PagesPerLB) * AvgLen \in 0..LbSize
    BY <1>3, <2>1, InitGiven
  <2>. HIDE DEF Given
  <2>. QED BY <1>3, <2>2 DEF Init
<1>6. <<>> \in Seq(LB) /\ <<>> \in Seq(LPCMD) /\ 0 \in 0..Len(<<>>)
  OBVIOUS
<1>7. 0..(FirstOpen - 1) \subseteq LB
  BY <1>3 DEF LB
<1>8. pending_cmd \in Seq(LB) /\ lp_list \in Seq(LPCMD) /\ at \in 0..Len(lp_list) /\ rev_at \in Nat
      /\ victim \in LB /\ host_cmd \in HostCommands /\ pc = "idle" /\ destaged \subseteq LB
  BY <1>6, <1>7, NoCmdIsCommand DEF Init
<1>. QED BY <1>1, <1>2, <1>4, <1>5, <1>8 DEF CompTypeOK

LEMMA InitStore ==
  ASSUME Init
  PROVE  StoreInv
<1>. DEFINE F == FirstOpen
            P == PagesPerLB
<1>1. /\ F \in Nat /\ F \in LB /\ LbNum \in Nat /\ LbSize \in Nat /\ LpNum \in Nat
      /\ AvgLen \in Nat \ {0} /\ P \in Nat \ {0}
  BY InitNumbers, CompNumbers
<1>2. buf.tgt_lgblock = F /\ buf.cur_sector = Given(F) * AvgLen
  <2>1. Given(F) = LpNum - F * P
    BY <1>1 DEF Given
  <2>2. buf = [tgt_lgblock |-> F, cur_sector |-> (LpNum - F * P) * AvgLen]
    BY DEF Init
  <2>. HIDE DEF F, P, Given
  <2>. QED BY <2>1, <2>2
<1>3. ToSet(free_list) = {lb \in LB : lb > F} /\ IsInjective(free_list)
  <2>1. /\ LbNum - 1 - F \in Nat /\ free_list = [i \in 1..(LbNum - 1 - F) |-> F + i]
    BY <1>1 DEF Init, LB
  <2>2. ASSUME NEW lb \in LB, lb > F PROVE lb - F \in 1..(LbNum - 1 - F) /\ F + (lb - F) = lb
    BY <1>1, <2>2 DEF LB
  <2>3. ASSUME NEW i \in 1..(LbNum - 1 - F) PROVE F + i \in LB /\ F + i > F
    BY <1>1, <2>1 DEF LB
  <2>4. ToSet(free_list) = {lb \in LB : lb > F}
    <3>1. ASSUME NEW x \in ToSet(free_list) PROVE x \in {lb \in LB : lb > F}
      <4>1. PICK i \in 1..(LbNum - 1 - F) : x = F + i
        BY <2>1 DEF ToSet
      <4>. QED BY <2>3, <4>1
    <3>2. ASSUME NEW x \in {lb \in LB : lb > F} PROVE x \in ToSet(free_list)
      <4>1. free_list[x - F] = x /\ x - F \in DOMAIN free_list
        BY <2>1, <2>2
      <4>. QED BY <4>1 DEF ToSet
    <3>. QED BY <3>1, <3>2
  <2>5. IsInjective(free_list)
    BY <1>1, <2>1 DEF IsInjective
  <2>. QED BY <2>4, <2>5
<1>4. \A lp \in LP : LET q == lp \div P IN
        /\ lpt[lp].lb_id = q /\ lpt[lp].ofs = Row(lp) * AvgLen /\ lpt[lp].len = AvgLen
        /\ q \in LB /\ Row(lp) \in Nat /\ Row(lp) < Given(q)
        /\ Row(lp) * AvgLen \in Nat /\ Row(lp) * AvgLen + AvgLen <= Given(q) * AvgLen
        /\ lp = q * P + Row(lp)
  BY InitPlace
<1>5. \A lb \in LB : Given(lb) \in Nat /\ (LiveIn(lb) = {} <=> lb > F)
  <2>1. ASSUME NEW lb \in LB PROVE Given(lb) \in Nat /\ (LiveIn(lb) = {} <=> lb > F)
    <3>1. /\ IsFiniteSet(LiveIn(lb)) /\ Cardinality(LiveIn(lb)) = Given(lb)
          /\ Given(lb) = 0 <=> lb > F
      BY PagesOf, InitEmpty
    <3>2. LiveIn(lb) = {} <=> Cardinality(LiveIn(lb)) = 0
      BY <3>1, FS_EmptySet
    <3>. QED BY <3>1, <3>2, InitGiven
  <2>. QED BY <2>1
<1>6. FreeSectorsExact
  BY InitBlock, InitEmpty DEF FreeSectorsExact
<1>7. FreeListExact
  BY <1>3, <1>5 DEF FreeListExact
<1>8. LiveExtentsDisjoint
  <2>1. ASSUME NEW p \in LP, NEW r \in LP, lpt[p].lb_id = lpt[r].lb_id, Row(p) < Row(r)
        PROVE  Extent(p) \cap Extent(r) = {}
    <3>1. PICK a \in Nat, b \in Nat : a = Row(p) * AvgLen /\ b = Row(r) * AvgLen
      BY <1>4
    <3>2. a + AvgLen <= b
      BY <1>1, <1>4, <2>1, <3>1, Rows
    <3>3. Extent(p) = a..(a + AvgLen - 1) /\ Extent(r) = b..(b + AvgLen - 1)
      BY <1>4, <3>1 DEF Extent
    <3>. QED BY <1>1, <3>2, <3>3
  <2>2. ASSUME NEW p \in LP, NEW r \in LP, p # r, lpt[p].lb_id = lpt[r].lb_id
        PROVE  Extent(p) \cap Extent(r) = {}
    <3>1. Row(p) # Row(r)
      BY <1>4, <2>2
    <3>2. Row(p) < Row(r) \/ Row(r) < Row(p)
      BY <1>4, <3>1
    <3>. QED BY <2>1, <2>2, <3>2
  <2>3. ASSUME NEW p \in LP
        PROVE  lpt[p].ofs + lpt[p].len <=
                 IF lpt[p].lb_id = buf.tgt_lgblock THEN buf.cur_sector ELSE LbSize
    <3>1. PICK q \in LB : q = p \div P
      BY <1>4
    <3>2. PICK top \in Nat : top = Given(q) * AvgLen /\ top <= LbSize
      BY InitGiven
    <3>3. PICK a \in Nat : a = Row(p) * AvgLen /\ a + AvgLen <= top /\ lpt[p].ofs = a
                           /\ lpt[p].len = AvgLen /\ lpt[p].lb_id = q
      BY <1>4, <3>1, <3>2
    <3>. QED BY <1>1, <1>2, <3>2, <3>3
  <2>. QED BY <2>2, <2>3 DEF LiveExtentsDisjoint
<1>9. RevMapCovers
  <2>1. ASSUME NEW lp \in LP
        PROVE  [ofs |-> lpt[lp].ofs, lpn |-> lp] \in ToSet(lbt[lpt[lp].lb_id].rev_map)
    <3>. DEFINE q == lp \div P
                i == Row(lp) + 1
    <3>1. /\ q \in LB /\ lpt[lp].lb_id = q /\ lpt[lp].ofs = Row(lp) * AvgLen
          /\ Row(lp) \in Nat /\ Row(lp) < Given(q) /\ lp = q * P + Row(lp)
      BY <1>4
    <3>2. Given(q) \in Nat /\ q * P \in Nat
      BY <1>5, <3>1, PagesOf
    <3>3. lbt[q].rev_map = [j \in 1..Given(q) |-> [ofs |-> (j - 1) * AvgLen, lpn |-> q * P + j - 1]]
      BY <3>1, InitBlock
    <3>. HIDE DEF q, P
    <3>4. i \in 1..Given(q) /\ i - 1 = Row(lp) /\ q * P + i - 1 = lp
      BY <3>1, <3>2
    <3>. HIDE DEF i
    <3>5. i \in DOMAIN lbt[q].rev_map /\ lbt[q].rev_map[i] = [ofs |-> Row(lp) * AvgLen, lpn |-> lp]
      BY <3>3, <3>4
    <3>. QED BY <3>1, <3>5 DEF ToSet
  <2>. QED BY <2>1 DEF RevMapCovers
<1>10. ClosedIsDestaged
  <2>1. ASSUME NEW lp \in LP, lpt[lp].lb_id # F PROVE lpt[lp].lb_id \in 0..(F - 1)
    <3>1. lpt[lp].lb_id \in LB /\ lp \in LiveIn(lpt[lp].lb_id)
      BY <1>4 DEF LiveIn
    <3>2. ~(lpt[lp].lb_id > F)
      BY <1>5, <3>1
    <3>. QED BY <1>1, <2>1, <3>1, <3>2 DEF LB
  <2>. QED BY <1>2, <2>1 DEF ClosedIsDestaged, Init
<1>11. StatesMatch /\ OpenState
  <2>1. \A lb \in LB : lb \in Nat
    BY <1>1 DEF LB
  <2>2. \A lb \in LB : lbt[lb].state = IF lb < F THEN "LB_CLOSE"
                                       ELSE IF lb = F /\ lb # 0 THEN "LB_OPEN" ELSE "LB_FREE"
    BY InitBlock
  <2>. HIDE DEF F
  <2>3. StatesMatch
    BY <1>1, <1>2, <1>3, <2>1, <2>2 DEF StatesMatch
  <2>4. OpenState
    BY <1>1, <1>2, <2>2 DEF OpenState
  <2>. QED BY <2>3, <2>4
<1>12. OpenNotEmpty
  BY <1>1, <1>2, <1>5 DEF OpenNotEmpty
<1>. QED BY <1>6, <1>7, <1>8, <1>9, <1>10, <1>11, <1>12 DEF StoreInv

LEMMA CompInit == Init => CompInv
<1>1. Init => GcInv
  BY DEF Init, GcInv
<1>. QED BY <1>1, InitTypes, InitStore DEF CompInv

-----------------------------------------------------------------------------
(* Theorems *)

\* The invariant, of the behaviours in which the open block stays off the list.
THEOREM CompInvariant == Spec /\ []OpenBlockKept => []CompInv
<1>1. CompInv /\ OpenBlockKept /\ OpenBlockKept' /\ [Next]_vars => CompInv'
  BY CompNext
<1>. QED BY <1>1, CompInit, PTL DEF Spec

\* What is counted free of a log block is what no live page lies on, and the
\* free list has just the blocks that hold no page: what do_gc steers by is
\* right, whatever lengths the pages are rewritten with.
THEOREM RoomIsExact == Spec /\ []OpenBlockKept => []RoomExact
<1>1. CompInv => RoomExact
  BY DEF CompInv, StoreInv, RoomExact
<1>. QED BY <1>1, CompInvariant, PTL

\* lp_write lays no page over another one or over the end of its block.
THEOREM PagesApart == Spec /\ []OpenBlockKept => []LiveExtentsDisjoint
<1>1. CompInv => LiveExtentsDisjoint
  BY DEF CompInv, StoreInv
<1>. QED BY <1>1, CompInvariant, PTL

\* do_gc finds every live page in the reverse map of its block.
THEOREM ReverseMapsComplete == Spec /\ []OpenBlockKept => []RevMapCovers
<1>1. CompInv => RevMapCovers
  BY DEF CompInv, StoreInv
<1>. QED BY <1>1, CompInvariant, PTL

\* A page outside the open block is on the drives.
THEOREM PagesDestaged == Spec /\ []OpenBlockKept => []ClosedIsDestaged
<1>1. CompInv => ClosedIsDestaged
  BY DEF CompInv, StoreInv
<1>. QED BY <1>1, CompInvariant, PTL

\* do_gc leaves a block only when nothing live is in it and it is free.
THEOREM VictimsFree == Spec /\ []OpenBlockKept => VictimReclaimed
<1>1. CompInv /\ [Next]_vars => [GcNext => lbt[victim].state = "LB_FREE"]_vars
  BY VictimDone
<1>. QED BY <1>1, CompInvariant, PTL DEF Spec, VictimReclaimed

\* Up to the step that lists the open block as free, the check for a size
\* violation in lp_write never fires.
THEOREM SizesHold == Spec /\ []OpenBlockKept => []NoSizeViolation
<1>1. CompInv /\ OpenBlockKept => NoSizeViolation
  BY SizeViolationNever
<1>. QED BY <1>1, CompInvariant, PTL

=============================================================================
