---------------------------- MODULE CompSsdProofs -----------------------------
(***************************************************************************)
(* The compressing drive, for every number of pages, groups and buffered   *)
(* pages and every compression: the counters of a PG whose pages have any  *)
(* length, and what do_gc has found and left behind when it returns with   *)
(* copies still in its buffer; then where pages and PGs are, that no write *)
(* is refused, and that it promises what an SSD of whole pages does.       *)
(*                                                                         *)
(* Where the drive inherits, the lemmas on SSD are used; what L2P_Update   *)
(* does to the counters of pages with lengths and pads is argued anew.     *)
(***************************************************************************)
EXTENDS CompSsd, SsdProofs

-----------------------------------------------------------------------------
(* The books: pages and sectors *)

\* A mapped page has sectors, and at most those of a logical page.
LengthsInv ==
  \A lpn \in LP : l2p_tbl[lpn].pgn # NoPG => l2p_tbl[lpn].len \in 1..SectsPerLp

CompBooksInv == LengthsInv /\ CompAccounting /\ NoPageInFreePG

\* The first n sectors of a page.
Own(lpn, n) == {lpn} \X (0..(n - 1))

LEMMA OwnCounts ==
  ASSUME NEW lpn, NEW n \in Nat
  PROVE  IsFiniteSet(Own(lpn, n)) /\ Cardinality(Own(lpn, n)) = n
<1>1. IsFiniteSet({lpn}) /\ Cardinality({lpn}) = 1
  BY FS_Singleton
<1>2. IsFiniteSet(0..(n - 1)) /\ Cardinality(0..(n - 1)) = n
  <2>1. PICK m \in Int : m = n - 1
    OBVIOUS
  <2>2. IsFiniteSet(0..m) /\ Cardinality(0..m) = IF 0 > m THEN 0 ELSE m - 0 + 1
    BY FS_Interval
  <2>. QED BY <2>1, <2>2
<1>. DEFINE T == 0..(n - 1)
            S == {lpn}
<1>3. IsFiniteSet(S) /\ Cardinality(S) = 1 /\ IsFiniteSet(T) /\ Cardinality(T) = n /\ Own(lpn, n) = S \X T
  BY <1>1, <1>2 DEF Own
<1>. HIDE DEF S, T
<1>4. IsFiniteSet(S \X T) /\ Cardinality(S \X T) = Cardinality(S) * Cardinality(T)
  BY <1>3, FS_Product
<1>. QED BY <1>3, <1>4

\* The valid sectors of a PG can be counted.
LEMMA SectorsFinite ==
  ASSUME NEW pg
  PROVE  IsFiniteSet(ValidSectors(pg)) /\ Cardinality(ValidSectors(pg)) \in Nat
<1>1. IsFiniteSet(LP) /\ IsFiniteSet(0..(SectsPerLp - 1))
  BY SizesAssumption, FS_Interval DEF LP
<1>2. IsFiniteSet(LP \X (0..(SectsPerLp - 1)))
  BY <1>1, FS_Product
<1>3. ValidSectors(pg) \in SUBSET (LP \X (0..(SectsPerLp - 1)))
  BY DEF ValidSectors
<1>. QED BY <1>2, <1>3, FS_Subset, FS_CardinalityType

\* The valid sectors of a PG but for those of one page.
Others(lpn, pg) == {s \in ValidSectors(pg) : s[1] # lpn}

\* A page of the PG has its own sectors there, and nothing else is its own.
LEMMA SectorsOf ==
  ASSUME FtlTypeOK, LengthsInv, NEW lpn \in LP, NEW pg \in PG
  PROVE  /\ l2p_tbl[lpn].pgn = pg =>
              /\ ValidSectors(pg) = Others(lpn, pg) \cup Own(lpn, l2p_tbl[lpn].len)
              /\ Cardinality(ValidSectors(pg)) = Cardinality(Others(lpn, pg)) + l2p_tbl[lpn].len
         /\ l2p_tbl[lpn].pgn # pg => ValidSectors(pg) = Others(lpn, pg)
         /\ IsFiniteSet(Others(lpn, pg)) /\ Cardinality(Others(lpn, pg)) \in Nat
<1>1. l2p_tbl[lpn].pgn # pg => ValidSectors(pg) = Others(lpn, pg)
  BY DEF ValidSectors, Others
<1>2. IsFiniteSet(Others(lpn, pg)) /\ Cardinality(Others(lpn, pg)) \in Nat
  <2>1. Others(lpn, pg) \in SUBSET ValidSectors(pg)
    BY DEF Others
  <2>. QED BY <2>1, SectorsFinite, FS_Subset, FS_CardinalityType
<1>3. ASSUME l2p_tbl[lpn].pgn = pg
      PROVE  /\ ValidSectors(pg) = Others(lpn, pg) \cup Own(lpn, l2p_tbl[lpn].len)
             /\ Cardinality(ValidSectors(pg)) = Cardinality(Others(lpn, pg)) + l2p_tbl[lpn].len
  <2>. PICK n \in 1..SectsPerLp : n = l2p_tbl[lpn].len
    <3>1. pg # NoPG
      BY NoPGAssumption DEF PG
    <3>. QED BY <1>3, <3>1 DEF LengthsInv
  <2>0. n \in Nat /\ n <= SectsPerLp /\ SectsPerLp \in Nat
    BY SizesAssumption
  <2>1. Own(lpn, n) \subseteq ValidSectors(pg)
    BY <1>3, <2>0 DEF Own, ValidSectors
  <2>2. \A s \in ValidSectors(pg) : s[1] = lpn => s \in Own(lpn, n)
    BY <1>3, <2>0 DEF Own, ValidSectors
  <2>3. \A s \in Own(lpn, n) : s[1] = lpn
    BY DEF Own
  <2>4. ValidSectors(pg) = Others(lpn, pg) \cup Own(lpn, n)
    BY <2>1, <2>2 DEF Others
  <2>5. Others(lpn, pg) \cap Own(lpn, n) = {}
    BY <2>3 DEF Others
  <2>6. IsFiniteSet(Own(lpn, n)) /\ Cardinality(Own(lpn, n)) = n
    BY <2>0, OwnCounts
  <2>7. Cardinality(Others(lpn, pg) \cup Own(lpn, n)) = Cardinality(Others(lpn, pg)) + n - 0
    BY <1>2, <2>5, <2>6, FS_Union, FS_EmptySet
  <2>. QED BY <1>2, <2>0, <2>4, <2>7
<1>. QED BY <1>1, <1>2, <1>3

\* The books count every page: the last page of a PG is known by its sectors.
LEMMA CompPageCounted ==
  ASSUME FtlTypeOK, CompBooksInv, NEW lpn \in LP
  PROVE  PageCounted(lpn)
<1>. DEFINE old == l2p_tbl[lpn]
            src == old.pgn
<1>. SUFFICES ASSUME src # NoPG
              PROVE  /\ pg_list[src].lp_num \in Nat \ {0} /\ pg_list[src].status # "FREE"
                     /\ pg_list[src].vs_num = old.len <=> pg_list[src].lp_num = 1
  BY DEF PageCounted
<1>1. src \in PG /\ old.len \in Nat
  BY DEF FtlTypeOK, VPA
<1>2. lpn \in Mapped(src)
  BY DEF Mapped
<1>3. /\ IsFiniteSet(Mapped(src)) /\ Cardinality(Mapped(src)) \in Nat
      /\ pg_list[src].lp_num = Cardinality(Mapped(src))
      /\ pg_list[src].vs_num = Cardinality(ValidSectors(src))
  BY <1>1, MappedFinite DEF CompBooksInv, CompAccounting
<1>4. pg_list[src].lp_num \in Nat \ {0} /\ pg_list[src].status # "FREE"
  BY <1>1, <1>2, <1>3, FS_EmptySet DEF CompBooksInv, NoPageInFreePG
<1>5. pg_list[src].lp_num = 1 <=> Mapped(src) = {lpn}
  BY <1>2, <1>3, FS_Singleton
<1>6. /\ Cardinality(ValidSectors(src)) = Cardinality(Others(lpn, src)) + old.len
      /\ IsFiniteSet(Others(lpn, src)) /\ Cardinality(Others(lpn, src)) \in Nat
  BY <1>1, SectorsOf DEF CompBooksInv
<1>7. Others(lpn, src) = {} <=> Mapped(src) = {lpn}
  <2>1. ASSUME NEW p \in Mapped(src), p # lpn PROVE <<p, 0>> \in Others(lpn, src)
    <3>1. p \in LP /\ l2p_tbl[p].pgn = src /\ l2p_tbl[p].len \in 1..SectsPerLp
      BY <2>1 DEF Mapped, CompBooksInv, LengthsInv
    <3>. QED BY <2>1, <3>1, SizesAssumption DEF Others, ValidSectors
  <2>2. \A s \in Others(lpn, src) : s[1] \in Mapped(src) /\ s[1] # lpn
    BY DEF Others, ValidSectors, Mapped
  <2>. QED BY <1>2, <2>1, <2>2
<1>8. Cardinality(Others(lpn, src)) = 0 <=> Others(lpn, src) = {}
  BY <1>6, FS_EmptySet
<1>9. pg_list[src].vs_num = old.len <=> Cardinality(Others(lpn, src)) = 0
  BY <1>1, <1>3, <1>6
<1>. QED BY <1>4, <1>5, <1>7, <1>8, <1>9

\* A page that moves takes its sectors from one PG and brings others to another.
LEMMA SectorsAfterMove ==
  ASSUME FtlTypeOK, LengthsInv, NEW lpn \in LP, NEW dst \in PG, NEW len \in 1..SectsPerLp,
         l2p_tbl'[lpn].pgn = dst, l2p_tbl'[lpn].len = len,
         \A p \in LP \ {lpn} : l2p_tbl'[p] = l2p_tbl[p],
         NEW pg \in PG
  PROVE  Cardinality(ValidSectors(pg)') = Cardinality(ValidSectors(pg))
           + (IF pg = dst THEN len ELSE 0)
           - (IF pg = l2p_tbl[lpn].pgn THEN l2p_tbl[lpn].len ELSE 0)
<1>. DEFINE old == l2p_tbl[lpn]
<1>0. len \in Nat /\ len <= SectsPerLp /\ SectsPerLp \in Nat /\ old.len \in Nat
  BY SizesAssumption DEF FtlTypeOK, VPA
<1>1. /\ l2p_tbl'[lpn].pgn = dst /\ l2p_tbl'[lpn].len = len
      /\ \A p \in LP \ {lpn} : l2p_tbl'[p] = l2p_tbl[p]
  OBVIOUS
<1>2. ValidSectors(pg)' = Others(lpn, pg) \cup (IF pg = dst THEN Own(lpn, len) ELSE {})
  <2>1. \A s : s \in ValidSectors(pg)' <=> s \in LP \X (0..(SectsPerLp - 1))
                                          /\ l2p_tbl'[s[1]].pgn = pg /\ s[2] < l2p_tbl'[s[1]].len
    BY DEF ValidSectors
  <2>2. \A s \in LP \X (0..(SectsPerLp - 1)) : s[1] # lpn =>
          (s \in ValidSectors(pg)' <=> s \in Others(lpn, pg))
    BY <1>1, <2>1 DEF Others, ValidSectors
  <2>3. \A s \in LP \X (0..(SectsPerLp - 1)) : s[1] = lpn =>
          (s \in ValidSectors(pg)' <=> pg = dst /\ s \in Own(lpn, len))
    BY <1>0, <1>1, <2>1 DEF Own
  <2>4. Own(lpn, len) \subseteq LP \X (0..(SectsPerLp - 1)) /\ \A s \in Own(lpn, len) : s[1] = lpn
    BY <1>0 DEF Own
  <2>5. \A s \in Others(lpn, pg) : s \in LP \X (0..(SectsPerLp - 1)) /\ s[1] # lpn
    BY DEF Others, ValidSectors
  <2>. QED BY <2>1, <2>2, <2>3, <2>4, <2>5
<1>3. Others(lpn, pg) \cap Own(lpn, len) = {}
  BY DEF Others, Own
<1>4. IsFiniteSet(Own(lpn, len)) /\ Cardinality(Own(lpn, len)) = len
  BY <1>0, OwnCounts
<1>5. /\ old.pgn = pg => Cardinality(ValidSectors(pg)) = Cardinality(Others(lpn, pg)) + old.len
      /\ old.pgn # pg => Cardinality(ValidSectors(pg)) = Cardinality(Others(lpn, pg))
      /\ IsFiniteSet(Others(lpn, pg)) /\ Cardinality(Others(lpn, pg)) \in Nat
  BY SectorsOf
<1>6. Cardinality(ValidSectors(pg)') = Cardinality(Others(lpn, pg)) + (IF pg = dst THEN len ELSE 0)
  <2>1. CASE pg = dst
    <3>1. Cardinality(Others(lpn, pg) \cup Own(lpn, len))
            = Cardinality(Others(lpn, pg)) + len - 0
      <4>1. IsFiniteSet(Others(lpn, pg))
        BY <1>5
      <4>2. Cardinality(Others(lpn, pg) \cup Own(lpn, len))
              = Cardinality(Others(lpn, pg)) + Cardinality(Own(lpn, len)) - Cardinality({})
        BY <1>3, <1>4, <4>1, FS_Union
      <4>. QED BY <1>4, <4>2, FS_EmptySet
    <3>2. ValidSectors(pg)' = Others(lpn, pg) \cup Own(lpn, len)
      BY <1>2, <2>1
    <3>. HIDE DEF old
    <3>. QED BY <1>0, <1>5, <2>1, <3>1, <3>2
  <2>2. CASE pg # dst
    BY <1>2, <1>5, <2>2
  <2>. QED BY <2>1, <2>2
<1>. QED BY <1>0, <1>5, <1>6

-----------------------------------------------------------------------------
(* L2P_Update with a length and a pad *)

\* What an accepted L2P_Update does to the counters of the PGs it keeps.
LEMMA CountersAfterWrite ==
  ASSUME FtlTypeOK, QueuesInv, NEW lpn \in LP, NEW len \in Nat \ {0}, NEW dst \in PG,
         NEW align \in BOOLEAN, PageCounted(lpn),
         ~L2P_UpdateError(lpn, len, dst), L2P_Update(lpn, len, dst, align)
  PROVE  LET old == l2p_tbl[lpn]
             src == old.pgn
         IN  /\ l2p_tbl' = [l2p_tbl EXCEPT ![lpn] =
                              [pgn |-> dst, ofs |-> pg_list[dst].next_ofs, len |-> len]]
             /\ \A pg \in PG : ~(Releases(lpn, dst) /\ pg = src) =>
                  /\ pg_list'[pg].lp_num = pg_list[pg].lp_num + (IF pg = dst THEN 1 ELSE 0)
                                                              - (IF pg = src THEN 1 ELSE 0)
                  /\ pg_list'[pg].vs_num = pg_list[pg].vs_num + (IF pg = dst THEN len ELSE 0)
                                                              - (IF pg = src THEN old.len ELSE 0)
<1>. DEFINE old     == l2p_tbl[lpn]
            src     == old.pgn
            new     == Grown(lpn, len, dst, align)
            written == [pg_list EXCEPT ![dst] = new]
            closing == written[dst].status = "CLOSE"
            ranked  == IF closing THEN UpdateCloseRanking(close_pg_que, dst, written)
                                  ELSE close_pg_que
            drops   == src # NoPG /\ written[src].lp_num # 0
            dropped == [written EXCEPT ![src] = Released(@, old.len)]
            release == drops /\ dropped[src].vs_num = 0 /\ dropped[src].status # "OPEN"
<1>1. /\ pg_list \in [PG -> PG_Info] /\ src \in PG \cup {NoPG} /\ NoPG \notin PG
      /\ old.len \in Nat
  BY NoPGAssumption DEF FtlTypeOK, VPA, PG
<1>2. /\ IF release
         THEN CloseToInvalid(src, dropped, ranked)
         ELSE pg_list' = IF drops THEN dropped ELSE written
      /\ l2p_tbl' = [l2p_tbl EXCEPT ![lpn] =
                       [pgn |-> dst, ofs |-> pg_list[dst].next_ofs, len |-> len]]
  BY Zenon DEF L2P_Update, Grown, PadOf
<1>3. /\ new \in PG_Info /\ new.lp_num = pg_list[dst].lp_num + 1
      /\ new.vs_num = pg_list[dst].vs_num + len
  <2>1. pg_list[dst].next_ofs + len \in Nat /\ pg_list[dst] \in PG_Info
    BY DEF FtlTypeOK, PG_Info
  <2>2. PadOf(len, dst, align) \in Nat
    BY <2>1, PadType DEF PadOf
  <2>3. new \in PG_Info
    BY <2>1, <2>2, WrittenType DEF Grown
  <2>4. new.lp_num = pg_list[dst].lp_num + 1 /\ new.vs_num = pg_list[dst].vs_num + len
    BY <2>1 DEF Grown, Written, PG_Info
  <2>. QED BY <2>3, <2>4
<1>. HIDE DEF new
<1>4. written \in [PG -> PG_Info] /\ \A pg \in PG : written[pg] = IF pg = dst THEN new ELSE pg_list[pg]
  BY <1>1, <1>3
<1>. HIDE DEF written, ranked
<1>5. \A pg \in PG : /\ pg_list[pg].lp_num \in Nat /\ pg_list[pg].vs_num \in Nat
                     /\ written[pg].lp_num = pg_list[pg].lp_num + (IF pg = dst THEN 1 ELSE 0)
                     /\ written[pg].vs_num = pg_list[pg].vs_num + (IF pg = dst THEN len ELSE 0)
                     /\ written[pg].lp_num \in Nat /\ written[pg].vs_num \in Nat
  <2>. SUFFICES ASSUME NEW pg \in PG
                PROVE  /\ pg_list[pg].lp_num \in Nat /\ pg_list[pg].vs_num \in Nat
                       /\ written[pg].lp_num = pg_list[pg].lp_num + (IF pg = dst THEN 1 ELSE 0)
                       /\ written[pg].vs_num = pg_list[pg].vs_num + (IF pg = dst THEN len ELSE 0)
                       /\ written[pg].lp_num \in Nat /\ written[pg].vs_num \in Nat
    OBVIOUS
  <2>1. pg_list[pg].lp_num \in Nat /\ pg_list[pg].vs_num \in Nat
    BY <1>1 DEF PG_Info
  <2>2. CASE pg = dst
    BY <1>3, <1>4, <2>1, <2>2
  <2>3. CASE pg # dst
    BY <1>4, <2>1, <2>3
  <2>. QED BY <2>1, <2>2, <2>3
<1>6. CASE src = NoPG
  <2>1. pg_list' = written
    BY <1>2, <1>6
  <2>. QED BY <1>1, <1>2, <1>5, <1>6, <2>1
<1>7. CASE src # NoPG
  <2>1. src \in PG /\ pg_list[src].lp_num \in Nat \ {0} /\ pg_list[src].status # "FREE"
    BY <1>1, <1>7 DEF PageCounted
  <2>2. drops
    BY <1>5, <1>7, <2>1
  <2>3. /\ dropped[src].lp_num = written[src].lp_num - 1
        /\ dropped[src].vs_num = written[src].vs_num - old.len
        /\ \A pg \in PG \ {src} : dropped[pg] = written[pg]
        /\ DOMAIN dropped = PG
    <3>1. dropped[src] = Released(written[src], old.len) /\ written[src] \in PG_Info
      BY <1>4, <2>1
    <3>2. \A pg \in PG \ {src} : dropped[pg] = written[pg]
      BY <1>4
    <3>3. DOMAIN dropped = PG
      BY <1>4
    <3>. HIDE DEF dropped
    <3>. QED BY <3>1, <3>2, <3>3 DEF Released, PG_Info
  <2>. HIDE DEF drops, dropped
  <2>4. \A pg \in PG :
          /\ dropped[pg].lp_num = pg_list[pg].lp_num + (IF pg = dst THEN 1 ELSE 0)
                                                     - (IF pg = src THEN 1 ELSE 0)
          /\ dropped[pg].vs_num = pg_list[pg].vs_num + (IF pg = dst THEN len ELSE 0)
                                                     - (IF pg = src THEN old.len ELSE 0)
    <3>. SUFFICES ASSUME NEW pg \in PG
                  PROVE  /\ dropped[pg].lp_num = pg_list[pg].lp_num + (IF pg = dst THEN 1 ELSE 0)
                                                                    - (IF pg = src THEN 1 ELSE 0)
                         /\ dropped[pg].vs_num = pg_list[pg].vs_num + (IF pg = dst THEN len ELSE 0)
                                                                    - (IF pg = src THEN old.len ELSE 0)
      OBVIOUS
    <3>0. /\ pg_list[pg].lp_num \in Nat /\ pg_list[pg].vs_num \in Nat
          /\ written[pg].lp_num = pg_list[pg].lp_num + (IF pg = dst THEN 1 ELSE 0)
          /\ written[pg].vs_num = pg_list[pg].vs_num + (IF pg = dst THEN len ELSE 0)
      BY <1>5
    <3>1. CASE pg = src
      <4>1. dropped[pg].lp_num = written[pg].lp_num - 1 /\ dropped[pg].vs_num = written[pg].vs_num - old.len
        BY <2>3, <3>1
      <4>2. old.len \in Nat
        BY <1>1
      <4>. HIDE DEF src, old
      <4>. QED BY <3>0, <3>1, <4>1, <4>2
    <3>2. CASE pg # src
      <4>1. dropped[pg] = written[pg]
        BY <2>3, <3>2
      <4>. HIDE DEF src, old
      <4>. QED BY <3>0, <3>2, <4>1
    <3>. QED BY <3>1, <3>2
  <2>5. \A pg \in PG : ~(Releases(lpn, dst) /\ pg = src) => pg_list'[pg] = dropped[pg]
    <3>1. CASE release
      <4>1. pg_list' = [dropped EXCEPT ![src] = InitPG]
        BY <1>2, <3>1 DEF CloseToInvalid
      <4>2. pg_list'[src] = InitPG /\ \A pg \in PG \ {src} : pg_list'[pg] = dropped[pg]
        BY <2>1, <2>3, <4>1
      <4>3. pg_list'[src].status = "FREE"
        BY <4>2 DEF InitPG
      <4>4. Releases(lpn, dst)
        <5>1. pg_list'[src].status = IF Releases(lpn, dst) THEN "FREE"
                                     ELSE IF src = dst THEN IF Fills(lpn, len, dst, align) THEN "CLOSE" ELSE "OPEN"
                                     ELSE pg_list[src].status
          BY <2>1, StatusAfterWrite
        <5>. QED BY <2>1, <4>3, <5>1
      <4>. QED BY <4>2, <4>4
    <3>2. CASE ~release
      BY <1>2, <2>2, <3>2
    <3>. QED BY <3>1, <3>2
  <2>. QED BY <1>2, <2>4, <2>5
<1>. QED BY <1>6, <1>7

\* An accepted L2P_Update keeps the books, with pages of any length.
LEMMA CompUpdateBooks ==
  ASSUME FtlTypeOK, CompBooksInv, QueuesInv, NEW lpn \in LP, NEW len \in 1..SectsPerLp,
         NEW dst \in PG, NEW align \in BOOLEAN,
         ~L2P_UpdateError(lpn, len, dst), L2P_Update(lpn, len, dst, align)
  PROVE  CompBooksInv'
<1>. DEFINE old   == l2p_tbl[lpn]
            src   == old.pgn
            freed == Releases(lpn, dst)
            entry == [pgn |-> dst, ofs |-> pg_list[dst].next_ofs, len |-> len]
<1>0. len \in Nat \ {0} /\ PageCounted(lpn) /\ SectsPerLp \in Nat
  BY SizesAssumption, CompPageCounted
<1>1. l2p_tbl \in [LP -> VPA] /\ pg_list \in [PG -> PG_Info] /\ NoPG \notin PG /\ src \in PG \cup {NoPG}
  BY NoPGAssumption DEF FtlTypeOK, VPA, PG
<1>2. entry \in VPA
  BY <1>0, <1>1 DEF VPA, PG_Info
<1>3. /\ l2p_tbl' = [l2p_tbl EXCEPT ![lpn] = entry]
      /\ \A pg \in PG : ~(freed /\ pg = src) =>
           /\ pg_list'[pg].lp_num = pg_list[pg].lp_num + (IF pg = dst THEN 1 ELSE 0)
                                                       - (IF pg = src THEN 1 ELSE 0)
           /\ pg_list'[pg].vs_num = pg_list[pg].vs_num + (IF pg = dst THEN len ELSE 0)
                                                       - (IF pg = src THEN old.len ELSE 0)
  BY <1>0, CountersAfterWrite
<1>4. /\ \A pg \in PG : pg_list'[pg].status =
           IF freed /\ pg = src THEN "FREE"
           ELSE IF pg = dst THEN IF Fills(lpn, len, dst, align) THEN "CLOSE" ELSE "OPEN"
           ELSE pg_list[pg].status
      /\ freed => pg_list'[src] = InitPG
  BY <1>0, StatusAfterWrite, RestAfterWrite
<1>5. freed => src \in PG /\ src # dst /\ pg_list[src].lp_num = 1 /\ pg_list[src].vs_num = old.len
  BY <1>0, <1>1 DEF Releases, PageCounted
<1>6. /\ \A pg \in PG : Cardinality(Mapped(pg)') = Cardinality(Mapped(pg))
                          + (IF pg = dst THEN 1 ELSE 0) - (IF pg = src THEN 1 ELSE 0)
      /\ \A pg \in PG : Cardinality(ValidSectors(pg)') = Cardinality(ValidSectors(pg))
                          + (IF pg = dst THEN len ELSE 0) - (IF pg = src THEN old.len ELSE 0)
  <2>1. LengthsInv /\ entry.pgn = dst /\ entry.len = len
    BY DEF CompBooksInv
  <2>2. l2p_tbl' = [l2p_tbl EXCEPT ![lpn] = entry]
    BY <1>3
  <2>. HIDE DEF entry
  <2>3. \A pg \in PG : Cardinality(Mapped(pg)') = Cardinality(Mapped(pg))
                         + (IF pg = dst THEN 1 ELSE 0) - (IF pg = src THEN 1 ELSE 0)
    BY <1>2, <2>1, <2>2, MappedAfterMove
  <2>4. \A pg \in PG : Cardinality(ValidSectors(pg)') = Cardinality(ValidSectors(pg))
                         + (IF pg = dst THEN len ELSE 0) - (IF pg = src THEN old.len ELSE 0)
    <3>. SUFFICES ASSUME NEW pg \in PG
                  PROVE  Cardinality(ValidSectors(pg)') = Cardinality(ValidSectors(pg))
                           + (IF pg = dst THEN len ELSE 0) - (IF pg = src THEN old.len ELSE 0)
      OBVIOUS
    <3>1. /\ l2p_tbl'[lpn].pgn = dst /\ l2p_tbl'[lpn].len = len
          /\ \A p \in LP \ {lpn} : l2p_tbl'[p] = l2p_tbl[p]
      BY <1>1, <2>1, <2>2
    <3>. QED BY <2>1, <3>1, SectorsAfterMove
  <2>. QED BY <2>3, <2>4
<1>7. \A p \in LP : l2p_tbl'[p] = IF p = lpn THEN entry ELSE l2p_tbl[p]
  BY <1>1, <1>3
<1>. HIDE DEF freed
<1>8. LengthsInv'
  BY <1>7 DEF LengthsInv, CompBooksInv
<1>9. CompAccounting'
  <2>. SUFFICES ASSUME NEW pg \in PG
                PROVE  /\ pg_list'[pg].lp_num = Cardinality(Mapped(pg)')
                       /\ pg_list'[pg].vs_num = Cardinality(ValidSectors(pg)')
    BY DEF CompAccounting
  <2>1. /\ pg_list[pg].lp_num = Cardinality(Mapped(pg))
        /\ pg_list[pg].vs_num = Cardinality(ValidSectors(pg))
        /\ pg_list[pg].lp_num \in Nat /\ pg_list[pg].vs_num \in Nat
    BY <1>1 DEF CompBooksInv, CompAccounting, PG_Info
  <2>2. CASE freed /\ pg = src
    <3>1. pg_list'[pg].lp_num = 0 /\ pg_list'[pg].vs_num = 0
      BY <1>4, <2>2 DEF InitPG
    <3>. QED BY <1>5, <1>6, <2>1, <2>2, <3>1
  <2>3. CASE ~(freed /\ pg = src)
    BY <1>3, <1>6, <2>1, <2>3
  <2>. QED BY <2>2, <2>3
<1>10. NoPageInFreePG'
  <2>. SUFFICES ASSUME NEW pg \in PG, pg_list'[pg].status = "FREE" PROVE Mapped(pg)' = {}
    BY DEF NoPageInFreePG
  <2>1. CASE freed /\ pg = src
    <3>1. Cardinality(Mapped(pg)') = 0
      <4>1. Cardinality(Mapped(pg)) = 1
        BY <1>5, <2>1 DEF CompBooksInv, CompAccounting
      <4>. QED BY <1>5, <1>6, <2>1, <4>1
    <3>2. Mapped(pg)' \in SUBSET LP /\ IsFiniteSet(LP)
      <4>1. Mapped(pg)' \in SUBSET LP
        BY DEF Mapped
      <4>2. IsFiniteSet(LP)
        BY SizesAssumption, FS_Interval DEF LP
      <4>. QED BY <4>1, <4>2
    <3>3. IsFiniteSet(Mapped(pg)')
      BY <3>2, FS_Subset
    <3>. QED BY <3>1, <3>3, FS_EmptySet
  <2>2. CASE ~(freed /\ pg = src)
    <3>1. pg # dst /\ Mapped(pg) = {}
      BY <1>4, <2>2 DEF CompBooksInv, NoPageInFreePG
    <3>. QED BY <1>7, <3>1 DEF Mapped
  <2>. QED BY <2>1, <2>2
<1>. QED BY <1>8, <1>9, <1>10 DEF CompBooksInv

\* A step that moves no page, touches no counter and frees no PG keeps the books.
LEMMA CompNothingMoves ==
  ASSUME CompBooksInv, l2p_tbl' = l2p_tbl,
         \A pg \in PG : /\ pg_list'[pg].lp_num = pg_list[pg].lp_num
                        /\ pg_list'[pg].vs_num = pg_list[pg].vs_num
                        /\ pg_list'[pg].status = "FREE" => pg_list[pg].status = "FREE"
  PROVE  CompBooksInv'
<1>1. \A pg : Mapped(pg)' = Mapped(pg) /\ ValidSectors(pg)' = ValidSectors(pg)
  BY DEF Mapped, ValidSectors
<1>2. LengthsInv'
  BY DEF CompBooksInv, LengthsInv
<1>3. CompAccounting' /\ NoPageInFreePG'
  BY <1>1 DEF CompBooksInv, CompAccounting, NoPageInFreePG
<1>. QED BY <1>2, <1>3 DEF CompBooksInv

-----------------------------------------------------------------------------
(* The buffers, and where the thread stands in them *)

\* A flush for reclamation; one for the host has its type.
RcmFlush == pc \in {"open", "update"} /\ io.type = "RCM_RWR"

\* A page do_gc has collected stays mapped: only its PG may change.
CollectedMapped ==
  \A lpn \in LP : Contains(req_list, lpn) \/ Contains(rcm_write_buffer, lpn) =>
    l2p_tbl[lpn].pgn # NoPG

\* While a buffer is flushed, len_list tells how far the flush has come: it has a
\* length for each page still to be written, the one in io first.
FlushInv ==
  /\ pc \in {"open", "update"} /\ ~Formatting => Len(len_list) \in 1..Len(Buffer(io.type))
  /\ Formatting => pc \in {"format", "open", "update", "failed"} /\ ~RcmFlush

BuffersTypeOK ==
  write_buffer \in Seq(LP) /\ rcm_write_buffer \in Seq(LP) /\ len_list \in Seq(1..SectsPerLp)

CompTypeInv == TypeInv /\ BuffersTypeOK /\ FlushInv /\ CollectedMapped

\* What a read leaves alone: everything but the pages read and still to be read.
pageVars == <<vars, write_buffer, rcm_write_buffer, len_list>>

\* SSD::write reads the page it ends in without touching tables or buffers of writes.
LEMMA ReadsLeaveAlone == CompReadEnd \/ UNCHANGED compVars => UNCHANGED pageVars
BY DEF CompReadEnd, compVars, bufVars, pageVars

LEMMA FunctionIsSeq ==
  ASSUME NEW S, NEW num \in Nat, NEW f \in [1..num -> S]
  PROVE  f \in Seq(S) /\ Len(f) = num
<1>1. f \in Seq(S)
  BY SeqDef
<1>2. DOMAIN f = 1..num
  OBVIOUS
<1>. QED BY <1>1, <1>2, LenProperties

\* lp_write puts the page at the end of its buffer; when that fills it, the flush
\* begins at the first page and has a length for every one.
LEMMA PushStep ==
  ASSUME FtlTypeOK, LengthsInv, NEW type \in IoType, NEW buffer \in Seq(LP), NEW lpn \in LP,
         Push(type, lpn, buffer),
         type = "RCM_RWR" => l2p_tbl[lpn].pgn # NoPG
                             /\ \A p \in LP : Contains(buffer, p) => l2p_tbl[p].pgn # NoPG
  PROVE  LET pushed == Append(buffer, lpn)
         IN  /\ pushed \in Seq(LP) /\ Len(pushed) = Len(buffer) + 1
             /\ \A p : Contains(pushed, p) <=> Contains(buffer, p) \/ p = lpn
             /\ \/ /\ Len(pushed) = BufferedPageNum
                   /\ pc' = "open" /\ io' = [type |-> type, lpn |-> pushed[1]] /\ pushed[1] \in LP
                   /\ len_list' \in Seq(1..SectsPerLp) /\ Len(len_list') = Len(pushed)
                \/ /\ Len(pushed) # BufferedPageNum
                   /\ pc' = AfterLpWrite(type) /\ io' = NoIo /\ len_list' = len_list
<1>. DEFINE pushed == Append(buffer, lpn)
            num == Len(buffer)
<1>1. /\ pushed \in Seq(LP) /\ Len(pushed) = num + 1 /\ num \in Nat
      /\ pushed[num + 1] = lpn /\ \A i \in 1..num : pushed[i] = buffer[i]
  BY AppendProperties, LenProperties
<1>2. \A p : Contains(pushed, p) <=> Contains(buffer, p) \/ p = lpn
  <2>1. \A i \in 1..(num + 1) : i \in 1..num \/ i = num + 1
    BY <1>1
  <2>2. \A i \in 1..num : i \in 1..(num + 1)
    BY <1>1
  <2>3. num + 1 \in 1..(num + 1)
    BY <1>1
  <2>. HIDE DEF pushed
  <2>. QED BY <1>1, <2>1, <2>2, <2>3 DEF Contains
<1>3. \A i \in 1..(num + 1) : pushed[i] \in LP
  BY <1>1, ElementOfSeq
<1>4. Full(pushed) => /\ pc' = "open" /\ io' = [type |-> type, lpn |-> pushed[1]]
                      /\ len_list' \in FlushLengths(type, pushed)
  BY DEF Push
<1>5. ~Full(pushed) => pc' = AfterLpWrite(type) /\ io' = NoIo /\ len_list' = len_list
  BY DEF Push
<1>. HIDE DEF pushed
<1>6. ASSUME len_list' \in FlushLengths(type, pushed)
      PROVE  len_list' \in Seq(1..SectsPerLp) /\ Len(len_list') = num + 1
  <2>1. len_list' \in [1..(num + 1) -> 1..SectsPerLp]
    <3>1. CASE type = "HOST_WR"
      <4>1. len_list' \in [1..(num + 1) -> Lengths]
        BY <1>1, <1>6, <3>1 DEF FlushLengths, get_next_length
      <4>2. Lengths \subseteq 1..SectsPerLp
        BY CompAssumption
      <4>. QED BY <4>1, <4>2
    <3>2. CASE type # "HOST_WR"
      <4>1. \A i \in 1..(num + 1) : l2p_tbl[pushed[i]].pgn # NoPG
        <5>. TAKE i \in 1..(num + 1)
        <5>1. Contains(pushed, pushed[i]) /\ pushed[i] \in LP
          BY <1>1, <1>3 DEF Contains
        <5>2. type = "RCM_RWR"
          BY <3>2 DEF IoType
        <5>. QED BY <1>2, <5>1, <5>2
      <4>2. \A i \in 1..(num + 1) : l2p_tbl[pushed[i]].len \in 1..SectsPerLp
        BY <1>3, <4>1 DEF LengthsInv
      <4>3. len_list' = [i \in 1..(num + 1) |-> l2p_tbl[pushed[i]].len]
        BY <1>1, <1>6, <3>2 DEF FlushLengths
      <4>. QED BY <4>2, <4>3
    <3>. QED BY <3>1, <3>2
  <2>2. num + 1 \in Nat
    BY <1>1
  <2>3. len_list' \in Seq(1..SectsPerLp)
    BY <2>1, <2>2, FunctionIsSeq
  <2>4. DOMAIN len_list' = 1..(num + 1)
    BY <2>1
  <2>. QED BY <2>2, <2>3, <2>4, LenProperties
<1>7. pushed[1] \in LP
  BY <1>1, <1>3
<1>8. \/ /\ Len(pushed) = BufferedPageNum
         /\ pc' = "open" /\ io' = [type |-> type, lpn |-> pushed[1]]
         /\ len_list' \in Seq(1..SectsPerLp) /\ Len(len_list') = Len(pushed)
      \/ /\ Len(pushed) # BufferedPageNum
         /\ pc' = AfterLpWrite(type) /\ io' = NoIo /\ len_list' = len_list
  <2>1. CASE Full(pushed)
    BY <1>1, <1>4, <1>6, <2>1 DEF Full
  <2>2. CASE ~Full(pushed)
    BY <1>5, <2>2 DEF Full
  <2>. QED BY <2>1, <2>2
<1>. QED BY <1>1, <1>2, <1>7, <1>8 DEF pushed

\* L2P_Update of a page: refused, or the next of a format, or of a flush, which
\* goes on to the next page or ends and clears its buffer.
LEMMA UpdateCases ==
  ASSUME CompTypeInv, CompUpdate, FormatLen # 0
  PROVE  /\ pc = "update" /\ io.type \in IoType /\ io.lpn \in LP /\ openpg[io.type] \in PG
         /\ UpdateLen \in 1..SectsPerLp /\ Aligned \in BOOLEAN
         /\ UNCHANGED <<tgt_num, req_list, req_num, erase_left>>
         /\ \/ /\ pc' = "failed" /\ io' = NoIo /\ len_list' = <<>>
               /\ UNCHANGED <<ftlVars, fmt_lp, write_buffer, rcm_write_buffer>>
            \/ /\ ~L2P_UpdateError(io.lpn, UpdateLen, openpg[io.type])
               /\ L2P_Update(io.lpn, UpdateLen, openpg[io.type], Aligned)
               /\ \/ /\ Formatting /\ pc' = "format" /\ io' = NoIo /\ fmt_lp' = fmt_lp + 1
                     /\ UNCHANGED <<write_buffer, rcm_write_buffer, len_list>>
                  \/ /\ ~Formatting /\ fmt_lp' = fmt_lp
                     /\ Len(len_list) = 1 /\ len_list' = <<>>
                     /\ pc' = AfterLpWrite(io.type) /\ io' = NoIo
                     /\ write_buffer' = IF io.type = "HOST_WR" THEN <<>> ELSE write_buffer
                     /\ rcm_write_buffer' = IF io.type = "RCM_RWR" THEN <<>> ELSE rcm_write_buffer
                  \/ /\ ~Formatting /\ fmt_lp' = fmt_lp
                     /\ len_list' \in Seq(1..SectsPerLp)
                     /\ Len(len_list) > 1 /\ Len(len_list') = Len(len_list) - 1
                     /\ pc' = "open" /\ io'.type = io.type
                     /\ io'.lpn = Buffer(io.type)[Len(Buffer(io.type)) + 2 - Len(len_list)]
                     /\ io' \in [type : IoType, lpn : LP]
                     /\ UNCHANGED <<write_buffer, rcm_write_buffer>>
<1>. DEFINE buffer == Buffer(io.type)
            n == Len(len_list)
            m == Len(buffer)
<1>1. pc = "update" /\ UNCHANGED <<tgt_num, req_list, req_num, erase_left>>
  BY DEF CompUpdate
<1>2. io \in [type : IoType, lpn : LP] /\ openpg[io.type] \in PG
  BY <1>1 DEF CompTypeInv, TypeInv, ControlInv, SsdTypeOK, FtlTypeOK
<1>3. io.type \in IoType /\ io.lpn \in LP
  BY <1>2
<1>4. buffer \in Seq(LP) /\ len_list \in Seq(1..SectsPerLp) /\ n \in Nat /\ m \in Nat
  BY LenProperties DEF CompTypeInv, BuffersTypeOK, Buffer
<1>5. ~Formatting => n \in 1..m /\ len_list # <<>>
  <2>1. ~Formatting => n \in 1..m
    BY <1>1 DEF CompTypeInv, FlushInv
  <2>. QED BY <1>4, <2>1, EmptySeq
<1>6. UpdateLen \in 1..SectsPerLp
  <2>1. CASE Formatting
    BY <2>1, CompAssumption, SizesAssumption DEF UpdateLen
  <2>2. CASE ~Formatting
    <3>1. Head(len_list) \in 1..SectsPerLp
      BY <1>4, <1>5, <2>2, HeadTailProperties
    <3>. QED BY <2>2, <3>1 DEF UpdateLen
  <2>. QED BY <2>1, <2>2
<1>7. Aligned \in BOOLEAN
  BY DEF Aligned
<1>8. CASE L2P_UpdateError(io.lpn, UpdateLen, openpg[io.type])
  BY <1>1, <1>2, <1>3, <1>6, <1>7, <1>8 DEF CompUpdate
<1>9. CASE ~L2P_UpdateError(io.lpn, UpdateLen, openpg[io.type]) /\ Formatting
  <2>1. /\ L2P_Update(io.lpn, UpdateLen, openpg[io.type], Aligned)
        /\ pc' = "format" /\ io' = NoIo /\ fmt_lp' = fmt_lp + 1
        /\ UNCHANGED <<write_buffer, rcm_write_buffer, len_list>>
    BY <1>9 DEF CompUpdate
  <2>. QED BY <1>1, <1>2, <1>3, <1>6, <1>7, <1>9, <2>1
<1>10. CASE ~L2P_UpdateError(io.lpn, UpdateLen, openpg[io.type]) /\ ~Formatting
  <2>1. /\ L2P_Update(io.lpn, UpdateLen, openpg[io.type], Aligned)
        /\ FlushNext /\ len_list' = Tail(len_list) /\ fmt_lp' = fmt_lp
    BY <1>10 DEF CompUpdate
  <2>2. Tail(len_list) \in Seq(1..SectsPerLp) /\ Len(Tail(len_list)) = n - 1
    BY <1>4, <1>5, <1>10, HeadTailProperties
  <2>3. CASE LastOfFlush
    <3>1. len_list' = <<>>
      BY <2>1, <2>2, <2>3, EmptySeq DEF LastOfFlush
    <3>2. /\ pc' = AfterLpWrite(io.type) /\ io' = NoIo
          /\ write_buffer' = IF io.type = "HOST_WR" THEN <<>> ELSE write_buffer
          /\ rcm_write_buffer' = IF io.type = "RCM_RWR" THEN <<>> ELSE rcm_write_buffer
      BY <2>1, <2>3 DEF FlushNext
    <3>3. n = 1
      BY <2>3 DEF LastOfFlush
    <3>. QED BY <1>1, <1>2, <1>3, <1>6, <1>7, <1>10, <2>1, <3>1, <3>2, <3>3
  <2>4. CASE ~LastOfFlush
    <3>1. /\ pc' = "open"
          /\ io' = [io EXCEPT !.lpn = buffer[m + 2 - n]]
          /\ UNCHANGED <<write_buffer, rcm_write_buffer>>
      BY <2>1, <2>4 DEF FlushNext
    <3>2. n > 1 /\ n <= m
      <4>1. n # 1
        BY <2>4 DEF LastOfFlush
      <4>2. n \in 1..m
        BY <1>5, <1>10
      <4>. HIDE DEF n, m, buffer
      <4>. QED BY <1>4, <4>1, <4>2
    <3>3. m + 2 - n \in 1..m
      BY <1>4, <3>2
    <3>4. buffer[m + 2 - n] \in LP
      BY <1>4, <3>3, ElementOfSeq
    <3>5. io'.type = io.type /\ io'.lpn = buffer[m + 2 - n] /\ io' \in [type : IoType, lpn : LP]
      BY <1>2, <3>1, <3>4
    <3>6. len_list' \in Seq(1..SectsPerLp) /\ Len(len_list') = n - 1
      BY <2>1, <2>2
    <3>7. /\ ~Formatting /\ fmt_lp' = fmt_lp
          /\ len_list' \in Seq(1..SectsPerLp)
          /\ Len(len_list) > 1 /\ Len(len_list') = Len(len_list) - 1
          /\ pc' = "open" /\ io'.type = io.type
          /\ io'.lpn = Buffer(io.type)[Len(Buffer(io.type)) + 2 - Len(len_list)]
          /\ io' \in [type : IoType, lpn : LP]
          /\ UNCHANGED <<write_buffer, rcm_write_buffer>>
      BY <1>10, <2>1, <3>1, <3>2, <3>5, <3>6
    <3>. QED BY <1>1, <1>2, <1>3, <1>6, <1>7, <1>10, <2>1, <3>7
  <2>. QED BY <2>3, <2>4
<1>. QED BY <1>8, <1>9, <1>10

\* What the drive inherits are steps of an SSD; few of them touch the tables.
LEMMA InheritedSteps ==
  ASSUME Inherited
  PROVE  /\ Next /\ UNCHANGED bufVars /\ l2p_tbl' = l2p_tbl
         /\ \/ UNCHANGED <<pg_list, openpg, queueVars>>
            \/ GetOpenPG_Build /\ free_pg_que # <<>> /\ BuildPG(io.type)
            \/ Reload \/ Collect \/ CollectNextPG
<1>1. Next /\ UNCHANGED bufVars
  BY DEF Inherited, Next, Run, DoGC
<1>2. CASE \/ FormatPage \/ FormatDone \/ GetOpenPG_Present \/ GetReWriteReq
           \/ ReloadDone \/ CollectDone \/ RewriteDone
  BY <1>1, <1>2 DEF FormatPage, FormatDone, GetOpenPG_Present, GetReWriteReq, ReloadDone,
                    CollectDone, RewriteDone, ftlVars
<1>3. CASE GetOpenPG_Build
  <2>1. CASE free_pg_que = <<>>
    BY <1>1, <1>3, <2>1 DEF GetOpenPG_Build, ftlVars
  <2>2. CASE free_pg_que # <<>>
    BY <1>1, <1>3, <2>2 DEF GetOpenPG_Build, BuildPG, TakePG
  <2>. QED BY <2>1, <2>2
<1>4. CASE Reload \/ Collect \/ CollectNextPG
  BY <1>1, <1>4 DEF Reload, ReloadRcmTarget, Collect, ScanNext, CollectNextPG, ScanEnd
<1>5. CASE \E num \in 0..MaxErase : EraseReq(num)
  BY <1>1, <1>5 DEF EraseReq, GetEraseReq
<1>6. CASE Erase
  BY <1>1, <1>6 DEF Erase, ErasePB
<1>. QED BY <1>2, <1>3, <1>4, <1>5, <1>6 DEF Inherited

\* They keep what is said of a flush, and do_gc collects what is mapped.
LEMMA InheritedType ==
  ASSUME CompTypeInv, Inherited
  PROVE  CompTypeInv'
<1>1. Next /\ UNCHANGED bufVars /\ l2p_tbl' = l2p_tbl
  BY InheritedSteps
<1>2. TypeInv'
  BY <1>1, NextType DEF CompTypeInv
<1>3. BuffersTypeOK' /\ \A type : Buffer(type)' = Buffer(type)
  BY <1>1 DEF CompTypeInv, BuffersTypeOK, Buffer, bufVars
<1>4. FlushInv'
  <2>. USE DEF CompTypeInv, FlushInv, RcmFlush, Formatting
  <2>1. CASE FormatPage
    BY <2>1 DEF FormatPage
  <2>2. CASE FormatDone
    BY <2>2 DEF FormatDone
  <2>3. CASE GetOpenPG_Present
    BY <1>1, <1>3, <2>3 DEF GetOpenPG_Present, bufVars
  <2>4. CASE GetOpenPG_Build
    BY <1>1, <1>3, <2>4 DEF GetOpenPG_Build, bufVars
  <2>5. CASE GetReWriteReq \/ Reload \/ ReloadDone \/ Collect \/ CollectNextPG \/ CollectDone
    BY <2>5 DEF GetReWriteReq, Reload, ReloadDone, Collect, CollectNextPG, CollectDone, ctlVars
  <2>6. CASE RewriteDone \/ (\E num \in 0..MaxErase : EraseReq(num)) \/ Erase
    BY <2>6 DEF RewriteDone, EraseReq, Erase
  <2>. QED BY <2>1, <2>2, <2>3, <2>4, <2>5, <2>6 DEF Inherited
<1>5. CollectedMapped'
  <2>1. CASE UNCHANGED req_list
    BY <1>1, <2>1 DEF CompTypeInv, CollectedMapped, bufVars
  <2>2. CASE Collect
    <3>. DEFINE pg    == Head(rcm_pg_que)
                entry == ScanEntry(pg).lpn
    <3>1. /\ req_list' = IF ScanValid(pg) THEN Append(req_list, entry) ELSE req_list
          /\ rcm_pg_que # <<>> /\ ScanNext(pg)
      BY <2>2 DEF Collect
    <3>2. FtlTypeOK /\ req_list \in Seq(LP) /\ rcm_pg_que \in Seq(PG)
      BY DEF CompTypeInv, TypeInv, SsdTypeOK, FtlTypeOK
    <3>3. pg \in PG /\ pg # NoPG
      BY <3>1, <3>2, HeadTailProperties, NoPGAssumption DEF PG
    <3>4. entry \in LP
      BY <3>1, <3>2, <3>3, ScanNextType
    <3>5. ScanValid(pg) => l2p_tbl[entry].pgn = pg
      BY DEF ScanValid
    <3>. HIDE DEF pg, entry
    <3>6. \A p : Contains(req_list', p) => Contains(req_list, p) \/ (ScanValid(pg) /\ p = entry)
      BY <3>1, <3>2, <3>4, AppendProperties DEF Contains
    <3>. QED BY <1>1, <3>3, <3>5, <3>6 DEF CompTypeInv, CollectedMapped, bufVars
  <2>3. CASE ~Collect
    <3>1. req_list' = req_list
      BY <2>3 DEF Inherited, FormatPage, FormatDone, GetOpenPG_Present, GetOpenPG_Build,
           GetReWriteReq, Reload, ReloadDone, CollectNextPG, CollectDone, RewriteDone,
           EraseReq, Erase, ctlVars
    <3>. QED BY <2>1, <3>1
  <2>. QED BY <2>2, <2>3
<1>. QED BY <1>2, <1>3, <1>4, <1>5 DEF CompTypeInv

\* lp_write only touches the buffers, until it flushes one.
LEMMA HostWriteType ==
  ASSUME CompTypeInv, LengthsInv, NEW lpn \in LP, CompHostWrite(lpn)
  PROVE  CompTypeInv'
<1>1. /\ SsdTypeOK /\ FtlTypeOK /\ BuffersTypeOK /\ pc = "idle" /\ ~Formatting
  BY DEF CompTypeInv, TypeInv, SsdTypeOK, FlushInv, CompHostWrite
<1>2. /\ write_buffer' = Append(write_buffer, lpn) /\ Push("HOST_WR", lpn, write_buffer)
      /\ UNCHANGED <<ftlVars, fmt_lp, tgt_num, req_list, req_num, erase_left, rcm_write_buffer>>
  BY DEF CompHostWrite
<1>. PICK type \in IoType : type = "HOST_WR"
  BY DEF IoType
<1>3. /\ write_buffer' \in Seq(LP) /\ Len(write_buffer') = Len(write_buffer) + 1
      /\ \/ /\ pc' = "open" /\ io' = [type |-> type, lpn |-> write_buffer'[1]]
            /\ write_buffer'[1] \in LP
            /\ len_list' \in Seq(1..SectsPerLp) /\ Len(len_list') = Len(write_buffer')
         \/ pc' = "gc" /\ io' = NoIo /\ len_list' = len_list
  BY <1>1, <1>2, PushStep DEF BuffersTypeOK, AfterLpWrite
<1>4. Len(write_buffer') \in Nat \ {0}
  BY <1>1, <1>3, LenProperties DEF BuffersTypeOK
<1>5. BuffersTypeOK'
  BY <1>1, <1>2, <1>3 DEF BuffersTypeOK
<1>6. FtlTypeOK'
  BY <1>1, <1>2 DEF ftlVars, queueVars, FtlTypeOK
<1>7. SsdTypeOK'
  <2>1. io' \in [type : IoType, lpn : LP]
    BY <1>3, SizesAssumption DEF NoIo, IoType, LP
  <2>. QED BY <1>1, <1>2, <1>3, <1>6, <2>1 DEF SsdTypeOK
<1>8. ControlInv'
  BY <1>3 DEF ControlInv, EraseInv
<1>9. FlushInv'
  <2>1. ~Formatting'
    BY <1>1, <1>2 DEF Formatting
  <2>2. CASE pc' = "open"
    <3>1. Buffer(io.type)' = write_buffer' /\ Len(len_list') = Len(write_buffer')
      BY <1>3, <2>2 DEF Buffer
    <3>. QED BY <1>4, <2>1, <2>2, <3>1 DEF FlushInv
  <2>3. CASE pc' = "gc"
    BY <2>1, <2>3 DEF FlushInv
  <2>. QED BY <1>3, <2>2, <2>3
<1>10. CollectedMapped'
  BY <1>2 DEF ftlVars, CompTypeInv, CollectedMapped
<1>. QED BY <1>5, <1>7, <1>8, <1>9, <1>10 DEF CompTypeInv, TypeInv

\* What is in a sequence is its first element or in the rest.
LEMMA HeadOrTail ==
  ASSUME NEW S, NEW s \in Seq(S), s # <<>>
  PROVE  \A p : Contains(s, p) <=> Contains(Tail(s), p) \/ p = Head(s)
<1>1. /\ Len(s) \in Nat \ {0} /\ Head(s) = s[1] /\ Len(Tail(s)) = Len(s) - 1
      /\ \A i \in 1..Len(Tail(s)) : Tail(s)[i] = s[i + 1]
  BY HeadTailProperties, EmptySeq, LenProperties
<1>. SUFFICES ASSUME NEW p
              PROVE  Contains(s, p) <=> Contains(Tail(s), p) \/ p = Head(s)
  OBVIOUS
<1>2. ASSUME Contains(s, p), p # Head(s)
      PROVE  Contains(Tail(s), p)
  <2>1. PICK i \in 1..Len(s) : s[i] = p
    BY <1>2 DEF Contains
  <2>2. i - 1 \in 1..Len(Tail(s)) /\ (i - 1) + 1 = i
    BY <1>1, <1>2, <2>1
  <2>. QED BY <1>1, <2>1, <2>2 DEF Contains
<1>3. ASSUME Contains(Tail(s), p)
      PROVE  Contains(s, p)
  <2>1. PICK i \in 1..Len(Tail(s)) : Tail(s)[i] = p
    BY <1>3 DEF Contains
  <2>2. i + 1 \in 1..Len(s) /\ s[i + 1] = p
    BY <1>1, <2>1
  <2>. QED BY <2>2 DEF Contains
<1>4. Contains(s, Head(s))
  <2>1. 1 \in 1..Len(s)
    BY <1>1
  <2>. QED BY <1>1, <2>1 DEF Contains
<1>. QED BY <1>2, <1>3, <1>4

\* do_gc moves the page it has collected from the list into the buffer.
LEMMA CompRewriteStep ==
  ASSUME CompTypeInv, LengthsInv, CompRewrite
  PROVE  /\ pc = "rewrite" /\ ~Formatting
         /\ UNCHANGED <<ftlVars, fmt_lp, tgt_num, req_num, erase_left, write_buffer>>
         /\ req_list # <<>> /\ req_list' \in Seq(LP) /\ rcm_write_buffer' \in Seq(LP)
         /\ Len(rcm_write_buffer') = Len(rcm_write_buffer) + 1
         /\ \A p : Contains(req_list', p) \/ Contains(rcm_write_buffer', p)
                     <=> Contains(req_list, p) \/ Contains(rcm_write_buffer, p)
         /\ \/ /\ Len(rcm_write_buffer') = BufferedPageNum
               /\ pc' = "open" /\ io' = [type |-> "RCM_RWR", lpn |-> rcm_write_buffer'[1]]
               /\ rcm_write_buffer'[1] \in LP
               /\ len_list' \in Seq(1..SectsPerLp) /\ Len(len_list') = Len(rcm_write_buffer')
            \/ /\ Len(rcm_write_buffer') # BufferedPageNum
               /\ pc' = "rewrite" /\ io' = NoIo /\ len_list' = len_list
<1>1. /\ FtlTypeOK /\ req_list \in Seq(LP) /\ rcm_write_buffer \in Seq(LP)
      /\ pc = "rewrite" /\ ~Formatting /\ req_list # <<>>
  BY DEF CompTypeInv, TypeInv, SsdTypeOK, BuffersTypeOK, FlushInv, CompRewrite
<1>2. /\ rcm_write_buffer' = Append(rcm_write_buffer, Head(req_list))
      /\ Push("RCM_RWR", Head(req_list), rcm_write_buffer)
      /\ req_list' = Tail(req_list)
      /\ UNCHANGED <<ftlVars, fmt_lp, tgt_num, req_num, erase_left, write_buffer>>
  BY DEF CompRewrite
<1>3. /\ Head(req_list) \in LP /\ Tail(req_list) \in Seq(LP) /\ Len(Tail(req_list)) = Len(req_list) - 1
      /\ \A i \in 1..Len(Tail(req_list)) : Tail(req_list)[i] = req_list[i + 1]
      /\ Len(req_list) \in Nat \ {0} /\ Head(req_list) = req_list[1]
  BY <1>1, HeadTailProperties, EmptySeq
<1>4. \A p : Contains(req_list, p) <=> Contains(req_list', p) \/ p = Head(req_list)
  <2>1. \A p : Contains(req_list, p) <=> Contains(Tail(req_list), p) \/ p = Head(req_list)
    BY <1>1, HeadOrTail
  <2>. QED BY <1>2, <2>1
<1>. PICK lpn \in LP : lpn = Head(req_list)
  BY <1>3
<1>. PICK type \in IoType : type = "RCM_RWR"
  BY DEF IoType
<1>5. /\ l2p_tbl[lpn].pgn # NoPG
      /\ \A p \in LP : Contains(rcm_write_buffer, p) => l2p_tbl[p].pgn # NoPG
  BY <1>4 DEF CompTypeInv, CollectedMapped
<1>6. LET pushed == Append(rcm_write_buffer, lpn)
      IN  /\ pushed \in Seq(LP) /\ Len(pushed) = Len(rcm_write_buffer) + 1
          /\ \A p : Contains(pushed, p) <=> Contains(rcm_write_buffer, p) \/ p = lpn
          /\ \/ /\ Len(pushed) = BufferedPageNum
                /\ pc' = "open" /\ io' = [type |-> type, lpn |-> pushed[1]] /\ pushed[1] \in LP
                /\ len_list' \in Seq(1..SectsPerLp) /\ Len(len_list') = Len(pushed)
             \/ /\ Len(pushed) # BufferedPageNum
                /\ pc' = AfterLpWrite(type) /\ io' = NoIo /\ len_list' = len_list
  BY <1>1, <1>2, <1>5, PushStep
<1>7. AfterLpWrite(type) = "rewrite"
  BY DEF AfterLpWrite
<1>8. \A p : Contains(req_list', p) \/ Contains(rcm_write_buffer', p)
               <=> Contains(req_list, p) \/ Contains(rcm_write_buffer, p)
  BY <1>2, <1>4, <1>6
<1>. QED BY <1>1, <1>2, <1>3, <1>6, <1>7, <1>8

LEMMA CompRewriteType ==
  ASSUME CompTypeInv, LengthsInv, CompRewrite
  PROVE  CompTypeInv'
<1>1. /\ SsdTypeOK /\ FtlTypeOK /\ BuffersTypeOK
  BY DEF CompTypeInv, TypeInv, SsdTypeOK
<1>2. /\ pc = "rewrite" /\ ~Formatting
      /\ UNCHANGED <<ftlVars, fmt_lp, tgt_num, req_num, erase_left, write_buffer>>
      /\ req_list' \in Seq(LP) /\ rcm_write_buffer' \in Seq(LP)
      /\ Len(rcm_write_buffer') = Len(rcm_write_buffer) + 1
      /\ \A p : Contains(req_list', p) \/ Contains(rcm_write_buffer', p)
                  <=> Contains(req_list, p) \/ Contains(rcm_write_buffer, p)
      /\ \/ /\ pc' = "open" /\ io' = [type |-> "RCM_RWR", lpn |-> rcm_write_buffer'[1]]
            /\ rcm_write_buffer'[1] \in LP
            /\ len_list' \in Seq(1..SectsPerLp) /\ Len(len_list') = Len(rcm_write_buffer')
         \/ pc' = "rewrite" /\ io' = NoIo /\ len_list' = len_list
  BY CompRewriteStep
<1>4. Len(rcm_write_buffer') \in Nat \ {0}
  BY <1>1, <1>2, LenProperties DEF BuffersTypeOK
<1>5. BuffersTypeOK'
  BY <1>1, <1>2 DEF BuffersTypeOK
<1>6. FtlTypeOK'
  BY <1>1, <1>2 DEF ftlVars, queueVars, FtlTypeOK
<1>7. SsdTypeOK'
  <2>1. io' \in [type : IoType, lpn : LP]
    BY <1>2, SizesAssumption DEF NoIo, IoType, LP
  <2>. QED BY <1>1, <1>2, <1>6, <2>1 DEF SsdTypeOK
<1>8. ControlInv'
  BY <1>2 DEF ControlInv, EraseInv
<1>9. FlushInv'
  <2>1. ~Formatting'
    BY <1>2 DEF Formatting
  <2>2. CASE pc' = "open"
    <3>1. Buffer(io.type)' = rcm_write_buffer' /\ Len(len_list') = Len(rcm_write_buffer')
      BY <1>2, <2>2 DEF Buffer
    <3>. QED BY <1>4, <2>1, <2>2, <3>1 DEF FlushInv
  <2>3. CASE pc' = "rewrite"
    BY <2>1, <2>3 DEF FlushInv
  <2>. QED BY <1>2, <2>2, <2>3
<1>10. CollectedMapped'
  BY <1>2 DEF ftlVars, CompTypeInv, CollectedMapped
<1>. QED BY <1>5, <1>7, <1>8, <1>9, <1>10 DEF CompTypeInv, TypeInv

LEMMA CompUpdateType ==
  ASSUME CompTypeInv, CompUpdate, FormatLen # 0
  PROVE  CompTypeInv'
<1>. DEFINE dst == openpg[io.type]
<1>1. /\ SsdTypeOK /\ FtlTypeOK /\ BuffersTypeOK
  BY DEF CompTypeInv, TypeInv, SsdTypeOK
<1>2. /\ pc = "update" /\ io.type \in IoType /\ io.lpn \in LP /\ dst \in PG
      /\ UpdateLen \in 1..SectsPerLp /\ Aligned \in BOOLEAN
      /\ UNCHANGED <<tgt_num, req_list, req_num, erase_left>>
  BY UpdateCases
<1>3. NoIo \in [type : IoType, lpn : LP] /\ <<>> \in Seq(LP) /\ <<>> \in Seq(1..SectsPerLp)
  BY SizesAssumption, EmptySeq DEF NoIo, IoType, LP
<1>4. ~Formatting => Len(len_list) \in 1..Len(Buffer(io.type))
  BY <1>2 DEF CompTypeInv, FlushInv
<1>5. CASE /\ pc' = "failed" /\ io' = NoIo /\ len_list' = <<>>
           /\ UNCHANGED <<ftlVars, fmt_lp, write_buffer, rcm_write_buffer>>
  <2>1. FtlTypeOK'
    BY <1>1, <1>5 DEF ftlVars, queueVars, FtlTypeOK
  <2>2. SsdTypeOK'
    BY <1>1, <1>2, <1>3, <1>5, <2>1 DEF SsdTypeOK
  <2>3. ControlInv' /\ FlushInv'
    BY <1>5 DEF ControlInv, EraseInv, FlushInv, RcmFlush
  <2>4. BuffersTypeOK'
    BY <1>1, <1>3, <1>5 DEF BuffersTypeOK
  <2>5. CollectedMapped'
    BY <1>2, <1>5 DEF CompTypeInv, CollectedMapped, ftlVars
  <2>. QED BY <2>2, <2>3, <2>4, <2>5 DEF CompTypeInv, TypeInv
<1>6. ASSUME ~L2P_UpdateError(io.lpn, UpdateLen, dst),
             L2P_Update(io.lpn, UpdateLen, dst, Aligned)
      PROVE  FtlTypeOK' /\ (\A p \in LP : l2p_tbl[p].pgn # NoPG => l2p_tbl'[p].pgn # NoPG)
  <2>1. UpdateLen \in Nat
    BY <1>2, SizesAssumption
  <2>2. FtlTypeOK'
    BY <1>1, <1>2, <1>6, <2>1, L2P_UpdateType
  <2>3. l2p_tbl'[io.lpn].pgn = dst /\ \A p \in LP \ {io.lpn} : l2p_tbl'[p] = l2p_tbl[p]
    <3>. DEFINE entry == [pgn |-> dst, ofs |-> pg_list[dst].next_ofs, len |-> UpdateLen]
    <3>0. l2p_tbl' = [l2p_tbl EXCEPT ![io.lpn] = entry] /\ l2p_tbl \in [LP -> VPA] /\ entry.pgn = dst
      <4>1. l2p_tbl' = [l2p_tbl EXCEPT ![io.lpn] = entry]
        BY <1>6, Zenon DEF L2P_Update
      <4>. QED BY <1>1, <4>1 DEF FtlTypeOK
    <3>. HIDE DEF entry, dst
    <3>1. l2p_tbl'[io.lpn] = entry /\ \A p \in LP \ {io.lpn} : l2p_tbl'[p] = l2p_tbl[p]
      BY <1>2, <3>0
    <3>. QED BY <3>0, <3>1
  <2>. QED BY <1>2, <2>2, <2>3, NoPGAssumption DEF PG
<1>7. CASE /\ ~L2P_UpdateError(io.lpn, UpdateLen, dst)
           /\ L2P_Update(io.lpn, UpdateLen, dst, Aligned)
           /\ Formatting /\ pc' = "format" /\ io' = NoIo /\ fmt_lp' = fmt_lp + 1
           /\ UNCHANGED <<write_buffer, rcm_write_buffer, len_list>>
  <2>1. fmt_lp' \in 0..LpNum
    BY <1>1, <1>7, SizesAssumption DEF SsdTypeOK, Formatting
  <2>2. SsdTypeOK'
    BY <1>1, <1>2, <1>3, <1>6, <1>7, <2>1 DEF SsdTypeOK
  <2>3. ControlInv' /\ FlushInv'
    BY <1>7 DEF ControlInv, EraseInv, FlushInv, RcmFlush
  <2>4. BuffersTypeOK'
    BY <1>1, <1>7 DEF BuffersTypeOK
  <2>5. CollectedMapped'
    BY <1>2, <1>6, <1>7 DEF CompTypeInv, CollectedMapped
  <2>. QED BY <2>2, <2>3, <2>4, <2>5 DEF CompTypeInv, TypeInv
<1>8. CASE /\ ~L2P_UpdateError(io.lpn, UpdateLen, dst)
           /\ L2P_Update(io.lpn, UpdateLen, dst, Aligned)
           /\ ~Formatting /\ fmt_lp' = fmt_lp
           /\ len_list' = <<>>
           /\ pc' = AfterLpWrite(io.type) /\ io' = NoIo
           /\ write_buffer' = IF io.type = "HOST_WR" THEN <<>> ELSE write_buffer
           /\ rcm_write_buffer' = IF io.type = "RCM_RWR" THEN <<>> ELSE rcm_write_buffer
  <2>1. pc' \in {"gc", "rewrite"} /\ ~Formatting'
    BY <1>8 DEF AfterLpWrite, Formatting
  <2>2. SsdTypeOK'
    BY <1>1, <1>2, <1>3, <1>6, <1>8, <2>1 DEF SsdTypeOK
  <2>3. ControlInv' /\ FlushInv'
    BY <2>1 DEF ControlInv, EraseInv, FlushInv
  <2>4. BuffersTypeOK'
    BY <1>1, <1>3, <1>8 DEF BuffersTypeOK
  <2>5. CollectedMapped'
    <3>1. \A p : Contains(rcm_write_buffer', p) => Contains(rcm_write_buffer, p)
      BY <1>8 DEF Contains
    <3>. QED BY <1>2, <1>6, <1>8, <3>1 DEF CompTypeInv, CollectedMapped
  <2>. QED BY <2>2, <2>3, <2>4, <2>5 DEF CompTypeInv, TypeInv
<1>9. CASE /\ ~L2P_UpdateError(io.lpn, UpdateLen, dst)
           /\ L2P_Update(io.lpn, UpdateLen, dst, Aligned)
           /\ ~Formatting /\ fmt_lp' = fmt_lp
           /\ len_list' \in Seq(1..SectsPerLp)
           /\ Len(len_list) > 1 /\ Len(len_list') = Len(len_list) - 1
           /\ pc' = "open" /\ io'.type = io.type
           /\ io' \in [type : IoType, lpn : LP]
           /\ UNCHANGED <<write_buffer, rcm_write_buffer>>
  <2>2. SsdTypeOK'
    BY <1>1, <1>2, <1>6, <1>9 DEF SsdTypeOK
  <2>3. ControlInv'
    BY <1>9 DEF ControlInv, EraseInv
  <2>4. BuffersTypeOK'
    BY <1>1, <1>9 DEF BuffersTypeOK
  <2>5. CollectedMapped'
    BY <1>2, <1>6, <1>9 DEF CompTypeInv, CollectedMapped
  <2>6. FlushInv'
    <3>1. Buffer(io.type)' = Buffer(io.type) /\ ~Formatting'
      BY <1>9 DEF Buffer, Formatting
    <3>2. Len(len_list) \in Nat /\ Len(Buffer(io.type)) \in Nat
      BY <1>1, LenProperties DEF BuffersTypeOK, Buffer
    <3>3. Len(len_list') \in 1..Len(Buffer(io.type))
      BY <1>4, <1>9, <3>2
    <3>. QED BY <3>1, <3>3 DEF FlushInv
  <2>. QED BY <2>2, <2>3, <2>4, <2>5, <2>6 DEF CompTypeInv, TypeInv
<1>. QED BY <1>5, <1>7, <1>8, <1>9, UpdateCases

(* Every step of the drive keeps types and what a flush relies on. *)
LEMMA CompNextType ==
  ASSUME CompTypeInv, LengthsInv, FormatLen # 0, [CompNext]_compVars
  PROVE  CompTypeInv'
<1>1. CASE UNCHANGED pageVars
  <2>1. UNCHANGED vars /\ UNCHANGED <<write_buffer, rcm_write_buffer, len_list>>
    BY <1>1 DEF pageVars
  <2>2. TypeInv'
    BY <2>1, NextType DEF CompTypeInv
  <2>3. BuffersTypeOK' /\ FlushInv' /\ CollectedMapped'
    BY <2>1 DEF CompTypeInv, BuffersTypeOK, FlushInv, RcmFlush, Buffer, Formatting, CollectedMapped,
                vars, ftlVars, ctlVars
  <2>. QED BY <2>2, <2>3 DEF CompTypeInv
<1>. QED BY <1>1, InheritedType, HostWriteType, CompRewriteType, CompUpdateType, ReadsLeaveAlone
         DEF CompNext

-----------------------------------------------------------------------------
(* The counters, the map and the queues together *)

CompLedgerInv == CompBooksInv /\ QueuesInv /\ VictimsInv

LEMMA CompInitLedger == CompInit => CompTypeInv /\ CompLedgerInv
<1>. SUFFICES ASSUME CompInit PROVE CompTypeInv /\ CompLedgerInv
  OBVIOUS
<1>1. /\ Init /\ write_buffer = <<>> /\ rcm_write_buffer = <<>> /\ len_list = <<>>
  BY DEF CompInit
<1>2. TypeInv /\ QueuesInv /\ VictimsInv
  BY <1>1, InitType, InitQueues, InitPlaces DEF PlacesInv
<1>3. /\ \A pg \in PG : pg_list[pg].lp_num = 0 /\ pg_list[pg].vs_num = 0
      /\ \A lpn \in LP : l2p_tbl[lpn].pgn = NoPG
      /\ pc = "format" /\ io.type = "HOST_WR" /\ req_list = <<>> /\ NoPG \notin PG
  BY <1>1, NoPGAssumption DEF Init, InitFTL, InitPG, NoIo, PG
<1>4. BuffersTypeOK
  BY <1>1, EmptySeq DEF BuffersTypeOK
<1>5. FlushInv
  BY <1>3 DEF FlushInv, RcmFlush
<1>6. CollectedMapped
  BY <1>1, <1>3, EmptySeq DEF CollectedMapped, Contains
<1>7. \A pg \in PG : Mapped(pg) = {} /\ ValidSectors(pg) = {}
  BY <1>3 DEF Mapped, ValidSectors
<1>8. CompBooksInv
  BY <1>3, <1>7, FS_EmptySet DEF CompBooksInv, LengthsInv, CompAccounting, NoPageInFreePG
<1>. QED BY <1>2, <1>4, <1>5, <1>6, <1>8 DEF CompTypeInv, CompLedgerInv

LEMMA InheritedLedger ==
  ASSUME CompTypeInv, CompLedgerInv, Inherited
  PROVE  CompLedgerInv'
<1>1. FtlTypeOK /\ pg_list \in [PG -> PG_Info] /\ io.type \in IoType /\ rcm_pg_que \in Seq(PG)
  BY DEF CompTypeInv, TypeInv, SsdTypeOK, FtlTypeOK
<1>2. /\ l2p_tbl' = l2p_tbl
      /\ \/ UNCHANGED <<pg_list, openpg, queueVars>>
         \/ GetOpenPG_Build /\ free_pg_que # <<>> /\ BuildPG(io.type)
         \/ Reload \/ Collect \/ CollectNextPG
  BY InheritedSteps
<1>3. CASE UNCHANGED <<pg_list, openpg, queueVars>>
  <2>1. CompBooksInv'
    BY <1>2, <1>3, CompNothingMoves DEF CompLedgerInv
  <2>2. QueuesInv' /\ VictimsInv'
    BY <1>3 DEF CompLedgerInv, queueVars, QueuesInv, QueuedAs, ClosedHasPages, VictimsInv
  <2>. QED BY <2>1, <2>2 DEF CompLedgerInv
<1>4. CASE BuildPG(io.type)
  <2>1. TakePG(io.type) /\ QueuesInv
    BY <1>4 DEF BuildPG, CompLedgerInv
  <2>2. QueuesInv'
    BY <1>1, <2>1, OpenStep
  <2>3. PICK first \in PG :
          /\ pg_list[first].status = "FREE" /\ pg_list'[first].status = "OPEN"
          /\ pg_list'[first].vs_num = pg_list[first].vs_num
          /\ pg_list'[first].lp_num = pg_list[first].lp_num
          /\ \A pg \in PG \ {first} : pg_list'[pg] = pg_list[pg]
          /\ UNCHANGED <<rcm_pg_que, rcm_cmp_pg_que>>
    BY <1>1, <2>1, TakenPG
  <2>4. CompBooksInv'
    <3>1. \A pg \in PG : /\ pg_list'[pg].lp_num = pg_list[pg].lp_num
                         /\ pg_list'[pg].vs_num = pg_list[pg].vs_num
                         /\ pg_list'[pg].status = "FREE" => pg_list[pg].status = "FREE"
      BY <2>3
    <3>. QED BY <1>2, <3>1, CompNothingMoves DEF CompLedgerInv
  <2>5. VictimsInv'
    <3>1. \A pg \in PG : pg_list'[pg].status = "RCM" <=> pg_list[pg].status = "RCM"
      BY <2>3
    <3>. QED BY <2>3, <3>1 DEF CompLedgerInv, VictimsInv
  <2>. QED BY <2>2, <2>4, <2>5 DEF CompLedgerInv
<1>5. CASE Reload
  <2>1. ReloadRcmTarget /\ QueuesInv /\ VictimsInv
    BY <1>5 DEF Reload, CompLedgerInv
  <2>2. QueuesInv' /\ VictimsInv'
    BY <1>1, <2>1, ReloadQueues, ReloadVictimQueues
  <2>3. \A pg \in PG : /\ pg_list'[pg].lp_num = pg_list[pg].lp_num
                       /\ pg_list'[pg].vs_num = pg_list[pg].vs_num
                       /\ pg_list'[pg].status = "FREE" => pg_list[pg].status = "FREE"
    BY <1>1, <2>1 DEF ReloadRcmTarget, PG_Info
  <2>4. CompBooksInv'
    BY <1>2, <2>3, CompNothingMoves DEF CompLedgerInv
  <2>. QED BY <2>2, <2>4 DEF CompLedgerInv
<1>6. CASE Collect
  <2>1. \A pg \in PG : /\ pg_list'[pg].lp_num = pg_list[pg].lp_num
                       /\ pg_list'[pg].vs_num = pg_list[pg].vs_num
                       /\ pg_list'[pg].status = pg_list[pg].status
    BY <1>1, <1>6 DEF Collect, ScanNext, PG_Info
  <2>2. CompBooksInv'
    BY <1>2, <2>1, CompNothingMoves DEF CompLedgerInv
  <2>3. UNCHANGED queueVars
    BY <1>6 DEF Collect, ScanNext
  <2>4. QueuesInv' /\ VictimsInv'
    BY <2>1, <2>3 DEF CompLedgerInv, queueVars, QueuesInv, QueuedAs, ClosedHasPages, VictimsInv
  <2>. QED BY <2>2, <2>4 DEF CompLedgerInv
<1>7. CASE CollectNextPG
  <2>1. /\ rcm_pg_que # <<>> /\ ScanEnd(Head(rcm_pg_que))
        /\ pg_list' = pg_list /\ free_pg_que' = free_pg_que /\ close_pg_que' = close_pg_que
    BY <1>7 DEF CollectNextPG, ScanEnd
  <2>2. VictimsInv'
    BY <1>1, <2>1, ScanEndVictimQueues DEF CompLedgerInv
  <2>3. CompBooksInv'
    BY <1>2, <2>1, CompNothingMoves DEF CompLedgerInv
  <2>4. QueuesInv'
    BY <2>1 DEF CompLedgerInv, QueuesInv, QueuedAs, ClosedHasPages
  <2>. QED BY <2>2, <2>3, <2>4 DEF CompLedgerInv
<1>. QED BY <1>2, <1>3, <1>4, <1>5, <1>6, <1>7

(* Every step of the drive keeps the counters, the map and the queues in agreement. *)
LEMMA CompNextLedger ==
  ASSUME CompTypeInv, CompLedgerInv, FormatLen # 0, [CompNext]_compVars
  PROVE  CompLedgerInv'
<1>1. CASE UNCHANGED ftlVars
  <2>1. CompBooksInv'
    BY <1>1, CompNothingMoves DEF CompLedgerInv, ftlVars
  <2>2. QueuesInv' /\ VictimsInv'
    BY <1>1 DEF CompLedgerInv, ftlVars, queueVars, QueuesInv, QueuedAs, ClosedHasPages, VictimsInv
  <2>. QED BY <2>1, <2>2 DEF CompLedgerInv
<1>2. CASE CompUpdate
  <2>. DEFINE dst == openpg[io.type]
  <2>1. /\ FtlTypeOK /\ io.lpn \in LP /\ dst \in PG
        /\ UpdateLen \in 1..SectsPerLp /\ Aligned \in BOOLEAN
        /\ \/ UNCHANGED ftlVars
           \/ /\ ~L2P_UpdateError(io.lpn, UpdateLen, dst)
              /\ L2P_Update(io.lpn, UpdateLen, dst, Aligned)
    BY <1>2, UpdateCases DEF CompTypeInv, TypeInv, SsdTypeOK
  <2>2. /\ UpdateLen \in Nat \ {0} /\ PageCounted(io.lpn)
        /\ CompBooksInv /\ QueuesInv /\ VictimsInv
    BY <2>1, SizesAssumption, CompPageCounted DEF CompLedgerInv
  <2>3. CASE /\ ~L2P_UpdateError(io.lpn, UpdateLen, dst)
             /\ L2P_Update(io.lpn, UpdateLen, dst, Aligned)
    <3>1. CompBooksInv'
      BY <2>1, <2>2, <2>3, CompUpdateBooks, Zenon
    <3>2. QueuesInv'
      BY <2>1, <2>2, <2>3, StatusAfterWrite, Zenon
    <3>3. VictimsInv'
      BY <2>1, <2>2, <2>3, VictimsAfterWrite, Zenon
    <3>. QED BY <3>1, <3>2, <3>3 DEF CompLedgerInv
  <2>. QED BY <1>1, <2>1, <2>3
<1>3. CASE Inherited
  BY <1>3, InheritedLedger
<1>4. CASE CompRewrite \/ (\E lpn \in LP : CompHostWrite(lpn)) \/ UNCHANGED pageVars
  BY <1>1, <1>4 DEF CompRewrite, CompHostWrite, pageVars, vars
<1>. QED BY <1>2, <1>3, <1>4, ReadsLeaveAlone DEF CompNext

LEMMA LedgerCorrect ==
  ASSUME FormatLen # 0
  PROVE  CompSpec => [](CompTypeInv /\ CompLedgerInv)
<1>1. CompInit => CompTypeInv /\ CompLedgerInv
  BY CompInitLedger
<1>2. CompTypeInv /\ CompLedgerInv /\ [CompNext]_compVars => (CompTypeInv /\ CompLedgerInv)'
  BY CompNextType, CompNextLedger DEF CompLedgerInv, CompBooksInv
<1>. QED BY <1>1, <1>2, PTL DEF CompSpec

\* Whatever the pages compress to, vs_num of a PG counts the sectors of the pages
\* mapped to it and lp_num the pages: CloseToInvalid releases a PG on the strength
\* of its counters.  The pages Format writes have to have a sector each.
THEOREM CompAccountingHolds ==
  ASSUME FormatLen # 0
  PROVE  CompSpec => []CompAccounting
<1>1. CompLedgerInv => CompAccounting
  BY DEF CompLedgerInv, CompBooksInv
<1>. QED BY <1>1, LedgerCorrect, PTL

-----------------------------------------------------------------------------
(***************************************************************************)
(* The scan of victims, with lengths and pads.                             *)
(*                                                                         *)
(* GetNextReWriteLPN adds up the lengths of the reverse map.  That the sum *)
(* meets the offset of every live page is said with the sums themselves:   *)
(* at[i] is where the entry behind the first i ones begins.                *)
(***************************************************************************)

\* at adds up the reverse map of a PG, past whose end the PG is written, and the
\* cursors of a scan stand at the same entry: at the first of a PG that is no victim.
Sums(info, at) ==
  LET num == Len(info.p2l_tbl)
  IN  /\ at \in [0..num -> Nat] /\ at[0] = 0
      /\ \A i \in 1..num : at[i] = at[i - 1] + info.p2l_tbl[i].len
      /\ \A i, j \in 0..num : i < j => at[i] < at[j]
      /\ info.status = "FREE" => num = 0 /\ info.next_ofs = 0
      /\ info.status = "OPEN" => info.next_ofs = at[num]
      /\ info.next_rewr_index \in 0..num /\ info.next_rewr_pgsect = at[info.next_rewr_index]
      /\ info.status # "RCM" => info.next_rewr_index = 0

\* Every page mapped to a PG has an entry there, at its offset.
Listed(pg, table, at) ==
  \A lpn \in Mapped(pg) : \E i \in 1..Len(table) : table[i].lpn = lpn /\ l2p_tbl[lpn].ofs = at[i - 1]

SumsInv == \A pg \in PG : \E at : Sums(pg_list[pg], at) /\ Listed(pg, pg_list[pg].p2l_tbl, at)

\* A PG that is opened, filled or made a victim keeps its sums.
LEMMA SumsKept ==
  ASSUME NEW info, NEW new, NEW at, Sums(info, at),
         new.p2l_tbl = info.p2l_tbl, new.next_ofs = info.next_ofs,
         new.next_rewr_index = info.next_rewr_index,
         new.next_rewr_pgsect = info.next_rewr_pgsect,
         new.status = "FREE" => info.status = "FREE",
         new.status = "OPEN" => info.status \in {"FREE", "OPEN"},
         new.status # "RCM" => info.status # "RCM"
  PROVE  Sums(new, at)
BY DEF Sums

\* One entry more: the sums go on where the PG was written to.
Continued(info, new, lpn, at, longer) ==
  LET num == Len(info.p2l_tbl)
  IN  /\ num \in Nat /\ Len(new.p2l_tbl) = num + 1
      /\ \A i \in 0..num : longer[i] = at[i]
      /\ \A i \in 1..num : new.p2l_tbl[i] = info.p2l_tbl[i]
      /\ new.p2l_tbl[num + 1].lpn = lpn /\ longer[num] = info.next_ofs

LEMMA SumsGrow ==
  ASSUME NEW info \in PG_Info, NEW at, Sums(info, at), info.status = "OPEN",
         NEW lpn \in LP, NEW len \in Nat \ {0}, NEW pad \in Nat
  PROVE  \E longer :
           /\ Sums(Written(info, lpn, len, pad), longer)
           /\ Continued(info, Written(info, lpn, len, pad), lpn, at, longer)
<1>. DEFINE num    == Len(info.p2l_tbl)
            new    == Written(info, lpn, len, pad)
            entry  == [lpn |-> lpn, len |-> len + pad]
            longer == [i \in 0..(num + 1) |-> IF i = num + 1 THEN at[num] + len + pad ELSE at[i]]
<1>1. /\ info.p2l_tbl \in Seq(Reverse_Info) /\ info.next_ofs \in Nat /\ num \in Nat
      /\ entry \in Reverse_Info
  <2>1. info.p2l_tbl \in Seq(Reverse_Info) /\ info.next_ofs \in Nat
    BY DEF PG_Info
  <2>. QED BY <2>1, LenProperties DEF Reverse_Info
<1>2. /\ at \in [0..num -> Nat] /\ at[0] = 0 /\ info.next_ofs = at[num] /\ at[num] \in Nat
      /\ \A i \in 1..num : at[i] = at[i - 1] + info.p2l_tbl[i].len
      /\ \A i, j \in 0..num : i < j => at[i] < at[j]
      /\ info.next_rewr_index = 0 /\ info.next_rewr_pgsect = 0
  BY <1>1 DEF Sums
<1>3. /\ new.p2l_tbl = Append(info.p2l_tbl, entry)
      /\ new.next_rewr_index = 0 /\ new.next_rewr_pgsect = 0
      /\ new.status = "CLOSE" \/ (new.status = "OPEN" /\ new.next_ofs = info.next_ofs + len + pad)
  BY <1>2 DEF Written, PG_Info
<1>4. /\ Len(new.p2l_tbl) = num + 1 /\ new.p2l_tbl[num + 1] = entry
      /\ \A i \in 1..num : new.p2l_tbl[i] = info.p2l_tbl[i]
  BY <1>1, <1>3, AppendProperties
<1>5. /\ \A i \in 0..num : longer[i] = at[i]
      /\ longer[num + 1] = at[num] + len + pad
      /\ longer \in [0..(num + 1) -> Nat]
  <2>1. \A i \in 0..num : i \in 0..(num + 1) /\ i # num + 1
    BY <1>1
  <2>2. num + 1 \in 0..(num + 1) /\ at[num] + len + pad \in Nat
    BY <1>1, <1>2
  <2>3. \A i \in 0..(num + 1) : i \in 0..num \/ i = num + 1
    BY <1>1
  <2>. HIDE DEF num
  <2>. QED BY <1>2, <2>1, <2>2, <2>3
<1>. HIDE DEF num, new, longer
<1>6. \A i \in 1..(num + 1) : longer[i] = longer[i - 1] + new.p2l_tbl[i].len
  <2>. SUFFICES ASSUME NEW i \in 1..(num + 1)
                PROVE  longer[i] = longer[i - 1] + new.p2l_tbl[i].len
    OBVIOUS
  <2>1. CASE i = num + 1
    <3>1. longer[i - 1] = at[num] /\ new.p2l_tbl[i].len = len + pad
      BY <1>1, <1>4, <1>5, <2>1
    <3>. QED BY <1>2, <1>5, <2>1, <3>1
  <2>2. CASE i # num + 1
    <3>1. i \in 1..num /\ i \in 0..num /\ i - 1 \in 0..num
      BY <1>1, <2>2
    <3>. QED BY <1>2, <1>4, <1>5, <3>1
  <2>. QED BY <2>1, <2>2
<1>7. \A i, j \in 0..(num + 1) : i < j => longer[i] < longer[j]
  <2>. SUFFICES ASSUME NEW i \in 0..(num + 1), NEW j \in 0..(num + 1), i < j
                PROVE  longer[i] < longer[j]
    OBVIOUS
  <2>1. i \in 0..num /\ num \in 0..num /\ longer[i] = at[i] /\ at[i] \in Nat
    BY <1>1, <1>2, <1>5
  <2>2. at[i] <= at[num]
    <3>1. i < num \/ i = num
      BY <1>1, <2>1
    <3>. QED BY <1>2, <2>1, <3>1
  <2>3. CASE j = num + 1
    BY <1>2, <1>5, <2>1, <2>2, <2>3
  <2>4. CASE j # num + 1
    <3>1. j \in 0..num
      BY <1>1, <2>4
    <3>. QED BY <1>2, <1>5, <2>1, <3>1
  <2>. QED BY <2>3, <2>4
<1>8. longer[0] = 0 /\ 0 \in 0..(num + 1) /\ longer[num] = at[num]
  BY <1>1, <1>2, <1>5
<1>9. Sums(new, longer)
  <2>1. new.status = "OPEN" => new.next_ofs = longer[num + 1]
    BY <1>2, <1>3, <1>5
  <2>2. new.status # "FREE"
    BY <1>3
  <2>. QED BY <1>3, <1>4, <1>5, <1>6, <1>7, <1>8, <2>1, <2>2 DEF Sums
<1>10. Continued(info, new, lpn, at, longer)
  <2>1. /\ \A i \in 0..num : longer[i] = at[i]
        /\ \A i \in 1..num : new.p2l_tbl[i] = info.p2l_tbl[i]
    BY <1>4, <1>5
  <2>2. new.p2l_tbl[num + 1].lpn = lpn
    BY <1>4
  <2>3. longer[num] = info.next_ofs
    BY <1>2, <1>8
  <2>. QED BY <1>1, <1>4, <2>1, <2>2, <2>3 DEF Continued, num
<1>. QED BY <1>9, <1>10, Zenon DEF new

\* A PG that is as good as new has nothing to add up.
LEMMA SumsOfNew ==
  ASSUME NEW info, info.p2l_tbl = <<>>, info.next_ofs = 0,
         info.next_rewr_index = 0, info.next_rewr_pgsect = 0
  PROVE  Sums(info, [i \in 0..0 |-> 0])
<1>1. Len(info.p2l_tbl) = 0
  OBVIOUS
<1>. QED BY <1>1 DEF Sums

\* A step that moves no page, no cursor and no write position, and frees no PG.
LEMMA KeepsSums ==
  ASSUME SumsInv, l2p_tbl' = l2p_tbl,
         \A pg \in PG :
           /\ pg_list'[pg].p2l_tbl = pg_list[pg].p2l_tbl
           /\ pg_list'[pg].next_ofs = pg_list[pg].next_ofs
           /\ pg_list'[pg].next_rewr_index = pg_list[pg].next_rewr_index
           /\ pg_list'[pg].next_rewr_pgsect = pg_list[pg].next_rewr_pgsect
           /\ pg_list'[pg].status = "FREE" => pg_list[pg].status = "FREE"
           /\ pg_list'[pg].status = "OPEN" => pg_list[pg].status \in {"FREE", "OPEN"}
           /\ pg_list'[pg].status # "RCM" => pg_list[pg].status # "RCM"
  PROVE  SumsInv'
<1>. SUFFICES ASSUME NEW pg \in PG
              PROVE  \E at : Sums(pg_list'[pg], at) /\ Listed(pg, pg_list[pg].p2l_tbl, at)'
  BY DEF SumsInv
<1>1. PICK at : Sums(pg_list[pg], at) /\ Listed(pg, pg_list[pg].p2l_tbl, at)
  BY DEF SumsInv
<1>2. Sums(pg_list'[pg], at)
  BY <1>1, SumsKept
<1>3. Listed(pg, pg_list[pg].p2l_tbl, at)'
  BY <1>1 DEF Listed, Mapped
<1>. QED BY <1>2, <1>3

\* An accepted L2P_Update: dst grows by the page, other PGs lose it at most.
LEMMA CompUpdateSums ==
  ASSUME FtlTypeOK, CompLedgerInv, CompLedgerInv', SumsInv,
         NEW lpn \in LP, NEW len \in 1..SectsPerLp, NEW dst \in PG, NEW align \in BOOLEAN,
         ~L2P_UpdateError(lpn, len, dst), L2P_Update(lpn, len, dst, align)
  PROVE  SumsInv'
<1>. DEFINE src   == l2p_tbl[lpn].pgn
            freed == Releases(lpn, dst)
            grown == Grown(lpn, len, dst, align)
            entry == [pgn |-> dst, ofs |-> pg_list[dst].next_ofs, len |-> len]
<1>0. len \in Nat \ {0} /\ PageCounted(lpn) /\ QueuesInv
  BY SizesAssumption, CompPageCounted DEF CompLedgerInv
<1>1. /\ pg_list[dst] \in PG_Info /\ l2p_tbl \in [LP -> VPA]
      /\ pg_list[dst].status = "OPEN" /\ (freed => src \in PG /\ src # dst)
  BY DEF FtlTypeOK, L2P_UpdateError, Releases
<1>2. /\ \A pg \in PG : ~(freed /\ pg = src) =>
             SameFields(pg_list'[pg], IF pg = dst THEN grown ELSE pg_list[pg])
      /\ freed => pg_list'[src] = InitPG
  BY <1>0, RestAfterWrite
<1>3. \A pg \in PG : pg_list'[pg].status =
         IF freed /\ pg = src THEN "FREE"
         ELSE IF pg = dst THEN IF Fills(lpn, len, dst, align) THEN "CLOSE" ELSE "OPEN"
         ELSE pg_list[pg].status
  BY <1>0, StatusAfterWrite
<1>4. \A p \in LP : l2p_tbl'[p] = IF p = lpn THEN entry ELSE l2p_tbl[p]
  <2>1. l2p_tbl' = [l2p_tbl EXCEPT ![lpn] = entry]
    BY <1>0, CountersAfterWrite
  <2>. QED BY <1>1, <2>1
<1>5. (Fills(lpn, len, dst, align) <=> grown.status = "CLOSE") /\ grown.status \in {"OPEN", "CLOSE"}
  BY <1>1 DEF Fills, Grown, Written, PG_Info
<1>. HIDE DEF freed, src
<1>6. ASSUME NEW pg \in PG, freed, pg = src
      PROVE  \E at : Sums(pg_list'[pg], at) /\ Listed(pg, pg_list[pg].p2l_tbl, at)'
  <2>. DEFINE zero == [i \in 0..0 |-> 0]
  <2>1. Sums(pg_list'[pg], zero)
    BY <1>2, <1>6, SumsOfNew DEF InitPG
  <2>2. Mapped(pg)' = {}
    BY <1>3, <1>6 DEF CompLedgerInv, CompBooksInv, NoPageInFreePG
  <2>3. Listed(pg, pg_list[pg].p2l_tbl, zero)'
    BY <2>2 DEF Listed
  <2>. HIDE DEF zero
  <2>. QED BY <2>1, <2>3
<1>7. \E at : Sums(pg_list'[dst], at) /\ Listed(dst, pg_list[dst].p2l_tbl, at)'
  <2>. DEFINE num == Len(pg_list[dst].p2l_tbl)
  <2>1. PICK at : Sums(pg_list[dst], at) /\ Listed(dst, pg_list[dst].p2l_tbl, at)
    BY DEF SumsInv
  <2>2. PICK longer :
          /\ Sums(grown, longer) /\ num \in Nat /\ Len(grown.p2l_tbl) = num + 1
          /\ \A i \in 0..num : longer[i] = at[i]
          /\ \A i \in 1..num : grown.p2l_tbl[i] = pg_list[dst].p2l_tbl[i]
          /\ grown.p2l_tbl[num + 1].lpn = lpn /\ longer[num] = pg_list[dst].next_ofs
    <3>1. PadOf(len, dst, align) \in Nat
      <4>1. pg_list[dst].next_ofs + len \in Nat
        BY <1>0, <1>1 DEF PG_Info
      <4>. QED BY <4>1, PadType DEF PadOf
    <3>2. /\ pg_list[dst] \in PG_Info /\ Sums(pg_list[dst], at) /\ pg_list[dst].status = "OPEN"
          /\ lpn \in LP /\ len \in Nat \ {0}
      BY <1>0, <1>1, <2>1
    <3>3. PICK longer : Sums(grown, longer) /\ Continued(pg_list[dst], grown, lpn, at, longer)
      BY <3>1, <3>2, SumsGrow, Zenon DEF Grown
    <3>. HIDE DEF grown
    <3>. QED BY <3>3 DEF Continued
  <2>. HIDE DEF grown, num
  <2>3. /\ pg_list'[dst].p2l_tbl = grown.p2l_tbl /\ pg_list'[dst].status = grown.status
        /\ Sums(pg_list'[dst], longer)
    <3>1. SameFields(pg_list'[dst], grown) /\ pg_list'[dst].status = grown.status
      BY <1>1, <1>2, <1>3, <1>5
    <3>. QED BY <2>2, <3>1, SumsKept DEF SameFields
  <2>4. ASSUME NEW p \in LP, l2p_tbl'[p].pgn = dst
        PROVE  \E i \in 1..(num + 1) : grown.p2l_tbl[i].lpn = p /\ l2p_tbl'[p].ofs = longer[i - 1]
    <3>1. CASE p = lpn
      <4>1. l2p_tbl'[p].ofs = pg_list[dst].next_ofs
        BY <1>4, <3>1
      <4>2. num + 1 \in 1..(num + 1) /\ (num + 1) - 1 = num
        BY <2>2
      <4>. QED BY <2>2, <3>1, <4>1, <4>2
    <3>2. CASE p # lpn
      <4>1. l2p_tbl'[p] = l2p_tbl[p] /\ p \in Mapped(dst)
        BY <1>4, <2>4, <3>2 DEF Mapped
      <4>2. PICK i \in 1..num : pg_list[dst].p2l_tbl[i].lpn = p /\ l2p_tbl[p].ofs = at[i - 1]
        BY <2>1, <4>1 DEF Listed, num
      <4>3. i \in 1..(num + 1) /\ i - 1 \in 0..num
        BY <2>2
      <4>. QED BY <2>2, <4>1, <4>2, <4>3
    <3>. QED BY <3>1, <3>2
  <2>5. Listed(dst, pg_list[dst].p2l_tbl, longer)'
    BY <2>2, <2>3, <2>4 DEF Listed, Mapped
  <2>. QED BY <2>3, <2>5
<1>8. ASSUME NEW pg \in PG, ~(freed /\ pg = src), pg # dst
      PROVE  \E at : Sums(pg_list'[pg], at) /\ Listed(pg, pg_list[pg].p2l_tbl, at)'
  <2>1. PICK at : Sums(pg_list[pg], at) /\ Listed(pg, pg_list[pg].p2l_tbl, at)
    BY DEF SumsInv
  <2>2. SameFields(pg_list'[pg], pg_list[pg]) /\ pg_list'[pg].status = pg_list[pg].status
    BY <1>2, <1>3, <1>8
  <2>3. Sums(pg_list'[pg], at)
    BY <2>1, <2>2, SumsKept DEF SameFields
  <2>4. \A p \in LP : l2p_tbl'[p].pgn = pg => p \in Mapped(pg) /\ l2p_tbl'[p] = l2p_tbl[p]
    BY <1>4, <1>8 DEF Mapped
  <2>5. Listed(pg, pg_list[pg].p2l_tbl, at)'
    BY <2>1, <2>2, <2>4 DEF Listed, Mapped, SameFields
  <2>. QED BY <2>3, <2>5
<1>9. \A pg \in PG : \E at : Sums(pg_list'[pg], at) /\ Listed(pg, pg_list[pg].p2l_tbl, at)'
  <2>. TAKE pg \in PG
  <2>1. CASE freed /\ pg = src
    BY <1>6, <2>1
  <2>2. CASE pg = dst
    BY <1>7, <2>2
  <2>3. CASE ~(freed /\ pg = src) /\ pg # dst
    BY <1>8, <2>3
  <2>. QED BY <2>1, <2>2, <2>3
<1>. QED BY <1>9 DEF SumsInv

\* A turn of the scan moves the cursors of the victim past one entry, to the next
\* sum; a live page at the cursor is the one the entry names.
LEMMA CompCollectSums ==
  ASSUME FtlTypeOK, VictimsInv, SumsInv, rcm_pg_que # <<>>, ScanNext(Head(rcm_pg_que))
  PROVE  LET pg   == Head(rcm_pg_que)
             info == pg_list[pg]
         IN  /\ SumsInv'
             /\ pg \in PG /\ Contains(rcm_pg_que, pg) /\ info.status = "RCM"
             /\ \A other \in PG : pg_list'[other].status = pg_list[other].status
             /\ \A other \in PG \ {pg} : pg_list'[other] = pg_list[other]
             /\ \A lpn \in Mapped(pg) : l2p_tbl[lpn].ofs >= info.next_rewr_pgsect =>
                  \/ l2p_tbl[lpn].ofs >= pg_list'[pg].next_rewr_pgsect
                  \/ lpn = ScanEntry(pg).lpn /\ ScanValid(pg)
<1>1. pg_list \in [PG -> PG_Info] /\ rcm_pg_que \in Seq(PG) /\ l2p_tbl' = l2p_tbl
  BY DEF FtlTypeOK, ScanNext
<1>2. PICK pg \in PG : pg = Head(rcm_pg_que) /\ Contains(rcm_pg_que, pg)
  <2>1. Head(rcm_pg_que) = rcm_pg_que[1] /\ 1 \in 1..Len(rcm_pg_que) /\ Head(rcm_pg_que) \in PG
    BY <1>1, HeadTailProperties, EmptySeq, LenProperties
  <2>. QED BY <2>1 DEF Contains
<1>3. pg_list[pg].status = "RCM"
  BY <1>2 DEF VictimsInv
<1>. DEFINE info  == pg_list[pg]
            table == info.p2l_tbl
            index == info.next_rewr_index
            place == info.next_rewr_pgsect
            num   == Len(table)
<1>4. PICK at : Sums(info, at) /\ Listed(pg, table, at)
  BY DEF SumsInv
<1>5. /\ info \in PG_Info /\ index \in Nat /\ place \in Nat /\ table \in Seq(Reverse_Info)
      /\ num \in Nat /\ index < num
  BY <1>1, <1>2, LenProperties DEF PG_Info, ScanNext, ScanLeft
<1>6. /\ at \in [0..num -> Nat] /\ place = at[index]
      /\ \A i \in 1..num : at[i] = at[i - 1] + table[i].len
      /\ \A i, j \in 0..num : i < j => at[i] < at[j]
  BY <1>4 DEF Sums
<1>7. /\ index + 1 \in 1..num /\ (index + 1) - 1 = index /\ index \in 0..num
      /\ index + 1 \in 0..num
  BY <1>5
<1>8. ScanEntry(pg) = table[index + 1] /\ place + table[index + 1].len = at[index + 1]
  BY <1>6, <1>7 DEF ScanEntry
<1>9. pg_list' = [pg_list EXCEPT ![pg] = [info EXCEPT !.next_rewr_index = index + 1,
                                                      !.next_rewr_pgsect = at[index + 1]]]
  <2>1. pg_list' = [pg_list EXCEPT ![pg].next_rewr_index = @ + 1,
                                   ![pg].next_rewr_pgsect = @ + ScanEntry(pg).len]
    BY <1>2 DEF ScanNext
  <2>. QED BY <1>1, <1>8, <2>1 DEF PG_Info
<1>10. /\ pg_list'[pg].next_rewr_index = index + 1
       /\ pg_list'[pg].next_rewr_pgsect = at[index + 1]
       /\ pg_list'[pg].p2l_tbl = table /\ pg_list'[pg].status = "RCM"
       /\ pg_list'[pg].next_ofs = info.next_ofs
       /\ \A other \in PG \ {pg} : pg_list'[other] = pg_list[other]
  <2>1. /\ pg_list'[pg] = [info EXCEPT !.next_rewr_index = index + 1,
                                       !.next_rewr_pgsect = at[index + 1]]
        /\ \A other \in PG \ {pg} : pg_list'[other] = pg_list[other]
    BY <1>1, <1>9
  <2>. HIDE DEF index
  <2>. QED BY <1>3, <1>5, <2>1 DEF PG_Info
<1>11. SumsInv'
  <2>1. Sums(pg_list'[pg], at)
    <3>. HIDE DEF index, table
    <3>. QED BY <1>4, <1>7, <1>10 DEF Sums, table
  <2>2. \A q \in PG : Listed(q, pg_list[q].p2l_tbl, at) => Listed(q, pg_list[q].p2l_tbl, at)'
    BY <1>1, <1>10 DEF Listed, Mapped
  <2>3. ASSUME NEW q \in PG
        PROVE  \E sums : Sums(pg_list'[q], sums) /\ Listed(q, pg_list[q].p2l_tbl, sums)'
    <3>1. CASE q = pg
      BY <1>4, <2>1, <2>2, <3>1
    <3>2. CASE q # pg
      <4>1. PICK sums : Sums(pg_list[q], sums) /\ Listed(q, pg_list[q].p2l_tbl, sums)
        BY DEF SumsInv
      <4>2. pg_list'[q] = pg_list[q]
        BY <1>10, <3>2
      <4>3. Listed(q, pg_list[q].p2l_tbl, sums)'
        BY <1>1, <4>1, <4>2 DEF Listed, Mapped
      <4>. QED BY <4>1, <4>2, <4>3
    <3>. QED BY <3>1, <3>2
  <2>. QED BY <2>3 DEF SumsInv
<1>12. ASSUME NEW lpn \in Mapped(pg), l2p_tbl[lpn].ofs >= place
       PROVE  \/ l2p_tbl[lpn].ofs >= pg_list'[pg].next_rewr_pgsect
              \/ lpn = ScanEntry(pg).lpn /\ ScanValid(pg)
  <2>1. PICK i \in 1..num : table[i].lpn = lpn /\ l2p_tbl[lpn].ofs = at[i - 1]
    BY <1>4, <1>12 DEF Listed
  <2>2. i - 1 \in 0..num /\ (i - 1) + 1 = i
    BY <1>5
  <2>. HIDE DEF index, num, table, place
  <2>3. \A j \in 0..num : at[j] \in Nat
    BY <1>6
  <2>4. ~(i - 1 < index)
    <3>1. i - 1 < index => at[i - 1] < at[index]
      BY <1>6, <1>7, <2>2
    <3>2. at[i - 1] >= at[index]
      BY <1>6, <1>12, <2>1
    <3>. QED BY <1>7, <2>2, <2>3, <3>1, <3>2
  <2>5. CASE i - 1 = index
    <3>1. i = index + 1
      BY <2>2, <2>5
    <3>2. lpn = ScanEntry(pg).lpn
      BY <1>8, <2>1, <3>1
    <3>3. l2p_tbl[lpn].pgn = pg /\ l2p_tbl[lpn].ofs = place
      BY <1>6, <1>12, <2>1, <2>5 DEF Mapped
    <3>. QED BY <3>2, <3>3 DEF ScanValid, place
  <2>6. CASE i - 1 > index
    <3>1. at[i - 1] >= at[index + 1]
      <4>1. i - 1 = index + 1 \/ index + 1 < i - 1
        BY <1>5, <2>6
      <4>2. index + 1 < i - 1 => at[index + 1] < at[i - 1]
        BY <1>6, <1>7, <2>2
      <4>. QED BY <1>7, <2>2, <2>3, <4>1, <4>2
    <3>. QED BY <1>10, <2>1, <3>1
  <2>. QED BY <1>5, <2>2, <2>4, <2>5, <2>6
<1>. HIDE DEF info
<1>13. \A other \in PG : pg_list'[other].status = pg_list[other].status
  BY <1>3, <1>10
<1>. QED BY <1>2, <1>3, <1>10, <1>11, <1>12, <1>13 DEF info

-----------------------------------------------------------------------------
(* What is collected, what is buffered, and how far a flush has come *)

\* The flush is at its page of the buffer; those before it have left the victims.
FlushedInv ==
  RcmFlush =>
    /\ io.lpn = rcm_write_buffer[Len(rcm_write_buffer) + 1 - Len(len_list)]
    /\ \A i \in 1..(Len(rcm_write_buffer) - Len(len_list)) :
         pg_list[l2p_tbl[rcm_write_buffer[i]].pgn].status # "RCM"

CompScanInv == SumsInv /\ FlushedInv /\ CompNoPageMissed

LEMMA ToSetContains ==
  ASSUME NEW S, NEW s \in Seq(S)
  PROVE  \A x : x \in ToSet(s) <=> Contains(s, x)
<1>1. DOMAIN s = 1..Len(s)
  BY LenProperties
<1>. QED BY <1>1 DEF ToSet, Contains

LEMMA CompPendingPages ==
  ASSUME CompTypeInv
  PROVE  \A lpn : lpn \in CompPending <=> Contains(req_list, lpn) \/ Contains(rcm_write_buffer, lpn)
<1>1. req_list \in Seq(LP) /\ rcm_write_buffer \in Seq(LP)
  BY DEF CompTypeInv, TypeInv, SsdTypeOK, BuffersTypeOK
<1>2. \A x : x \in ToSet(req_list) <=> Contains(req_list, x)
  BY <1>1, ToSetContains
<1>3. \A x : x \in ToSet(rcm_write_buffer) <=> Contains(rcm_write_buffer, x)
  BY <1>1, ToSetContains
<1>. QED BY <1>2, <1>3 DEF CompPending

LEMMA CompPendingPagesNext ==
  ASSUME CompTypeInv'
  PROVE  \A lpn : lpn \in CompPending' <=> Contains(req_list', lpn) \/ Contains(rcm_write_buffer', lpn)
<1>1. req_list' \in Seq(LP) /\ rcm_write_buffer' \in Seq(LP)
  BY DEF CompTypeInv, TypeInv, SsdTypeOK, BuffersTypeOK
<1>2. \A x : x \in ToSet(req_list') <=> Contains(req_list', x)
  BY <1>1, ToSetContains
<1>3. \A x : x \in ToSet(rcm_write_buffer') <=> Contains(rcm_write_buffer', x)
  BY <1>1, ToSetContains
<1>. QED BY <1>2, <1>3 DEF CompPending

\* A step that moves no page and no cursor, makes no victim, takes none from the
\* queue it is scanned on, and forgets no page.
LEMMA KeepsMissed ==
  ASSUME CompTypeInv, CompTypeInv', CompNoPageMissed, l2p_tbl' = l2p_tbl,
         \A lpn : Contains(req_list, lpn) \/ Contains(rcm_write_buffer, lpn)
                    => Contains(req_list', lpn) \/ Contains(rcm_write_buffer', lpn),
         \A pg \in PG : pg_list'[pg].status = "RCM" =>
           /\ pg_list[pg].status = "RCM"
           /\ pg_list'[pg].next_rewr_pgsect = pg_list[pg].next_rewr_pgsect
           /\ Contains(rcm_pg_que, pg) => Contains(rcm_pg_que', pg)
  PROVE  CompNoPageMissed'
<1>1. CompPending \subseteq CompPending'
  BY CompPendingPages, CompPendingPagesNext
<1>2. \A pg : Mapped(pg)' = Mapped(pg)
  BY DEF Mapped
<1>. QED BY <1>1, <1>2 DEF CompNoPageMissed

\* What is written once one page less is left was written before, or is that page.
LEMMA FlushPart ==
  ASSUME NEW num \in Nat, NEW left \in 1..num, NEW i \in 1..(num - (left - 1))
  PROVE  i \in 1..num /\ (i \in 1..(num - left) \/ i = num + 1 - left)
OBVIOUS

\* Whatever the step of a flush does, it brings its page to a PG that is no victim.
LEMMA UpdateMissed ==
  ASSUME CompTypeInv, CompTypeInv', CompLedgerInv, SumsInv, FlushedInv, CompNoPageMissed,
         CompUpdate, FormatLen # 0,
         ~L2P_UpdateError(io.lpn, UpdateLen, openpg[io.type]),
         L2P_Update(io.lpn, UpdateLen, openpg[io.type], Aligned)
  PROVE  FlushedInv' /\ CompNoPageMissed'
<1>. PICK lpn \in LP : lpn = io.lpn
  BY UpdateCases
<1>. PICK dst \in PG : dst = openpg[io.type]
  BY UpdateCases
<1>. PICK len \in Nat \ {0} : len = UpdateLen
  BY UpdateCases, SizesAssumption
<1>. PICK align \in BOOLEAN : align = Aligned
  BY UpdateCases
<1>. DEFINE src   == l2p_tbl[lpn].pgn
            freed == Releases(lpn, dst)
            num   == Len(rcm_write_buffer)
            left  == Len(len_list)
            Far(p) == pg_list[l2p_tbl[p].pgn].status # "RCM"
<1>0. /\ pc = "update" /\ io.type \in IoType /\ req_list' = req_list
      /\ PageCounted(lpn) /\ QueuesInv /\ VictimsInv /\ FtlTypeOK
  BY UpdateCases, CompPageCounted DEF CompLedgerInv, CompTypeInv, TypeInv, SsdTypeOK
<1>. ~L2P_UpdateError(lpn, len, dst) /\ L2P_Update(lpn, len, dst, align)
  BY Zenon
<1>1. /\ l2p_tbl \in [LP -> VPA] /\ rcm_write_buffer \in Seq(LP) /\ num \in Nat
      /\ left \in Nat /\ rcm_pg_que \in Seq(PG)
  BY <1>0, LenProperties DEF FtlTypeOK, CompTypeInv, BuffersTypeOK
<1>2. pg_list[dst].status = "OPEN" /\ (freed => src \in PG /\ src # dst)
  BY DEF L2P_UpdateError, Releases
<1>3. \A pg \in PG : pg_list'[pg].status =
         IF freed /\ pg = src THEN "FREE"
         ELSE IF pg = dst THEN IF Fills(lpn, len, dst, align) THEN "CLOSE" ELSE "OPEN"
         ELSE pg_list[pg].status
  BY <1>0, StatusAfterWrite
<1>4. /\ \A pg \in PG : ~(freed /\ pg = src) =>
             SameFields(pg_list'[pg], IF pg = dst THEN Grown(lpn, len, dst, align)
                                      ELSE pg_list[pg])
      /\ rcm_pg_que' = rcm_pg_que \/ (freed /\ rcm_pg_que' = RemoveFirst(rcm_pg_que, src))
  BY <1>0, RestAfterWrite
<1>5. l2p_tbl'[lpn].pgn = dst /\ \A p \in LP \ {lpn} : l2p_tbl'[p] = l2p_tbl[p]
  <2>. DEFINE entry == [pgn |-> dst, ofs |-> pg_list[dst].next_ofs, len |-> len]
  <2>1. l2p_tbl' = [l2p_tbl EXCEPT ![lpn] = entry]
    BY Zenon DEF L2P_Update
  <2>2. entry.pgn = dst
    OBVIOUS
  <2>. HIDE DEF entry
  <2>. QED BY <1>1, <2>1, <2>2
<1>. HIDE DEF src, freed
<1>6. \A p \in LP : l2p_tbl[p].pgn # NoPG => l2p_tbl[p].pgn \in PG
  BY <1>1 DEF VPA
<1>7. \A p \in LP : l2p_tbl[p].pgn # NoPG /\ (Far(p) \/ p = lpn)
         => pg_list'[l2p_tbl'[p].pgn].status # "RCM"
  <2>. SUFFICES ASSUME NEW p \in LP, l2p_tbl[p].pgn # NoPG, Far(p) \/ p = lpn
                PROVE  pg_list'[l2p_tbl'[p].pgn].status # "RCM"
    OBVIOUS
  <2>1. CASE p = lpn
    BY <1>0, <1>2, <1>3, <1>5, <2>1
  <2>2. CASE p # lpn
    BY <1>3, <1>5, <1>6, <2>2
  <2>. QED BY <2>1, <2>2
<1>8. io.type = "RCM_RWR" => RcmFlush /\ ~Formatting /\ left \in 1..num
  BY <1>0 DEF RcmFlush, CompTypeInv, FlushInv, Buffer
<1>9. io.type = "RCM_RWR" =>
         /\ lpn = rcm_write_buffer[num + 1 - left]
         /\ \A i \in 1..(num - left) : Far(rcm_write_buffer[i])
  BY <1>8 DEF FlushedInv
<1>10. \A i \in 1..num : rcm_write_buffer[i] \in LP /\ l2p_tbl[rcm_write_buffer[i]].pgn # NoPG
  <2>. TAKE i \in 1..num
  <2>1. rcm_write_buffer[i] \in LP /\ Contains(rcm_write_buffer, rcm_write_buffer[i])
    BY <1>1, ElementOfSeq DEF Contains
  <2>. QED BY <2>1 DEF CompTypeInv, CollectedMapped
<1>11. FlushedInv'
  <2>. SUFFICES ASSUME RcmFlush'
                PROVE  /\ io'.lpn = rcm_write_buffer'[Len(rcm_write_buffer') + 1 - Len(len_list')]
                       /\ \A i \in 1..(Len(rcm_write_buffer') - Len(len_list')) :
                            pg_list'[l2p_tbl'[rcm_write_buffer'[i]].pgn].status # "RCM"
    BY DEF FlushedInv
  <2>1. /\ Len(len_list') = left - 1 /\ left > 1 /\ io.type = "RCM_RWR"
        /\ io'.lpn = Buffer(io.type)[Len(Buffer(io.type)) + 2 - left]
        /\ rcm_write_buffer' = rcm_write_buffer
    BY UpdateCases DEF RcmFlush, AfterLpWrite, NoIo
  <2>2. io'.lpn = rcm_write_buffer[num + 2 - left] /\ num + 2 - left = num + 1 - (left - 1)
    BY <1>1, <2>1 DEF Buffer
  <2>3. ASSUME NEW i \in 1..(num - (left - 1))
        PROVE  pg_list'[l2p_tbl'[rcm_write_buffer[i]].pgn].status # "RCM"
    <3>1. i \in 1..num /\ (i \in 1..(num - left) \/ i = num + 1 - left)
      <4>1. num \in Nat /\ left \in 1..num
        BY <1>1, <1>8, <2>1
      <4>. QED BY <4>1, FlushPart, Zenon
    <3>2. Far(rcm_write_buffer[i]) \/ rcm_write_buffer[i] = lpn
      BY <1>9, <2>1, <3>1
    <3>. QED BY <1>7, <1>10, <3>1, <3>2
  <2>. QED BY <2>1, <2>2, <2>3
<1>12. CompNoPageMissed'
  <2>. SUFFICES ASSUME NEW pg \in PG, pg_list'[pg].status = "RCM",
                       NEW p \in LP, l2p_tbl'[p].pgn = pg
                PROVE  \/ p \in CompPending'
                       \/ /\ Contains(rcm_pg_que', pg)
                          /\ l2p_tbl'[p].ofs >= pg_list'[pg].next_rewr_pgsect
    BY DEF CompNoPageMissed, Mapped
  <2>1. pg # dst /\ ~(freed /\ pg = src) /\ pg_list[pg].status = "RCM"
    BY <1>3
  <2>2. p # lpn /\ l2p_tbl'[p] = l2p_tbl[p] /\ p \in Mapped(pg)
    BY <1>5, <2>1 DEF Mapped
  <2>3. CASE Contains(rcm_pg_que, pg) /\ l2p_tbl[p].ofs >= pg_list[pg].next_rewr_pgsect
    <3>1. pg_list'[pg].next_rewr_pgsect = pg_list[pg].next_rewr_pgsect
      BY <1>4, <2>1 DEF SameFields
    <3>2. Contains(rcm_pg_que', pg)
      <4>1. CASE rcm_pg_que' = rcm_pg_que
        BY <2>3, <4>1
      <4>2. CASE freed /\ rcm_pg_que' = RemoveFirst(rcm_pg_que, src)
        <5>1. pg # src /\ src \in PG /\ Once(rcm_pg_que)
          BY <1>0, <1>2, <2>1, <4>2 DEF VictimsInv
        <5>. QED BY <1>1, <2>3, <4>2, <5>1, RemoveFirstOnce
      <4>. QED BY <1>4, <4>1, <4>2
    <3>. QED BY <2>2, <2>3, <3>1, <3>2
  <2>4. CASE p \in CompPending
    <3>1. Contains(req_list, p) \/ Contains(rcm_write_buffer, p)
      BY <2>4, CompPendingPages
    <3>2. CASE Contains(req_list, p) \/ rcm_write_buffer' = rcm_write_buffer
      BY <1>0, <3>1, <3>2, CompPendingPagesNext
    <3>3. CASE Contains(rcm_write_buffer, p) /\ rcm_write_buffer' # rcm_write_buffer
      <4>1. io.type = "RCM_RWR" /\ left = 1
        BY <3>3, UpdateCases DEF AfterLpWrite
      <4>2. PICK i \in 1..num : rcm_write_buffer[i] = p
        BY <3>3 DEF Contains
      <4>3. i \in 1..(num - left) \/ i = num + 1 - left
        BY <1>1, <4>1
      <4>4. Far(p)
        BY <1>9, <2>2, <4>1, <4>2, <4>3
      <4>. QED BY <2>1, <2>2, <4>4 DEF Mapped
    <3>. QED BY <3>1, <3>2, <3>3
  <2>. QED BY <2>1, <2>2, <2>3, <2>4 DEF CompNoPageMissed
<1>. QED BY <1>11, <1>12

LEMMA CompInitScan == CompInit => CompScanInv
<1>. SUFFICES ASSUME CompInit PROVE CompScanInv
  OBVIOUS
<1>1. /\ \A pg \in PG : pg_list[pg] = InitPG
      /\ \A lpn \in LP : l2p_tbl[lpn].pgn = NoPG
      /\ pc = "format" /\ NoPG \notin PG
  BY NoPGAssumption DEF CompInit, Init, InitFTL, PG
<1>2. SumsInv
  <2>. SUFFICES ASSUME NEW pg \in PG
                PROVE  \E at : Sums(pg_list[pg], at) /\ Listed(pg, pg_list[pg].p2l_tbl, at)
    BY DEF SumsInv
  <2>. DEFINE zero == [i \in 0..0 |-> 0]
  <2>1. Sums(pg_list[pg], zero)
    BY <1>1, SumsOfNew DEF InitPG
  <2>2. Listed(pg, pg_list[pg].p2l_tbl, zero)
    BY <1>1 DEF Listed, Mapped
  <2>. HIDE DEF zero
  <2>. QED BY <2>1, <2>2
<1>3. FlushedInv
  BY <1>1 DEF FlushedInv, RcmFlush
<1>4. CompNoPageMissed
  BY <1>1 DEF CompNoPageMissed, InitPG
<1>. QED BY <1>2, <1>3, <1>4 DEF CompScanInv

\* No action of the drive but those on a page of a flush runs in the middle of one;
\* a PG opened there is not one of the victims.
LEMMA InheritedFlushed ==
  ASSUME CompTypeInv, CompLedgerInv, FlushedInv, Inherited
  PROVE  FlushedInv'
<1>. SUFFICES ASSUME RcmFlush' PROVE FlushedInv'
  BY DEF FlushedInv
<1>1. /\ l2p_tbl' = l2p_tbl /\ UNCHANGED bufVars
      /\ \/ UNCHANGED <<pg_list, openpg, queueVars>>
         \/ GetOpenPG_Build /\ free_pg_que # <<>> /\ BuildPG(io.type)
         \/ Reload \/ Collect \/ CollectNextPG
  BY InheritedSteps
<1>2. (GetOpenPG_Present \/ GetOpenPG_Build) /\ io' = io
  <2>1. pc' \in {"open", "update"} /\ io'.type = "RCM_RWR"
    BY DEF RcmFlush
  <2>2. ~FormatPage
    BY <2>1 DEF FormatPage
  <2>3. ~FormatDone /\ ~GetReWriteReq /\ ~Reload /\ ~ReloadDone /\ ~CollectDone /\ ~RewriteDone
    BY <2>1 DEF FormatDone, GetReWriteReq, Reload, ReloadDone, CollectDone, RewriteDone
  <2>4. ~Collect /\ ~CollectNextPG
    BY <2>1 DEF Collect, CollectNextPG, ctlVars
  <2>5. ~Erase /\ \A num \in 0..MaxErase : ~EraseReq(num)
    BY <2>1 DEF Erase, EraseReq
  <2>6. GetOpenPG_Present \/ GetOpenPG_Build
    BY <2>2, <2>3, <2>4, <2>5 DEF Inherited
  <2>. QED BY <2>6 DEF GetOpenPG_Present, GetOpenPG_Build
<1>3. RcmFlush
  BY <1>2 DEF RcmFlush, GetOpenPG_Present, GetOpenPG_Build
<1>4. \A pg \in PG : pg_list[pg].status # "RCM" => pg_list'[pg].status # "RCM"
  <2>1. CASE UNCHANGED pg_list
    BY <2>1
  <2>2. CASE BuildPG(io.type)
    <3>1. TakePG(io.type) /\ QueuesInv /\ FtlTypeOK /\ io.type \in IoType
      BY <2>2 DEF BuildPG, CompLedgerInv, CompTypeInv, TypeInv, SsdTypeOK
    <3>2. PICK first \in PG : /\ pg_list'[first].status = "OPEN"
                              /\ \A pg \in PG \ {first} : pg_list'[pg] = pg_list[pg]
      BY <3>1, TakenPG
    <3>. QED BY <3>2
  <2>3. ~Reload /\ ~Collect /\ ~CollectNextPG
    BY <1>2 DEF Reload, Collect, CollectNextPG, GetOpenPG_Present, GetOpenPG_Build
  <2>. QED BY <1>1, <2>1, <2>2, <2>3
<1>5. ~Formatting /\ Len(len_list) \in 1..Len(rcm_write_buffer)
  BY <1>3 DEF CompTypeInv, FlushInv, RcmFlush, Buffer
<1>6. \A i \in 1..(Len(rcm_write_buffer) - Len(len_list)) :
         l2p_tbl[rcm_write_buffer[i]].pgn \in PG
  <2>. TAKE i \in 1..(Len(rcm_write_buffer) - Len(len_list))
  <2>1. rcm_write_buffer \in Seq(LP) /\ Len(rcm_write_buffer) \in Nat
    BY LenProperties DEF CompTypeInv, BuffersTypeOK
  <2>2. i \in 1..Len(rcm_write_buffer)
    BY <1>5, <2>1
  <2>3. rcm_write_buffer[i] \in LP /\ Contains(rcm_write_buffer, rcm_write_buffer[i])
    BY <2>1, <2>2, ElementOfSeq DEF Contains
  <2>. QED BY <2>3 DEF CompTypeInv, CollectedMapped, TypeInv, SsdTypeOK, FtlTypeOK, VPA
<1>. QED BY <1>1, <1>2, <1>3, <1>4, <1>6 DEF FlushedInv, bufVars

LEMMA InheritedScan ==
  ASSUME CompTypeInv, CompTypeInv', CompLedgerInv, CompScanInv, Inherited
  PROVE  CompScanInv'
<1>1. /\ FtlTypeOK /\ pg_list \in [PG -> PG_Info] /\ io.type \in IoType
      /\ rcm_pg_que \in Seq(PG) /\ req_list \in Seq(LP)
      /\ QueuesInv /\ VictimsInv /\ SumsInv /\ FlushedInv /\ CompNoPageMissed
  BY DEF CompTypeInv, TypeInv, SsdTypeOK, FtlTypeOK, CompLedgerInv, CompScanInv
<1>2. /\ l2p_tbl' = l2p_tbl /\ rcm_write_buffer' = rcm_write_buffer
      /\ \/ UNCHANGED <<pg_list, openpg, queueVars>>
         \/ GetOpenPG_Build /\ free_pg_que # <<>> /\ BuildPG(io.type)
         \/ Reload \/ Collect \/ CollectNextPG
  BY InheritedSteps DEF bufVars
<1>3. FlushedInv'
  BY <1>1, InheritedFlushed
<1>4. ~Collect => req_list' = req_list
  BY DEF Inherited, FormatPage, FormatDone, GetOpenPG_Present, GetOpenPG_Build,
         GetReWriteReq, Reload, ReloadDone, CollectNextPG, CollectDone, RewriteDone,
         EraseReq, Erase, ctlVars
<1>5. CASE ~Collect /\ UNCHANGED <<pg_list, openpg, queueVars>>
  <2>1. SumsInv'
    BY <1>1, <1>2, <1>5, KeepsSums
  <2>2. CompNoPageMissed'
    BY <1>1, <1>2, <1>4, <1>5, KeepsMissed DEF queueVars
  <2>. QED BY <1>3, <2>1, <2>2 DEF CompScanInv
<1>6. CASE GetOpenPG_Build /\ BuildPG(io.type)
  <2>1. TakePG(io.type) /\ req_list' = req_list
    BY <1>6 DEF BuildPG, GetOpenPG_Build
  <2>2. PICK first \in PG :
          /\ pg_list[first].status = "FREE" /\ pg_list'[first].status = "OPEN"
          /\ pg_list'[first].p2l_tbl = pg_list[first].p2l_tbl
          /\ pg_list'[first].next_ofs = pg_list[first].next_ofs
          /\ pg_list'[first].next_rewr_index = pg_list[first].next_rewr_index
          /\ pg_list'[first].next_rewr_pgsect = pg_list[first].next_rewr_pgsect
          /\ \A pg \in PG \ {first} : pg_list'[pg] = pg_list[pg]
          /\ UNCHANGED <<rcm_pg_que, rcm_cmp_pg_que>>
    BY <1>1, <2>1, TakenPG
  <2>3. SumsInv'
    <3>1. \A pg \in PG :
            /\ pg_list'[pg].p2l_tbl = pg_list[pg].p2l_tbl
            /\ pg_list'[pg].next_ofs = pg_list[pg].next_ofs
            /\ pg_list'[pg].next_rewr_index = pg_list[pg].next_rewr_index
            /\ pg_list'[pg].next_rewr_pgsect = pg_list[pg].next_rewr_pgsect
            /\ pg_list'[pg].status = "FREE" => pg_list[pg].status = "FREE"
            /\ pg_list'[pg].status = "OPEN" => pg_list[pg].status \in {"FREE", "OPEN"}
            /\ pg_list'[pg].status # "RCM" => pg_list[pg].status # "RCM"
      BY <2>2
    <3>. QED BY <1>1, <1>2, <3>1, KeepsSums
  <2>4. CompNoPageMissed'
    BY <1>1, <1>2, <2>1, <2>2, KeepsMissed
  <2>. QED BY <1>3, <2>3, <2>4 DEF CompScanInv
<1>7. CASE Reload
  <2>1. ReloadRcmTarget
    BY <1>7 DEF Reload
  <2>2. PICK target \in PG :
          /\ pg_list[target].status = "CLOSE"
          /\ pg_list' = [pg_list EXCEPT ![target].status = "RCM"]
          /\ rcm_pg_que' = Append(rcm_pg_que, target)
    BY <1>1, <2>1, ReloadTarget
  <2>3. \A pg \in PG :
          /\ pg_list'[pg].status = IF pg = target THEN "RCM" ELSE pg_list[pg].status
          /\ pg_list'[pg].p2l_tbl = pg_list[pg].p2l_tbl
          /\ pg_list'[pg].next_ofs = pg_list[pg].next_ofs
          /\ pg_list'[pg].next_rewr_index = pg_list[pg].next_rewr_index
          /\ pg_list'[pg].next_rewr_pgsect = pg_list[pg].next_rewr_pgsect
    BY <1>1, <2>2 DEF PG_Info
  <2>4. SumsInv'
    <3>1. \A pg \in PG :
            /\ pg_list'[pg].status = "FREE" => pg_list[pg].status = "FREE"
            /\ pg_list'[pg].status = "OPEN" => pg_list[pg].status \in {"FREE", "OPEN"}
            /\ pg_list'[pg].status # "RCM" => pg_list[pg].status # "RCM"
      BY <2>2, <2>3
    <3>. QED BY <1>1, <1>2, <2>3, <3>1, KeepsSums
  <2>5. \A x : Contains(rcm_pg_que', x) <=> Contains(rcm_pg_que, x) \/ x = target
    <3>1. ~Contains(rcm_pg_que, target) /\ Once(rcm_pg_que)
      BY <1>1, <2>2 DEF VictimsInv
    <3>. QED BY <1>1, <2>2, <3>1, AppendOnce
  <2>6. CompNoPageMissed'
    <3>. SUFFICES ASSUME NEW pg \in PG, pg_list'[pg].status = "RCM", NEW lpn \in Mapped(pg)
                  PROVE  \/ lpn \in CompPending'
                         \/ /\ Contains(rcm_pg_que', pg)
                            /\ l2p_tbl[lpn].ofs >= pg_list'[pg].next_rewr_pgsect
      BY <1>2 DEF CompNoPageMissed, Mapped
    <3>1. CASE pg = target
      <4>1. PICK at : Sums(pg_list[pg], at)
        BY <1>1 DEF SumsInv
      <4>2. pg_list[pg].next_rewr_pgsect = 0
        BY <2>2, <3>1, <4>1 DEF Sums
      <4>3. l2p_tbl[lpn].ofs \in Nat
        BY <1>1 DEF FtlTypeOK, VPA, Mapped
      <4>. QED BY <2>3, <2>5, <3>1, <4>2, <4>3
    <3>2. CASE pg # target
      <4>1. CompPending' = CompPending
        BY <1>2, <1>4, <1>7 DEF CompPending, Reload, Collect
      <4>2. pg_list[pg].status = "RCM"
        BY <2>3, <3>2
      <4>. QED BY <1>1, <2>3, <2>5, <4>1, <4>2 DEF CompNoPageMissed
    <3>. QED BY <3>1, <3>2
  <2>. QED BY <1>3, <2>4, <2>6 DEF CompScanInv
<1>8. CASE Collect
  <2>. PICK pg : pg = Head(rcm_pg_que)
    OBVIOUS
  <2>1. /\ rcm_pg_que # <<>> /\ ScanNext(pg) /\ rcm_pg_que' = rcm_pg_que
        /\ req_list' = IF ScanValid(pg) THEN Append(req_list, ScanEntry(pg).lpn) ELSE req_list
    BY <1>8 DEF Collect, ScanNext, queueVars
  <2>2. /\ SumsInv'
        /\ pg \in PG /\ Contains(rcm_pg_que, pg) /\ pg_list[pg].status = "RCM"
        /\ \A other \in PG : pg_list'[other].status = pg_list[other].status
        /\ \A other \in PG \ {pg} : pg_list'[other] = pg_list[other]
        /\ \A lpn \in Mapped(pg) : l2p_tbl[lpn].ofs >= pg_list[pg].next_rewr_pgsect =>
             \/ l2p_tbl[lpn].ofs >= pg_list'[pg].next_rewr_pgsect
             \/ lpn = ScanEntry(pg).lpn /\ ScanValid(pg)
    BY <1>1, <2>1, CompCollectSums
  <2>3. ScanEntry(pg).lpn \in LP
    BY <1>1, <2>1, <2>2, ScanNextType
  <2>4. /\ \A p : Contains(req_list, p) => Contains(req_list', p)
        /\ ScanValid(pg) => Contains(req_list', ScanEntry(pg).lpn)
    BY <1>1, <2>1, <2>3, AppendProperties, LenProperties DEF Contains
  <2>5. \A p : p \in CompPending => p \in CompPending'
    BY <1>2, <2>4, CompPendingPages, CompPendingPagesNext
  <2>6. ScanValid(pg) => ScanEntry(pg).lpn \in CompPending'
    BY <2>4, CompPendingPagesNext
  <2>7. CompNoPageMissed'
    <3>. SUFFICES ASSUME NEW q \in PG, pg_list'[q].status = "RCM", NEW lpn \in Mapped(q)
                  PROVE  \/ lpn \in CompPending'
                         \/ /\ Contains(rcm_pg_que', q)
                            /\ l2p_tbl[lpn].ofs >= pg_list'[q].next_rewr_pgsect
      BY <1>2 DEF CompNoPageMissed, Mapped
    <3>1. \/ lpn \in CompPending
          \/ Contains(rcm_pg_que, q) /\ l2p_tbl[lpn].ofs >= pg_list[q].next_rewr_pgsect
      BY <1>1, <2>2 DEF CompNoPageMissed
    <3>2. CASE q = pg
      BY <2>1, <2>2, <2>5, <2>6, <3>1, <3>2
    <3>3. CASE q # pg
      BY <2>1, <2>2, <2>5, <3>1, <3>3
    <3>. QED BY <3>2, <3>3
  <2>. QED BY <1>3, <2>2, <2>7 DEF CompScanInv
<1>9. CASE CollectNextPG
  <2>1. /\ rcm_pg_que # <<>> /\ ScanEnd(Head(rcm_pg_que)) /\ UNCHANGED ctlVars
    BY <1>9 DEF CollectNextPG
  <2>2. Head(rcm_pg_que) \in PG
    BY <1>1, <2>1, HeadTailProperties
  <2>. PICK pg \in PG : pg = Head(rcm_pg_que)
    BY <2>2
  <2>3. ~ScanLeft(pg) /\ rcm_pg_que' = Tail(rcm_pg_que) /\ pg_list' = pg_list
    BY <2>1 DEF ScanEnd
  <2>4. SumsInv'
    BY <1>1, <1>2, <2>3, KeepsSums
  <2>5. \A x : Contains(rcm_pg_que', x) <=> Contains(rcm_pg_que, x) /\ x # pg
    BY <1>1, <2>1, <2>3, TailOnce DEF VictimsInv
  <2>6. \A lpn \in Mapped(pg) : ~(l2p_tbl[lpn].ofs >= pg_list[pg].next_rewr_pgsect)
    <3>. DEFINE info == pg_list[pg]
                num  == Len(info.p2l_tbl)
    <3>. SUFFICES ASSUME NEW lpn \in Mapped(pg)
                  PROVE  ~(l2p_tbl[lpn].ofs >= info.next_rewr_pgsect)
      OBVIOUS
    <3>1. PICK at : Sums(info, at) /\ Listed(pg, info.p2l_tbl, at)
      BY <1>1 DEF SumsInv
    <3>2. info.p2l_tbl \in Seq(Reverse_Info) /\ info.next_rewr_index \in Nat
      BY <1>1 DEF PG_Info
    <3>3. num \in Nat /\ ~(info.next_rewr_index < num)
      BY <2>3, <3>2, LenProperties DEF ScanLeft
    <3>4. /\ at \in [0..num -> Nat] /\ info.next_rewr_index \in 0..num
          /\ info.next_rewr_pgsect = at[info.next_rewr_index]
          /\ \A i, j \in 0..num : i < j => at[i] < at[j]
      BY <3>1 DEF Sums
    <3>5. info.next_rewr_index = num
      BY <3>2, <3>3, <3>4
    <3>6. PICK i \in 1..num : l2p_tbl[lpn].ofs = at[i - 1]
      BY <3>1 DEF Listed
    <3>. HIDE DEF num
    <3>7. i - 1 \in 0..num /\ num \in 0..num /\ i - 1 < num
      BY <3>3
    <3>8. at[i - 1] < at[num] /\ at[i - 1] \in Nat /\ at[num] \in Nat
      BY <3>4, <3>7
    <3>. QED BY <3>4, <3>5, <3>6, <3>8
  <2>7. CompNoPageMissed'
    <3>1. CompPending' = CompPending
      BY <1>2, <2>1 DEF CompPending, ctlVars
    <3>2. \A q : Mapped(q)' = Mapped(q)
      BY <1>2 DEF Mapped
    <3>. QED BY <1>1, <1>2, <2>3, <2>5, <2>6, <3>1, <3>2 DEF CompNoPageMissed
  <2>. QED BY <1>3, <2>4, <2>7 DEF CompScanInv
<1>. QED BY <1>2, <1>5, <1>6, <1>7, <1>8, <1>9

(* Every step keeps the sums, and loses no page of a victim. *)
LEMMA CompNextScan ==
  ASSUME CompTypeInv, CompLedgerInv, CompScanInv, FormatLen # 0, [CompNext]_compVars
  PROVE  CompScanInv'
<1>1. CompTypeInv' /\ CompLedgerInv'
  BY CompNextType, CompNextLedger DEF CompLedgerInv, CompBooksInv
<1>2. /\ FtlTypeOK /\ SumsInv /\ FlushedInv /\ CompNoPageMissed /\ LengthsInv
  BY DEF CompTypeInv, TypeInv, SsdTypeOK, CompLedgerInv, CompBooksInv, CompScanInv
<1>3. ASSUME UNCHANGED ftlVars,
             \A lpn : Contains(req_list, lpn) \/ Contains(rcm_write_buffer, lpn)
                        => Contains(req_list', lpn) \/ Contains(rcm_write_buffer', lpn)
      PROVE  SumsInv' /\ CompNoPageMissed'
  <2>1. /\ l2p_tbl' = l2p_tbl /\ pg_list' = pg_list /\ rcm_pg_que' = rcm_pg_que
    BY <1>3 DEF ftlVars, queueVars
  <2>2. SumsInv'
    BY <1>2, <2>1, KeepsSums
  <2>3. CompNoPageMissed'
    BY <1>1, <1>2, <1>3, <2>1, KeepsMissed
  <2>. QED BY <2>2, <2>3
<1>4. CASE Inherited
  BY <1>1, <1>4, InheritedScan
<1>5. CASE CompUpdate
  <2>1. CASE /\ ~L2P_UpdateError(io.lpn, UpdateLen, openpg[io.type])
             /\ L2P_Update(io.lpn, UpdateLen, openpg[io.type], Aligned)
    <3>1. FlushedInv' /\ CompNoPageMissed'
      BY <1>1, <1>2, <1>5, <2>1, UpdateMissed
    <3>2. SumsInv'
      <4>1. /\ io.lpn \in LP /\ openpg[io.type] \in PG
            /\ UpdateLen \in 1..SectsPerLp /\ Aligned \in BOOLEAN
        BY <1>5, UpdateCases
      <4>. QED BY <1>1, <1>2, <2>1, <4>1, CompUpdateSums, Zenon
    <3>. QED BY <3>1, <3>2 DEF CompScanInv
  <2>2. CASE /\ pc' = "failed" /\ req_list' = req_list
             /\ UNCHANGED <<ftlVars, fmt_lp, write_buffer, rcm_write_buffer>>
    <3>1. FlushedInv'
      BY <2>2 DEF FlushedInv, RcmFlush
    <3>. QED BY <1>3, <2>2, <3>1 DEF CompScanInv
  <2>3. \/ /\ ~L2P_UpdateError(io.lpn, UpdateLen, openpg[io.type])
           /\ L2P_Update(io.lpn, UpdateLen, openpg[io.type], Aligned)
        \/ /\ pc' = "failed" /\ req_list' = req_list
           /\ UNCHANGED <<ftlVars, fmt_lp, write_buffer, rcm_write_buffer>>
    BY <1>5, UpdateCases
  <2>. QED BY <2>1, <2>2, <2>3
<1>6. CASE CompRewrite
  <2>1. /\ UNCHANGED ftlVars /\ rcm_write_buffer' \in Seq(LP)
        /\ \A p : Contains(req_list', p) \/ Contains(rcm_write_buffer', p)
                    <=> Contains(req_list, p) \/ Contains(rcm_write_buffer, p)
        /\ \/ /\ pc' = "open" /\ io' = [type |-> "RCM_RWR", lpn |-> rcm_write_buffer'[1]]
              /\ Len(len_list') = Len(rcm_write_buffer')
           \/ pc' = "rewrite"
    BY <1>2, <1>6, CompRewriteStep
  <2>2. Len(rcm_write_buffer') \in Nat
    BY <2>1, LenProperties
  <2>3. FlushedInv'
    <3>. SUFFICES ASSUME RcmFlush'
                  PROVE  /\ io'.lpn = rcm_write_buffer'[Len(rcm_write_buffer') + 1 - Len(len_list')]
                         /\ \A i \in 1..(Len(rcm_write_buffer') - Len(len_list')) :
                              pg_list'[l2p_tbl'[rcm_write_buffer'[i]].pgn].status # "RCM"
      BY DEF FlushedInv
    <3>1. /\ io'.lpn = rcm_write_buffer'[1] /\ Len(len_list') = Len(rcm_write_buffer')
      BY <2>1 DEF RcmFlush
    <3>2. /\ Len(rcm_write_buffer') + 1 - Len(len_list') = 1
          /\ Len(rcm_write_buffer') - Len(len_list') = 0
      BY <2>2, <3>1
    <3>. QED BY <3>1, <3>2
  <2>. QED BY <1>3, <2>1, <2>3 DEF CompScanInv
<1>7. ASSUME NEW lpn \in LP, CompHostWrite(lpn) PROVE CompScanInv'
  <2>1. /\ UNCHANGED ftlVars /\ req_list' = req_list /\ rcm_write_buffer' = rcm_write_buffer
        /\ Push("HOST_WR", lpn, write_buffer)
    BY <1>7 DEF CompHostWrite
  <2>2. ~RcmFlush'
    BY <2>1 DEF Push, RcmFlush, AfterLpWrite
  <2>. QED BY <1>3, <2>1, <2>2 DEF CompScanInv, FlushedInv
<1>8. CASE UNCHANGED pageVars
  <2>1. UNCHANGED <<ftlVars, pc, io, req_list, rcm_write_buffer, len_list>>
    BY <1>8 DEF pageVars, vars, ctlVars
  <2>2. FlushedInv'
    BY <1>2, <2>1 DEF FlushedInv, RcmFlush, ftlVars
  <2>. QED BY <1>3, <2>1, <2>2 DEF CompScanInv
<1>. QED BY <1>4, <1>5, <1>6, <1>7, <1>8, ReadsLeaveAlone DEF CompNext

LEMMA CompScanCorrect ==
  ASSUME FormatLen # 0
  PROVE  CompSpec => [](CompTypeInv /\ CompLedgerInv /\ CompScanInv)
<1>1. CompInit => CompTypeInv /\ CompLedgerInv /\ CompScanInv
  BY CompInitLedger, CompInitScan
<1>2. CompTypeInv /\ CompLedgerInv /\ CompScanInv /\ [CompNext]_compVars
        => (CompTypeInv /\ CompLedgerInv /\ CompScanInv)'
  BY CompNextType, CompNextLedger, CompNextScan DEF CompLedgerInv, CompBooksInv
<1>. QED BY <1>1, <1>2, PTL DEF CompSpec

\* However long the pages of a victim are and wherever pads lie between them, the
\* scan overlooks none, and none is forgotten while its copy waits in the buffer.
THEOREM CompNothingMissed ==
  ASSUME FormatLen # 0
  PROVE  CompSpec => []CompNoPageMissed
<1>1. CompScanInv => CompNoPageMissed
  BY DEF CompScanInv
<1>. QED BY <1>1, CompScanCorrect, PTL
-----------------------------------------------------------------------------
(***************************************************************************)
(* What do_gc leaves behind when it returns.                               *)
(*                                                                         *)
(* A turn that has listed nothing ends do_gc, with every victim scanned to *)
(* its end (TurnInv); by CompNoPageMissed the pages still mapped to it are *)
(* then in rcm_write_buffer.  Each victim has such a page, as it is        *)
(* released with the last one (VictimsHavePages), and the buffer is not    *)
(* full, so there are fewer victims than the buffer has places.            *)
(***************************************************************************)

\* Victims are scanned only in a turn of do_gc, and a turn that lists nothing has
\* scanned them all; what it lists is gone before it ends; and outside a flush
\* there is room in rcm_write_buffer.
TurnInv ==
  /\ Formatting \/ pc = "idle" => rcm_pg_que = <<>>
  /\ NothingListed => rcm_pg_que = <<>>
  /\ req_list # <<>> => req_num # 0 /\ (pc \in {"collect", "rewrite", "failed"} \/ RcmFlush)
  /\ RcmFlush => req_num # 0
  /\ pc = "format" => rcm_pg_que = <<>>
  /\ pc # "failed" /\ ~RcmFlush => Len(rcm_write_buffer) < BufferedPageNum

LEMMA CompInitTurn == CompInit => VictimsHavePages /\ TurnInv
<1>. SUFFICES ASSUME CompInit PROVE VictimsHavePages /\ TurnInv
  OBVIOUS
<1>1. /\ \A pg \in PG : pg_list[pg].status = "FREE"
      /\ pc = "format" /\ rcm_pg_que = <<>> /\ req_list = <<>> /\ rcm_write_buffer = <<>>
  BY DEF CompInit, Init, InitFTL, InitPG
<1>2. Len(rcm_write_buffer) < BufferedPageNum
  BY <1>1, EmptySeq, CompAssumption
<1>. QED BY <1>1, <1>2 DEF VictimsHavePages, TurnInv, NothingListed, RcmFlush

\* An accepted write of any length leaves a page to every victim it does not
\* release, and scans none.
LEMMA CompUpdateVictims ==
  ASSUME FtlTypeOK, QueuesInv, VictimsInv, VictimsHavePages, NEW lpn \in LP,
         NEW len \in Nat \ {0}, NEW dst \in PG, NEW align \in BOOLEAN, PageCounted(lpn),
         ~L2P_UpdateError(lpn, len, dst), L2P_Update(lpn, len, dst, align)
  PROVE  VictimsHavePages' /\ (rcm_pg_que = <<>> => rcm_pg_que' = <<>>)
<1>. DEFINE src == l2p_tbl[lpn].pgn
<1>1. \A pg \in PG : pg_list'[pg].status =
         IF Releases(lpn, dst) /\ pg = src THEN "FREE"
         ELSE IF pg = dst THEN IF Fills(lpn, len, dst, align) THEN "CLOSE" ELSE "OPEN"
         ELSE pg_list[pg].status
  BY StatusAfterWrite
<1>2. \A pg \in PG : ~(Releases(lpn, dst) /\ pg = src) =>
         pg_list'[pg].lp_num = pg_list[pg].lp_num + (IF pg = dst THEN 1 ELSE 0)
                                                  - (IF pg = src THEN 1 ELSE 0)
  BY CountersAfterWrite
<1>3. VictimsHavePages'
  <2>. SUFFICES ASSUME NEW pg \in PG, pg_list'[pg].status = "RCM" PROVE pg_list'[pg].lp_num # 0
    BY DEF VictimsHavePages
  <2>1. pg # dst /\ ~(Releases(lpn, dst) /\ pg = src) /\ pg_list[pg].status = "RCM"
    BY <1>1
  <2>2. pg_list[pg].lp_num \in Nat \ {0}
    BY <2>1 DEF VictimsHavePages, FtlTypeOK, PG_Info
  <2>3. pg = src => pg_list[pg].lp_num # 1
    BY <2>1 DEF Releases
  <2>. QED BY <1>2, <2>1, <2>2, <2>3
<1>4. rcm_pg_que = <<>> => rcm_pg_que' = <<>>
  <2>. SUFFICES ASSUME rcm_pg_que = <<>> PROVE rcm_pg_que' = <<>>
    OBVIOUS
  <2>1. rcm_pg_que' = IF Releases(lpn, dst) /\ pg_list[src].status = "RCM"
                         /\ ~Contains(rcm_cmp_pg_que, src)
                      THEN RemoveFirst(rcm_pg_que, src) ELSE rcm_pg_que
    BY RestAfterWrite
  <2>2. ~Contains(rcm_pg_que, src)
    BY EmptySeq DEF Contains
  <2>3. Releases(lpn, dst) /\ pg_list[src].status = "RCM" => Contains(rcm_cmp_pg_que, src)
    BY <2>2 DEF Releases, VictimsInv
  <2>. QED BY <2>1, <2>3
<1>. QED BY <1>3, <1>4

\* Where the drive inherits, only do_gc puts victims on the queue, and only a
\* PG with pages becomes one.
LEMMA InheritedVictims ==
  ASSUME CompTypeInv, CompLedgerInv, VictimsHavePages, Inherited
  PROVE  VictimsHavePages'
<1>1. FtlTypeOK /\ pg_list \in [PG -> PG_Info] /\ io.type \in IoType
  BY DEF CompTypeInv, TypeInv, SsdTypeOK, FtlTypeOK
<1>2. \/ UNCHANGED <<pg_list, openpg, queueVars>>
      \/ GetOpenPG_Build /\ free_pg_que # <<>> /\ BuildPG(io.type)
      \/ Reload \/ Collect \/ CollectNextPG
  BY InheritedSteps
<1>3. CASE pg_list' = pg_list
  BY <1>3 DEF VictimsHavePages
<1>4. CASE BuildPG(io.type)
  <2>1. TakePG(io.type) /\ QueuesInv
    BY <1>4 DEF BuildPG, CompLedgerInv
  <2>2. PICK first \in PG : /\ pg_list'[first].status = "OPEN"
                            /\ \A pg \in PG \ {first} : pg_list'[pg] = pg_list[pg]
    BY <1>1, <2>1, TakenPG
  <2>. QED BY <2>2 DEF VictimsHavePages
<1>5. CASE Reload
  <2>1. ReloadRcmTarget /\ QueuesInv
    BY <1>5 DEF Reload, CompLedgerInv
  <2>2. PICK target \in PG :
          /\ pg_list[target].status = "CLOSE"
          /\ \A pg \in PG : pg_list'[pg].status = IF pg = target THEN "RCM" ELSE pg_list[pg].status
    BY <1>1, <2>1, ReloadTarget
  <2>3. \A pg \in PG : pg_list'[pg].lp_num = pg_list[pg].lp_num
    BY <1>1, <2>1 DEF ReloadRcmTarget, PG_Info
  <2>. QED BY <2>1, <2>2, <2>3 DEF QueuesInv, ClosedHasPages, VictimsHavePages
<1>6. CASE Collect
  BY <1>1, <1>6 DEF Collect, ScanNext, PG_Info, VictimsHavePages
<1>7. CASE CollectNextPG
  BY <1>3, <1>7 DEF CollectNextPG, ScanEnd
<1>. QED BY <1>2, <1>3, <1>4, <1>5, <1>6, <1>7

LEMMA InheritedTurn ==
  ASSUME CompTypeInv, TurnInv, Inherited
  PROVE  TurnInv'
<1>1. UNCHANGED <<write_buffer, rcm_write_buffer, len_list>> /\ req_num \in 0..MaxRewr
  BY DEF Inherited, bufVars, CompTypeInv, TypeInv, SsdTypeOK
<1>2. /\ Formatting => pc \in {"format", "open", "update", "failed"} /\ ~RcmFlush
      /\ pc = "erase" => erase_left # 0
  BY DEF CompTypeInv, FlushInv, TypeInv, ControlInv, EraseInv
<1>3. CASE FormatPage \/ FormatDone
  BY <1>1, <1>2, <1>3 DEF FormatPage, FormatDone, ftlVars, queueVars, Formatting, TurnInv,
                          NothingListed, RcmFlush
<1>4. CASE GetOpenPG_Present
  BY <1>1, <1>2, <1>4 DEF GetOpenPG_Present, ftlVars, queueVars, Formatting, TurnInv,
                          NothingListed, RcmFlush
<1>5. CASE GetOpenPG_Build
  <2>1. rcm_pg_que' = rcm_pg_que /\ pc' \in {"update", "failed"}
    BY <1>5 DEF GetOpenPG_Build, BuildPG, TakePG, ftlVars, queueVars
  <2>2. /\ pc = "open" /\ UNCHANGED <<io, fmt_lp, req_list, req_num>>
    BY <1>5 DEF GetOpenPG_Build
  <2>. QED BY <1>1, <2>1, <2>2 DEF Formatting, TurnInv, NothingListed, RcmFlush
<1>6. CASE GetReWriteReq \/ Reload \/ ReloadDone
  <2>1. /\ pc \in {"gc", "reload"} /\ pc' \in {"reload", "collect", "failed"}
        /\ UNCHANGED <<fmt_lp, req_list>>
    BY <1>6 DEF GetReWriteReq, Reload, ReloadDone
  <2>2. ~Formatting' /\ req_list' = <<>>
    BY <1>2, <2>1 DEF Formatting, TurnInv, RcmFlush
  <2>. QED BY <1>1, <2>1, <2>2 DEF TurnInv, NothingListed, RcmFlush
<1>7. CASE Collect \/ CollectNextPG
  <2>1. /\ pc = "collect" /\ UNCHANGED <<pc, fmt_lp>>
        /\ req_list' # <<>> => req_num' # 0
    BY <1>1, <1>7 DEF Collect, CollectNextPG, ctlVars, TurnInv
  <2>. QED BY <1>1, <1>2, <2>1 DEF Formatting, TurnInv, NothingListed, RcmFlush
<1>8. CASE CollectDone \/ RewriteDone
  BY <1>1, <1>2, <1>8, MaxRewrAssumption
     DEF CollectDone, RewriteDone, ftlVars, queueVars, Formatting, TurnInv, NothingListed, RcmFlush
<1>9. CASE \E num \in 0..MaxErase : EraseReq(num)
  <2>1. /\ pc = "geterase" /\ pc' \in {"erase", "gc", "idle"} /\ UNCHANGED <<fmt_lp, req_list, rcm_pg_que>>
        /\ pc' = "idle" => req_num = 0
    BY <1>9 DEF EraseReq, GetEraseReq, queueVars
  <2>2. ~Formatting' /\ req_list' = <<>> /\ (pc' = "idle" => rcm_pg_que' = <<>>)
    BY <1>2, <2>1 DEF Formatting, TurnInv, NothingListed, RcmFlush
  <2>. QED BY <1>1, <2>1, <2>2 DEF TurnInv, NothingListed, RcmFlush
<1>10. CASE Erase
  <2>1. pc = "erase" /\ pc' \in {"erase", "gc"} /\ UNCHANGED <<fmt_lp, req_list>>
    BY <1>10 DEF Erase
  <2>2. ~Formatting' /\ req_list' = <<>>
    BY <1>2, <2>1 DEF Formatting, TurnInv, RcmFlush
  <2>. QED BY <1>1, <2>1, <2>2 DEF TurnInv, NothingListed, RcmFlush
<1>. QED BY <1>3, <1>4, <1>5, <1>6, <1>7, <1>8, <1>9, <1>10 DEF Inherited

(* Every step keeps the victims and the place of the thread in its turn. *)
LEMMA CompNextTurn ==
  ASSUME CompTypeInv, CompLedgerInv, VictimsHavePages, TurnInv, FormatLen # 0,
         [CompNext]_compVars
  PROVE  VictimsHavePages' /\ TurnInv'
<1>1. /\ FtlTypeOK /\ LengthsInv /\ QueuesInv /\ VictimsInv
      /\ rcm_write_buffer \in Seq(LP) /\ Len(rcm_write_buffer) \in Nat
  BY LenProperties DEF CompTypeInv, TypeInv, SsdTypeOK, BuffersTypeOK, CompLedgerInv, CompBooksInv
<1>2. UNCHANGED ftlVars => VictimsHavePages' /\ rcm_pg_que' = rcm_pg_que
  BY DEF ftlVars, queueVars, VictimsHavePages
<1>3. CASE Inherited
  BY <1>3, InheritedVictims, InheritedTurn
<1>4. CASE CompUpdate
  <2>1. VictimsHavePages' /\ (rcm_pg_que = <<>> => rcm_pg_que' = <<>>)
    <3>1. PICK lpn \in LP, dst \in PG, len \in Nat \ {0}, align \in BOOLEAN :
            lpn = io.lpn /\ dst = openpg[io.type] /\ len = UpdateLen /\ align = Aligned
      BY <1>4, UpdateCases, SizesAssumption
    <3>2. PageCounted(lpn)
      BY <1>1, CompPageCounted DEF CompLedgerInv
    <3>3. CASE ~L2P_UpdateError(lpn, len, dst) /\ L2P_Update(lpn, len, dst, align)
      BY <1>1, <3>2, <3>3, CompUpdateVictims
    <3>4. UNCHANGED ftlVars \/ (~L2P_UpdateError(lpn, len, dst) /\ L2P_Update(lpn, len, dst, align))
      BY <1>4, <3>1, UpdateCases, Zenon
    <3>. QED BY <1>2, <3>3, <3>4
  <2>2. /\ pc = "update" /\ UNCHANGED <<req_list, req_num>> /\ io.type \in IoType
        /\ \/ pc' = "failed" /\ fmt_lp' = fmt_lp
           \/ /\ Formatting /\ pc' = "format" /\ rcm_write_buffer' = rcm_write_buffer
           \/ /\ ~Formatting /\ fmt_lp' = fmt_lp /\ pc' = AfterLpWrite(io.type)
              /\ rcm_write_buffer' = IF io.type = "RCM_RWR" THEN <<>> ELSE rcm_write_buffer
           \/ /\ ~Formatting /\ fmt_lp' = fmt_lp /\ pc' = "open" /\ io'.type = io.type
              /\ rcm_write_buffer' = rcm_write_buffer
    BY <1>4, UpdateCases
  <2>3. Len(<<>>) < BufferedPageNum
    BY EmptySeq, CompAssumption
  <2>4. CASE pc' = "failed" /\ fmt_lp' = fmt_lp
    BY <2>1, <2>2, <2>4 DEF Formatting, TurnInv, NothingListed, RcmFlush
  <2>5. CASE Formatting /\ pc' = "format" /\ rcm_write_buffer' = rcm_write_buffer
    <3>1. ~RcmFlush
      BY <2>5 DEF CompTypeInv, FlushInv
    <3>. QED BY <2>1, <2>2, <2>5, <3>1 DEF TurnInv, NothingListed, RcmFlush
  <2>6. CASE /\ ~Formatting /\ fmt_lp' = fmt_lp /\ pc' = AfterLpWrite(io.type)
             /\ rcm_write_buffer' = IF io.type = "RCM_RWR" THEN <<>> ELSE rcm_write_buffer
    <3>1. CASE io.type = "RCM_RWR"
      <4>1. RcmFlush /\ pc' = "rewrite"
        BY <2>2, <2>6, <3>1 DEF RcmFlush, AfterLpWrite
      <4>. QED BY <2>1, <2>2, <2>3, <2>6, <3>1, <4>1 DEF Formatting, TurnInv, NothingListed, RcmFlush
    <3>2. CASE io.type # "RCM_RWR"
      <4>1. ~RcmFlush /\ pc' = "gc"
        BY <2>2, <2>6, <3>2 DEF RcmFlush, AfterLpWrite, IoType
      <4>. QED BY <2>1, <2>2, <2>6, <3>2, <4>1 DEF Formatting, TurnInv, NothingListed, RcmFlush
    <3>. QED BY <3>1, <3>2
  <2>7. CASE /\ ~Formatting /\ fmt_lp' = fmt_lp /\ pc' = "open" /\ io'.type = io.type
             /\ rcm_write_buffer' = rcm_write_buffer
    BY <2>1, <2>2, <2>7 DEF Formatting, TurnInv, NothingListed, RcmFlush
  <2>. QED BY <2>2, <2>4, <2>5, <2>6, <2>7
<1>5. CASE CompRewrite
  <2>1. /\ pc = "rewrite" /\ ~Formatting /\ UNCHANGED ftlVars /\ UNCHANGED <<fmt_lp, req_num>>
        /\ req_list # <<>> /\ Len(rcm_write_buffer') = Len(rcm_write_buffer) + 1
        /\ \/ pc' = "open" /\ io'.type = "RCM_RWR"
           \/ pc' = "rewrite" /\ Len(rcm_write_buffer') # BufferedPageNum
    BY <1>1, <1>5, CompRewriteStep
  <2>2. Len(rcm_write_buffer) < BufferedPageNum /\ req_num # 0
    BY <2>1 DEF TurnInv, RcmFlush
  <2>3. pc' = "rewrite" => Len(rcm_write_buffer') < BufferedPageNum
    BY <1>1, <2>1, <2>2, CompAssumption
  <2>. QED BY <1>2, <2>1, <2>2, <2>3 DEF Formatting, TurnInv, NothingListed, RcmFlush
<1>6. ASSUME NEW lpn \in LP, CompHostWrite(lpn) PROVE VictimsHavePages' /\ TurnInv'
  <2>1. /\ pc = "idle" /\ UNCHANGED ftlVars /\ UNCHANGED <<fmt_lp, req_list, req_num, rcm_write_buffer>>
        /\ \/ pc' = "open" /\ io'.type = "HOST_WR"
           \/ pc' = "gc"
    BY <1>6 DEF CompHostWrite, Push, AfterLpWrite
  <2>2. ~Formatting' /\ req_list = <<>>
    BY <2>1 DEF CompTypeInv, FlushInv, Formatting, TurnInv, RcmFlush
  <2>. QED BY <1>2, <2>1, <2>2 DEF TurnInv, NothingListed, RcmFlush
<1>7. CASE UNCHANGED pageVars
  <2>1. UNCHANGED ftlVars /\ UNCHANGED <<pc, io, fmt_lp, req_list, req_num, rcm_write_buffer>>
    BY <1>7 DEF pageVars, vars, ctlVars
  <2>. QED BY <1>2, <2>1 DEF Formatting, TurnInv, NothingListed, RcmFlush
<1>. QED BY <1>3, <1>4, <1>5, <1>6, <1>7, ReadsLeaveAlone DEF CompNext

\* A sequence has no more elements than places.
LEMMA ToSetBound ==
  ASSUME NEW S, NEW s \in Seq(S)
  PROVE  IsFiniteSet(ToSet(s)) /\ Cardinality(ToSet(s)) <= Len(s)
<1>1. s \in [1..Len(s) -> S] /\ DOMAIN s = 1..Len(s) /\ Len(s) \in Nat
  BY LenProperties
<1>2. IsFiniteSet(1..Len(s)) /\ Cardinality(1..Len(s)) = Len(s)
  <2>1. PICK n \in Nat : n = Len(s)
    BY <1>1
  <2>2. IsFiniteSet(1..n) /\ Cardinality(1..n) = IF 1 > n THEN 0 ELSE n - 1 + 1
    BY FS_Interval
  <2>. QED BY <2>1, <2>2
<1>3. s \in Surjection(1..Len(s), ToSet(s))
  BY <1>1 DEF Surjection, ToSet
<1>4. IsFiniteSet(ToSet(s)) /\ Cardinality(ToSet(s)) <= Cardinality(1..Len(s))
  BY <1>2, <1>3, FS_Surjection
<1>. QED BY <1>2, <1>4

\* Groups that share no page are no more than the pages they have.
LEMMA NoMoreGroupsThanPages ==
  ASSUME FtlTypeOK, NEW pgs \in SUBSET PG, NEW lpns, IsFiniteSet(lpns),
         \A pg \in pgs : Mapped(pg) # {} /\ Mapped(pg) \subseteq lpns
  PROVE  IsFiniteSet(pgs) /\ Cardinality(pgs) <= Cardinality(lpns)
<1>. DEFINE page == [pg \in pgs |-> CHOOSE lpn \in lpns : l2p_tbl[lpn].pgn = pg]
<1>1. \A pg \in pgs : page[pg] \in lpns /\ l2p_tbl[page[pg]].pgn = pg
  BY DEF Mapped
<1>2. page \in [pgs -> lpns]
  BY <1>1
<1>. HIDE DEF page
<1>3. page \in Injection(pgs, lpns)
  BY <1>1, <1>2 DEF Injection, IsInjective
<1>. QED BY <1>3, FS_Injection

\* At rest the victims wait for the buffer alone, and are fewer than its places.
LEMMA RestingVictims ==
  ASSUME CompTypeInv, CompLedgerInv, CompNoPageMissed, VictimsHavePages, TurnInv
  PROVE  VictimsWaitForBuffer
<1>. DEFINE victims == {pg \in PG : pg_list[pg].status = "RCM"}
<1>. SUFFICES ASSUME pc = "idle"
              PROVE  /\ rcm_pg_que = <<>>
                     /\ \A pg \in victims : Mapped(pg) # {} /\ Mapped(pg) \subseteq ToSet(rcm_write_buffer)
                     /\ Cardinality(victims) < BufferedPageNum
  BY DEF VictimsWaitForBuffer
<1>1. rcm_pg_que = <<>> /\ req_list = <<>> /\ Len(rcm_write_buffer) < BufferedPageNum
  BY DEF TurnInv, RcmFlush
<1>2. rcm_write_buffer \in Seq(LP) /\ FtlTypeOK
  BY DEF CompTypeInv, BuffersTypeOK, TypeInv, SsdTypeOK
<1>3. \A x : ~Contains(<<>>, x)
  BY EmptySeq DEF Contains
<1>4. \A lpn : lpn \in CompPending => lpn \in ToSet(rcm_write_buffer)
  BY <1>1, <1>2, <1>3, CompPendingPages, ToSetContains
<1>5. \A pg \in victims : Mapped(pg) # {} /\ Mapped(pg) \subseteq ToSet(rcm_write_buffer)
  <2>. SUFFICES ASSUME NEW pg \in PG, pg_list[pg].status = "RCM"
                PROVE  Mapped(pg) # {} /\ Mapped(pg) \subseteq ToSet(rcm_write_buffer)
    OBVIOUS
  <2>1. pg_list[pg].lp_num = Cardinality(Mapped(pg)) /\ pg_list[pg].lp_num # 0
    BY DEF CompLedgerInv, CompBooksInv, CompAccounting, VictimsHavePages
  <2>2. Mapped(pg) # {}
    BY <2>1, FS_EmptySet
  <2>3. Mapped(pg) \subseteq ToSet(rcm_write_buffer)
    BY <1>1, <1>3, <1>4 DEF CompNoPageMissed
  <2>. QED BY <2>2, <2>3
<1>6. /\ IsFiniteSet(ToSet(rcm_write_buffer))
      /\ Cardinality(ToSet(rcm_write_buffer)) <= Len(rcm_write_buffer)
  BY <1>2, ToSetBound
<1>7. IsFiniteSet(victims) /\ Cardinality(victims) <= Cardinality(ToSet(rcm_write_buffer))
  <2>1. victims \in SUBSET PG
    OBVIOUS
  <2>. HIDE DEF victims
  <2>. QED BY <1>2, <1>5, <1>6, <2>1, NoMoreGroupsThanPages
<1>8. /\ Cardinality(victims) \in Nat /\ Cardinality(ToSet(rcm_write_buffer)) \in Nat
      /\ Len(rcm_write_buffer) \in Nat /\ BufferedPageNum \in Nat
  BY <1>2, <1>6, <1>7, FS_CardinalityType, LenProperties, CompAssumption
<1>. HIDE DEF victims
<1>9. Cardinality(victims) < BufferedPageNum
  BY <1>1, <1>6, <1>7, <1>8
<1>. QED BY <1>1, <1>5, <1>9

\* However do_gc's turns and the flushes fall, when it returns to the host every
\* victim left is scanned to its end and waits for pages of a buffer that is not
\* full: do_gc never returns with work it could have done.
THEOREM VictimsWait ==
  ASSUME FormatLen # 0
  PROVE  CompSpec => []VictimsWaitForBuffer
<1>1. CompInit => VictimsHavePages /\ TurnInv
  BY CompInitTurn
<1>2. CompTypeInv /\ CompLedgerInv /\ VictimsHavePages /\ TurnInv /\ [CompNext]_compVars
        => (VictimsHavePages /\ TurnInv)'
  BY CompNextTurn
<1>3. CompTypeInv /\ CompLedgerInv /\ CompScanInv /\ VictimsHavePages /\ TurnInv => VictimsWaitForBuffer
  BY RestingVictims DEF CompScanInv
<1>. QED BY <1>1, <1>2, <1>3, CompScanCorrect, PTL DEF CompSpec

-----------------------------------------------------------------------------
(***************************************************************************)
(* Slots, room and extents: what L2P_Update checks and what it leaves.     *)
(*                                                                         *)
(* A write has no length of its own here, and its pad is nobody's.  A PG   *)
(* is closed when it has no room for a page of full length, so the next    *)
(* one fits whatever it compresses to, and two pages never share a sector. *)
(***************************************************************************)

\* A free or an open PG has room for a page that does not compress.
RoomInv ==
  \A pg \in PG : pg_list[pg].status \in {"FREE", "OPEN"} =>
    pg_list[pg].next_ofs + SectsPerLp <= PgCwNum

CompExtentsInv == SlotsInv /\ RoomInv /\ SectorsDisjoint

LEMMA CompInitExtents == CompInit => CompExtentsInv
<1>. SUFFICES ASSUME CompInit PROVE CompExtentsInv
  OBVIOUS
<1>1. Init /\ SlotsInv
  BY InitPlaces DEF CompInit, PlacesInv
<1>2. /\ \A pg \in PG : pg_list[pg].next_ofs = 0
      /\ \A lpn \in LP : l2p_tbl[lpn].pgn = NoPG
  BY <1>1 DEF Init, InitFTL, InitPG
<1>3. RoomInv
  BY <1>2, SizesAssumption, PgSizeAssumption DEF RoomInv
<1>4. SectorsDisjoint
  BY <1>2 DEF SectorsDisjoint
<1>. QED BY <1>1, <1>3, <1>4 DEF CompExtentsInv

\* A step that moves no page and no write position, and opens only what was free.
LEMMA KeepsExtents ==
  ASSUME RoomInv, SectorsDisjoint, l2p_tbl' = l2p_tbl,
         \A lpn \in LP : l2p_tbl[lpn].pgn \in PG \cup {NoPG},
         \A pg \in PG :
           /\ pg_list'[pg].next_ofs = pg_list[pg].next_ofs
           /\ pg_list'[pg].status \in {"FREE", "OPEN"} => pg_list[pg].status \in {"FREE", "OPEN"}
  PROVE  RoomInv' /\ SectorsDisjoint'
<1>1. RoomInv'
  BY DEF RoomInv
<1>2. SectorsDisjoint'
  BY DEF SectorsDisjoint
<1>. QED BY <1>1, <1>2

\* What the drive inherits keeps slots, room and extents.
LEMMA InheritedExtents ==
  ASSUME CompTypeInv, CompLedgerInv, CompExtentsInv, Inherited
  PROVE  CompExtentsInv'
<1>1. /\ TypeInv /\ FtlTypeOK /\ pg_list \in [PG -> PG_Info] /\ QueuesInv /\ PlacesInv
      /\ RoomInv /\ SectorsDisjoint /\ \A lpn \in LP : l2p_tbl[lpn].pgn \in PG \cup {NoPG}
  BY DEF CompTypeInv, TypeInv, SsdTypeOK, FtlTypeOK, VPA, CompLedgerInv, CompExtentsInv, PlacesInv
<1>2. /\ l2p_tbl' = l2p_tbl
      /\ \/ UNCHANGED <<pg_list, openpg, queueVars>>
         \/ GetOpenPG_Build /\ free_pg_que # <<>> /\ BuildPG(io.type)
         \/ Reload \/ Collect \/ CollectNextPG
  BY InheritedSteps
<1>3. pc # "failed"
  BY DEF Inherited, FormatPage, FormatDone, GetOpenPG_Present, GetOpenPG_Build,
         GetReWriteReq, Reload, ReloadDone, Collect, CollectNextPG, CollectDone, RewriteDone,
         EraseReq, Erase
<1>4. CASE UNCHANGED <<pg_list, openpg, queueVars>>
  <2>1. PlacesInv'
    BY <1>1, <1>3, <1>4, NoPlaceStep DEF queueVars
  <2>2. RoomInv' /\ SectorsDisjoint'
    BY <1>1, <1>2, <1>4, KeepsExtents
  <2>. QED BY <2>1, <2>2 DEF CompExtentsInv, PlacesInv
<1>5. CASE GetOpenPG_Build /\ free_pg_que # <<>> /\ BuildPG(io.type)
  <2>1. PlacesInv'
    BY <1>1, <1>5, BuildPlaces
  <2>2. PICK first \in PG :
          /\ pg_list[first].status = "FREE" /\ pg_list'[first].next_ofs = pg_list[first].next_ofs
          /\ \A pg \in PG \ {first} : pg_list'[pg] = pg_list[pg]
    BY <1>1, <1>5, BuiltPG
  <2>3. RoomInv' /\ SectorsDisjoint'
    <3>1. \A pg \in PG :
            /\ pg_list'[pg].next_ofs = pg_list[pg].next_ofs
            /\ pg_list'[pg].status \in {"FREE", "OPEN"} => pg_list[pg].status \in {"FREE", "OPEN"}
      BY <2>2
    <3>. QED BY <1>1, <1>2, <3>1, KeepsExtents
  <2>. QED BY <2>1, <2>3 DEF CompExtentsInv, PlacesInv
<1>6. CASE Reload
  <2>1. ReloadRcmTarget
    BY <1>6 DEF Reload
  <2>2. PlacesInv'
    BY <1>1, <1>3, <2>1, ReloadPlaces
  <2>3. PICK target \in PG : pg_list' = [pg_list EXCEPT ![target].status = "RCM"]
    BY <1>1, <2>1, ReloadTarget
  <2>4. \A pg \in PG :
          /\ pg_list'[pg].next_ofs = pg_list[pg].next_ofs
          /\ pg_list'[pg].status \in {"FREE", "OPEN"} => pg_list[pg].status \in {"FREE", "OPEN"}
    BY <1>1, <2>3 DEF PG_Info
  <2>5. RoomInv' /\ SectorsDisjoint'
    BY <1>1, <1>2, <2>4, KeepsExtents
  <2>. QED BY <2>2, <2>5 DEF CompExtentsInv, PlacesInv
<1>7. CASE Collect
  <2>1. \A pg \in PG : /\ pg_list'[pg].status = pg_list[pg].status
                       /\ pg_list'[pg].type = pg_list[pg].type
                       /\ pg_list'[pg].next_ofs = pg_list[pg].next_ofs
    BY <1>1, <1>7 DEF Collect, ScanNext, PG_Info
  <2>2. PlacesInv'
    BY <1>1, <1>3, <1>7, <2>1, NoPlaceStep DEF Collect, ScanNext, queueVars
  <2>3. RoomInv' /\ SectorsDisjoint'
    BY <1>1, <1>2, <2>1, KeepsExtents
  <2>. QED BY <2>2, <2>3 DEF CompExtentsInv, PlacesInv
<1>8. CASE CollectNextPG
  <2>1. /\ rcm_pg_que # <<>> /\ ScanEnd(Head(rcm_pg_que)) /\ pc' = pc /\ pg_list' = pg_list
    BY <1>8 DEF CollectNextPG, ScanEnd, ctlVars
  <2>2. PlacesInv'
    BY <1>1, <2>1, ScanEndPlaces
  <2>3. RoomInv' /\ SectorsDisjoint'
    BY <1>1, <1>2, <2>1, KeepsExtents
  <2>. QED BY <2>2, <2>3 DEF CompExtentsInv, PlacesInv
<1>. QED BY <1>2, <1>4, <1>5, <1>6, <1>7, <1>8

\* The write position behind an accepted write, and the room that is left.
LEMMA GrownRoom ==
  ASSUME FtlTypeOK, NEW lpn \in LP, NEW len \in Nat \ {0}, NEW dst \in PG, NEW align \in BOOLEAN,
         ~L2P_UpdateError(lpn, len, dst)
  PROVE  LET new == Grown(lpn, len, dst, align)
         IN  /\ new.next_ofs \in Nat /\ new.next_ofs >= pg_list[dst].next_ofs + len
             /\ new.status # "CLOSE" => new.next_ofs + SectsPerLp <= PgCwNum
<1>. DEFINE info == pg_list[dst]
            pad  == PadOf(len, dst, align)
<1>1. /\ info \in PG_Info /\ info.next_ofs \in Nat /\ info.status = "OPEN"
      /\ info.next_ofs + len <= PgCwNum
      /\ PgCwNum \in Nat /\ SectsPerLp \in Nat
  <2>1. PgCwNum \in Nat /\ SectsPerLp \in Nat
    BY SizesAssumption, PgSizeAssumption
  <2>2. info \in PG_Info /\ info.next_ofs \in Nat
    BY DEF FtlTypeOK, PG_Info
  <2>3. info.status = "OPEN" /\ ~(info.next_ofs + len > PgCwNum)
    BY DEF L2P_UpdateError
  <2>. HIDE DEF info
  <2>. QED BY <2>1, <2>2, <2>3
<1>2. pad \in Nat
  <2>1. info.next_ofs + len \in Nat
    BY <1>1
  <2>. QED BY <2>1, PadType DEF PadOf
<1>. HIDE DEF info, pad
<1>3. /\ Written(info, lpn, len, pad).next_ofs =
           IF info.next_ofs + len + pad + SectsPerLp >= PgCwNum THEN PgCwNum ELSE info.next_ofs + len + pad
      /\ Written(info, lpn, len, pad).status =
           IF info.next_ofs + len + pad + SectsPerLp >= PgCwNum THEN "CLOSE" ELSE "OPEN"
  BY <1>1 DEF Written, PG_Info
<1>4. /\ Written(info, lpn, len, pad).next_ofs \in Nat
      /\ Written(info, lpn, len, pad).next_ofs >= info.next_ofs + len
      /\ Written(info, lpn, len, pad).status # "CLOSE" =>
           Written(info, lpn, len, pad).next_ofs + SectsPerLp <= PgCwNum
  <2>1. CASE info.next_ofs + len + pad + SectsPerLp >= PgCwNum
    BY <1>1, <1>3, <2>1
  <2>2. CASE ~(info.next_ofs + len + pad + SectsPerLp >= PgCwNum)
    BY <1>1, <1>2, <1>3, <2>2
  <2>. QED BY <2>1, <2>2
<1>. QED BY <1>4 DEF Grown, info, pad

\* An accepted write leaves room in an open PG, and its extent is its own.
LEMMA CompUpdateExtents ==
  ASSUME FtlTypeOK, CompBooksInv, CompBooksInv', QueuesInv, RoomInv, SectorsDisjoint,
         NEW lpn \in LP, NEW len \in Nat \ {0}, NEW dst \in PG, NEW align \in BOOLEAN,
         ~L2P_UpdateError(lpn, len, dst), L2P_Update(lpn, len, dst, align)
  PROVE  RoomInv' /\ SectorsDisjoint'
<1>. DEFINE src   == l2p_tbl[lpn].pgn
            freed == Releases(lpn, dst)
            new   == Grown(lpn, len, dst, align)
            entry == [pgn |-> dst, ofs |-> pg_list[dst].next_ofs, len |-> len]
<1>0. PageCounted(lpn) /\ NoPG \notin PG /\ SectsPerLp \in Nat /\ PgCwNum \in Nat /\ PgCwNum > SectsPerLp
  BY CompPageCounted, NoPGAssumption, SizesAssumption, PgSizeAssumption DEF PG
<1>1. /\ l2p_tbl \in [LP -> VPA] /\ pg_list \in [PG -> PG_Info]
      /\ \A pg \in PG : pg_list[pg].next_ofs \in Nat
      /\ freed => src \in PG /\ src # dst
  BY DEF FtlTypeOK, PG_Info, Releases
<1>2. /\ new.next_ofs \in Nat /\ new.next_ofs >= pg_list[dst].next_ofs + len
      /\ new.status # "CLOSE" => new.next_ofs + SectsPerLp <= PgCwNum
  BY GrownRoom
<1>3. /\ \A pg \in PG : ~(freed /\ pg = src) =>
           SameFields(pg_list'[pg], IF pg = dst THEN new ELSE pg_list[pg])
      /\ freed => pg_list'[src] = InitPG
  BY <1>0, RestAfterWrite
<1>4. \A pg \in PG : pg_list'[pg].status =
         IF freed /\ pg = src THEN "FREE"
         ELSE IF pg = dst THEN IF Fills(lpn, len, dst, align) THEN "CLOSE" ELSE "OPEN"
         ELSE pg_list[pg].status
  BY <1>0, StatusAfterWrite
<1>5. \A p \in LP : l2p_tbl'[p] = IF p = lpn THEN entry ELSE l2p_tbl[p]
  <2>1. l2p_tbl' = [l2p_tbl EXCEPT ![lpn] = entry]
    BY <1>0, CountersAfterWrite
  <2>. QED BY <1>1, <2>1
<1>6. Fills(lpn, len, dst, align) <=> new.status = "CLOSE"
  BY DEF Fills
<1>. HIDE DEF new, freed, src
<1>7. /\ \A pg \in PG : ~(freed /\ pg = src) =>
           pg_list'[pg].next_ofs = IF pg = dst THEN new.next_ofs ELSE pg_list[pg].next_ofs
      /\ freed => pg_list'[src].next_ofs = 0
  BY <1>3 DEF SameFields, InitPG
<1>8. RoomInv'
  <2>. SUFFICES ASSUME NEW pg \in PG, pg_list'[pg].status \in {"FREE", "OPEN"}
                PROVE  pg_list'[pg].next_ofs + SectsPerLp <= PgCwNum
    BY DEF RoomInv
  <2>1. CASE freed /\ pg = src
    BY <1>0, <1>7, <2>1
  <2>2. CASE ~(freed /\ pg = src) /\ pg = dst
    BY <1>2, <1>4, <1>6, <1>7, <2>2
  <2>3. CASE ~(freed /\ pg = src) /\ pg # dst
    BY <1>4, <1>7, <2>3 DEF RoomInv
  <2>. QED BY <2>1, <2>2, <2>3
<1>9. ASSUME NEW p \in LP, l2p_tbl'[p].pgn # NoPG
      PROVE  /\ l2p_tbl'[p].pgn \in PG
             /\ pg_list'[l2p_tbl'[p].pgn].next_ofs =
                  IF l2p_tbl'[p].pgn = dst THEN new.next_ofs ELSE pg_list[l2p_tbl'[p].pgn].next_ofs
  <2>1. l2p_tbl'[p].pgn \in PG
    BY <1>1, <1>5, <1>9 DEF VPA
  <2>2. ~(freed /\ l2p_tbl'[p].pgn = src)
    <3>1. \A pg \in PG : freed /\ pg = src => Mapped(pg)' = {}
      BY <1>4 DEF CompBooksInv, NoPageInFreePG
    <3>. QED BY <2>1, <3>1 DEF Mapped
  <2>. QED BY <1>7, <2>1, <2>2
<1>10. ASSUME NEW p \in LP, p # lpn, l2p_tbl[p].pgn # NoPG
       PROVE  /\ l2p_tbl'[p] = l2p_tbl[p] /\ l2p_tbl[p].pgn \in PG
              /\ l2p_tbl[p].ofs \in Nat /\ l2p_tbl[p].len \in Nat
              /\ l2p_tbl[p].ofs + l2p_tbl[p].len <= pg_list[l2p_tbl[p].pgn].next_ofs
  <2>1. l2p_tbl[p] \in VPA /\ l2p_tbl[p].pgn \in PG
    BY <1>1, <1>10 DEF VPA
  <2>. QED BY <1>5, <1>10, <2>1 DEF VPA, SectorsDisjoint
<1>11. l2p_tbl'[lpn].pgn = dst /\ l2p_tbl'[lpn].ofs = pg_list[dst].next_ofs /\ l2p_tbl'[lpn].len = len
  BY <1>5
<1>12. ASSUME NEW a \in LP, l2p_tbl'[a].pgn # NoPG
       PROVE  l2p_tbl'[a].ofs + l2p_tbl'[a].len <= pg_list'[l2p_tbl'[a].pgn].next_ofs
  <2>1. CASE a = lpn
    BY <1>2, <1>9, <1>11, <1>12, <2>1
  <2>2. CASE a # lpn
    <3>1. l2p_tbl'[a] = l2p_tbl[a] /\ l2p_tbl[a].pgn # NoPG
      BY <1>5, <1>12, <2>2
    <3>2. /\ l2p_tbl[a].pgn \in PG /\ l2p_tbl[a].ofs \in Nat /\ l2p_tbl[a].len \in Nat
          /\ l2p_tbl[a].ofs + l2p_tbl[a].len <= pg_list[l2p_tbl[a].pgn].next_ofs
      BY <1>10, <2>2, <3>1
    <3>3. pg_list'[l2p_tbl[a].pgn].next_ofs =
            IF l2p_tbl[a].pgn = dst THEN new.next_ofs ELSE pg_list[l2p_tbl[a].pgn].next_ofs
      BY <1>9, <1>12, <3>1
    <3>. QED BY <1>1, <1>2, <3>1, <3>2, <3>3
  <2>. QED BY <2>1, <2>2
<1>13. ASSUME NEW a \in LP, NEW b \in LP \ {a}, l2p_tbl'[a].pgn # NoPG,
              l2p_tbl'[b].pgn = l2p_tbl'[a].pgn
       PROVE  \/ l2p_tbl'[a].ofs + l2p_tbl'[a].len <= l2p_tbl'[b].ofs
              \/ l2p_tbl'[b].ofs + l2p_tbl'[b].len <= l2p_tbl'[a].ofs
  <2>1. CASE a = lpn
    <3>1. b # lpn /\ l2p_tbl[b].pgn = dst
      BY <1>5, <1>11, <1>13, <2>1
    <3>. QED BY <1>0, <1>10, <1>11, <2>1, <3>1
  <2>2. CASE b = lpn
    <3>1. a # lpn /\ l2p_tbl[a].pgn = dst
      BY <1>5, <1>11, <1>13, <2>2
    <3>. QED BY <1>0, <1>10, <1>11, <2>2, <3>1
  <2>3. CASE a # lpn /\ b # lpn
    BY <1>5, <1>13, <2>3 DEF SectorsDisjoint
  <2>. QED BY <2>1, <2>2, <2>3
<1>14. SectorsDisjoint'
  BY <1>12, <1>13 DEF SectorsDisjoint
<1>. QED BY <1>8, <1>14

\* Every step of the drive keeps slots, room and extents.
LEMMA CompNextExtents ==
  ASSUME CompTypeInv, CompLedgerInv, CompLedgerInv', CompExtentsInv, FormatLen # 0,
         [CompNext]_compVars
  PROVE  CompExtentsInv'
<1>1. CASE UNCHANGED ftlVars /\ (pc = "failed" => pc' = "failed")
  BY <1>1 DEF CompExtentsInv, SlotsInv, RoomInv, SectorsDisjoint, ftlVars
<1>2. CASE CompUpdate
  <2>. DEFINE dst == openpg[io.type]
  <2>1. /\ FtlTypeOK /\ pc = "update" /\ io.lpn \in LP /\ dst \in PG
        /\ UpdateLen \in 1..SectsPerLp /\ Aligned \in BOOLEAN
        /\ \/ UNCHANGED ftlVars
           \/ /\ ~L2P_UpdateError(io.lpn, UpdateLen, dst)
              /\ L2P_Update(io.lpn, UpdateLen, dst, Aligned)
    BY <1>2, UpdateCases DEF CompTypeInv, TypeInv, SsdTypeOK
  <2>2. /\ UpdateLen \in Nat \ {0} /\ PageCounted(io.lpn) /\ pc # "failed"
        /\ CompBooksInv /\ CompBooksInv' /\ QueuesInv /\ SlotsInv /\ RoomInv /\ SectorsDisjoint
    BY <2>1, SizesAssumption, CompPageCounted DEF CompLedgerInv, CompExtentsInv
  <2>3. CASE /\ ~L2P_UpdateError(io.lpn, UpdateLen, dst)
             /\ L2P_Update(io.lpn, UpdateLen, dst, Aligned)
    <3>1. SlotsInv'
      BY <2>1, <2>2, <2>3, SlotsAfterWrite, Zenon
    <3>2. RoomInv' /\ SectorsDisjoint'
      BY <2>1, <2>2, <2>3, CompUpdateExtents, Zenon
    <3>. QED BY <3>1, <3>2 DEF CompExtentsInv
  <2>. QED BY <1>1, <2>1, <2>2, <2>3
<1>3. CASE Inherited
  BY <1>3, InheritedExtents
<1>4. CASE CompRewrite \/ (\E lpn \in LP : CompHostWrite(lpn)) \/ UNCHANGED pageVars
  <2>1. UNCHANGED ftlVars /\ (pc = "failed" => pc' = "failed")
    BY <1>4 DEF CompRewrite, CompHostWrite, pageVars, vars, ctlVars
  <2>. QED BY <1>1, <2>1
<1>. QED BY <1>2, <1>3, <1>4, ReadsLeaveAlone DEF CompNext

LEMMA CompExtentsCorrect ==
  ASSUME FormatLen # 0
  PROVE  CompSpec => [](CompTypeInv /\ CompLedgerInv /\ CompExtentsInv)
<1>1. CompInit => CompTypeInv /\ CompLedgerInv /\ CompExtentsInv
  BY CompInitLedger, CompInitExtents
<1>2. CompTypeInv /\ CompLedgerInv /\ CompExtentsInv /\ [CompNext]_compVars =>
        (CompTypeInv /\ CompLedgerInv /\ CompExtentsInv)'
  BY CompNextType, CompNextLedger, CompNextExtents DEF CompLedgerInv, CompBooksInv
<1>. QED BY <1>1, <1>2, PTL DEF CompSpec

\* On every compressing drive, whatever pages compress to and however a flush is
\* padded, two logical pages never share a sector of a PG, and none lies beyond the
\* write position.
THEOREM CompNoOverlap ==
  ASSUME FormatLen # 0
  PROVE  CompSpec => []SectorsDisjoint
<1>1. CompExtentsInv => SectorsDisjoint
  BY DEF CompExtentsInv
<1>. QED BY <1>1, CompExtentsCorrect, PTL

\* On every compressing drive, every PG is in exactly the one queue or slot its
\* status names.
THEOREM CompPlacesHold ==
  ASSUME FormatLen # 0
  PROVE  CompSpec => []PlaceMatchesStatus
<1>1. CompTypeInv /\ CompLedgerInv /\ CompExtentsInv => PlaceMatchesStatus
  BY PlacedOnce DEF CompTypeInv, CompLedgerInv, CompExtentsInv, PlacesInv
<1>. QED BY <1>1, CompExtentsCorrect, PTL

\* L2P_Update is never asked for what it refuses: an error there would leave a
\* buffer written out in part.
CompWritesAreAccepted ==
  pc = "update" => ~L2P_UpdateError(io.lpn, UpdateLen, openpg[io.type])

\* On every compressing drive each page of a flush finds room, whatever it
\* compresses to and whatever the pads before it have taken.
THEOREM CompWritesAccepted ==
  ASSUME FormatLen # 0
  PROVE  CompSpec => []CompWritesAreAccepted
<1>1. ASSUME CompTypeInv, CompLedgerInv, CompExtentsInv, pc = "update"
      PROVE  ~L2P_UpdateError(io.lpn, UpdateLen, openpg[io.type])
  <2>. DEFINE dst == openpg[io.type]
              old == l2p_tbl[io.lpn]
              len == UpdateLen
  <2>1. FtlTypeOK /\ io.lpn \in LP /\ io.type \in IoType /\ dst \in PG
    BY <1>1 DEF CompTypeInv, TypeInv, ControlInv, SsdTypeOK, FtlTypeOK
  <2>2. len \in 1..SectsPerLp
    <3>1. CASE Formatting
      BY <3>1, CompAssumption, SizesAssumption DEF UpdateLen
    <3>2. CASE ~Formatting
      <4>1. Len(len_list) \in 1..Len(Buffer(io.type)) /\ len_list \in Seq(1..SectsPerLp)
        BY <1>1, <3>2 DEF CompTypeInv, FlushInv, BuffersTypeOK
      <4>2. len_list # <<>>
        BY <4>1, EmptySeq
      <4>. QED BY <3>2, <4>1, <4>2, HeadTailProperties DEF UpdateLen
    <3>. QED BY <3>1, <3>2
  <2>3. /\ pg_list[dst].status = "OPEN" /\ pg_list[dst].next_ofs \in Nat
        /\ pg_list[dst].next_ofs + SectsPerLp <= PgCwNum
    BY <1>1, <2>1 DEF CompExtentsInv, SlotsInv, RoomInv, FtlTypeOK, PG_Info
  <2>4. old.pgn # NoPG => pg_list[old.pgn].vs_num >= old.len
    <3>. SUFFICES ASSUME old.pgn # NoPG PROVE pg_list[old.pgn].vs_num >= old.len
      OBVIOUS
    <3>1. old.pgn \in PG /\ old.len \in Nat
      BY <2>1 DEF FtlTypeOK, VPA
    <3>2. /\ Cardinality(ValidSectors(old.pgn)) = Cardinality(Others(io.lpn, old.pgn)) + old.len
          /\ Cardinality(Others(io.lpn, old.pgn)) \in Nat
      BY <1>1, <2>1, <3>1, SectorsOf DEF CompLedgerInv, CompBooksInv
    <3>3. pg_list[old.pgn].vs_num = Cardinality(ValidSectors(old.pgn))
      BY <1>1, <3>1 DEF CompLedgerInv, CompBooksInv, CompAccounting
    <3>. QED BY <3>1, <3>2, <3>3
  <2>5. pg_list[dst].next_ofs + len <= PgCwNum
    <3>. HIDE DEF len, dst
    <3>. QED BY <2>2, <2>3, SizesAssumption, PgSizeAssumption
  <2>6. old.pgn # NoPG => ~(pg_list[old.pgn].vs_num < old.len)
    <3>. SUFFICES ASSUME old.pgn # NoPG PROVE ~(pg_list[old.pgn].vs_num < old.len)
      OBVIOUS
    <3>1. old.pgn \in PG /\ old.len \in Nat /\ pg_list[old.pgn].vs_num \in Nat
      BY <2>1 DEF FtlTypeOK, VPA, PG_Info
    <3>. QED BY <2>4, <3>1
  <2>7. ~(pg_list[dst].next_ofs + len > PgCwNum)
    <3>. HIDE DEF len, dst
    <3>. QED BY <2>2, <2>3, <2>5, SizesAssumption, PgSizeAssumption
  <2>. QED BY <2>3, <2>6, <2>7 DEF L2P_UpdateError
<1>2. CompTypeInv /\ CompLedgerInv /\ CompExtentsInv => CompWritesAreAccepted
  BY <1>1 DEF CompWritesAreAccepted
<1>. QED BY <1>2, CompExtentsCorrect, PTL

-----------------------------------------------------------------------------
(***************************************************************************)
(* What an SSD of whole pages promises holds of the compressing drive too: *)
(* the order of the close queue, the segment log, the balance of blocks.   *)
(* The steps it inherits are those of Ssd; left is L2P_Update with a       *)
(* length and a pad.                                                       *)
(***************************************************************************)

CompOrderInv == RankedInv /\ PoolInv

\* Nothing it inherits is the lp_write of SSD.
LEMMA InheritedNotWrite == Inherited => Next /\ ~LpWrite
<1>. SUFFICES ASSUME Inherited PROVE pc # "update"
  BY InheritedSteps DEF LpWrite
<1>1. CASE FormatPage \/ FormatDone \/ GetOpenPG_Present \/ GetOpenPG_Build
  BY <1>1 DEF FormatPage, FormatDone, GetOpenPG_Present, GetOpenPG_Build
<1>2. CASE GetReWriteReq \/ Reload \/ ReloadDone
  BY <1>2 DEF GetReWriteReq, Reload, ReloadDone
<1>3. CASE Collect \/ CollectNextPG \/ CollectDone \/ RewriteDone
  BY <1>3 DEF Collect, CollectNextPG, CollectDone, RewriteDone
<1>4. CASE (\E num \in 0..MaxErase : EraseReq(num)) \/ Erase
  BY <1>4 DEF EraseReq, Erase
<1>. QED BY <1>1, <1>2, <1>3, <1>4 DEF Inherited

\* A page that is flushed goes where the log puts it, whatever it is long: PGs stay
\* ranked, no closed PG becomes a victim, and blocks come back as they were bound.
LEMMA CompUpdateOrder ==
  ASSUME CompTypeInv, CompLedgerInv, CompOrderInv, FormatLen # 0, CompUpdate
  PROVE  /\ CompOrderInv'
         /\ \A pg \in PG : pg_list'[pg].status = "RCM" => pg_list[pg].status # "CLOSE"
         /\ [Log!LogNext]_<<[lpn \in LP |-> l2p_tbl[lpn].pgn], [pg \in PG |-> pg_list[pg].status]>>
         /\ [Counts!CountsNext]_<<total_free, total_invalid, erase_left>>
<1>. DEFINE lpn   == io.lpn
            len   == UpdateLen
            dst   == openpg[io.type]
            align == Aligned
<1>1. /\ FtlTypeOK /\ lpn \in LP /\ dst \in PG
      /\ len \in 1..SectsPerLp /\ align \in BOOLEAN
      /\ pc = "update" /\ erase_left' = erase_left
      /\ \/ pc' = "failed" /\ UNCHANGED ftlVars
         \/ /\ ~L2P_UpdateError(lpn, len, dst) /\ L2P_Update(lpn, len, dst, align)
            /\ pc' \in {"format", "open", "gc", "rewrite"}
  BY UpdateCases DEF CompTypeInv, TypeInv, SsdTypeOK, AfterLpWrite
<1>2. /\ len \in Nat \ {0} /\ PageCounted(lpn) /\ QueuesInv /\ NoPageInFreePG /\ MappedCounted
      /\ RankedInv /\ PoolInv /\ TypeInv
  BY <1>1, SizesAssumption, CompPageCounted
     DEF CompTypeInv, CompLedgerInv, CompBooksInv, CompAccounting, MappedCounted, CompOrderInv
<1>. HIDE DEF lpn, len, dst, align
<1>3. CASE pc' = "failed" /\ UNCHANGED ftlVars
  <2>1. UNCHANGED <<l2p_tbl, pg_list, close_pg_que, total_free, total_invalid, erase_left>>
    BY <1>1, <1>3 DEF ftlVars, queueVars
  <2>2. RankedInv' /\ PoolInv'
    BY <1>1, <1>2, <1>3, <2>1, NoRankedStep, NoPoolStep
  <2>. QED BY <2>1, <2>2 DEF CompOrderInv
<1>4. CASE /\ ~L2P_UpdateError(lpn, len, dst) /\ L2P_Update(lpn, len, dst, align)
           /\ pc' \in {"format", "open", "gc", "rewrite"}
  <2>1. RankedInv'
    BY <1>1, <1>2, <1>4, UpdateRanked, Zenon
  <2>2. \A pg \in PG : pg_list'[pg].status =
          IF Releases(lpn, dst) /\ pg = l2p_tbl[lpn].pgn THEN "FREE"
          ELSE IF pg = dst THEN IF Fills(lpn, len, dst, align) THEN "CLOSE" ELSE "OPEN"
          ELSE pg_list[pg].status
    BY <1>1, <1>2, <1>4, StatusAfterWrite
  <2>3. Log!LogNext
    BY <1>1, <1>2, <1>4, WriteStep, Zenon
  <2>4. pc' \notin {"erase", "failed"}
    BY <1>4
  <2>5. /\ Counts!Dissolve \/ UNCHANGED <<total_free, total_invalid, erase_left>>
        /\ PoolInv'
    BY <1>1, <1>2, <1>4, <2>4, UpdateStep, Zenon
  <2>. QED BY <2>1, <2>2, <2>3, <2>5 DEF CompOrderInv, Counts!CountsNext
<1>. QED BY <1>1, <1>3, <1>4

(* Every step of the drive keeps the order and the balance and is a step of *)
(* the log and of the counters, or none.                                    *)
LEMMA CompNextOrder ==
  ASSUME CompTypeInv, CompLedgerInv, CompOrderInv, FormatLen # 0, [CompNext]_compVars
  PROVE  /\ CompOrderInv'
         /\ \/ ReloadRcmTarget
            \/ \A pg \in PG : pg_list'[pg].status = "RCM" => pg_list[pg].status # "CLOSE"
         /\ [Log!LogNext]_<<[lpn \in LP |-> l2p_tbl[lpn].pgn], [pg \in PG |-> pg_list[pg].status]>>
         /\ [Counts!CountsNext]_<<total_free, total_invalid, erase_left>>
<1>1. TypeInv /\ QueuesInv /\ MappedCounted /\ RankedInv /\ PoolInv
  BY DEF CompTypeInv, CompLedgerInv, CompBooksInv, CompAccounting, MappedCounted, CompOrderInv
<1>2. CASE Inherited
  <2>1. Next /\ ~LpWrite
    BY <1>2, InheritedNotWrite
  <2>2. /\ RankedInv'
        /\ Reload \/ \A pg \in PG : pg_list'[pg].status = "RCM" => pg_list[pg].status # "CLOSE"
    BY <1>1, <2>1, RankedUnlessWrite
  <2>3. [Log!LogNext]_<<[lpn \in LP |-> l2p_tbl[lpn].pgn], [pg \in PG |-> pg_list[pg].status]>>
    BY <1>1, <2>1, LogUnlessWrite
  <2>4. PoolInv' /\ [Counts!CountsNext]_<<total_free, total_invalid, erase_left>>
    BY <1>1, <2>1, CountsUnlessWrite
  <2>. QED BY <2>2, <2>3, <2>4 DEF CompOrderInv, Reload
<1>3. CASE CompUpdate
  BY <1>3, CompUpdateOrder
<1>4. CASE CompRewrite \/ \E lpn \in LP : CompHostWrite(lpn)
  <2>1. /\ UNCHANGED ftlVars /\ erase_left' = erase_left
        /\ pc \notin {"failed", "erase"} /\ pc' # "erase"
    BY <1>4 DEF CompRewrite, CompHostWrite, Push, AfterLpWrite
  <2>2. UNCHANGED <<l2p_tbl, pg_list, close_pg_que, total_free, total_invalid, erase_left>>
    BY <2>1 DEF ftlVars, queueVars
  <2>3. RankedInv' /\ PoolInv'
    BY <1>1, <2>1, <2>2, NoRankedStep, NoPoolStep
  <2>. QED BY <2>2, <2>3 DEF CompOrderInv
<1>5. CASE UNCHANGED pageVars
  <2>1. /\ UNCHANGED <<l2p_tbl, pg_list, close_pg_que>>
        /\ UNCHANGED <<total_free, total_invalid, erase_left, pc>>
    BY <1>5 DEF pageVars, vars, ftlVars, queueVars, ctlVars
  <2>2. RankedInv'
    BY <1>1, <2>1, NoRankedStep
  <2>3. PoolInv'
    BY <1>1, <2>1 DEF PoolInv, Held
  <2>. QED BY <2>1, <2>2, <2>3 DEF CompOrderInv
<1>. QED BY <1>2, <1>3, <1>4, <1>5, ReadsLeaveAlone DEF CompNext

(* From the first state on. *)
LEMMA CompOrderCorrect ==
  ASSUME FormatLen # 0
  PROVE  CompSpec => [](CompTypeInv /\ CompLedgerInv /\ CompOrderInv)
<1>1. CompInit => CompTypeInv /\ CompLedgerInv /\ CompOrderInv
  BY CompInitLedger, InitRanked, InitPool DEF CompInit, CompOrderInv
<1>2. CompTypeInv /\ CompLedgerInv /\ CompOrderInv /\ [CompNext]_compVars =>
        (CompTypeInv /\ CompLedgerInv /\ CompOrderInv)'
  BY CompNextType, CompNextLedger, CompNextOrder DEF CompLedgerInv, CompBooksInv
<1>. QED BY <1>1, <1>2, PTL DEF CompSpec

\* On every compressing drive do_gc makes a victim of the closed PG with the fewest
\* valid sectors, although it compares none: each page a closed PG loses, however
\* long, ranks it anew.
THEOREM CompPicksTheEmptiest ==
  ASSUME FormatLen # 0
  PROVE  CompSpec => VictimIsEmptiest
<1>. DEFINE A == \A pg, other \in PG :
                   /\ pg_list[pg].status = "CLOSE" /\ pg_list'[pg].status = "RCM"
                   /\ pg_list[other].status = "CLOSE"
                   => pg_list[pg].vs_num <= pg_list[other].vs_num
<1>1. CompTypeInv /\ CompLedgerInv /\ CompOrderInv /\ [CompNext]_compVars => [A]_vars
  <2>. SUFFICES ASSUME CompTypeInv, CompLedgerInv, CompOrderInv, [CompNext]_compVars,
                       NEW pg \in PG, NEW other \in PG,
                       pg_list[pg].status = "CLOSE", pg_list'[pg].status = "RCM",
                       pg_list[other].status = "CLOSE"
                PROVE  pg_list[pg].vs_num <= pg_list[other].vs_num
    OBVIOUS
  <2>1. FtlTypeOK /\ QueuesInv /\ RankedInv
    BY DEF CompTypeInv, TypeInv, SsdTypeOK, CompLedgerInv, CompOrderInv
  <2>2. ReloadRcmTarget
    BY CompNextOrder
  <2>. QED BY <2>1, <2>2, ChoiceOfVictim
<1>. QED BY <1>1, CompOrderCorrect, PTL DEF CompSpec, VictimIsEmptiest

\* Every compressing drive is a segment log, with its buffers, lengths and pads: a
\* PG is freed by, and only by, the flush of a page that takes its last one.
THEOREM CompImplementsLog ==
  ASSUME FormatLen # 0
  PROVE  CompSpec => ImplementsLog
<1>1. CompInit => Log!LogInit
  BY DEF CompInit, Init, InitFTL, InitPG, Log!LogInit
<1>2. CompTypeInv /\ CompLedgerInv /\ CompOrderInv /\ [CompNext]_compVars =>
        [Log!LogNext]_<<[lpn \in LP |-> l2p_tbl[lpn].pgn], [pg \in PG |-> pg_list[pg].status]>>
  BY CompNextOrder
<1>. QED BY <1>1, <1>2, CompOrderCorrect, PTL DEF CompSpec, ImplementsLog, Log!LogSpec

\* On every compressing drive the counters do_gc steers by are those of a pool that
\* binds and dissolves whole PGs, however full the PGs it dissolves were written.
THEOREM CompImplementsCounts ==
  ASSUME FormatLen # 0
  PROVE  CompSpec => ImplementsCounts
<1>1. CompInit => Counts!CountsInit
  BY DEF CompInit, Init, InitFTL, Counts!CountsInit
<1>2. CompTypeInv /\ CompLedgerInv /\ CompOrderInv /\ [CompNext]_compVars =>
        [Counts!CountsNext]_<<total_free, total_invalid, erase_left>>
  BY CompNextOrder
<1>. QED BY <1>1, <1>2, CompOrderCorrect, PTL DEF CompSpec, ImplementsCounts, Counts!CountsSpec
=============================================================================
