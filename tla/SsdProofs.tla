------------------------------ MODULE SsdProofs ------------------------------
(***************************************************************************)
(* What holds of the SSD for every number of pages, groups and blocks: the *)
(* lemmas about the operators of Ftl, the types of the variables and the   *)
(* books every PG keeps; then its queues, as a segment log and in the order*)
(* of the ranking, and the counters of the block pool; then reclamation:   *)
(* where a PG is, what the scan of the victims copies, and what do_gc has  *)
(* achieved when it returns.                                               *)
(***************************************************************************)
EXTENDS Ssd, SequenceTheorems, FiniteSetTheorems, WellFoundedInduction, TLAPS

-----------------------------------------------------------------------------
(***************************************************************************)
(* Lemmas about the operators of Ftl: what the queue operations return,    *)
(* and what the pieces of L2P_Update do to a PG.                           *)
(***************************************************************************)

\* Every non-empty set of naturals has its minimum: the choice in Min is met.
LEMMA MinOfNaturals ==
  ASSUME NEW I, I \subseteq Nat, I # {}
  PROVE  /\ Min(I) \in I
         /\ \A i \in I : Min(I) <= i
<1>1. PICK x \in I : \A y \in I : <<y, x>> \notin OpToRel(<, Nat)
  BY NatLessThanWellFounded, WFMin, Zenon
<1>2. \A y \in I : ~(y < x)
  BY <1>1, Zenon DEF OpToRel
<1>3. \A y \in I : x <= y
  BY <1>2
<1>. QED BY <1>3 DEF Min

\* The position of the first occurrence of e in s.
Position(s, e) == Min({i \in 1..Len(s) : s[i] = e})

\* SelectInSeq finds that position, and it is one of the sequence.
LEMMA FirstPosition ==
  ASSUME NEW S, NEW s \in Seq(S), NEW e, Contains(s, e)
  PROVE  /\ Position(s, e) \in 1..Len(s)
         /\ s[Position(s, e)] = e
         /\ \A j \in 1..Len(s) : s[j] = e => Position(s, e) <= j
<1>. DEFINE I == {i \in 1..Len(s) : s[i] = e}
<1>1. I # {} /\ I \subseteq Nat
  BY DEF Contains
<1>2. Min(I) \in I /\ \A i \in I : Min(I) <= i
  BY <1>1, MinOfNaturals
<1>. QED BY <1>2 DEF Position

\* RemoveFirst yields a shorter sequence over the same elements.
LEMMA RemoveFirstProperties ==
  ASSUME NEW S, NEW s \in Seq(S), NEW e
  PROVE  /\ RemoveFirst(s, e) \in Seq(S)
         /\ ~Contains(s, e) => RemoveFirst(s, e) = s
         /\ Contains(s, e) => Len(RemoveFirst(s, e)) = Len(s) - 1
<1>1. CASE ~Contains(s, e)
  BY <1>1 DEF Contains, RemoveFirst
<1>2. CASE Contains(s, e)
  <2>. DEFINE i == Position(s, e)
  <2>1. i \in 1..Len(s)
    BY <1>2, FirstPosition
  <2>2. RemoveFirst(s, e) = SubSeq(s, 1, i - 1) \o SubSeq(s, i + 1, Len(s))
    BY <1>2 DEF Contains, RemoveFirst, RemoveAt, SelectInSeq, Position
  <2>. HIDE DEF i
  <2>3. Len(s) \in Nat /\ \A j \in 1..Len(s) : s[j] \in S
    BY LenProperties, ElementOfSeq
  <2>4. SubSeq(s, 1, i - 1) \in Seq(S) /\ Len(SubSeq(s, 1, i - 1)) = i - 1
    BY <2>1, <2>3, SubSeqProperties
  <2>5. SubSeq(s, i + 1, Len(s)) \in Seq(S) /\ Len(SubSeq(s, i + 1, Len(s))) = Len(s) - i
    BY <2>1, <2>3, SubSeqProperties
  <2>6. /\ RemoveFirst(s, e) \in Seq(S)
        /\ Len(RemoveFirst(s, e)) = (i - 1) + (Len(s) - i)
    BY <2>2, <2>4, <2>5, ConcatProperties
  <2>. QED BY <1>2, <2>1, <2>3, <2>6
<1>. QED BY <1>1, <1>2

\* InsertAt at a position of the sequence, or just behind it.
LEMMA InsertAtType ==
  ASSUME NEW S, NEW s \in Seq(S), NEW i \in 1..(Len(s) + 1), NEW e \in S
  PROVE  /\ InsertAt(s, i, e) \in Seq(S)
         /\ Len(InsertAt(s, i, e)) = Len(s) + 1
<1>1. Len(s) \in Nat /\ \A j \in 1..Len(s) : s[j] \in S
  BY LenProperties, ElementOfSeq
<1>. DEFINE front == SubSeq(s, 1, i - 1)
            back  == SubSeq(s, i, Len(s))
<1>2. front \in Seq(S) /\ Len(front) = i - 1
  BY <1>1, SubSeqProperties
<1>3. back \in Seq(S) /\ Len(back) = Len(s) - i + 1
  BY <1>1, SubSeqProperties
<1>4. InsertAt(s, i, e) = front \o <<e>> \o back
  BY DEF InsertAt
<1>. HIDE DEF front, back
<1>. DEFINE head == front \o <<e>>
<1>5. head \in Seq(S) /\ Len(head) = i
  BY <1>1, <1>2, ConcatProperties
<1>. HIDE DEF head
<1>6. head \o back \in Seq(S) /\ Len(head \o back) = Len(head) + Len(back)
  BY <1>3, <1>5, ConcatProperties, Zenon
<1>7. InsertAt(s, i, e) = head \o back
  BY <1>4 DEF head
<1>. QED BY <1>1, <1>3, <1>5, <1>6, <1>7

\* UpdateCloseRanking keeps the close queue a queue of PGs, one longer than it
\* was if the PG was not queued and as long as it was otherwise.
LEMMA UpdateCloseRankingType ==
  ASSUME NEW queue \in Seq(PG), NEW pg \in PG, NEW pgs
  PROVE  /\ UpdateCloseRanking(queue, pg, pgs) \in Seq(PG)
         /\ Len(UpdateCloseRanking(queue, pg, pgs)) =
              IF Contains(queue, pg) THEN Len(queue) ELSE Len(queue) + 1
<1>. DEFINE rest  == RemoveFirst(queue, pg)
            start == IF Contains(queue, pg) THEN Position(queue, pg) ELSE 1
            stops == {i \in start..Len(rest) : pgs[pg].vs_num >= pgs[rest[i]].vs_num}
            at    == IF stops = {} THEN Len(rest) + 1 ELSE Min(stops)
<1>1. /\ rest \in Seq(PG)
      /\ Len(rest) = IF Contains(queue, pg) THEN Len(queue) - 1 ELSE Len(queue)
  BY RemoveFirstProperties
<1>2. start \in Nat \ {0}
  BY FirstPosition, LenProperties
<1>3. UpdateCloseRanking(queue, pg, pgs) = InsertAt(rest, at, pg)
  BY DEF UpdateCloseRanking, SelectInSeq, Position, Contains
<1>. HIDE DEF rest, start
<1>4. Len(rest) \in Nat /\ Len(queue) \in Nat
  BY <1>1, LenProperties
<1>5. at \in 1..(Len(rest) + 1)
  <2>1. stops \subseteq 1..Len(rest)
    BY <1>2, <1>4
  <2>2. stops \subseteq Nat
    BY <2>1
  <2>. HIDE DEF stops
  <2>3. stops # {} => Min(stops) \in stops
    BY <2>2, MinOfNaturals
  <2>4. CASE stops = {}
    BY <1>4, <2>4
  <2>5. CASE stops # {}
    <3>1. at \in 1..Len(rest)
      BY <2>1, <2>3, <2>5
    <3>. HIDE DEF at
    <3>. QED BY <1>4, <3>1
  <2>. QED BY <2>4, <2>5
<1>. HIDE DEF at
<1>6. /\ InsertAt(rest, at, pg) \in Seq(PG)
      /\ Len(InsertAt(rest, at, pg)) = Len(rest) + 1
  BY <1>1, <1>5, InsertAtType
<1>. QED BY <1>1, <1>3, <1>4, <1>6

-----------------------------------------------------------------------------
(* A PG that was written to, or lost a page, or was initialised *)

(* The PG record that InitPG builds is a well-typed one. *)
LEMMA InitPGType == InitPG \in PG_Info
BY SizesAssumption DEF InitPG, PG_Info, Reverse_Info, IoType

(* The filler of the last, rounded sector is a natural number. *)
LEMMA PadType == ASSUME NEW next \in Nat PROVE Pad(next) \in Nat
BY SizesAssumption DEF Pad

\* Written keeps a PG well-formed, and the write position within the PG.
LEMMA WrittenType ==
  ASSUME NEW pg \in PG_Info, NEW lpn \in LP, NEW len \in Nat, NEW pad \in Nat
  PROVE  Written(pg, lpn, len, pad) \in PG_Info
<1>. DEFINE entry == [lpn |-> lpn, len |-> len + pad]
<1>1. entry \in Reverse_Info
  BY DEF Reverse_Info
<1>. HIDE DEF entry
<1>2. Append(pg.p2l_tbl, entry) \in Seq(Reverse_Info)
  BY <1>1 DEF PG_Info
<1>. DEFINE table  == Append(pg.p2l_tbl, entry)
            next   == pg.next_ofs + len + pad
            full   == next + SectsPerLp >= PgCwNum
            ofs    == IF full THEN PgCwNum ELSE next
            status == IF full THEN "CLOSE" ELSE pg.status
<1>3. ofs \in Nat
  BY PgSizeAssumption DEF PG_Info
<1>4. status \in {"FREE", "OPEN", "CLOSE", "RCM"}
  BY DEF PG_Info
<1>5. Written(pg, lpn, len, pad) =
        [pg EXCEPT !.p2l_tbl = table, !.vs_num = @ + len, !.lp_num = @ + 1,
                   !.next_ofs = ofs, !.status = status]
  BY DEF Written, entry
<1>. HIDE DEF table, ofs, status
<1>6. pg.vs_num + len \in Nat /\ pg.lp_num + 1 \in Nat
  BY DEF PG_Info
<1>7. table \in Seq(Reverse_Info)
  BY <1>2 DEF table
<1>. QED BY <1>3, <1>4, <1>5, <1>6, <1>7 DEF PG_Info

\* Released does so when the PG has the page to lose.
LEMMA ReleasedType ==
  ASSUME NEW pg \in PG_Info, NEW len \in Nat, pg.vs_num >= len, pg.lp_num # 0
  PROVE  Released(pg, len) \in PG_Info
<1>1. pg.vs_num - len \in Nat /\ pg.lp_num - 1 \in Nat
  BY DEF PG_Info
<1>. QED BY <1>1 DEF Released, PG_Info

-----------------------------------------------------------------------------
(* The methods keep the tables and queues well-formed *)

(* What BuildPG does to the PG table, the free queue and the pool keeps their types. *)
LEMMA TakePGType ==
  ASSUME NEW type \in IoType, FtlTypeOK, TakePG(type)
  PROVE  /\ Head(free_pg_que) \in PG /\ free_pg_que' \in Seq(PG)
         /\ pg_list' \in [PG -> PG_Info]
         /\ total_free' \in Nat
<1>. DEFINE pg == Head(free_pg_que)
            bound == IF EnoughFreePB THEN PgPbNum ELSE total_free
<1>1. pg \in PG /\ free_pg_que' \in Seq(PG)
  BY HeadTailProperties DEF TakePG, FtlTypeOK
<1>2. bound \in 0..PgPbNum /\ bound <= total_free
  BY SizesAssumption DEF EnoughFreePB, FtlTypeOK
<1>3. pg_list' = [pg_list EXCEPT ![pg].status = "OPEN", ![pg].type = type, ![pg].pb_num = bound]
  BY DEF TakePG
<1>4. total_free' = total_free - bound
  BY DEF TakePG
<1>5. total_free' \in Nat
  BY <1>2, <1>4 DEF FtlTypeOK
<1>. HIDE DEF bound
<1>6. pg_list' \in [PG -> PG_Info]
  <2>. HIDE DEF pg
  <2>1. pg_list[pg] \in PG_Info
    BY <1>1 DEF FtlTypeOK
  <2>2. [pg_list[pg] EXCEPT !.status = "OPEN", !.type = type, !.pb_num = bound] \in PG_Info
    BY <1>2, <2>1 DEF PG_Info
  <2>3. pg_list' = [pg_list EXCEPT ![pg] =
                      [pg_list[pg] EXCEPT !.status = "OPEN", !.type = type, !.pb_num = bound]]
    BY <1>1, <1>3 DEF FtlTypeOK, PG_Info
  <2>. QED BY <1>1, <2>2, <2>3 DEF FtlTypeOK
<1>. QED BY <1>1, <1>5, <1>6

(* BuildPG keeps the types of the PG table and of the queues, free PG or not. *)
LEMMA BuildPGType ==
  ASSUME NEW type \in IoType, FtlTypeOK, BuildPG(type)
  PROVE  /\ FtlTypeOK'
         /\ EnoughFreePB => openpg'[type] \in PG
<1>1. /\ Head(free_pg_que) \in PG /\ free_pg_que' \in Seq(PG)
      /\ pg_list' \in [PG -> PG_Info] /\ total_free' \in Nat
  BY TakePGType DEF BuildPG
<1>2. openpg' = [openpg EXCEPT ![type] = IF EnoughFreePB THEN Head(free_pg_que) ELSE NoPG]
  BY DEF BuildPG
<1>3. openpg' \in [IoType -> PG \cup {NoPG}] /\ (EnoughFreePB => openpg'[type] \in PG)
  BY <1>1, <1>2 DEF FtlTypeOK
<1>. QED BY <1>1, <1>3 DEF FtlTypeOK, BuildPG, TakePG

(* CloseToInvalid keeps types: a released PG returns to free_pg_que and its blocks are counted invalid. *)
LEMMA CloseToInvalidType ==
  ASSUME NEW pg \in PG, NEW pgs \in [PG -> PG_Info], NEW queue \in Seq(PG),
         FtlTypeOK, CloseToInvalid(pg, pgs, queue)
  PROVE  /\ pg_list' \in [PG -> PG_Info] /\ total_invalid' \in Nat
         /\ free_pg_que' \in Seq(PG) /\ close_pg_que' \in Seq(PG)
         /\ rcm_pg_que' \in Seq(PG) /\ rcm_cmp_pg_que' \in Seq(PG)
<1>1. pg_list' \in [PG -> PG_Info]
  BY InitPGType DEF CloseToInvalid
<1>2. total_invalid' \in Nat
  <2>1. pgs[pg].pb_num \in Nat
    BY SizesAssumption DEF PG_Info
  <2>. QED BY <2>1 DEF CloseToInvalid, FtlTypeOK
<1>3. free_pg_que' \in Seq(PG)
  BY AppendProperties DEF CloseToInvalid, FtlTypeOK
<1>4. /\ RemoveFirst(queue, pg) \in Seq(PG)
      /\ RemoveFirst(rcm_pg_que, pg) \in Seq(PG)
      /\ RemoveFirst(rcm_cmp_pg_que, pg) \in Seq(PG)
  BY RemoveFirstProperties, Zenon DEF FtlTypeOK
<1>. QED BY <1>1, <1>2, <1>3, <1>4 DEF CloseToInvalid, FtlTypeOK

(* L2P_Update keeps types, when none of the errors it checks for is present. *)
LEMMA L2P_UpdateType ==
  ASSUME NEW lpn \in LP, NEW len \in Nat, NEW dst \in PG, NEW align \in BOOLEAN,
         FtlTypeOK, ~L2P_UpdateError(lpn, len, dst), L2P_Update(lpn, len, dst, align)
  PROVE  FtlTypeOK'
<1>. DEFINE old     == l2p_tbl[lpn]
            src     == old.pgn
            ofs     == pg_list[dst].next_ofs
            pad     == IF align THEN Pad(ofs + len) ELSE 0
            written == [pg_list EXCEPT ![dst] = Written(@, lpn, len, pad)]
            closing == written[dst].status = "CLOSE"
            ranked  == IF closing THEN UpdateCloseRanking(close_pg_que, dst, written)
                                  ELSE close_pg_que
            drops   == src # NoPG /\ written[src].lp_num # 0
            dropped == [written EXCEPT ![src] = Released(@, old.len)]
            release == drops /\ dropped[src].vs_num = 0 /\ dropped[src].status # "OPEN"
<1>1. ofs \in Nat /\ old \in VPA
  BY DEF FtlTypeOK, PG_Info
<1>2. pad \in Nat
  BY <1>1, PadType
<1>3. written \in [PG -> PG_Info]
  <2>. HIDE DEF pad
  <2>1. Written(pg_list[dst], lpn, len, pad) \in PG_Info
    BY <1>2, WrittenType DEF FtlTypeOK
  <2>. QED BY <2>1 DEF FtlTypeOK
<1>4. drops => src \in PG /\ old.len \in Nat /\ written[src].vs_num >= old.len
  <2>. SUFFICES ASSUME drops PROVE src \in PG /\ old.len \in Nat /\ written[src].vs_num >= old.len
    OBVIOUS
  <2>1. src \in PG /\ old.len \in Nat
    BY <1>1 DEF VPA
  <2>2. pg_list[src].vs_num \in Nat /\ ~(pg_list[src].vs_num < old.len)
    BY <2>1 DEF L2P_UpdateError, FtlTypeOK, PG_Info
  <2>3. written[src].vs_num = pg_list[src].vs_num \/ written[src].vs_num = pg_list[src].vs_num + len
    BY <2>1 DEF FtlTypeOK, PG_Info, Written
  <2>. QED BY <2>1, <2>2, <2>3
<1>5. ranked \in Seq(PG)
  BY UpdateCloseRankingType DEF FtlTypeOK
<1>. HIDE DEF pad
<1>6. /\ l2p_tbl' = [l2p_tbl EXCEPT ![lpn] = [pgn |-> dst, ofs |-> ofs, len |-> len]]
      /\ openpg' = IF closing THEN [openpg EXCEPT ![pg_list[dst].type] = NoPG] ELSE openpg
      /\ total_free' = total_free
      /\ IF release
         THEN CloseToInvalid(src, dropped, ranked)
         ELSE /\ pg_list' = IF drops THEN dropped ELSE written
              /\ close_pg_que' = IF drops /\ dropped[src].status = "CLOSE"
                                 THEN UpdateCloseRanking(ranked, src, dropped)
                                 ELSE ranked
              /\ UNCHANGED <<free_pg_que, rcm_pg_que, rcm_cmp_pg_que, total_invalid>>
  BY Zenon DEF L2P_Update, OpenToClose, pad
<1>7. l2p_tbl' \in [LP -> VPA]
  BY <1>1, <1>6 DEF FtlTypeOK, VPA
<1>8. openpg' \in [IoType -> PG \cup {NoPG}]
  BY <1>6 DEF FtlTypeOK
<1>. HIDE DEF written, ranked
<1>9. drops => dropped \in [PG -> PG_Info]
  <2>. SUFFICES ASSUME drops PROVE dropped \in [PG -> PG_Info]
    OBVIOUS
  <2>1. written[src] \in PG_Info
    BY <1>3, <1>4
  <2>2. Released(written[src], old.len) \in PG_Info
    BY <2>1, <1>4, ReleasedType
  <2>. QED BY <1>3, <1>4, <2>2
<1>. HIDE DEF dropped
<1>10. CASE release
  <2>1. CloseToInvalid(src, dropped, ranked)
    BY <1>6, <1>10
  <2>2. src \in PG /\ dropped \in [PG -> PG_Info]
    BY <1>4, <1>9, <1>10
  <2>. HIDE DEF src
  <2>3. /\ pg_list' \in [PG -> PG_Info] /\ total_invalid' \in Nat
        /\ free_pg_que' \in Seq(PG) /\ close_pg_que' \in Seq(PG)
        /\ rcm_pg_que' \in Seq(PG) /\ rcm_cmp_pg_que' \in Seq(PG)
    BY <1>5, <2>1, <2>2, CloseToInvalidType, Zenon
  <2>. QED BY <1>6, <1>7, <1>8, <2>3 DEF FtlTypeOK
<1>11. CASE ~release
  <2>1. pg_list' \in [PG -> PG_Info]
    BY <1>3, <1>6, <1>9, <1>11
  <2>2. close_pg_que' \in Seq(PG)
    <3>1. drops => UpdateCloseRanking(ranked, src, dropped) \in Seq(PG)
      BY <1>4, <1>5, UpdateCloseRankingType
    <3>. QED BY <1>5, <1>6, <1>11, <3>1
  <2>. QED BY <1>6, <1>7, <1>8, <1>11, <2>1, <2>2 DEF FtlTypeOK
<1>. QED BY <1>10, <1>11

(* ReloadRcmTarget moves PGs from one well-typed queue to another. *)
LEMMA ReloadRcmTargetType ==
  ASSUME FtlTypeOK, ReloadRcmTarget
  PROVE  FtlTypeOK'
<1>. DEFINE pg == Last(close_pg_que)
<1>1. Len(close_pg_que) \in Nat \ {0} /\ \A i \in 1..Len(close_pg_que) : close_pg_que[i] \in PG
  BY EmptySeq, ElementOfSeq DEF ReloadRcmTarget, FtlTypeOK
<1>2. pg \in PG
  BY <1>1 DEF Last
<1>3. Front(close_pg_que) \in Seq(PG)
  BY <1>1, SubSeqProperties DEF Front
<1>. HIDE DEF pg
<1>4. pg_list' = [pg_list EXCEPT ![pg].status = "RCM"]
  BY DEF ReloadRcmTarget, pg
<1>5. pg_list' \in [PG -> PG_Info]
  <2>1. pg_list[pg] \in PG_Info
    BY <1>2 DEF FtlTypeOK
  <2>2. [pg_list[pg] EXCEPT !.status = "RCM"] \in PG_Info
    BY <2>1 DEF PG_Info
  <2>. QED BY <1>2, <1>4, <2>2 DEF FtlTypeOK
<1>6. rcm_pg_que' \in Seq(PG)
  BY <1>2, AppendProperties DEF ReloadRcmTarget, FtlTypeOK, pg
<1>. QED BY <1>3, <1>5, <1>6 DEF FtlTypeOK, ReloadRcmTarget

(* The scan of a victim advances its offset within the PG and collects requests for existing pages only. *)
LEMMA ScanNextType ==
  ASSUME NEW pg \in PG, FtlTypeOK, ScanNext(pg)
  PROVE  FtlTypeOK' /\ ScanEntry(pg).lpn \in LP
<1>1. pg_list[pg] \in PG_Info
  BY DEF FtlTypeOK
<1>2. pg_list[pg].next_rewr_index + 1 \in 1..Len(pg_list[pg].p2l_tbl)
  BY <1>1 DEF ScanNext, ScanLeft, PG_Info
<1>3. ScanEntry(pg) \in Reverse_Info
  BY <1>1, <1>2, ElementOfSeq DEF ScanEntry, PG_Info
<1>4. /\ pg_list[pg].next_rewr_index + 1 \in Nat
      /\ pg_list[pg].next_rewr_pgsect + ScanEntry(pg).len \in Nat
  BY <1>1, <1>3 DEF PG_Info, Reverse_Info
<1>5. pg_list' = [pg_list EXCEPT ![pg] =
                    [pg_list[pg] EXCEPT
                       !.next_rewr_index = pg_list[pg].next_rewr_index + 1,
                       !.next_rewr_pgsect = pg_list[pg].next_rewr_pgsect + ScanEntry(pg).len]]
  BY <1>1 DEF ScanNext, FtlTypeOK, PG_Info
<1>6. pg_list' \in [PG -> PG_Info]
  BY <1>1, <1>4, <1>5 DEF FtlTypeOK, PG_Info
<1>. QED BY <1>3, <1>6 DEF FtlTypeOK, ScanNext, queueVars, Reverse_Info

(* The end of a scan takes the victim from the reclamation queue. *)
LEMMA ScanEndType ==
  ASSUME NEW pg \in PG, FtlTypeOK, rcm_pg_que # <<>>, ScanEnd(pg)
  PROVE  FtlTypeOK'
BY AppendProperties, HeadTailProperties DEF FtlTypeOK, ScanEnd

(* GetEraseReq leaves the number of invalid blocks natural: it takes none that is not there. *)
LEMMA GetEraseReqType ==
  ASSUME NEW num, FtlTypeOK, GetEraseReq(num)
  PROVE  FtlTypeOK'
BY SizesAssumption DEF FtlTypeOK, GetEraseReq, queueVars

(* ErasePB turns reserved blocks into free ones and keeps both counts natural. *)
LEMMA ErasePBType ==
  ASSUME FtlTypeOK, ErasePB
  PROVE  FtlTypeOK'
BY DEF FtlTypeOK, ErasePB, queueVars

-----------------------------------------------------------------------------
(***************************************************************************)
(* Theorems about the SSD for every number of pages, groups and blocks.    *)
(***************************************************************************)

\* What the type invariant needs to be inductive: the slot LpWrite writes to is
\* occupied, and Erase counts down from a positive number.
EraseInv == pc = "erase" => erase_left # 0
ControlInv == (pc = "update" => openpg[io.type] # NoPG) /\ EraseInv

TypeInv == SsdTypeOK /\ ControlInv

(* A formatted device is well typed. *)
LEMMA InitType == Init => TypeInv
<1>. SUFFICES ASSUME Init PROVE TypeInv
  OBVIOUS
<1>. USE SizesAssumption, MaxRewrAssumption
<1>1. l2p_tbl \in [LP -> VPA]
  BY DEF Init, InitFTL, VPA
<1>2. pg_list \in [PG -> PG_Info]
  BY InitPGType DEF Init, InitFTL
<1>3. free_pg_que \in Seq(PG)
  <2>1. free_pg_que \in [1..PgNum -> PG]
    BY DEF Init, InitFTL, PG
  <2>. QED BY <2>1, SeqDef
<1>4. openpg \in [IoType -> PG \cup {NoPG}]
  BY DEF Init, InitFTL
<1>5. total_free \in Nat /\ total_invalid \in Nat
  BY DEF Init, InitFTL, PbNum
<1>6. FtlTypeOK
  BY <1>1, <1>2, <1>3, <1>4, <1>5 DEF Init, InitFTL, FtlTypeOK
<1>7. io \in [type : IoType, lpn : LP] /\ fmt_lp \in 0..LpNum
  BY DEF Init, NoIo, IoType, LP
<1>. QED BY <1>6, <1>7 DEF Init, TypeInv, ControlInv, EraseInv, SsdTypeOK

\* The steps that neither open a PG nor write to one.
CommonStep ==
  \/ FormatPage \/ FormatDone
  \/ \E lpn \in LP : HostWrite(lpn)
  \/ GetReWriteReq \/ Reload \/ ReloadDone
  \/ Collect \/ CollectNextPG \/ CollectDone
  \/ Rewrite \/ RewriteDone
  \/ \E num \in 0..MaxErase : EraseReq(num)
  \/ Erase

LEMMA NextCases == Next <=> CommonStep \/ GetOpenPG_Present \/ GetOpenPG_Build \/ LpWrite
BY DEF Next, Run, DoGC, CommonStep

\* They start and end at their own points of the program, and keep types.
LEMMA CommonPoints == CommonStep => pc \notin {"open", "update", "failed"} /\ pc' # "update"
BY DEF CommonStep, FormatPage, FormatDone, HostWrite, GetReWriteReq, Reload, ReloadDone, Collect,
       CollectNextPG, CollectDone, Rewrite, RewriteDone, EraseReq, Erase, ctlVars

LEMMA CommonType == SsdTypeOK /\ EraseInv /\ CommonStep => SsdTypeOK' /\ EraseInv'
<1>. SUFFICES ASSUME SsdTypeOK, EraseInv, CommonStep PROVE SsdTypeOK' /\ EraseInv'
  OBVIOUS
<1>. USE SizesAssumption, MaxRewrAssumption DEF SsdTypeOK, EraseInv
<1>1. CASE FormatPage
  <2>1. io' \in [type : IoType, lpn : LP]
    BY <1>1 DEF FormatPage, Formatting, IoType, LP
  <2>. QED BY <1>1, <2>1 DEF FormatPage, ftlVars, queueVars, FtlTypeOK
<1>2. CASE FormatDone
  BY <1>2 DEF FormatDone, ftlVars, queueVars, FtlTypeOK
<1>3. CASE \E lpn \in LP : HostWrite(lpn)
  <2>1. io' \in [type : IoType, lpn : LP]
    BY <1>3 DEF HostWrite, IoType
  <2>. QED BY <1>3, <2>1 DEF HostWrite, ftlVars, queueVars, FtlTypeOK
<1>4. CASE GetReWriteReq
  <2>1. GetNeededBlockNum \in Int
    BY LenProperties DEF FtlTypeOK, GetNeededBlockNum, rcm_start_th, PbNum
  <2>. QED BY <1>4, <2>1 DEF GetReWriteReq, ftlVars, queueVars, FtlTypeOK
<1>5. CASE Reload
  <2>1. FtlTypeOK'
    BY <1>5, ReloadRcmTargetType DEF Reload
  <2>. QED BY <1>5, <2>1 DEF Reload
<1>6. CASE ReloadDone
  BY <1>6 DEF ReloadDone, ftlVars, queueVars, FtlTypeOK
<1>7. CASE Collect
  <2>. DEFINE pg == Head(rcm_pg_que)
  <2>1. pg \in PG
    BY <1>7, HeadTailProperties DEF Collect, FtlTypeOK
  <2>2. ScanNext(pg)
    BY <1>7 DEF Collect
  <2>. HIDE DEF pg
  <2>3. FtlTypeOK' /\ ScanEntry(pg).lpn \in LP
    BY <2>1, <2>2, ScanNextType
  <2>4. Append(req_list, ScanEntry(pg).lpn) \in Seq(LP)
    BY <2>3, AppendProperties
  <2>5. req_num + 1 \in 0..MaxRewr
    BY <1>7 DEF Collect
  <2>. QED BY <1>7, <2>3, <2>4, <2>5 DEF Collect, pg
<1>8. CASE CollectNextPG
  <2>1. Head(rcm_pg_que) \in PG
    BY <1>8, HeadTailProperties DEF CollectNextPG, FtlTypeOK
  <2>2. FtlTypeOK'
    BY <1>8, <2>1, ScanEndType DEF CollectNextPG
  <2>. QED BY <1>8, <2>2 DEF CollectNextPG, ctlVars
<1>9. CASE CollectDone
  BY <1>9 DEF CollectDone, ftlVars, queueVars, FtlTypeOK
<1>10. CASE Rewrite
  <2>1. Head(req_list) \in LP /\ Tail(req_list) \in Seq(LP)
    BY <1>10, HeadTailProperties DEF Rewrite
  <2>2. io' \in [type : IoType, lpn : LP]
    BY <1>10, <2>1 DEF Rewrite, IoType
  <2>. QED BY <1>10, <2>1, <2>2 DEF Rewrite, ftlVars, queueVars, FtlTypeOK
<1>11. CASE RewriteDone
  BY <1>11 DEF RewriteDone, ftlVars, queueVars, FtlTypeOK
<1>12. CASE \E num \in 0..MaxErase : EraseReq(num)
  <2>1. PICK num \in 0..MaxErase : EraseReq(num)
    BY <1>12
  <2>2. FtlTypeOK'
    BY <2>1, GetEraseReqType DEF EraseReq
  <2>. QED BY <2>1, <2>2 DEF EraseReq
<1>13. CASE Erase
  <2>1. FtlTypeOK'
    BY <1>13, ErasePBType DEF Erase
  <2>. QED BY <1>13, <2>1 DEF Erase
<1>. QED
  BY <1>1, <1>2, <1>3, <1>4, <1>5, <1>6, <1>7, <1>8, <1>9, <1>10, <1>11, <1>12, <1>13 DEF CommonStep

(* Every step of a host write or of do_gc keeps types. *)
LEMMA NextType == TypeInv /\ [Next]_vars => TypeInv'
<1>. SUFFICES ASSUME TypeInv, [Next]_vars PROVE TypeInv'
  OBVIOUS
<1>0. CASE CommonStep
  BY <1>0, CommonType, CommonPoints DEF TypeInv, ControlInv
<1>. USE SizesAssumption, MaxRewrAssumption DEF TypeInv, SsdTypeOK, ControlInv, EraseInv
<1>1. CASE UNCHANGED vars
  BY <1>1 DEF vars, ftlVars, ctlVars, queueVars, FtlTypeOK
<1>2. CASE GetOpenPG_Present
  BY <1>2 DEF GetOpenPG_Present, ftlVars, queueVars, FtlTypeOK
<1>3. CASE GetOpenPG_Build
  <2>1. CASE free_pg_que = <<>>
    BY <1>3, <2>1 DEF GetOpenPG_Build, ftlVars, queueVars, FtlTypeOK
  <2>2. CASE free_pg_que # <<>>
    <3>1. io.type \in IoType
      OBVIOUS
    <3>2. BuildPG(io.type)
      BY <1>3, <2>2 DEF GetOpenPG_Build
    <3>3. FtlTypeOK' /\ (EnoughFreePB => openpg'[io.type] \in PG)
      BY <3>1, <3>2, BuildPGType
    <3>. QED BY <1>3, <2>2, <3>3, NoPGAssumption DEF GetOpenPG_Build, PG
  <2>. QED BY <2>1, <2>2
<1>4. CASE LpWrite
  <2>1. openpg[io.type] \in PG /\ io.lpn \in LP
    BY <1>4 DEF LpWrite, FtlTypeOK
  <2>2. NoIo \in [type : IoType, lpn : LP]
    BY DEF NoIo, IoType, LP
  <2>3. FtlTypeOK'
    <3>1. CASE L2P_UpdateError(io.lpn, SectsPerLp, openpg[io.type])
      BY <1>4, <3>1 DEF LpWrite, ftlVars, queueVars, FtlTypeOK
    <3>2. CASE ~L2P_UpdateError(io.lpn, SectsPerLp, openpg[io.type])
      <4>1. L2P_Update(io.lpn, SectsPerLp, openpg[io.type], FALSE)
        BY <1>4, <3>2 DEF LpWrite
      <4>2. SectsPerLp \in Nat
        OBVIOUS
      <4>. QED BY <2>1, <3>2, <4>1, <4>2, L2P_UpdateType
    <3>. QED BY <3>1, <3>2
  <2>4. fmt_lp' \in 0..LpNum
    <3>1. fmt_lp' = fmt_lp \/ (fmt_lp < LpNum /\ fmt_lp' = fmt_lp + 1)
      BY <1>4, Zenon DEF LpWrite, Formatting
    <3>. QED BY <3>1
  <2>. QED BY <1>4, <2>2, <2>3, <2>4 DEF LpWrite
<1>. QED BY <1>0, <1>1, <1>2, <1>3, <1>4, NextCases

\* The device never holds a value outside its tables' ranges, whatever its size:
\* no counter goes below zero and no queue holds what is not a PG.
THEOREM TypeCorrect == Spec => []SsdTypeOK
<1>1. TypeInv => SsdTypeOK
  BY DEF TypeInv
<1>. QED BY <1>1, InitType, NextType, PTL DEF Spec

-----------------------------------------------------------------------------
(* The books: what the counters of a PG say about the map *)

\* SSD::lp_write only writes whole logical pages.
FullLength == \A lpn \in LP : l2p_tbl[lpn].pgn # NoPG => l2p_tbl[lpn].len = SectsPerLp

\* None of the parts is inductive without the others: a PG is released when its
\* counter reaches zero, which frees no mapped page because the counter agrees
\* with the map, which it does because all pages have one length.
BooksInv == FullLength /\ Accounting /\ NoPageInFreePG /\ SectorsDisjoint

(* The set of logical pages mapped to one PG is finite, so its cardinality can be reasoned about. *)
LEMMA MappedFinite ==
  ASSUME NEW pg
  PROVE  IsFiniteSet(Mapped(pg)) /\ Cardinality(Mapped(pg)) \in Nat
<1>1. IsFiniteSet(LP)
  BY SizesAssumption, FS_Interval DEF LP
<1>2. Mapped(pg) \in SUBSET LP
  BY DEF Mapped
<1>. QED BY <1>1, <1>2, FS_Subset, FS_CardinalityType

\* A PG some page is mapped to counts at least that page.
LEMMA CountedPage ==
  ASSUME FtlTypeOK, BooksInv, NEW lpn \in LP, l2p_tbl[lpn].pgn # NoPG
  PROVE  LET pg == l2p_tbl[lpn].pgn
         IN  /\ pg \in PG
             /\ pg_list[pg].lp_num \in Nat \ {0}
             /\ pg_list[pg].vs_num \in Nat \ {0}
             /\ pg_list[pg].vs_num = SectsPerLp * pg_list[pg].lp_num
<1>. DEFINE pg == l2p_tbl[lpn].pgn
<1>1. pg \in PG
  BY DEF FtlTypeOK, VPA
<1>2. lpn \in Mapped(pg)
  BY DEF Mapped
<1>. HIDE DEF pg
<1>3. Cardinality(Mapped(pg)) \in Nat /\ Cardinality(Mapped(pg)) # 0
  BY <1>2, MappedFinite, FS_EmptySet
<1>4. /\ pg_list[pg].lp_num \in Nat \ {0}
      /\ pg_list[pg].vs_num = SectsPerLp * pg_list[pg].lp_num
  BY <1>1, <1>3 DEF BooksInv, Accounting
<1>5. SectsPerLp * pg_list[pg].lp_num \in Nat \ {0}
  BY <1>4, SizesAssumption
<1>. QED BY <1>1, <1>4, <1>5 DEF pg

(* On a formatted device nothing is mapped and every counter is zero: the books agree. *)
LEMMA InitBooks == Init => BooksInv
<1>. SUFFICES ASSUME Init PROVE BooksInv
  OBVIOUS
<1>1. \A lpn \in LP : l2p_tbl[lpn].pgn = NoPG
  BY DEF Init, InitFTL
<1>2. \A pg \in PG : Mapped(pg) = {}
  BY <1>1, NoPGAssumption DEF Mapped, PG
<1>3. \A pg \in PG : pg_list[pg].lp_num = 0 /\ pg_list[pg].vs_num = 0
  BY DEF Init, InitFTL, InitPG
<1>4. Accounting
  BY <1>2, <1>3, FS_EmptySet, SizesAssumption DEF Accounting
<1>. QED BY <1>1, <1>2, <1>4 DEF BooksInv, FullLength, NoPageInFreePG, SectorsDisjoint

\* A step that moves no page and touches neither a counter nor a write position
\* of a PG, and frees none, keeps the books.
LEMMA NothingMoves ==
  ASSUME FtlTypeOK, BooksInv, l2p_tbl' = l2p_tbl,
         \A pg \in PG : /\ pg_list'[pg].lp_num = pg_list[pg].lp_num
                        /\ pg_list'[pg].vs_num = pg_list[pg].vs_num
                        /\ pg_list'[pg].next_ofs = pg_list[pg].next_ofs
                        /\ pg_list'[pg].status = "FREE" => pg_list[pg].status = "FREE"
  PROVE  BooksInv'
<1>1. \A pg : Mapped(pg)' = Mapped(pg)
  BY DEF Mapped
<1>2. FullLength' /\ Accounting' /\ NoPageInFreePG'
  BY <1>1 DEF BooksInv, FullLength, Accounting, NoPageInFreePG
<1>3. \A lpn \in LP : l2p_tbl[lpn].pgn \in PG \cup {NoPG}
  BY DEF FtlTypeOK, VPA
<1>4. SectorsDisjoint'
  BY <1>3 DEF BooksInv, SectorsDisjoint
<1>. QED BY <1>2, <1>4 DEF BooksInv

\* What one L2P_Update of a whole page does to the counters of every PG.
CountersMoved(lpn, dst) ==
  LET src == l2p_tbl[lpn].pgn
      gain(pg) == IF pg = dst THEN 1 ELSE 0
      loss(pg) == IF pg = src THEN 1 ELSE 0
  IN  /\ l2p_tbl' = [l2p_tbl EXCEPT ![lpn] =
                       [pgn |-> dst, ofs |-> pg_list[dst].next_ofs, len |-> SectsPerLp]]
      /\ \A pg \in PG :
           /\ pg_list'[pg].lp_num = pg_list[pg].lp_num + gain(pg) - loss(pg)
           /\ pg_list'[pg].vs_num = SectsPerLp * pg_list'[pg].lp_num
           /\ \/ pg_list'[pg].status # "FREE"
              \/ pg # dst /\ pg_list[pg].status = "FREE"
              \/ pg = src /\ pg # dst /\ pg_list[pg].lp_num = 1
           /\ \/ pg_list'[pg].next_ofs >= pg_list[pg].next_ofs
                                            + (IF pg = dst THEN SectsPerLp ELSE 0)
              \/ pg = src /\ pg # dst /\ pg_list[pg].lp_num = 1

\* An accepted L2P_Update moves the counters so.  The PG that is released counts
\* nothing any more, which is what taking its last page away leaves of it.
LEMMA CountersAfterUpdate ==
  ASSUME FtlTypeOK, BooksInv, NEW lpn \in LP, NEW dst \in PG,
         ~L2P_UpdateError(lpn, SectsPerLp, dst),
         L2P_Update(lpn, SectsPerLp, dst, FALSE)
  PROVE  CountersMoved(lpn, dst)
<1>. DEFINE old     == l2p_tbl[lpn]
            src     == old.pgn
            ofs     == pg_list[dst].next_ofs
            new     == Written(pg_list[dst], lpn, SectsPerLp, 0)
            written == [pg_list EXCEPT ![dst] = new]
            closing == written[dst].status = "CLOSE"
            ranked  == IF closing THEN UpdateCloseRanking(close_pg_que, dst, written)
                                  ELSE close_pg_que
            drops   == src # NoPG /\ written[src].lp_num # 0
            dropped == [written EXCEPT ![src] = Released(@, old.len)]
            release == drops /\ dropped[src].vs_num = 0 /\ dropped[src].status # "OPEN"
            S == SectsPerLp
<1>. USE DEF CountersMoved
<1>0. SectsPerLp \in Nat \ {0} /\ PgCwNum \in Nat
  BY SizesAssumption, PgSizeAssumption
<1>1. /\ pg_list \in [PG -> PG_Info]
      /\ l2p_tbl \in [LP -> VPA]
      /\ src \in PG \cup {NoPG}
      /\ NoPG \notin PG
  BY NoPGAssumption DEF FtlTypeOK, VPA, PG
<1>2. \A pg \in PG : /\ pg_list[pg].lp_num \in Nat /\ pg_list[pg].vs_num \in Nat
                     /\ pg_list[pg].next_ofs \in Nat
                     /\ pg_list[pg].vs_num = S * pg_list[pg].lp_num
  BY <1>1 DEF PG_Info, BooksInv, Accounting
<1>3. /\ pg_list[dst].status = "OPEN"
      /\ ofs + S <= PgCwNum
  BY <1>0, <1>2 DEF L2P_UpdateError
<1>4. /\ l2p_tbl' = [l2p_tbl EXCEPT ![lpn] = [pgn |-> dst, ofs |-> ofs, len |-> S]]
      /\ IF release
         THEN CloseToInvalid(src, dropped, ranked)
         ELSE pg_list' = IF drops THEN dropped ELSE written
  BY Zenon DEF L2P_Update, OpenToClose
<1>5. /\ new.lp_num = pg_list[dst].lp_num + 1
      /\ new.vs_num = pg_list[dst].vs_num + S
      /\ new.next_ofs \in Nat /\ new.next_ofs >= ofs + S
      /\ new.status # "FREE"
      /\ new \in PG_Info
  <2>1. new \in PG_Info
    BY <1>0, <1>1, WrittenType
  <2>2. pg_list[dst] \in PG_Info
    BY <1>1
  <2>3. new.lp_num = pg_list[dst].lp_num + 1 /\ new.vs_num = pg_list[dst].vs_num + S
    BY <2>2 DEF Written, PG_Info
  <2>4. new.status \in {pg_list[dst].status, "CLOSE"}
    BY <2>2 DEF Written, PG_Info
  <2>5. new.next_ofs \in {PgCwNum, ofs + S}
    BY <1>0, <1>2, <2>2 DEF Written, PG_Info
  <2>. QED BY <1>0, <1>2, <1>3, <2>1, <2>3, <2>4, <2>5
<1>6. new.vs_num = S * new.lp_num
  BY <1>0, <1>2, <1>5
<1>. HIDE DEF new
<1>7. /\ written \in [PG -> PG_Info] /\ written[dst] = new
      /\ \A pg \in PG \ {dst} : written[pg] = pg_list[pg]
  BY <1>1, <1>5
<1>8. CASE src = NoPG
  <2>1. pg_list' = written
    BY <1>4, <1>8
  <2>. HIDE DEF written
  <2>2. \A pg \in PG : pg # src
    BY <1>1, <1>8
  <2>3. ASSUME NEW pg \in PG
        PROVE  /\ pg_list'[pg].lp_num = pg_list[pg].lp_num + (IF pg = dst THEN 1 ELSE 0)
               /\ pg_list'[pg].vs_num = S * pg_list'[pg].lp_num
               /\ pg_list'[pg].status # "FREE" \/ (pg # dst /\ pg_list[pg].status = "FREE")
               /\ pg_list'[pg].next_ofs >= pg_list[pg].next_ofs + (IF pg = dst THEN S ELSE 0)
    <3>1. CASE pg = dst
      BY <1>0, <1>2, <1>5, <1>6, <1>7, <2>1, <3>1
    <3>2. CASE pg # dst
      BY <1>0, <1>2, <1>7, <2>1, <3>2
    <3>. QED BY <3>1, <3>2
  <2>. QED BY <1>0, <1>2, <1>4, <2>2, <2>3
<1>9. CASE src # NoPG
  <2>1. /\ src \in PG /\ old.len = S
        /\ pg_list[src].lp_num \in Nat \ {0} /\ pg_list[src].vs_num \in Nat \ {0}
    BY <1>9, CountedPage DEF BooksInv, FullLength
  <2>2. /\ written[src].lp_num \in Nat \ {0}
        /\ written[src].vs_num = S * written[src].lp_num
    BY <1>0, <1>2, <1>5, <1>6, <1>7, <2>1
  <2>3. drops
    BY <1>9, <2>2
  <2>. HIDE DEF written, drops
  <2>4. /\ dropped[src].lp_num = written[src].lp_num - 1
        /\ dropped[src].vs_num = written[src].vs_num - S
        /\ dropped[src].next_ofs = written[src].next_ofs
        /\ dropped[src].status = written[src].status
        /\ \A pg \in PG \ {src} : dropped[pg] = written[pg]
    <3>1. dropped[src] = Released(written[src], S)
      BY <1>7, <2>1
    <3>2. \A pg \in PG \ {src} : dropped[pg] = written[pg]
      BY <1>7, <2>1
    <3>3. written[src] \in PG_Info
      BY <1>7, <2>1
    <3>. HIDE DEF dropped
    <3>. QED BY <3>1, <3>2, <3>3 DEF Released, PG_Info
  <2>5. dropped[src].vs_num = S * dropped[src].lp_num
    BY <1>0, <2>2, <2>4
  <2>6. CASE release
    <3>1. dropped[src].lp_num = 0
      BY <1>0, <2>2, <2>4, <2>5, <2>6
    <3>2. written[src].lp_num = 1
      BY <1>0, <2>2, <2>4, <3>1
    <3>3. src # dst /\ pg_list[src].lp_num = 1
      BY <1>0, <1>2, <1>5, <1>7, <2>1, <3>2
    <3>4. pg_list' = [dropped EXCEPT ![src] = InitPG]
      BY <1>4, <2>6 DEF CloseToInvalid
    <3>5. /\ pg_list'[src].lp_num = 0 /\ pg_list'[src].vs_num = 0
          /\ \A pg \in PG \ {src} : pg_list'[pg] = written[pg]
      BY <1>7, <2>1, <2>4, <3>4 DEF InitPG
    <3>6. ASSUME NEW pg \in PG, pg # src
          PROVE  /\ pg_list'[pg].lp_num = pg_list[pg].lp_num + (IF pg = dst THEN 1 ELSE 0)
                 /\ pg_list'[pg].vs_num = S * pg_list'[pg].lp_num
                 /\ pg_list'[pg].status # "FREE" \/ (pg # dst /\ pg_list[pg].status = "FREE")
                 /\ pg_list'[pg].next_ofs >= pg_list[pg].next_ofs + (IF pg = dst THEN S ELSE 0)
      <4>1. CASE pg = dst
        BY <1>0, <1>2, <1>5, <1>6, <1>7, <3>5, <3>6, <4>1
      <4>2. CASE pg # dst
        BY <1>0, <1>2, <1>7, <3>5, <3>6, <4>2
      <4>. QED BY <4>1, <4>2
    <3>7. /\ pg_list'[src].lp_num = pg_list[src].lp_num - 1
          /\ pg_list'[src].vs_num = S * pg_list'[src].lp_num
      BY <1>0, <3>3, <3>5
    <3>. QED BY <1>0, <1>2, <1>4, <3>3, <3>6, <3>7
  <2>7. CASE ~release
    <3>1. pg_list' = dropped
      BY <1>4, <2>3, <2>7
    <3>. HIDE DEF dropped
    <3>2. ASSUME NEW pg \in PG
          PROVE  /\ written[pg].lp_num = pg_list[pg].lp_num + (IF pg = dst THEN 1 ELSE 0)
                 /\ written[pg].lp_num \in Nat
                 /\ written[pg].vs_num = S * written[pg].lp_num
                 /\ written[pg].status # "FREE" \/ (pg # dst /\ pg_list[pg].status = "FREE")
                 /\ written[pg].next_ofs >= pg_list[pg].next_ofs + (IF pg = dst THEN S ELSE 0)
      <4>1. CASE pg = dst
        BY <1>0, <1>2, <1>5, <1>6, <1>7, <4>1
      <4>2. CASE pg # dst
        BY <1>0, <1>2, <1>7, <4>2
      <4>. QED BY <4>1, <4>2
    <3>3. ASSUME NEW pg \in PG
          PROVE  /\ pg_list'[pg].lp_num = written[pg].lp_num - (IF pg = src THEN 1 ELSE 0)
                 /\ pg_list'[pg].vs_num = S * pg_list'[pg].lp_num
                 /\ pg_list'[pg].status = written[pg].status
                 /\ pg_list'[pg].next_ofs = written[pg].next_ofs
      <4>1. CASE pg = src
        BY <1>0, <2>4, <2>5, <3>1, <4>1
      <4>2. CASE pg # src
        BY <1>0, <2>4, <3>1, <3>2, <4>2
      <4>. QED BY <4>1, <4>2
    <3>. QED BY <1>0, <1>2, <1>4, <3>2, <3>3
  <2>. QED BY <2>6, <2>7
<1>. QED BY <1>8, <1>9

\* One page fewer where the page was, one page more where it is now.
LEMMA MappedAfterMove ==
  ASSUME FtlTypeOK, NEW lpn \in LP, NEW dst \in PG, NEW entry \in VPA, entry.pgn = dst,
         l2p_tbl' = [l2p_tbl EXCEPT ![lpn] = entry]
  PROVE  LET src == l2p_tbl[lpn].pgn
             gain(pg) == IF pg = dst THEN 1 ELSE 0
             loss(pg) == IF pg = src THEN 1 ELSE 0
         IN  \A pg \in PG :
               Cardinality(Mapped(pg)') = Cardinality(Mapped(pg)) + gain(pg) - loss(pg)
<1>. DEFINE src == l2p_tbl[lpn].pgn
<1>. SUFFICES ASSUME NEW pg \in PG
              PROVE  Cardinality(Mapped(pg)') = Cardinality(Mapped(pg))
                       + (IF pg = dst THEN 1 ELSE 0) - (IF pg = src THEN 1 ELSE 0)
  OBVIOUS
<1>1. Mapped(pg)' = IF pg = dst THEN Mapped(pg) \cup {lpn} ELSE Mapped(pg) \ {lpn}
  BY DEF Mapped, FtlTypeOK
<1>2. lpn \in Mapped(pg) <=> pg = src
  BY DEF Mapped
<1>3. IsFiniteSet(Mapped(pg)) /\ Cardinality(Mapped(pg)) \in Nat
  BY MappedFinite
<1>4. /\ Cardinality(Mapped(pg) \cup {lpn}) =
            IF lpn \in Mapped(pg) THEN Cardinality(Mapped(pg)) ELSE Cardinality(Mapped(pg)) + 1
      /\ Cardinality(Mapped(pg) \ {lpn}) =
            IF lpn \in Mapped(pg) THEN Cardinality(Mapped(pg)) - 1 ELSE Cardinality(Mapped(pg))
  BY <1>3, FS_AddElement, FS_RemoveElement
<1>. QED BY <1>1, <1>2, <1>3, <1>4

(* L2P_Update, from a host write or from do_gc, keeps the books: the counters of the old and of the new PG follow the map. *)
LEMMA UpdateBooks ==
  ASSUME FtlTypeOK, BooksInv, NEW lpn \in LP, NEW dst \in PG,
         ~L2P_UpdateError(lpn, SectsPerLp, dst),
         L2P_Update(lpn, SectsPerLp, dst, FALSE)
  PROVE  BooksInv'
<1>. DEFINE src   == l2p_tbl[lpn].pgn
            entry == [pgn |-> dst, ofs |-> pg_list[dst].next_ofs, len |-> SectsPerLp]
            gain(pg) == IF pg = dst THEN 1 ELSE 0
            loss(pg) == IF pg = src THEN 1 ELSE 0
<1>0. SectsPerLp \in Nat \ {0} /\ NoPG \notin PG
  BY SizesAssumption, NoPGAssumption DEF PG
<1>1. l2p_tbl \in [LP -> VPA] /\ pg_list \in [PG -> PG_Info]
  BY DEF FtlTypeOK
<1>2. entry \in VPA
  BY <1>0, <1>1 DEF VPA, PG_Info
<1>. CountersMoved(lpn, dst)
  BY CountersAfterUpdate
<1>3. l2p_tbl' = [l2p_tbl EXCEPT ![lpn] = entry]
  BY DEF CountersMoved
<1>4. \A pg \in PG :
        /\ pg_list'[pg].lp_num = pg_list[pg].lp_num + gain(pg) - loss(pg)
        /\ pg_list'[pg].vs_num = SectsPerLp * pg_list'[pg].lp_num
        /\ \/ pg_list'[pg].status # "FREE"
           \/ pg # dst /\ pg_list[pg].status = "FREE"
           \/ pg = src /\ pg # dst /\ pg_list[pg].lp_num = 1
        /\ \/ pg_list'[pg].next_ofs >= pg_list[pg].next_ofs
                                         + (IF pg = dst THEN SectsPerLp ELSE 0)
           \/ pg = src /\ pg # dst /\ pg_list[pg].lp_num = 1
  BY DEF CountersMoved
<1>5. \A pg \in PG : Cardinality(Mapped(pg)') = Cardinality(Mapped(pg)) + gain(pg) - loss(pg)
  BY <1>2, <1>3, MappedAfterMove
<1>. HIDE DEF gain, loss
<1>6. Accounting'
  BY <1>4, <1>5 DEF Accounting, BooksInv
<1>7. FullLength'
  BY <1>1, <1>3 DEF FullLength, BooksInv
<1>8. \A p \in LP : l2p_tbl'[p] = IF p = lpn THEN entry ELSE l2p_tbl[p]
  BY <1>1, <1>3
<1>9. ASSUME NEW pg \in PG, pg = src, pg # dst, pg_list[pg].lp_num = 1
      PROVE  \A p \in LP : l2p_tbl'[p].pgn # pg
  <2>1. Cardinality(Mapped(pg)) = 1 /\ Cardinality(Mapped(pg)') = 0
    BY <1>5, <1>9 DEF Accounting, BooksInv, gain, loss
  <2>2. Mapped(pg)' \in SUBSET LP /\ IsFiniteSet(LP)
    BY SizesAssumption, FS_Interval DEF LP, Mapped
  <2>3. IsFiniteSet(Mapped(pg)')
    BY <2>2, FS_Subset
  <2>4. Mapped(pg)' = {}
    BY <2>1, <2>3, FS_EmptySet
  <2>. QED BY <2>4 DEF Mapped
<1>10. NoPageInFreePG'
  <2>. SUFFICES ASSUME NEW pg \in PG, pg_list'[pg].status = "FREE"
                PROVE  \A p \in LP : l2p_tbl'[p].pgn # pg
    BY DEF NoPageInFreePG, Mapped
  <2>1. CASE pg # dst /\ pg_list[pg].status = "FREE"
    BY <1>8, <2>1 DEF NoPageInFreePG, Mapped, BooksInv
  <2>2. CASE pg = src /\ pg # dst /\ pg_list[pg].lp_num = 1
    BY <1>9, <2>2
  <2>. QED BY <1>4, <2>1, <2>2
<1>11. ASSUME NEW p \in LP, l2p_tbl'[p].pgn # NoPG
       PROVE  /\ l2p_tbl'[p].pgn \in PG
              /\ pg_list'[l2p_tbl'[p].pgn].next_ofs >=
                   pg_list[l2p_tbl'[p].pgn].next_ofs
                     + (IF l2p_tbl'[p].pgn = dst THEN SectsPerLp ELSE 0)
  <2>1. l2p_tbl'[p].pgn \in PG
    BY <1>1, <1>8, <1>11 DEF VPA
  <2>. QED BY <1>4, <1>9, <2>1
<1>12. SectorsDisjoint'
  <2>1. ASSUME NEW p \in LP, p # lpn, l2p_tbl[p].pgn # NoPG
        PROVE  /\ l2p_tbl[p].pgn \in PG
               /\ l2p_tbl[p].ofs \in Nat /\ l2p_tbl[p].len \in Nat
               /\ pg_list[l2p_tbl[p].pgn].next_ofs \in Nat
               /\ l2p_tbl[p].ofs + l2p_tbl[p].len <= pg_list[l2p_tbl[p].pgn].next_ofs
    <3>1. l2p_tbl[p] \in VPA /\ l2p_tbl[p].pgn \in PG
      BY <1>1, <2>1 DEF VPA
    <3>2. pg_list[l2p_tbl[p].pgn] \in PG_Info
      BY <1>1, <3>1
    <3>. QED BY <2>1, <3>1, <3>2 DEF VPA, PG_Info, BooksInv, SectorsDisjoint
  <2>2. pg_list[dst].next_ofs \in Nat /\ \A pg \in PG : pg_list'[pg].next_ofs \in Nat
    <3>1. FtlTypeOK'
      BY <1>0, L2P_UpdateType
    <3>. QED BY <1>1, <3>1 DEF FtlTypeOK, PG_Info
  <2>3. ASSUME NEW a \in LP, l2p_tbl'[a].pgn # NoPG
        PROVE  l2p_tbl'[a].ofs + l2p_tbl'[a].len <= pg_list'[l2p_tbl'[a].pgn].next_ofs
    <3>1. CASE a = lpn
      BY <1>0, <1>8, <1>11, <2>2, <2>3, <3>1
    <3>2. CASE a # lpn
      BY <1>0, <1>8, <1>11, <2>1, <2>2, <2>3, <3>2
    <3>. QED BY <3>1, <3>2
  <2>4. ASSUME NEW a \in LP, NEW b \in LP \ {a}, l2p_tbl'[a].pgn # NoPG,
               l2p_tbl'[b].pgn = l2p_tbl'[a].pgn
        PROVE  \/ l2p_tbl'[a].ofs + l2p_tbl'[a].len <= l2p_tbl'[b].ofs
               \/ l2p_tbl'[b].ofs + l2p_tbl'[b].len <= l2p_tbl'[a].ofs
    <3>1. CASE a = lpn
      BY <1>8, <2>1, <2>4, <3>1
    <3>2. CASE b = lpn
      BY <1>8, <2>1, <2>4, <3>2
    <3>3. CASE a # lpn /\ b # lpn
      BY <1>8, <2>4, <3>3 DEF BooksInv, SectorsDisjoint
    <3>. QED BY <3>1, <3>2, <3>3
  <2>. QED BY <2>3, <2>4 DEF SectorsDisjoint
<1>. QED BY <1>6, <1>7, <1>10, <1>12 DEF BooksInv

LEMMA CommonBooks == FtlTypeOK /\ BooksInv /\ CommonStep => BooksInv'
<1>. SUFFICES ASSUME FtlTypeOK, BooksInv, CommonStep PROVE BooksInv'
  OBVIOUS
<1>1. pg_list \in [PG -> PG_Info]
  BY DEF FtlTypeOK
<1>2. CASE l2p_tbl' = l2p_tbl /\ pg_list' = pg_list
  BY <1>2, NothingMoves
<1>3. CASE Reload
  <2>1. \A pg \in PG :
          /\ pg_list'[pg].lp_num = pg_list[pg].lp_num
          /\ pg_list'[pg].vs_num = pg_list[pg].vs_num
          /\ pg_list'[pg].next_ofs = pg_list[pg].next_ofs
          /\ pg_list'[pg].status = "FREE" => pg_list[pg].status = "FREE"
    BY <1>1, <1>3 DEF Reload, ReloadRcmTarget, PG_Info
  <2>. QED BY <1>3, <2>1, NothingMoves DEF Reload, ReloadRcmTarget
<1>4. CASE Collect
  <2>1. \A pg \in PG :
          /\ pg_list'[pg].lp_num = pg_list[pg].lp_num
          /\ pg_list'[pg].vs_num = pg_list[pg].vs_num
          /\ pg_list'[pg].next_ofs = pg_list[pg].next_ofs
          /\ pg_list'[pg].status = "FREE" => pg_list[pg].status = "FREE"
    BY <1>1, <1>4 DEF Collect, ScanNext, PG_Info
  <2>. QED BY <1>4, <2>1, NothingMoves DEF Collect, ScanNext
<1>5. CASE FormatPage \/ FormatDone \/ \E lpn \in LP : HostWrite(lpn)
  BY <1>2, <1>5 DEF FormatPage, FormatDone, HostWrite, ftlVars
<1>6. CASE GetReWriteReq \/ ReloadDone \/ CollectDone \/ Rewrite \/ RewriteDone
  BY <1>2, <1>6 DEF GetReWriteReq, ReloadDone, CollectDone, Rewrite, RewriteDone, ftlVars
<1>7. CASE CollectNextPG
  BY <1>2, <1>7 DEF CollectNextPG, ScanEnd
<1>8. CASE \E num \in 0..MaxErase : EraseReq(num)
  BY <1>2, <1>8 DEF EraseReq, GetEraseReq
<1>9. CASE Erase
  BY <1>2, <1>9 DEF Erase, ErasePB
<1>. QED BY <1>3, <1>4, <1>5, <1>6, <1>7, <1>8, <1>9 DEF CommonStep

(* Every step of the device keeps the books. *)
LEMMA NextBooks == TypeInv /\ BooksInv /\ [Next]_vars => BooksInv'
<1>. SUFFICES ASSUME TypeInv, BooksInv, [Next]_vars PROVE BooksInv'
  OBVIOUS
<1>1. pg_list \in [PG -> PG_Info] /\ FtlTypeOK
  BY DEF TypeInv, SsdTypeOK, FtlTypeOK
<1>2. CASE l2p_tbl' = l2p_tbl /\ pg_list' = pg_list
  BY <1>2, NothingMoves DEF TypeInv, SsdTypeOK
<1>3. CASE GetOpenPG_Build
  <2>1. CASE free_pg_que = <<>>
    BY <1>2, <1>3, <2>1 DEF GetOpenPG_Build, ftlVars
  <2>2. CASE free_pg_que # <<>>
    <3>1. BuildPG(io.type)
      BY <1>3, <2>2 DEF GetOpenPG_Build
    <3>2. \A pg \in PG :
            /\ pg_list'[pg].lp_num = pg_list[pg].lp_num
            /\ pg_list'[pg].vs_num = pg_list[pg].vs_num
            /\ pg_list'[pg].next_ofs = pg_list[pg].next_ofs
            /\ pg_list'[pg].status = "FREE" => pg_list[pg].status = "FREE"
      BY <1>1, <3>1 DEF BuildPG, TakePG, PG_Info
    <3>. QED BY <3>1, <3>2, NothingMoves DEF TypeInv, SsdTypeOK, BuildPG, TakePG
  <2>. QED BY <2>1, <2>2
<1>4. CASE LpWrite
  <2>1. CASE L2P_UpdateError(io.lpn, SectsPerLp, openpg[io.type])
    BY <1>2, <1>4, <2>1 DEF LpWrite, ftlVars
  <2>2. CASE ~L2P_UpdateError(io.lpn, SectsPerLp, openpg[io.type])
    <3>1. openpg[io.type] \in PG /\ io.lpn \in LP
      BY <1>1, <1>4 DEF LpWrite, TypeInv, ControlInv, SsdTypeOK, FtlTypeOK
    <3>2. L2P_Update(io.lpn, SectsPerLp, openpg[io.type], FALSE)
      BY <1>4, <2>2 DEF LpWrite
    <3>. QED BY <2>2, <3>1, <3>2, UpdateBooks DEF TypeInv, SsdTypeOK
  <2>. QED BY <2>1, <2>2
<1>5. CASE CommonStep
  BY <1>1, <1>5, CommonBooks
<1>6. CASE UNCHANGED vars
  BY <1>2, <1>6 DEF vars, ftlVars
<1>7. CASE GetOpenPG_Present
  BY <1>2, <1>7 DEF GetOpenPG_Present, ftlVars
<1>. QED BY <1>3, <1>4, <1>5, <1>6, <1>7, NextCases

\* The three parts of BooksInv worth a name, from the one inductive invariant.
LEMMA BooksCorrect == Spec => [](TypeInv /\ BooksInv)
<1>1. Init => TypeInv /\ BooksInv
  BY InitType, InitBooks
<1>2. TypeInv /\ BooksInv /\ [Next]_vars => (TypeInv /\ BooksInv)'
  BY NextType, NextBooks
<1>. QED BY <1>1, <1>2, PTL DEF Spec

\* On every device a PG's counters agree with the map: the pages L2P_Update adds
\* and takes off, in whatever order writes and copies come, are those mapped.
THEOREM AccountingHolds == Spec => []Accounting
<1>1. BooksInv => Accounting
  BY DEF BooksInv
<1>. QED BY <1>1, BooksCorrect, PTL

\* On every device CloseToInvalid releases only PGs nothing can be read from.
THEOREM FreePGsAreEmpty == Spec => []NoPageInFreePG
<1>1. BooksInv => NoPageInFreePG
  BY DEF BooksInv
<1>. QED BY <1>1, BooksCorrect, PTL

\* On every device no two pages share a sector, and none lies beyond the write
\* position: what L2P_Update writes never overlaps data that is still valid.
THEOREM NoOverlap == Spec => []SectorsDisjoint
<1>1. BooksInv => SectorsDisjoint
  BY DEF BooksInv
<1>. QED BY <1>1, BooksCorrect, PTL

-----------------------------------------------------------------------------
(***************************************************************************)
(* The SSD implements the segment log, for every number of pages, groups   *)
(* and blocks.                                                             *)
(*                                                                         *)
(* The log frees a segment when its last live page has left it; the device *)
(* frees a PG when a counter reaches zero, opens the PG at the head of one *)
(* queue and reclaims the last of another.  The counters are right by the  *)
(* books (BooksInv); what is left to prove is that the two queues hold     *)
(* only PGs of the state their name says.                                  *)
(***************************************************************************)

\* No PG is queued twice.
Once(queue) == \A i, j \in 1..Len(queue) : queue[i] = queue[j] => i = j

\* RemoveFirst moves the elements behind the one it takes out one place forward.
LEMMA RemoveFirstPlaces ==
  ASSUME NEW S, NEW s \in Seq(S), NEW e, Contains(s, e)
  PROVE  LET t == RemoveFirst(s, e)
             from(j) == IF j < Position(s, e) THEN j ELSE j + 1
         IN  /\ Len(t) = Len(s) - 1
             /\ \A j \in 1..Len(t) : /\ t[j] = s[from(j)]
                                     /\ from(j) \in 1..Len(s) \ {Position(s, e)}
<1>. DEFINE i == Position(s, e)
            front == SubSeq(s, 1, i - 1)
            back == SubSeq(s, i + 1, Len(s))
            from(j) == IF j < i THEN j ELSE j + 1
<1>0. Len(s) \in Nat /\ \A j \in 1..Len(s) : s[j] \in S
  BY LenProperties, ElementOfSeq
<1>1. i \in 1..Len(s)
  BY FirstPosition
<1>2. RemoveFirst(s, e) = front \o back
  BY DEF Contains, RemoveFirst, RemoveAt, SelectInSeq, Position
<1>. HIDE DEF i
<1>3. /\ front \in Seq(S) /\ Len(front) = i - 1
      /\ \A j \in 1..(i - 1) : front[j] = s[j]
  BY <1>0, <1>1, SubSeqProperties
<1>4. /\ back \in Seq(S) /\ Len(back) = Len(s) - i
      /\ \A j \in 1..(Len(s) - i) : back[j] = s[i + j]
  BY <1>0, <1>1, SubSeqProperties
<1>. HIDE DEF front, back
<1>. DEFINE t == front \o back
<1>5. /\ Len(t) = Len(s) - 1
      /\ \A j \in 1..(Len(s) - 1) : t[j] = IF j <= i - 1 THEN front[j] ELSE back[j - (i - 1)]
  <2>1. /\ Len(t) = Len(front) + Len(back)
        /\ \A j \in 1..(Len(front) + Len(back)) :
             t[j] = IF j <= Len(front) THEN front[j] ELSE back[j - Len(front)]
    BY <1>3, <1>4, ConcatProperties
  <2>2. Len(front) + Len(back) = Len(s) - 1
    BY <1>0, <1>1, <1>3, <1>4
  <2>. HIDE DEF t
  <2>. QED BY <1>3, <2>1, <2>2
<1>6. \A j \in 1..Len(t) : t[j] = s[from(j)] /\ from(j) \in 1..Len(s) \ {i}
  <2>. SUFFICES ASSUME NEW j \in 1..Len(t)
                PROVE  t[j] = s[from(j)] /\ from(j) \in 1..Len(s) \ {i}
    OBVIOUS
  <2>1. CASE j < i
    BY <1>0, <1>1, <1>3, <1>5, <2>1
  <2>2. CASE ~(j < i)
    <3>1. j - (i - 1) \in 1..(Len(s) - i) /\ i + (j - (i - 1)) = j + 1
      BY <1>0, <1>1, <1>5, <2>2
    <3>. QED BY <1>0, <1>1, <1>4, <1>5, <2>2, <3>1
  <2>. QED BY <2>1, <2>2
<1>. HIDE DEF t
<1>. QED BY <1>2, <1>5, <1>6 DEF t, i

\* What RemoveFirst leaves of a queue is the rest of it.
LEMMA RemoveFirstOnce ==
  ASSUME NEW S, NEW s \in Seq(S), NEW e, Once(s)
  PROVE  /\ Once(RemoveFirst(s, e))
         /\ \A x : Contains(RemoveFirst(s, e), x) <=> Contains(s, x) /\ x # e
<1>1. CASE ~Contains(s, e)
  <2>1. RemoveFirst(s, e) = s
    BY <1>1, RemoveFirstProperties
  <2>. QED BY <1>1, <2>1 DEF Contains
<1>2. CASE Contains(s, e)
  <2>. DEFINE i == Position(s, e)
              t == RemoveFirst(s, e)
              from(j) == IF j < i THEN j ELSE j + 1
  <2>0. Len(s) \in Nat /\ i \in 1..Len(s) /\ s[i] = e
    BY <1>2, FirstPosition, LenProperties
  <2>1. /\ Len(t) = Len(s) - 1
        /\ \A j \in 1..Len(t) : t[j] = s[from(j)] /\ from(j) \in 1..Len(s) \ {i}
    BY <1>2, RemoveFirstPlaces
  <2>. HIDE DEF i, t
  <2>2. \A j, k \in 1..Len(t) : from(j) = from(k) => j = k
    BY <2>0, <2>1
  <2>3. \A k \in 1..Len(s) : k # i => \E j \in 1..Len(t) : from(j) = k
    <3>1. ASSUME NEW k \in 1..Len(s), k < i
          PROVE  k \in 1..Len(t) /\ from(k) = k
      BY <2>0, <2>1, <3>1
    <3>2. ASSUME NEW k \in 1..Len(s), k > i
          PROVE  k - 1 \in 1..Len(t) /\ from(k - 1) = k
      BY <2>0, <2>1, <3>2
    <3>3. \A k \in 1..Len(s) : k = i \/ k < i \/ k > i
      BY <2>0
    <3>. HIDE DEF from
    <3>. QED BY <3>1, <3>2, <3>3
  <2>. HIDE DEF from
  <2>4. Once(t)
    BY <2>1, <2>2 DEF Once
  <2>5. \A x : Contains(t, x) => Contains(s, x) /\ x # e
    BY <2>0, <2>1 DEF Contains, Once
  <2>6. \A x : Contains(s, x) /\ x # e => Contains(t, x)
    BY <2>0, <2>1, <2>3 DEF Contains
  <2>. QED BY <2>4, <2>5, <2>6 DEF t
<1>. QED BY <1>1, <1>2

\* InsertAt moves the elements from its place on one place back.
LEMMA InsertAtPlaces ==
  ASSUME NEW S, NEW s \in Seq(S), NEW i \in 1..(Len(s) + 1), NEW e \in S
  PROVE  LET t == InsertAt(s, i, e)
             from(j) == IF j < i THEN j ELSE j - 1
         IN  /\ Len(t) = Len(s) + 1
             /\ \A j \in 1..Len(t) : IF j = i THEN t[j] = e
                                     ELSE t[j] = s[from(j)] /\ from(j) \in 1..Len(s)
<1>0. Len(s) \in Nat /\ \A j \in 1..Len(s) : s[j] \in S
  BY LenProperties, ElementOfSeq
<1>. DEFINE front == SubSeq(s, 1, i - 1)
            back == SubSeq(s, i, Len(s))
            head == front \o <<e>>
            t == head \o back
            from(j) == IF j < i THEN j ELSE j - 1
<1>1. /\ front \in Seq(S) /\ Len(front) = i - 1
      /\ \A j \in 1..(i - 1) : front[j] = s[j]
  BY <1>0, SubSeqProperties
<1>2. /\ back \in Seq(S) /\ Len(back) = Len(s) - i + 1
      /\ \A j \in 1..(Len(s) - i + 1) : back[j] = s[i + j - 1]
  BY <1>0, SubSeqProperties
<1>3. InsertAt(s, i, e) = t
  BY DEF InsertAt
<1>. HIDE DEF front, back
<1>4. <<e>> \in Seq(S) /\ Len(<<e>>) = 1 /\ <<e>>[1] = e
  OBVIOUS
<1>5. /\ head \in Seq(S) /\ Len(head) = i
      /\ \A j \in 1..i : head[j] = IF j <= i - 1 THEN front[j] ELSE <<e>>[j - (i - 1)]
  BY <1>0, <1>1, <1>4, ConcatProperties
<1>6. \A j \in 1..i : head[j] = IF j = i THEN e ELSE s[j]
  BY <1>0, <1>1, <1>4, <1>5
<1>. HIDE DEF head
<1>7. /\ Len(t) = Len(s) + 1
      /\ \A j \in 1..(Len(s) + 1) : t[j] = IF j <= i THEN head[j] ELSE back[j - i]
  BY <1>0, <1>2, <1>5, ConcatProperties
<1>8. \A j \in 1..Len(t) : IF j = i THEN t[j] = e
                           ELSE t[j] = s[from(j)] /\ from(j) \in 1..Len(s)
  <2>. SUFFICES ASSUME NEW j \in 1..Len(t)
                PROVE  IF j = i THEN t[j] = e ELSE t[j] = s[from(j)] /\ from(j) \in 1..Len(s)
    OBVIOUS
  <2>1. CASE j <= i
    BY <1>0, <1>6, <1>7, <2>1
  <2>2. CASE ~(j <= i)
    <3>1. j - i \in 1..(Len(s) - i + 1) /\ i + (j - i) - 1 = j - 1
      BY <1>0, <1>7, <2>2
    <3>. QED BY <1>0, <1>2, <1>7, <2>2, <3>1
  <2>. QED BY <2>1, <2>2
<1>. HIDE DEF t
<1>. QED BY <1>3, <1>7, <1>8

\* What InsertAt makes of a queue is the queue and the new element.
LEMMA InsertAtOnce ==
  ASSUME NEW S, NEW s \in Seq(S), NEW i \in 1..(Len(s) + 1), NEW e \in S,
         Once(s), ~Contains(s, e)
  PROVE  /\ Once(InsertAt(s, i, e))
         /\ \A x : Contains(InsertAt(s, i, e), x) <=> Contains(s, x) \/ x = e
<1>. DEFINE t == InsertAt(s, i, e)
            from(j) == IF j < i THEN j ELSE j - 1
<1>0. Len(s) \in Nat
  BY LenProperties
<1>1. /\ Len(t) = Len(s) + 1
      /\ \A j \in 1..Len(t) : IF j = i THEN t[j] = e
                              ELSE t[j] = s[from(j)] /\ from(j) \in 1..Len(s)
  BY InsertAtPlaces
<1>. HIDE DEF t
<1>2. \A j, k \in 1..Len(t) : j # i /\ k # i /\ from(j) = from(k) => j = k
  BY <1>0, <1>1
<1>3. \A k \in 1..Len(s) : \E j \in 1..Len(t) : j # i /\ from(j) = k
  <2>1. ASSUME NEW k \in 1..Len(s), k < i
        PROVE  k \in 1..Len(t) /\ k # i /\ from(k) = k
    BY <1>0, <1>1, <2>1
  <2>2. ASSUME NEW k \in 1..Len(s), ~(k < i)
        PROVE  k + 1 \in 1..Len(t) /\ k + 1 # i /\ from(k + 1) = k
    BY <1>0, <1>1, <2>2
  <2>. HIDE DEF from
  <2>. QED BY <2>1, <2>2
<1>4. i \in 1..Len(t)
  BY <1>0, <1>1
<1>. HIDE DEF from
<1>5. Once(t)
  BY <1>1, <1>2 DEF Once, Contains
<1>6. \A x : Contains(t, x) <=> Contains(s, x) \/ x = e
  <2>1. \A x : Contains(t, x) => Contains(s, x) \/ x = e
    BY <1>1 DEF Contains
  <2>2. \A x : Contains(s, x) => Contains(t, x)
    BY <1>1, <1>3 DEF Contains
  <2>3. Contains(t, e)
    BY <1>1, <1>4 DEF Contains
  <2>. QED BY <2>1, <2>2, <2>3
<1>. QED BY <1>5, <1>6 DEF t

\* A new element at the end of a queue is queued once.
LEMMA AppendOnce ==
  ASSUME NEW S, NEW s \in Seq(S), NEW e \in S, Once(s), ~Contains(s, e)
  PROVE  /\ Once(Append(s, e))
         /\ \A x : Contains(Append(s, e), x) <=> Contains(s, x) \/ x = e
<1>. DEFINE t == Append(s, e)
<1>1. Len(s) \in Nat /\ Len(t) = Len(s) + 1 /\ t[Len(s) + 1] = e
  BY AppendProperties, LenProperties
<1>2. \A j \in 1..Len(s) : t[j] = s[j]
  BY AppendProperties
<1>. HIDE DEF t
<1>3. \A j \in 1..Len(t) : j = Len(s) + 1 \/ j \in 1..Len(s)
  BY <1>1
<1>4. Once(t) /\ \A x : Contains(t, x) => Contains(s, x) \/ x = e
  BY <1>1, <1>2, <1>3 DEF Once, Contains
<1>5. 1..Len(s) \subseteq 1..Len(t) /\ Len(t) \in 1..Len(t)
  BY <1>1
<1>6. \A x : Contains(s, x) \/ x = e => Contains(t, x)
  BY <1>1, <1>2, <1>5 DEF Contains
<1>. QED BY <1>4, <1>6 DEF t

\* Without its first element a queue has the others.
LEMMA TailOnce ==
  ASSUME NEW S, NEW s \in Seq(S), s # <<>>, Once(s)
  PROVE  /\ Head(s) \in S /\ Contains(s, Head(s)) /\ Tail(s) \in Seq(S) /\ Once(Tail(s))
         /\ \A x : Contains(Tail(s), x) <=> Contains(s, x) /\ x # Head(s)
<1>. DEFINE t == Tail(s)
<1>1. /\ Len(s) \in Nat \ {0} /\ Head(s) = s[1] /\ Head(s) \in S
      /\ t \in Seq(S) /\ Len(t) = Len(s) - 1
      /\ \A i \in 1..Len(t) : t[i] = s[i + 1]
  BY HeadTailProperties, EmptySeq, LenProperties
<1>. HIDE DEF t
<1>2. \A i \in 1..Len(s) : i = 1 \/ (i - 1 \in 1..Len(t) /\ (i - 1) + 1 = i)
  BY <1>1
<1>3. \A i \in 1..Len(t) : i + 1 \in 1..Len(s) /\ i + 1 # 1
  BY <1>1
<1>4. 1 \in 1..Len(s) /\ Contains(s, Head(s))
  BY <1>1 DEF Contains
<1>5. \A x : Contains(t, x) => Contains(s, x) /\ x # Head(s)
  BY <1>1, <1>3, <1>4 DEF Once, Contains
<1>6. ASSUME NEW x, Contains(s, x), x # Head(s) PROVE Contains(t, x)
  <2>1. PICK i \in 1..Len(s) : s[i] = x
    BY <1>6 DEF Contains
  <2>2. i - 1 \in 1..Len(t) /\ t[i - 1] = x
    BY <1>1, <1>2, <1>6, <2>1
  <2>. QED BY <2>2 DEF Contains
<1>7. Once(t)
  BY <1>1, <1>3 DEF Once
<1>. QED BY <1>1, <1>4, <1>5, <1>6, <1>7 DEF t

\* Ranking a PG queues it once, and nothing but it.
LEMMA UpdateCloseRankingOnce ==
  ASSUME NEW queue \in Seq(PG), NEW pg \in PG, NEW pgs, Once(queue)
  PROVE  /\ Once(UpdateCloseRanking(queue, pg, pgs))
         /\ \A x : Contains(UpdateCloseRanking(queue, pg, pgs), x) <=> Contains(queue, x) \/ x = pg
<1>. DEFINE rest  == RemoveFirst(queue, pg)
            start == IF Contains(queue, pg) THEN Position(queue, pg) ELSE 1
            stops == {i \in start..Len(rest) : pgs[pg].vs_num >= pgs[rest[i]].vs_num}
            at    == IF stops = {} THEN Len(rest) + 1 ELSE Min(stops)
<1>1. /\ rest \in Seq(PG) /\ Once(rest) /\ ~Contains(rest, pg)
      /\ \A x : Contains(rest, x) <=> Contains(queue, x) /\ x # pg
  BY RemoveFirstProperties, RemoveFirstOnce
<1>2. start \in Nat \ {0}
  BY FirstPosition, LenProperties
<1>3. UpdateCloseRanking(queue, pg, pgs) = InsertAt(rest, at, pg)
  BY DEF UpdateCloseRanking, SelectInSeq, Position, Contains
<1>. HIDE DEF rest, start
<1>4. Len(rest) \in Nat
  BY <1>1, LenProperties
<1>5. at \in 1..(Len(rest) + 1)
  <2>1. stops \subseteq 1..Len(rest) /\ stops \subseteq Nat
    BY <1>2, <1>4
  <2>. HIDE DEF stops
  <2>2. stops # {} => Min(stops) \in stops
    BY <2>1, MinOfNaturals
  <2>3. CASE stops = {}
    BY <1>4, <2>3
  <2>4. CASE stops # {}
    <3>1. at \in 1..Len(rest)
      BY <2>1, <2>2, <2>4
    <3>. HIDE DEF at
    <3>. QED BY <1>4, <3>1
  <2>. QED BY <2>3, <2>4
<1>. HIDE DEF at
<1>. QED BY <1>1, <1>3, <1>5, InsertAtOnce

-----------------------------------------------------------------------------
(* The queues the device opens PGs from and takes its victims from *)

QueuedAs(queue, status) ==
  /\ Once(queue)
  /\ \A pg \in PG : Contains(queue, pg) <=> pg_list[pg].status = status

\* A closed PG has pages: L2P_Update releases it with the last of them.
ClosedHasPages == \A pg \in PG : pg_list[pg].status = "CLOSE" => pg_list[pg].lp_num # 0

QueuesInv == QueuedAs(free_pg_que, "FREE") /\ QueuedAs(close_pg_que, "CLOSE") /\ ClosedHasPages

(* On a formatted device every PG is queued once, as free. *)
LEMMA InitQueues == Init => QueuesInv
<1>. SUFFICES ASSUME Init PROVE QueuesInv
  OBVIOUS
<1>1. \A pg \in PG : pg_list[pg].status = "FREE"
  BY DEF Init, InitFTL, InitPG
<1>2. Once(free_pg_que)
  BY SizesAssumption DEF Init, InitFTL, Once
<1>3. close_pg_que = <<>>
  BY DEF Init, InitFTL
<1>4. Once(close_pg_que) /\ \A pg \in PG : ~Contains(close_pg_que, pg)
  BY <1>3 DEF Once, Contains
<1>5. \A pg \in PG : Contains(free_pg_que, pg)
  <2>1. \A pg \in PG : pg + 1 \in 1..PgNum /\ (pg + 1) - 1 = pg
    BY SizesAssumption DEF PG
  <2>2. Len(free_pg_que) = PgNum /\ \A i \in 1..PgNum : free_pg_que[i] = i - 1
    BY SizesAssumption DEF Init, InitFTL
  <2>. QED BY <2>1, <2>2 DEF Contains
<1>. QED BY <1>1, <1>2, <1>4, <1>5 DEF QueuesInv, QueuedAs, ClosedHasPages

\* Whole pages of a fixed length, one more and one less.
LEMMA WholePages ==
  ASSUME NEW s \in Nat \ {0}, NEW n \in Nat
  PROVE  /\ s * (n + 1) = s * n + s
         /\ n # 0 => ((s * n) - s = 0 <=> n = 1)
<1>1. s * (n + 1) = s * n + s
  OBVIOUS
<1>2. n # 0 => ((s * n) - s = s * (n - 1) /\ n - 1 \in Nat)
  OBVIOUS
<1>3. \A m \in Nat : s * m = 0 <=> m = 0
  OBVIOUS
<1>4. n # 0 => (s * (n - 1) = 0 <=> n = 1)
  BY <1>2, <1>3
<1>. QED BY <1>1, <1>2, <1>4

\* The write of a page to dst releases the PG the page was in.
Releases(lpn, dst) ==
  LET src == l2p_tbl[lpn].pgn
  IN  src \in PG /\ src # dst /\ pg_list[src].lp_num = 1 /\ pg_list[src].status # "OPEN"

\* dst after the write of a page of length len, padded if it is to be aligned.
PadOf(len, dst, align) == IF align THEN Pad(pg_list[dst].next_ofs + len) ELSE 0
Grown(lpn, len, dst, align) == Written(pg_list[dst], lpn, len, PadOf(len, dst, align))

\* The write of a page to dst closes dst: of any length, and of a whole page.
Fills(lpn, len, dst, align) == Grown(lpn, len, dst, align).status = "CLOSE"
Closes(lpn, dst) == Fills(lpn, SectsPerLp, dst, FALSE)

\* The PG a page is in is in use and counts it: that page alone when the sectors
\* it counts are the sectors of the page.
PageCounted(lpn) ==
  LET old == l2p_tbl[lpn]
      src == old.pgn
  IN  src # NoPG =>
        /\ pg_list[src].lp_num \in Nat \ {0} /\ pg_list[src].status # "FREE"
        /\ pg_list[src].vs_num = old.len <=> pg_list[src].lp_num = 1

\* The books of a device that writes whole pages count every page.
LEMMA BookedPages ==
  ASSUME FtlTypeOK, BooksInv, NEW lpn \in LP
  PROVE  PageCounted(lpn)
<1>. DEFINE src == l2p_tbl[lpn].pgn
<1>. SUFFICES ASSUME src # NoPG PROVE PageCounted(lpn)
  BY DEF PageCounted
<1>1. /\ src \in PG /\ pg_list[src].lp_num \in Nat \ {0}
      /\ pg_list[src].vs_num = SectsPerLp * pg_list[src].lp_num
      /\ l2p_tbl[lpn].len = SectsPerLp
  BY CountedPage DEF BooksInv, FullLength
<1>2. lpn \in Mapped(src)
  BY DEF Mapped
<1>3. pg_list[src].status # "FREE"
  BY <1>1, <1>2 DEF BooksInv, NoPageInFreePG
<1>4. \A n \in Nat \ {0} : SectsPerLp * n = SectsPerLp <=> n = 1
  <2>. TAKE n \in Nat \ {0}
  <2>1. SectsPerLp * n \in Nat /\ SectsPerLp \in Nat \ {0}
    BY SizesAssumption
  <2>2. (SectsPerLp * n) - SectsPerLp = 0 <=> n = 1
    BY <2>1, WholePages
  <2>. QED BY <2>1, <2>2
<1>. QED BY <1>1, <1>3, <1>4 DEF PageCounted

\* An accepted L2P_Update changes the state of dst, if it fills it, and of the PG
\* whose last page it takes, and queues both where they belong.
LEMMA StatusAfterWrite ==
  ASSUME FtlTypeOK, QueuesInv, NEW lpn \in LP, NEW len \in Nat \ {0}, NEW dst \in PG,
         NEW align \in BOOLEAN, PageCounted(lpn),
         ~L2P_UpdateError(lpn, len, dst), L2P_Update(lpn, len, dst, align)
  PROVE  /\ \A pg \in PG : pg_list'[pg].status =
               IF Releases(lpn, dst) /\ pg = l2p_tbl[lpn].pgn THEN "FREE"
               ELSE IF pg = dst THEN IF Fills(lpn, len, dst, align) THEN "CLOSE" ELSE "OPEN"
               ELSE pg_list[pg].status
         /\ QueuesInv'
<1>. DEFINE old     == l2p_tbl[lpn]
            src     == old.pgn
            new     == Grown(lpn, len, dst, align)
            written == [pg_list EXCEPT ![dst] = new]
            closing == written[dst].status = "CLOSE"
            ranked  == IF closing THEN UpdateCloseRanking(close_pg_que, dst, written)
                                  ELSE close_pg_que
            drops   == src # NoPG /\ written[src].lp_num # 0
            dropped == [written EXCEPT ![src] = Released(@, old.len)]
            release == drops /\ dropped[src].vs_num = 0 /\ dropped[src].status # "OPEN"
<1>0. PadOf(len, dst, align) \in Nat
  <2>1. pg_list[dst].next_ofs + len \in Nat
    BY DEF FtlTypeOK, PG_Info
  <2>. QED BY <2>1, PadType DEF PadOf
<1>1. /\ pg_list \in [PG -> PG_Info] /\ l2p_tbl \in [LP -> VPA]
      /\ src \in PG \cup {NoPG} /\ NoPG \notin PG
      /\ close_pg_que \in Seq(PG) /\ free_pg_que \in Seq(PG)
  BY NoPGAssumption DEF FtlTypeOK, VPA, PG
<1>2. /\ pg_list[dst].status = "OPEN"
      /\ \A pg \in PG : pg_list[pg].lp_num \in Nat /\ pg_list[pg].vs_num \in Nat
      /\ old.len \in Nat /\ (src # NoPG => pg_list[src].vs_num >= old.len)
  <2>1. \A pg \in PG : pg_list[pg].lp_num \in Nat /\ pg_list[pg].vs_num \in Nat
    BY <1>1 DEF PG_Info
  <2>2. old.len \in Nat
    BY <1>1 DEF VPA
  <2>3. pg_list[dst].status = "OPEN" /\ ~(src # NoPG /\ pg_list[src].vs_num < old.len)
    BY DEF L2P_UpdateError
  <2>. QED BY <1>1, <2>1, <2>2, <2>3
<1>3. /\ IF release
         THEN CloseToInvalid(src, dropped, ranked)
         ELSE /\ pg_list' = IF drops THEN dropped ELSE written
              /\ close_pg_que' = IF drops /\ dropped[src].status = "CLOSE"
                                 THEN UpdateCloseRanking(ranked, src, dropped)
                                 ELSE ranked
              /\ UNCHANGED free_pg_que
  BY Zenon DEF L2P_Update, OpenToClose, Grown, PadOf
<1>4. /\ new.lp_num = pg_list[dst].lp_num + 1
      /\ new.vs_num = pg_list[dst].vs_num + len
      /\ new.status = IF Fills(lpn, len, dst, align) THEN "CLOSE" ELSE "OPEN"
      /\ new \in PG_Info
  <2>1. new \in PG_Info
    BY <1>0, <1>1, WrittenType DEF Grown
  <2>2. pg_list[dst] \in PG_Info
    BY <1>1
  <2>3. new.lp_num = pg_list[dst].lp_num + 1 /\ new.vs_num = pg_list[dst].vs_num + len
    BY <2>2 DEF Grown, Written, PG_Info
  <2>4. new.status \in {pg_list[dst].status, "CLOSE"}
    BY <2>2 DEF Grown, Written, PG_Info
  <2>5. new.status = IF Fills(lpn, len, dst, align) THEN "CLOSE" ELSE "OPEN"
    BY <1>2, <2>4 DEF Fills
  <2>. HIDE DEF new
  <2>. QED BY <2>1, <2>3, <2>5
<1>. HIDE DEF new
<1>5. /\ written \in [PG -> PG_Info] /\ written[dst] = new
      /\ \A pg \in PG \ {dst} : written[pg] = pg_list[pg]
  BY <1>1, <1>4
<1>6. closing <=> Fills(lpn, len, dst, align)
  BY <1>4, <1>5
<1>. HIDE DEF written, closing
\* The close queue with dst in it, before the PG the page came from is looked at.
<1>7. /\ ranked \in Seq(PG) /\ Once(ranked)
      /\ \A pg \in PG : Contains(ranked, pg) <=> written[pg].status = "CLOSE"
  <2>1. Once(close_pg_que)
    BY DEF QueuesInv, QueuedAs
  <2>2. \A pg \in PG : Contains(close_pg_que, pg) <=> pg # dst /\ written[pg].status = "CLOSE"
    BY <1>2, <1>5 DEF QueuesInv, QueuedAs
  <2>3. CASE closing
    <3>1. /\ ranked \in Seq(PG) /\ Once(ranked)
          /\ \A x : Contains(ranked, x) <=> Contains(close_pg_que, x) \/ x = dst
      BY <1>1, <2>1, <2>3, UpdateCloseRankingType, UpdateCloseRankingOnce
    <3>2. written[dst].status = "CLOSE"
      BY <2>3 DEF closing
    <3>. HIDE DEF ranked
    <3>. QED BY <2>2, <3>1, <3>2
  <2>4. CASE ~closing
    BY <1>1, <2>1, <2>2, <2>4 DEF closing
  <2>. QED BY <2>3, <2>4
<1>. HIDE DEF ranked
\* What the PG loses.
<1>8. ASSUME src # NoPG
      PROVE  /\ src \in PG /\ drops
             /\ dropped[src].status = written[src].status
             /\ dropped[src].lp_num = written[src].lp_num - 1
             /\ \A pg \in PG \ {src} : dropped[pg] = written[pg]
             /\ written[src].lp_num \in Nat \ {0}
             /\ release <=> Releases(lpn, dst)
             /\ written[src].lp_num = 1 /\ written[src].status # "OPEN" => release
  <2>1. /\ src \in PG /\ pg_list[src].lp_num \in Nat \ {0}
        /\ pg_list[src].vs_num = old.len <=> pg_list[src].lp_num = 1
    BY <1>1, <1>8 DEF PageCounted
  <2>2. /\ written[src].lp_num = pg_list[src].lp_num + (IF src = dst THEN 1 ELSE 0)
        /\ written[src].vs_num = pg_list[src].vs_num + (IF src = dst THEN len ELSE 0)
    BY <1>2, <1>4, <1>5, <2>1
  <2>3. drops
    BY <1>8, <2>1, <2>2
  <2>4. dropped[src] = Released(written[src], old.len) /\ written[src] \in PG_Info
    BY <1>5, <2>1
  <2>5. \A pg \in PG \ {src} : dropped[pg] = written[pg]
    BY <1>5, <2>1
  <2>. HIDE DEF drops, dropped
  <2>6. /\ dropped[src].status = written[src].status
        /\ dropped[src].lp_num = written[src].lp_num - 1
        /\ dropped[src].vs_num = written[src].vs_num - old.len
    BY <2>4 DEF Released, PG_Info
  <2>7. dropped[src].vs_num = 0 <=> written[src].lp_num = 1
    <3>. DEFINE vs == pg_list[src].vs_num
    <3>1. /\ vs \in Nat /\ old.len \in Nat /\ vs >= old.len /\ pg_list[src].lp_num \in Nat \ {0}
          /\ vs = old.len <=> pg_list[src].lp_num = 1
      BY <1>2, <1>8, <2>1
    <3>2. dropped[src].vs_num = vs + (IF src = dst THEN len ELSE 0) - old.len
      BY <2>2, <2>6, <3>1
    <3>. HIDE DEF vs, old, src
    <3>3. CASE src = dst
      BY <2>2, <3>1, <3>2, <3>3
    <3>4. CASE src # dst
      BY <2>2, <3>1, <3>2, <3>4
    <3>. QED BY <3>3, <3>4
  <2>8. written[src].lp_num = 1 <=> src # dst /\ pg_list[src].lp_num = 1
    BY <2>1, <2>2
  <2>9. src # dst => written[src].status = pg_list[src].status
    BY <1>5, <2>1
  <2>10. release <=> Releases(lpn, dst)
    BY <2>1, <2>3, <2>6, <2>7, <2>8, <2>9 DEF Releases
  <2>11. written[src].lp_num = 1 /\ written[src].status # "OPEN" => release
    BY <2>3, <2>6, <2>7
  <2>12. written[src].lp_num \in Nat \ {0}
    BY <2>1, <2>2
  <2>. QED BY <2>1, <2>3, <2>5, <2>6, <2>10, <2>11, <2>12
\* The same for a page that was nowhere.
<1>9. ASSUME src = NoPG
      PROVE  ~drops /\ ~release /\ ~Releases(lpn, dst)
  BY <1>1, <1>9 DEF Releases
<1>10. dropped \in [PG -> {dropped[pg] : pg \in PG}]
  BY <1>5
<1>. HIDE DEF drops, dropped, release
\* What the two branches of the code have in common.
<1>. DEFINE freed(pg) == release /\ pg = src
<1>11. /\ \A pg \in PG : pg_list'[pg].status = IF freed(pg) THEN "FREE" ELSE written[pg].status
       /\ \A pg \in PG : pg_list'[pg].status = "CLOSE" => pg_list'[pg].lp_num # 0
       /\ Once(close_pg_que')
       /\ \A pg \in PG : Contains(close_pg_que', pg) <=> ~freed(pg) /\ written[pg].status = "CLOSE"
       /\ free_pg_que' = IF release THEN Append(free_pg_que, src) ELSE free_pg_que
  <2>0. \A pg \in PG : written[pg].status = "CLOSE" => written[pg].lp_num \in Nat \ {0}
    <3>1. new.lp_num \in Nat \ {0}
      BY <1>2, <1>4
    <3>. QED BY <1>2, <1>5, <3>1 DEF QueuesInv, ClosedHasPages
  <2>1. CASE src = NoPG
    <3>1. pg_list' = written /\ close_pg_que' = ranked /\ UNCHANGED free_pg_que
      BY <1>3, <1>9, <2>1
    <3>. QED BY <1>7, <1>9, <2>0, <2>1, <3>1
  <2>2. CASE src # NoPG /\ release
    <3>1. /\ pg_list' = [dropped EXCEPT ![src] = InitPG]
          /\ close_pg_que' = IF dropped[src].status = "RCM" THEN ranked ELSE RemoveFirst(ranked, src)
          /\ free_pg_que' = Append(free_pg_que, src)
      BY <1>3, <2>2 DEF CloseToInvalid
    <3>2. /\ pg_list'[src] = InitPG
          /\ \A pg \in PG \ {src} : pg_list'[pg] = written[pg]
      BY <1>8, <1>10, <2>2, <3>1
    <3>3. InitPG.status = "FREE"
      BY DEF InitPG
    <3>4. dropped[src].status = written[src].status
      BY <1>8, <2>2
    <3>5. Once(close_pg_que') /\ \A pg \in PG : Contains(close_pg_que', pg) <=> Contains(ranked, pg) /\ pg # src
      <4>1. CASE dropped[src].status = "RCM"
        <5>1. close_pg_que' = ranked
          BY <3>1, <4>1
        <5>2. ~Contains(ranked, src)
          BY <1>7, <1>8, <2>2, <3>4, <4>1
        <5>. QED BY <1>7, <5>1, <5>2
      <4>2. CASE dropped[src].status # "RCM"
        BY <1>7, <3>1, <4>2, RemoveFirstOnce
      <4>. QED BY <4>1, <4>2
    <3>. QED BY <1>7, <2>0, <2>2, <3>1, <3>2, <3>3, <3>5
  <2>3. CASE src # NoPG /\ ~release
    <3>1. /\ pg_list' = dropped
          /\ close_pg_que' = IF dropped[src].status = "CLOSE"
                             THEN UpdateCloseRanking(ranked, src, dropped) ELSE ranked
          /\ UNCHANGED free_pg_que
      BY <1>3, <1>8, <2>3
    <3>2. \A pg \in PG : dropped[pg].status = written[pg].status
      BY <1>8, <2>3
    <3>3. dropped[src].status = "CLOSE" => dropped[src].lp_num # 0
      BY <1>8, <2>3
    <3>4. Once(close_pg_que') /\ \A pg \in PG : Contains(close_pg_que', pg) <=> written[pg].status = "CLOSE"
      <4>1. CASE dropped[src].status = "CLOSE"
        <5>1. close_pg_que' = UpdateCloseRanking(ranked, src, dropped)
          BY <3>1, <4>1
        <5>2. /\ Once(close_pg_que')
              /\ \A x : Contains(close_pg_que', x) <=> Contains(ranked, x) \/ x = src
          BY <1>7, <1>8, <2>3, <5>1, UpdateCloseRankingOnce
        <5>. QED BY <1>7, <3>2, <4>1, <5>2
      <4>2. CASE dropped[src].status # "CLOSE"
        BY <1>7, <3>1, <4>2
      <4>. QED BY <4>1, <4>2
    <3>5. \A pg \in PG : dropped[pg].status = "CLOSE" => dropped[pg].lp_num # 0
      BY <1>8, <2>0, <2>3, <3>2, <3>3
    <3>. QED BY <2>3, <3>1, <3>2, <3>4, <3>5
  <2>. QED BY <2>1, <2>2, <2>3
<1>12. /\ release <=> Releases(lpn, dst)
       /\ release => src \in PG /\ pg_list[src].status # "FREE"
  <2>1. release <=> Releases(lpn, dst)
    BY <1>8, <1>9
  <2>2. ASSUME src # NoPG, pg_list[src].status = "FREE" PROVE FALSE
    BY <2>2 DEF PageCounted
  <2>. QED BY <1>9, <2>1, <2>2 DEF Releases
<1>13. \A pg \in PG : written[pg].status = IF pg = dst THEN IF Fills(lpn, len, dst, align) THEN "CLOSE" ELSE "OPEN"
                                           ELSE pg_list[pg].status
  BY <1>4, <1>5
<1>. HIDE DEF ranked, freed
<1>14. Once(free_pg_que') /\ \A pg \in PG : Contains(free_pg_que', pg) <=> freed(pg) \/ Contains(free_pg_que, pg)
  <2>1. CASE ~release
    BY <1>11, <2>1 DEF QueuesInv, QueuedAs, freed
  <2>2. CASE release
    <3>1. ~Contains(free_pg_que, src) /\ Once(free_pg_que)
      BY <1>12, <2>2 DEF QueuesInv, QueuedAs
    <3>. QED BY <1>1, <1>11, <1>12, <2>2, <3>1, AppendOnce DEF freed
  <2>. QED BY <2>1, <2>2
<1>15. QueuedAs(free_pg_que, "FREE")'
  <2>1. \A pg \in PG : Contains(free_pg_que, pg) <=> written[pg].status = "FREE"
    BY <1>2, <1>13 DEF QueuesInv, QueuedAs
  <2>. QED BY <1>11, <1>14, <2>1 DEF QueuedAs
<1>16. QueuedAs(close_pg_que, "CLOSE")' /\ ClosedHasPages'
  BY <1>11 DEF QueuedAs, ClosedHasPages
<1>. QED BY <1>11, <1>12, <1>13, <1>15, <1>16 DEF QueuesInv, freed

\* The same of a whole page.
LEMMA StatusAfterUpdate ==
  ASSUME FtlTypeOK, BooksInv, QueuesInv, NEW lpn \in LP, NEW dst \in PG,
         ~L2P_UpdateError(lpn, SectsPerLp, dst),
         L2P_Update(lpn, SectsPerLp, dst, FALSE)
  PROVE  /\ \A pg \in PG : pg_list'[pg].status =
               IF Releases(lpn, dst) /\ pg = l2p_tbl[lpn].pgn THEN "FREE"
               ELSE IF pg = dst THEN IF Closes(lpn, dst) THEN "CLOSE" ELSE "OPEN"
               ELSE pg_list[pg].status
         /\ QueuesInv'
<1>1. SectsPerLp \in Nat \ {0} /\ PageCounted(lpn)
  BY SizesAssumption, BookedPages
<1>. QED BY <1>1, StatusAfterWrite DEF Closes

\* The fields L2P_Update neither writes nor resets on PGs it keeps.
SameFields(pg, entry) ==
  /\ pg.type = entry.type /\ pg.pb_num = entry.pb_num
  /\ pg.p2l_tbl = entry.p2l_tbl /\ pg.next_ofs = entry.next_ofs
  /\ pg.next_rewr_index = entry.next_rewr_index
  /\ pg.next_rewr_pgsect = entry.next_rewr_pgsect

\* What L2P_Update does to the rest of the tables: only dst is written to, only a
\* PG released is initialised, and it leaves the queue of victims it is in.
LEMMA RestAfterWrite ==
  ASSUME FtlTypeOK, QueuesInv, NEW lpn \in LP, NEW len \in Nat \ {0}, NEW dst \in PG,
         NEW align \in BOOLEAN, PageCounted(lpn),
         ~L2P_UpdateError(lpn, len, dst), L2P_Update(lpn, len, dst, align)
  PROVE  LET src    == l2p_tbl[lpn].pgn
             victim == Releases(lpn, dst) /\ pg_list[src].status = "RCM"
             cmp    == Contains(rcm_cmp_pg_que, src)
         IN  /\ \A pg \in PG : ~(Releases(lpn, dst) /\ pg = src) =>
                  SameFields(pg_list'[pg], IF pg = dst THEN Grown(lpn, len, dst, align)
                                           ELSE pg_list[pg])
             /\ Releases(lpn, dst) => pg_list'[src] = InitPG
             /\ openpg' = IF Fills(lpn, len, dst, align) THEN [openpg EXCEPT ![pg_list[dst].type] = NoPG]
                          ELSE openpg
             /\ rcm_cmp_pg_que' = IF victim /\ cmp THEN RemoveFirst(rcm_cmp_pg_que, src)
                                  ELSE rcm_cmp_pg_que
             /\ rcm_pg_que' = IF victim /\ ~cmp THEN RemoveFirst(rcm_pg_que, src) ELSE rcm_pg_que
             /\ total_free' = total_free
             /\ total_invalid' = total_invalid + (IF Releases(lpn, dst) THEN pg_list[src].pb_num ELSE 0)
<1>. DEFINE old     == l2p_tbl[lpn]
            src     == old.pgn
            new     == Grown(lpn, len, dst, align)
            written == [pg_list EXCEPT ![dst] = new]
            closing == written[dst].status = "CLOSE"
            ranked  == IF closing THEN UpdateCloseRanking(close_pg_que, dst, written)
                                  ELSE close_pg_que
            drops   == src # NoPG /\ written[src].lp_num # 0
            dropped == [written EXCEPT ![src] = Released(@, old.len)]
            release == drops /\ dropped[src].vs_num = 0 /\ dropped[src].status # "OPEN"
<1>1. /\ pg_list \in [PG -> PG_Info] /\ src \in PG \cup {NoPG} /\ NoPG \notin PG
      /\ total_invalid \in Nat
  BY NoPGAssumption DEF FtlTypeOK, VPA, PG
<1>2. /\ IF release
         THEN CloseToInvalid(src, dropped, ranked)
         ELSE /\ pg_list' = IF drops THEN dropped ELSE written
              /\ UNCHANGED <<rcm_pg_que, rcm_cmp_pg_que, total_invalid>>
      /\ total_free' = total_free
      /\ openpg' = IF closing THEN OpenToClose(dst) ELSE openpg
  BY Zenon DEF L2P_Update, Grown, PadOf
<1>3. new \in PG_Info
  <2>1. pg_list[dst].next_ofs + len \in Nat
    BY DEF FtlTypeOK, PG_Info
  <2>2. PadOf(len, dst, align) \in Nat
    BY <2>1, PadType DEF PadOf
  <2>. QED BY <1>1, <2>2, WrittenType DEF Grown
<1>4. SameFields(new, new) /\ \A pg \in PG : SameFields(pg_list[pg], pg_list[pg])
  BY DEF SameFields
<1>. DEFINE base(pg) == IF pg = dst THEN new ELSE pg_list[pg]
<1>5. closing <=> Fills(lpn, len, dst, align)
  BY <1>1, <1>3 DEF Fills
<1>6. openpg' = IF Fills(lpn, len, dst, align) THEN [openpg EXCEPT ![pg_list[dst].type] = NoPG] ELSE openpg
  BY <1>2, <1>5 DEF OpenToClose
<1>. HIDE DEF new, closing
<1>7. written \in [PG -> PG_Info] /\ \A pg \in PG : written[pg] = base(pg)
  BY <1>1, <1>3
<1>. HIDE DEF written, ranked
<1>8. \A pg \in PG : SameFields(dropped[pg], base(pg)) /\ dropped[pg].status = written[pg].status
  <2>1. ASSUME NEW pg \in PG, pg = src
        PROVE  SameFields(dropped[pg], written[pg]) /\ dropped[pg].status = written[pg].status
    <3>1. dropped[pg] = Released(written[pg], old.len) /\ written[pg] \in PG_Info
      BY <1>7, <2>1
    <3>. QED BY <3>1 DEF Released, PG_Info, SameFields
  <2>2. ASSUME NEW pg \in PG, pg # src PROVE dropped[pg] = written[pg]
    BY <1>7, <2>2
  <2>3. ASSUME NEW pg \in PG PROVE SameFields(written[pg], base(pg))
    BY <1>4, <1>7
  <2>. HIDE DEF dropped, base
  <2>. QED BY <1>7, <2>1, <2>2, <2>3
<1>9. DOMAIN dropped = PG
  BY <1>7
<1>. HIDE DEF drops, dropped, release
<1>10. \A pg \in PG : pg_list'[pg].status =
         IF Releases(lpn, dst) /\ pg = src THEN "FREE"
         ELSE IF pg = dst THEN IF Fills(lpn, len, dst, align) THEN "CLOSE" ELSE "OPEN"
         ELSE pg_list[pg].status
  BY StatusAfterWrite
<1>11. src \in PG => pg_list[src].status # "FREE"
  BY <1>1 DEF PageCounted
\* A release shows in the status of the PG the page came from.
<1>12. CASE release
  <2>1. /\ total_invalid' = total_invalid + dropped[src].pb_num
        /\ pg_list' = [dropped EXCEPT ![src] = InitPG]
        /\ rcm_cmp_pg_que' = IF dropped[src].status = "RCM" /\ Contains(rcm_cmp_pg_que, src)
                             THEN RemoveFirst(rcm_cmp_pg_que, src) ELSE rcm_cmp_pg_que
        /\ rcm_pg_que' = IF dropped[src].status = "RCM" /\ ~Contains(rcm_cmp_pg_que, src)
                         THEN RemoveFirst(rcm_pg_que, src) ELSE rcm_pg_que
    BY <1>2, <1>12 DEF CloseToInvalid
  <2>2. src \in PG
    BY <1>1, <1>12 DEF release, drops
  <2>3. pg_list'[src] = InitPG /\ \A pg \in PG \ {src} : pg_list'[pg] = dropped[pg]
    BY <1>9, <2>1, <2>2
  <2>4. Releases(lpn, dst)
    BY <1>10, <1>11, <2>2, <2>3 DEF InitPG
  <2>5. dropped[src].status = pg_list[src].status /\ dropped[src].pb_num = pg_list[src].pb_num
    BY <1>7, <1>8, <2>2, <2>4 DEF Releases, SameFields
  <2>. HIDE DEF base
  <2>6. \A pg \in PG : pg # src => SameFields(pg_list'[pg], base(pg))
    BY <1>8, <2>3
  <2>. QED BY <1>2, <1>6, <2>1, <2>3, <2>4, <2>5, <2>6 DEF base, new
<1>13. CASE ~release
  <2>1. /\ pg_list' \in {dropped, written}
        /\ UNCHANGED <<rcm_pg_que, rcm_cmp_pg_que, total_invalid>>
    BY <1>2, <1>13
  <2>2. \A pg \in PG : SameFields(written[pg], base(pg))
    BY <1>4, <1>7
  <2>3. \A pg \in PG : pg_list'[pg].status = written[pg].status
    BY <1>8, <2>1
  <2>4. ~Releases(lpn, dst)
    BY <1>7, <1>10, <1>11, <2>3 DEF Releases
  <2>. HIDE DEF base
  <2>5. \A pg \in PG : SameFields(pg_list'[pg], base(pg))
    BY <1>8, <2>1, <2>2
  <2>. QED BY <1>1, <1>2, <1>6, <2>1, <2>4, <2>5 DEF base, new
<1>. QED BY <1>12, <1>13

\* The same of a whole page.
LEMMA RestAfterUpdate ==
  ASSUME FtlTypeOK, BooksInv, QueuesInv, NEW lpn \in LP, NEW dst \in PG,
         ~L2P_UpdateError(lpn, SectsPerLp, dst),
         L2P_Update(lpn, SectsPerLp, dst, FALSE)
  PROVE  LET src    == l2p_tbl[lpn].pgn
             victim == Releases(lpn, dst) /\ pg_list[src].status = "RCM"
             cmp    == Contains(rcm_cmp_pg_que, src)
         IN  /\ \A pg \in PG : ~(Releases(lpn, dst) /\ pg = src) =>
                  SameFields(pg_list'[pg], IF pg = dst THEN Written(pg_list[dst], lpn, SectsPerLp, 0)
                                           ELSE pg_list[pg])
             /\ Releases(lpn, dst) => pg_list'[src] = InitPG
             /\ openpg' = IF Closes(lpn, dst) THEN [openpg EXCEPT ![pg_list[dst].type] = NoPG]
                          ELSE openpg
             /\ rcm_cmp_pg_que' = IF victim /\ cmp THEN RemoveFirst(rcm_cmp_pg_que, src)
                                  ELSE rcm_cmp_pg_que
             /\ rcm_pg_que' = IF victim /\ ~cmp THEN RemoveFirst(rcm_pg_que, src) ELSE rcm_pg_que
             /\ total_free' = total_free
             /\ total_invalid' = total_invalid + (IF Releases(lpn, dst) THEN pg_list[src].pb_num ELSE 0)
<1>1. SectsPerLp \in Nat \ {0} /\ PageCounted(lpn)
  BY SizesAssumption, BookedPages
<1>2. Grown(lpn, SectsPerLp, dst, FALSE) = Written(pg_list[dst], lpn, SectsPerLp, 0)
  BY DEF Grown, PadOf
<1>3. Closes(lpn, dst) <=> Fills(lpn, SectsPerLp, dst, FALSE)
  BY DEF Closes
<1>. QED BY <1>1, <1>2, <1>3, RestAfterWrite

-----------------------------------------------------------------------------
(* Every step of the device is a step of the log, or none *)

\* BuildPG opens the first free PG, whether or not it gets all its blocks.
LEMMA OpenStep ==
  ASSUME FtlTypeOK, QueuesInv, NEW type \in IoType, TakePG(type)
  PROVE  Log!LogNext /\ QueuesInv'
<1>1. /\ pg_list \in [PG -> PG_Info] /\ free_pg_que \in Seq(PG) /\ free_pg_que # <<>>
  BY DEF FtlTypeOK, TakePG
<1>2. /\ Head(free_pg_que) \in PG /\ Contains(free_pg_que, Head(free_pg_que))
      /\ Once(Tail(free_pg_que))
      /\ \A x : Contains(Tail(free_pg_que), x) <=> Contains(free_pg_que, x) /\ x # Head(free_pg_que)
  BY <1>1, TailOnce DEF QueuesInv, QueuedAs
<1>. PICK first \in PG : first = Head(free_pg_que)
  BY <1>2
<1>3. pg_list[first].status = "FREE"
  BY <1>2 DEF QueuesInv, QueuedAs
<1>4. free_pg_que' = Tail(free_pg_que) /\ close_pg_que' = close_pg_que /\ l2p_tbl' = l2p_tbl
  BY DEF TakePG
<1>5. \A x \in PG : /\ pg_list'[x].status = IF x = first THEN "OPEN" ELSE pg_list[x].status
                    /\ pg_list'[x].lp_num = pg_list[x].lp_num
  <2>. DEFINE bound == IF EnoughFreePB THEN PgPbNum ELSE total_free
  <2>1. pg_list' = [pg_list EXCEPT ![first].status = "OPEN", ![first].type = type,
                                   ![first].pb_num = bound]
    BY DEF TakePG
  <2>. HIDE DEF bound
  <2>2. pg_list' = [pg_list EXCEPT ![first] =
                      [pg_list[first] EXCEPT !.status = "OPEN", !.type = type, !.pb_num = bound]]
    BY <1>1, <2>1 DEF PG_Info
  <2>3. pg_list[first] \in PG_Info
    BY <1>1
  <2>. QED BY <1>1, <2>2, <2>3 DEF PG_Info
<1>6. Once(free_pg_que') /\ \A x \in PG : Contains(free_pg_que', x) <=> x # first /\ Contains(free_pg_que, x)
  BY <1>2, <1>4
<1>7. QueuesInv'
  <2>1. QueuedAs(free_pg_que, "FREE")'
    BY <1>5, <1>6 DEF QueuesInv, QueuedAs
  <2>2. QueuedAs(close_pg_que, "CLOSE")'
    BY <1>3, <1>4, <1>5 DEF QueuesInv, QueuedAs
  <2>3. ClosedHasPages'
    BY <1>5 DEF QueuesInv, ClosedHasPages
  <2>. QED BY <2>1, <2>2, <2>3 DEF QueuesInv
<1>8. Log!OpenSegment(first)
  <2>. DEFINE State == [x \in PG |-> pg_list[x].status]
  <2>1. State[first] = "FREE" /\ State' = [State EXCEPT ![first] = "OPEN"]
    BY <1>2, <1>3, <1>5
  <2>. QED BY <1>4, <2>1 DEF Log!OpenSegment
<1>. QED BY <1>7, <1>8 DEF Log!LogNext

\* ReloadRcmTarget takes a closed PG, and a closed PG has live pages.
LEMMA ReloadQueues ==
  ASSUME FtlTypeOK, QueuesInv, ReloadRcmTarget
  PROVE  /\ QueuesInv'
         /\ \E victim \in PG :
              /\ pg_list[victim].status = "CLOSE" /\ l2p_tbl' = l2p_tbl
              /\ \A x \in PG : /\ pg_list'[x].status = IF x = victim THEN "RCM" ELSE pg_list[x].status
                               /\ pg_list'[x].lp_num = pg_list[x].lp_num
<1>. DEFINE rest == SubSeq(close_pg_que, 1, Len(close_pg_que) - 1)
<1>1. /\ pg_list \in [PG -> PG_Info] /\ close_pg_que \in Seq(PG) /\ close_pg_que # <<>>
  BY DEF FtlTypeOK, ReloadRcmTarget
<1>2. /\ Len(close_pg_que) \in Nat \ {0}
      /\ \A i \in 1..Len(close_pg_que) : close_pg_que[i] \in PG
  BY <1>1, EmptySeq, LenProperties, ElementOfSeq
<1>3. PICK victim \in PG : victim = close_pg_que[Len(close_pg_que)]
  BY <1>2
<1>4. /\ Len(rest) = Len(close_pg_que) - 1
      /\ \A i \in 1..(Len(close_pg_que) - 1) : rest[i] = close_pg_que[i]
  <2>1. PICK n \in Nat : n = Len(close_pg_que) - 1
    BY <1>2
  <2>2. \A i \in 1..n : close_pg_que[i] \in PG
    BY <1>2, <2>1
  <2>3. /\ Len(SubSeq(close_pg_que, 1, n)) = n
        /\ \A i \in 1..n : SubSeq(close_pg_que, 1, n)[i] = close_pg_que[i]
    BY <2>2, SubSeqProperties
  <2>. QED BY <2>1, <2>3
<1>5. pg_list[victim].status = "CLOSE" /\ Once(close_pg_que)
  BY <1>2, <1>3 DEF QueuesInv, QueuedAs, Contains
<1>6. close_pg_que' = rest /\ free_pg_que' = free_pg_que /\ l2p_tbl' = l2p_tbl
  BY DEF ReloadRcmTarget, Front
<1>. HIDE DEF rest
<1>7. \A x \in PG : /\ pg_list'[x].status = IF x = victim THEN "RCM" ELSE pg_list[x].status
                    /\ pg_list'[x].lp_num = pg_list[x].lp_num
  <2>1. pg_list' = [pg_list EXCEPT ![victim].status = "RCM"]
    BY <1>3 DEF ReloadRcmTarget, Last
  <2>. QED BY <1>1, <1>3, <2>1 DEF PG_Info
<1>8. Once(close_pg_que') /\ \A x \in PG : Contains(close_pg_que', x) <=> x # victim /\ Contains(close_pg_que, x)
  BY <1>2, <1>3, <1>4, <1>5, <1>6 DEF Once, Contains
<1>9. QueuesInv'
  <2>1. QueuedAs(free_pg_que, "FREE")'
    BY <1>5, <1>6, <1>7 DEF QueuesInv, QueuedAs
  <2>2. QueuedAs(close_pg_que, "CLOSE")'
    BY <1>7, <1>8 DEF QueuesInv, QueuedAs
  <2>3. ClosedHasPages'
    BY <1>7 DEF QueuesInv, ClosedHasPages
  <2>. QED BY <2>1, <2>2, <2>3 DEF QueuesInv
<1>. QED BY <1>5, <1>6, <1>7, <1>9

\* lp_num counts the pages mapped to a PG, whatever their lengths.
MappedCounted == \A pg \in PG : pg_list[pg].lp_num = Cardinality(Mapped(pg))

\* It takes a PG with pages to reclaim.
LEMMA ReloadStep ==
  ASSUME FtlTypeOK, MappedCounted, QueuesInv, ReloadRcmTarget
  PROVE  Log!LogNext /\ QueuesInv'
<1>1. QueuesInv'
  BY ReloadQueues
<1>2. PICK victim \in PG :
        /\ pg_list[victim].status = "CLOSE" /\ l2p_tbl' = l2p_tbl
        /\ \A x \in PG : pg_list'[x].status = IF x = victim THEN "RCM" ELSE pg_list[x].status
  BY ReloadQueues
<1>3. Mapped(victim) # {}
  BY <1>2, FS_EmptySet DEF QueuesInv, ClosedHasPages, MappedCounted
<1>4. Log!PickVictim(victim)
  <2>. DEFINE State == [x \in PG |-> pg_list[x].status]
              Home == [p \in LP |-> l2p_tbl[p].pgn]
  <2>1. State[victim] = "CLOSE" /\ State' = [State EXCEPT ![victim] = "RCM"]
    BY <1>2
  <2>2. {p \in LP : Home[p] = victim} # {} /\ Home' = Home
    BY <1>2, <1>3 DEF Mapped
  <2>. QED BY <2>1, <2>2 DEF Log!PickVictim, Log!Live
<1>. QED BY <1>1, <1>4 DEF Log!LogNext

\* The PG counts one page exactly if lpn is the only page mapped to it.
LEMMA LastPage ==
  ASSUME FtlTypeOK, MappedCounted, NEW lpn \in LP, NEW src \in PG, l2p_tbl[lpn].pgn = src
  PROVE  pg_list[src].lp_num = 1 <=> Mapped(src) \subseteq {lpn}
<1>1. lpn \in Mapped(src) /\ IsFiniteSet(Mapped(src))
      /\ Cardinality(Mapped(src)) = pg_list[src].lp_num
  BY MappedFinite DEF Mapped, MappedCounted
<1>2. ASSUME Mapped(src) \subseteq {lpn} PROVE pg_list[src].lp_num = 1
  <2>1. Mapped(src) = {lpn}
    BY <1>1, <1>2
  <2>. QED BY <1>1, <2>1, FS_Singleton
<1>3. ASSUME pg_list[src].lp_num = 1 PROVE Mapped(src) \subseteq {lpn}
  <2>1. PICK x : Mapped(src) = {x}
    BY <1>1, <1>3, FS_Singleton
  <2>. QED BY <1>1, <2>1
<1>. QED BY <1>2, <1>3

\* L2P_Update puts the page where the log puts it and frees what the log frees.
LEMMA WriteStep ==
  ASSUME FtlTypeOK, MappedCounted, QueuesInv, NEW lpn \in LP, NEW len \in Nat \ {0},
         NEW dst \in PG, NEW align \in BOOLEAN, PageCounted(lpn),
         ~L2P_UpdateError(lpn, len, dst), L2P_Update(lpn, len, dst, align)
  PROVE  Log!LogNext /\ QueuesInv'
<1>. DEFINE src == l2p_tbl[lpn].pgn
            Home == [p \in LP |-> l2p_tbl[p].pgn]
            State == [pg \in PG |-> pg_list[pg].status]
            sealed == [State EXCEPT ![dst] = IF Fills(lpn, len, dst, align) THEN "CLOSE" ELSE "OPEN"]
            empty == src \in PG /\ src # dst /\ Mapped(src) \subseteq {lpn}
<1>1. /\ \A pg \in PG : pg_list'[pg].status =
            IF Releases(lpn, dst) /\ pg = src THEN "FREE"
            ELSE IF pg = dst THEN IF Fills(lpn, len, dst, align) THEN "CLOSE" ELSE "OPEN"
            ELSE pg_list[pg].status
      /\ QueuesInv'
  BY StatusAfterWrite
<1>2. Releases(lpn, dst) <=> empty /\ pg_list[src].status # "OPEN"
  BY LastPage DEF Releases
<1>3. State[dst] = "OPEN"
  BY DEF L2P_UpdateError
<1>4. Home' = [Home EXCEPT ![lpn] = dst]
  <2>1. l2p_tbl \in [LP -> VPA]
    BY DEF FtlTypeOK
  <2>2. l2p_tbl' = [l2p_tbl EXCEPT ![lpn] = [pgn |-> dst, ofs |-> pg_list[dst].next_ofs,
                                             len |-> len]]
    BY DEF L2P_Update, OpenToClose
  <2>. QED BY <2>1, <2>2
<1>5. State' = IF empty /\ State[src] # "OPEN" THEN [sealed EXCEPT ![src] = "FREE"] ELSE sealed
  BY <1>1, <1>2
<1>6. Home[lpn] = src /\ Mapped(src) = {p \in LP : Home[p] = src}
  BY DEF Mapped
<1>7. PICK full \in BOOLEAN : full <=> Fills(lpn, len, dst, align)
  OBVIOUS
<1>8. sealed = [State EXCEPT ![dst] = IF full THEN "CLOSE" ELSE "OPEN"]
  BY <1>7
<1>. HIDE DEF sealed
<1>9. Log!Put(lpn, dst, full)
  BY <1>3, <1>4, <1>5, <1>6, <1>8 DEF Log!Put, Log!Live
<1>. QED BY <1>1, <1>9 DEF Log!LogNext

\* A step that moves no page and no PG is no step of the log.
LEMMA NoStep ==
  ASSUME QueuesInv, UNCHANGED <<l2p_tbl, free_pg_que, close_pg_que>>,
         \A pg \in PG : /\ pg_list'[pg].status = pg_list[pg].status
                        /\ pg_list'[pg].lp_num = pg_list[pg].lp_num
  PROVE  /\ QueuesInv'
         /\ UNCHANGED <<[lpn \in LP |-> l2p_tbl[lpn].pgn], [pg \in PG |-> pg_list[pg].status]>>
BY DEF QueuesInv, QueuedAs, ClosedHasPages, Once, Contains

\* The actions of the device, one by one. LpWrite apart, none of them depends on
\* the length of a page.
LEMMA LogUnlessWrite ==
  ASSUME TypeInv, MappedCounted, QueuesInv, Next, ~LpWrite
  PROVE  /\ QueuesInv'
         /\ [Log!LogNext]_<<[lpn \in LP |-> l2p_tbl[lpn].pgn], [pg \in PG |-> pg_list[pg].status]>>
<1>1. pg_list \in [PG -> PG_Info] /\ FtlTypeOK
  BY DEF TypeInv, SsdTypeOK, FtlTypeOK
<1>2. CASE UNCHANGED <<l2p_tbl, free_pg_que, close_pg_que, pg_list>>
  BY <1>2, NoStep
<1>3. CASE GetOpenPG_Build
  <2>1. CASE free_pg_que = <<>>
    BY <1>2, <1>3, <2>1 DEF GetOpenPG_Build, ftlVars, queueVars
  <2>2. CASE free_pg_que # <<>>
    <3>1. BuildPG(io.type) /\ io.type \in IoType
      BY <1>3, <2>2 DEF GetOpenPG_Build, TypeInv, SsdTypeOK
    <3>. QED BY <3>1, OpenStep DEF TypeInv, SsdTypeOK, BuildPG
  <2>. QED BY <2>1, <2>2
<1>4. CASE Reload
  <2>1. ReloadRcmTarget
    BY <1>4 DEF Reload
  <2>. QED BY <2>1, ReloadStep DEF TypeInv, SsdTypeOK
<1>5. CASE Collect
  <2>1. \A pg \in PG : /\ pg_list'[pg].status = pg_list[pg].status
                       /\ pg_list'[pg].lp_num = pg_list[pg].lp_num
    BY <1>1, <1>5 DEF Collect, ScanNext, PG_Info
  <2>. QED BY <1>5, <2>1, NoStep DEF Collect, ScanNext, queueVars
<1>6. CASE FormatPage \/ FormatDone \/ GetOpenPG_Present \/ \E lpn \in LP : HostWrite(lpn)
  BY <1>2, <1>6 DEF FormatPage, FormatDone, GetOpenPG_Present, HostWrite, ftlVars, queueVars
<1>7. CASE GetReWriteReq \/ ReloadDone \/ CollectDone \/ Rewrite \/ RewriteDone
  BY <1>2, <1>7 DEF GetReWriteReq, ReloadDone, CollectDone, Rewrite, RewriteDone, ftlVars, queueVars
<1>8. CASE CollectNextPG
  BY <1>2, <1>8 DEF CollectNextPG, ScanEnd
<1>9. CASE \E num \in 0..MaxErase : EraseReq(num)
  BY <1>2, <1>9 DEF EraseReq, GetEraseReq, queueVars
<1>10. CASE Erase
  BY <1>2, <1>10 DEF Erase, ErasePB, queueVars
<1>. QED
  BY <1>3, <1>4, <1>5, <1>6, <1>7, <1>8, <1>9, <1>10 DEF Next, Run, DoGC

(* With lp_write: every step of the device is a step of the log, or none. *)
LEMMA NextLog ==
  ASSUME TypeInv, BooksInv, QueuesInv, [Next]_vars
  PROVE  /\ QueuesInv'
         /\ [Log!LogNext]_<<[lpn \in LP |-> l2p_tbl[lpn].pgn], [pg \in PG |-> pg_list[pg].status]>>
<1>1. FtlTypeOK /\ MappedCounted
  BY DEF TypeInv, SsdTypeOK, BooksInv, Accounting, MappedCounted
<1>2. CASE UNCHANGED <<l2p_tbl, free_pg_que, close_pg_que, pg_list>>
  BY <1>2, NoStep
<1>3. CASE LpWrite
  <2>1. CASE L2P_UpdateError(io.lpn, SectsPerLp, openpg[io.type])
    BY <1>2, <1>3, <2>1 DEF LpWrite, ftlVars, queueVars
  <2>2. CASE ~L2P_UpdateError(io.lpn, SectsPerLp, openpg[io.type])
    <3>1. openpg[io.type] \in PG /\ io.lpn \in LP
      BY <1>1, <1>3 DEF LpWrite, TypeInv, ControlInv, SsdTypeOK, FtlTypeOK
    <3>2. L2P_Update(io.lpn, SectsPerLp, openpg[io.type], FALSE)
      BY <1>3, <2>2 DEF LpWrite
    <3>3. SectsPerLp \in Nat \ {0} /\ PageCounted(io.lpn)
      BY <1>1, <3>1, SizesAssumption, BookedPages
    <3>. QED BY <1>1, <2>2, <3>1, <3>2, <3>3, WriteStep
  <2>. QED BY <2>1, <2>2
<1>4. CASE UNCHANGED vars
  BY <1>2, <1>4 DEF vars, ftlVars, queueVars
<1>. QED BY <1>1, <1>3, <1>4, LogUnlessWrite

\* On every device, whatever the order of writes, copies and erasures, the
\* counters and queues of the translation layer free a PG exactly when the write
\* that takes its last page elsewhere is made, and pick only PGs with live data.
THEOREM ImplementsSegmentLog == Spec => ImplementsLog
<1>1. Init => Log!LogInit
  BY DEF Init, InitFTL, InitPG, Log!LogInit
<1>2. Init => TypeInv /\ BooksInv /\ QueuesInv
  BY InitType, InitBooks, InitQueues
<1>3. TypeInv /\ BooksInv /\ QueuesInv /\ [Next]_vars => (TypeInv /\ BooksInv /\ QueuesInv)'
  BY NextType, NextBooks, NextLog
<1>4. TypeInv /\ BooksInv /\ QueuesInv /\ [Next]_vars =>
        [Log!LogNext]_<<[lpn \in LP |-> l2p_tbl[lpn].pgn], [pg \in PG |-> pg_list[pg].status]>>
  BY NextLog
<1>. QED BY <1>1, <1>2, <1>3, <1>4, PTL DEF Spec, ImplementsLog, Log!LogSpec

-----------------------------------------------------------------------------
(***************************************************************************)
(* do_gc takes a closed PG with the least valid data, for every number of  *)
(* pages and groups.                                                       *)
(*                                                                         *)
(* It takes the last PG of close_pg_que. That queue is kept in the order   *)
(* of the valid sectors: a PG is ranked when it closes and again whenever  *)
(* it loses a page, from where it stands backwards, so what is in front of *)
(* it must never have to be looked at.                                     *)
(***************************************************************************)

\* No PG of the queue has more valid sectors than one in front of it.
Ranked(queue, pgs) ==
  \A i, j \in 1..Len(queue) : i <= j => pgs[queue[i]].vs_num >= pgs[queue[j]].vs_num

\* Only pg has another number of valid sectors than before.
OnlyMoves(pg, old, pgs) == \A q \in PG \ {pg} : pgs[q].vs_num = old[q].vs_num

(* A queue that pg is not in does not depend on pg. *)
LEMMA RankedAlone ==
  ASSUME NEW queue \in Seq(PG), NEW pg, NEW old, NEW pgs,
         Ranked(queue, old), OnlyMoves(pg, old, pgs), ~Contains(queue, pg)
  PROVE  Ranked(queue, pgs)
<1>1. \A i \in 1..Len(queue) : queue[i] \in PG \ {pg}
  BY ElementOfSeq DEF Contains
<1>. QED BY <1>1 DEF Ranked, OnlyMoves

\* Without pg the queue is ranked whatever pg has become.
LEMMA RankedWithout ==
  ASSUME NEW queue \in Seq(PG), NEW pg, NEW old, NEW pgs,
         Ranked(queue, old), OnlyMoves(pg, old, pgs), Once(queue)
  PROVE  Ranked(RemoveFirst(queue, pg), pgs)
<1>1. CASE ~Contains(queue, pg)
  BY <1>1, RankedAlone, RemoveFirstProperties
<1>2. CASE Contains(queue, pg)
  <2>. DEFINE t == RemoveFirst(queue, pg)
              from(j) == IF j < Position(queue, pg) THEN j ELSE j + 1
  <2>1. /\ Len(t) \in Nat
        /\ \A j \in 1..Len(t) : t[j] = queue[from(j)] /\ from(j) \in 1..Len(queue)
    BY <1>2, RemoveFirstPlaces, RemoveFirstProperties, LenProperties
  <2>2. \A i, j \in 1..Len(t) : i <= j => from(i) <= from(j)
    BY <1>2, <2>1, FirstPosition, LenProperties
  <2>3. t \in Seq(PG) /\ ~Contains(t, pg)
    BY RemoveFirstProperties, RemoveFirstOnce
  <2>. HIDE DEF t, from
  <2>4. Ranked(t, old)
    BY <2>1, <2>2 DEF Ranked
  <2>5. Ranked(t, pgs)
    BY <2>3, <2>4, RankedAlone
  <2>. QED BY <2>5 DEF t
<1>. QED BY <1>1, <1>2

\* A PG goes where no PG in front of it has less and none behind it more.
LEMMA RankedInsert ==
  ASSUME NEW queue \in Seq(PG), NEW pg \in PG, NEW pgs \in [PG -> PG_Info],
         NEW at \in 1..(Len(queue) + 1), Ranked(queue, pgs),
         \A i \in 1..Len(queue) : IF i < at THEN pgs[queue[i]].vs_num >= pgs[pg].vs_num
                                            ELSE pgs[pg].vs_num >= pgs[queue[i]].vs_num
  PROVE  Ranked(InsertAt(queue, at, pg), pgs)
<1>. DEFINE t == InsertAt(queue, at, pg)
            from(j) == IF j < at THEN j ELSE j - 1
<1>1. /\ Len(t) = Len(queue) + 1 /\ Len(queue) \in Nat
      /\ \A j \in 1..Len(t) : IF j = at THEN t[j] = pg
                              ELSE t[j] = queue[from(j)] /\ from(j) \in 1..Len(queue)
  BY InsertAtPlaces, LenProperties
<1>. HIDE DEF t
<1>2. \A i, j \in 1..Len(t) : i # at /\ j # at /\ i <= j => from(i) <= from(j)
  BY <1>1
<1>3. \A i \in 1..Len(t) : /\ i < at => from(i) < at
                           /\ i > at => ~(from(i) < at)
  BY <1>1
<1>4. \A q \in PG : pgs[q].vs_num \in Nat
  BY DEF PG_Info
<1>. HIDE DEF from
<1>. SUFFICES ASSUME NEW i \in 1..Len(t), NEW j \in 1..Len(t), i <= j
              PROVE  pgs[t[i]].vs_num >= pgs[t[j]].vs_num
  BY DEF Ranked, t
<1>5. CASE i = at /\ j = at
  BY <1>1, <1>4, <1>5
<1>6. CASE i = at /\ j # at
  <2>1. j > at
    BY <1>1, <1>6
  <2>. QED BY <1>1, <1>3, <1>6, <2>1
<1>7. CASE i # at /\ j = at
  <2>1. i < at
    BY <1>1, <1>7
  <2>. QED BY <1>1, <1>3, <1>7, <2>1
<1>8. CASE i # at /\ j # at
  BY <1>1, <1>2, <1>8 DEF Ranked
<1>. QED BY <1>5, <1>6, <1>7, <1>8

\* UpdateCloseRanking of a PG that has not gained keeps the queue in order: it
\* need not look at what is in front of the PG.
LEMMA RankedAfterUpdate ==
  ASSUME NEW queue \in Seq(PG), NEW pg \in PG, NEW old, NEW pgs \in [PG -> PG_Info],
         \A q \in PG : old[q].vs_num \in Nat,
         Ranked(queue, old), OnlyMoves(pg, old, pgs), Once(queue),
         Contains(queue, pg) => pgs[pg].vs_num <= old[pg].vs_num
  PROVE  Ranked(UpdateCloseRanking(queue, pg, pgs), pgs)
<1>. DEFINE rest  == RemoveFirst(queue, pg)
            start == IF Contains(queue, pg) THEN Position(queue, pg) ELSE 1
            stops == {i \in start..Len(rest) : pgs[pg].vs_num >= pgs[rest[i]].vs_num}
            at    == IF stops = {} THEN Len(rest) + 1 ELSE Min(stops)
<1>1. rest \in Seq(PG) /\ Ranked(rest, pgs) /\ Len(rest) \in Nat
  BY RemoveFirstProperties, RankedWithout, LenProperties
<1>2. start \in Nat \ {0}
  BY FirstPosition, LenProperties
<1>3. \A i \in 1..Len(rest) : i < start => pgs[rest[i]].vs_num >= pgs[pg].vs_num
  <2>. SUFFICES ASSUME NEW i \in 1..Len(rest), i < start
                PROVE  pgs[rest[i]].vs_num >= pgs[pg].vs_num
    OBVIOUS
  <2>1. Contains(queue, pg) /\ i < Position(queue, pg)
    BY <1>1
  <2>2. /\ Position(queue, pg) \in 1..Len(queue) /\ queue[Position(queue, pg)] = pg
        /\ Len(queue) \in Nat
    BY <2>1, FirstPosition, LenProperties
  <2>3. rest[i] = queue[i] /\ i \in 1..Len(queue)
    BY <2>1, RemoveFirstPlaces
  <2>4. old[queue[i]].vs_num >= old[pg].vs_num
    BY <2>1, <2>2, <2>3 DEF Ranked
  <2>5. queue[i] \in PG /\ queue[i] # pg
    BY <2>1, <2>2, <2>3, ElementOfSeq DEF Once
  <2>6. pgs[rest[i]].vs_num = old[queue[i]].vs_num
    BY <2>3, <2>5 DEF OnlyMoves
  <2>7. old[queue[i]].vs_num \in Nat /\ old[pg].vs_num \in Nat /\ pgs[pg].vs_num \in Nat
    BY <2>5 DEF PG_Info
  <2>. QED BY <2>1, <2>4, <2>6, <2>7
<1>4. UpdateCloseRanking(queue, pg, pgs) = InsertAt(rest, at, pg)
  BY DEF UpdateCloseRanking, SelectInSeq, Position, Contains
<1>5. \A i \in 1..Len(rest) : pgs[rest[i]].vs_num \in Nat /\ pgs[pg].vs_num \in Nat
  BY <1>1, ElementOfSeq DEF PG_Info
<1>. HIDE DEF rest, start
<1>6. stops \subseteq start..Len(rest) /\ stops \subseteq Nat
      /\ \A i \in start..Len(rest) : i \in stops <=> pgs[pg].vs_num >= pgs[rest[i]].vs_num
  BY <1>1, <1>2
<1>. HIDE DEF stops
<1>7. CASE stops = {}
  <2>1. at = Len(rest) + 1
    BY <1>7
  <2>2. \A i \in 1..Len(rest) : i < at /\ pgs[rest[i]].vs_num >= pgs[pg].vs_num
    <3>. SUFFICES ASSUME NEW i \in 1..Len(rest) PROVE pgs[rest[i]].vs_num >= pgs[pg].vs_num
      BY <1>1, <2>1
    <3>1. CASE i < start
      BY <1>3, <3>1
    <3>2. CASE ~(i < start)
      BY <1>1, <1>2, <1>5, <1>6, <1>7, <3>2
    <3>. QED BY <3>1, <3>2
  <2>3. at \in 1..(Len(rest) + 1)
    BY <1>1, <2>1
  <2>. HIDE DEF at
  <2>. QED BY <1>1, <1>4, <2>2, <2>3, RankedInsert
<1>8. CASE stops # {}
  <2>1. at \in stops /\ \A i \in stops : at <= i
    BY <1>6, <1>8, MinOfNaturals
  <2>. HIDE DEF at
  <2>2. at \in start..Len(rest) /\ at \in 1..Len(rest) /\ at \in 1..(Len(rest) + 1)
    BY <1>1, <1>2, <1>6, <2>1
  <2>3. \A i \in 1..Len(rest) : IF i < at THEN pgs[rest[i]].vs_num >= pgs[pg].vs_num
                                          ELSE pgs[pg].vs_num >= pgs[rest[i]].vs_num
    <3>. SUFFICES ASSUME NEW i \in 1..Len(rest)
                  PROVE  IF i < at THEN pgs[rest[i]].vs_num >= pgs[pg].vs_num
                                   ELSE pgs[pg].vs_num >= pgs[rest[i]].vs_num
      OBVIOUS
    <3>1. CASE i < start
      BY <1>1, <1>2, <1>3, <2>2, <3>1
    <3>2. CASE ~(i < start) /\ i < at
      <4>1. i \in start..Len(rest) /\ i \notin stops
        BY <1>1, <1>2, <2>1, <2>2, <3>2
      <4>. QED BY <1>5, <1>6, <3>2, <4>1
    <3>3. CASE ~(i < at)
      <4>1. pgs[rest[at]].vs_num >= pgs[rest[i]].vs_num
        BY <1>1, <2>2, <3>3 DEF Ranked
      <4>2. pgs[pg].vs_num >= pgs[rest[at]].vs_num
        BY <1>6, <2>1, <2>2
      <4>. QED BY <1>5, <2>2, <3>3, <4>1, <4>2
    <3>. QED BY <3>1, <3>2, <3>3
  <2>. QED BY <1>1, <1>4, <2>2, <2>3, RankedInsert
<1>. QED BY <1>7, <1>8

-----------------------------------------------------------------------------
(* The queue of the device *)

RankedInv == Ranked(close_pg_que, pg_list)

(* No PG of a formatted device is closed. *)
LEMMA InitRanked == Init => RankedInv
<1>1. Init => close_pg_que = <<>>
  BY DEF Init, InitFTL
<1>. QED BY <1>1 DEF RankedInv, Ranked

\* L2P_Update ranks the PG it closes and the PG it takes the page from; a PG that
\* it writes to and leaves open, or takes from and does not find closed, is not queued.
LEMMA UpdateRanked ==
  ASSUME FtlTypeOK, QueuesInv, RankedInv, NEW lpn \in LP, NEW len \in Nat, NEW dst \in PG,
         NEW align \in BOOLEAN,
         ~L2P_UpdateError(lpn, len, dst), L2P_Update(lpn, len, dst, align)
  PROVE  RankedInv'
<1>. DEFINE old     == l2p_tbl[lpn]
            src     == old.pgn
            new     == Grown(lpn, len, dst, align)
            written == [pg_list EXCEPT ![dst] = new]
            closing == written[dst].status = "CLOSE"
            ranked  == IF closing THEN UpdateCloseRanking(close_pg_que, dst, written)
                                  ELSE close_pg_que
            drops   == src # NoPG /\ written[src].lp_num # 0
            dropped == [written EXCEPT ![src] = Released(@, old.len)]
            release == drops /\ dropped[src].vs_num = 0 /\ dropped[src].status # "OPEN"
<1>1. /\ pg_list \in [PG -> PG_Info] /\ old \in VPA /\ close_pg_que \in Seq(PG)
      /\ Once(close_pg_que)
      /\ \A pg \in PG : Contains(close_pg_que, pg) <=> pg_list[pg].status = "CLOSE"
  BY DEF FtlTypeOK, QueuesInv, QueuedAs
<1>2. pg_list[dst].status = "OPEN" /\ ~Contains(close_pg_que, dst)
  BY <1>1 DEF L2P_UpdateError
<1>3. IF release
      THEN CloseToInvalid(src, dropped, ranked)
      ELSE /\ pg_list' = IF drops THEN dropped ELSE written
           /\ close_pg_que' = IF drops /\ dropped[src].status = "CLOSE"
                              THEN UpdateCloseRanking(ranked, src, dropped)
                              ELSE ranked
  BY Zenon DEF L2P_Update, OpenToClose, Grown, PadOf
<1>4. new \in PG_Info /\ new.vs_num = pg_list[dst].vs_num + len
  <2>1. new \in PG_Info
    <3>1. pg_list[dst].next_ofs + len \in Nat
      BY <1>1 DEF PG_Info
    <3>2. PadOf(len, dst, align) \in Nat
      BY <3>1, PadType DEF PadOf
    <3>. QED BY <1>1, <3>2, WrittenType DEF Grown
  <2>2. pg_list[dst] \in PG_Info
    BY <1>1
  <2>. QED BY <2>1, <2>2 DEF Grown, Written, PG_Info
<1>. HIDE DEF new
<1>5. /\ written \in [PG -> PG_Info] /\ written[dst] = new
      /\ \A pg \in PG \ {dst} : written[pg] = pg_list[pg]
      /\ OnlyMoves(dst, pg_list, written)
  BY <1>1, <1>4 DEF OnlyMoves
<1>. HIDE DEF written
\* The close queue with dst in it, before the PG the page came from is looked at.
<1>6. /\ ranked \in Seq(PG) /\ Once(ranked) /\ Ranked(ranked, written)
      /\ \A pg \in PG : Contains(ranked, pg) <=> written[pg].status = "CLOSE"
  <2>1. \A pg \in PG : Contains(close_pg_que, pg) <=> pg # dst /\ written[pg].status = "CLOSE"
    BY <1>1, <1>2, <1>5
  <2>2. \A q \in PG : pg_list[q].vs_num \in Nat
    BY <1>1 DEF PG_Info
  <2>3. CASE closing
    <3>. DEFINE moved == UpdateCloseRanking(close_pg_que, dst, written)
    <3>1. /\ moved \in Seq(PG) /\ Once(moved)
          /\ \A x : Contains(moved, x) <=> Contains(close_pg_que, x) \/ x = dst
      BY <1>1, UpdateCloseRankingType, UpdateCloseRankingOnce
    <3>2. Ranked(moved, written)
      BY <1>1, <1>2, <1>5, <2>2, RankedAfterUpdate DEF RankedInv
    <3>. HIDE DEF moved
    <3>3. ranked = moved
      BY <2>3 DEF moved
    <3>. HIDE DEF ranked
    <3>. QED BY <2>1, <2>3, <3>1, <3>2, <3>3
  <2>4. CASE ~closing
    <3>1. Ranked(close_pg_que, written)
      BY <1>1, <1>2, <1>5, RankedAlone DEF RankedInv
    <3>. QED BY <1>1, <2>1, <2>4, <3>1
  <2>. QED BY <2>3, <2>4
<1>. HIDE DEF ranked, closing
\* What the PG loses.
<1>7. ASSUME drops
      PROVE  /\ src \in PG /\ dropped \in [PG -> PG_Info]
             /\ OnlyMoves(src, written, dropped)
             /\ dropped[src].vs_num <= written[src].vs_num
             /\ dropped[src].status = written[src].status
  <2>1. src \in PG /\ old.len \in Nat
    BY <1>1, <1>7 DEF VPA
  <2>2. pg_list[src].vs_num \in Nat /\ ~(pg_list[src].vs_num < old.len)
    BY <1>1, <1>7, <2>1 DEF L2P_UpdateError, PG_Info
  <2>3. written[src].vs_num = pg_list[src].vs_num \/ written[src].vs_num = pg_list[src].vs_num + len
    BY <1>4, <1>5, <2>1
  <2>4. written[src] \in PG_Info /\ written[src].vs_num >= old.len
    BY <1>1, <1>5, <2>1, <2>2, <2>3
  <2>5. Released(written[src], old.len) \in PG_Info
    BY <1>7, <2>1, <2>4, ReleasedType
  <2>6. dropped[src] = Released(written[src], old.len) /\ \A pg \in PG \ {src} : dropped[pg] = written[pg]
    BY <1>5, <2>1
  <2>7. dropped \in [PG -> PG_Info]
    BY <1>5, <2>1, <2>5
  <2>. HIDE DEF dropped
  <2>8. /\ dropped[src].vs_num = written[src].vs_num - old.len
        /\ dropped[src].status = written[src].status
        /\ written[src].vs_num \in Nat
    BY <2>4, <2>6 DEF Released, PG_Info
  <2>. QED BY <2>1, <2>6, <2>7, <2>8 DEF OnlyMoves
<1>8. \A q \in PG : written[q].vs_num \in Nat
  BY <1>5 DEF PG_Info
<1>. HIDE DEF dropped, src
<1>9. CASE release
  <2>1. /\ pg_list' = [dropped EXCEPT ![src] = InitPG]
        /\ close_pg_que' = IF dropped[src].status = "RCM" THEN ranked ELSE RemoveFirst(ranked, src)
    BY <1>3, <1>9 DEF CloseToInvalid
  <2>2. OnlyMoves(src, written, pg_list')
    BY <1>7, <1>9, <2>1 DEF OnlyMoves
  <2>3. dropped[src].status = "RCM" => ~Contains(ranked, src)
    BY <1>6, <1>7, <1>9
  <2>4. Ranked(close_pg_que', pg_list')
    BY <1>6, <2>1, <2>2, <2>3, RankedAlone, RankedWithout
  <2>. QED BY <2>4 DEF RankedInv, Ranked
<1>10. CASE ~release /\ drops /\ dropped[src].status = "CLOSE"
  <2>1. pg_list' = dropped /\ close_pg_que' = UpdateCloseRanking(ranked, src, dropped)
    BY <1>3, <1>10
  <2>2. Ranked(UpdateCloseRanking(ranked, src, dropped), dropped)
    BY <1>6, <1>7, <1>8, <1>10, RankedAfterUpdate
  <2>3. Ranked(close_pg_que', pg_list')
    BY <2>1, <2>2
  <2>. QED BY <2>3 DEF RankedInv, Ranked
<1>11. CASE ~release /\ drops /\ dropped[src].status # "CLOSE"
  <2>1. pg_list' = dropped /\ close_pg_que' = ranked
    BY <1>3, <1>11
  <2>2. ~Contains(ranked, src)
    BY <1>6, <1>7, <1>11
  <2>3. Ranked(close_pg_que', pg_list')
    BY <1>6, <1>7, <1>11, <2>1, <2>2, RankedAlone
  <2>. QED BY <2>3 DEF RankedInv, Ranked
<1>12. CASE ~release /\ ~drops
  <2>1. Ranked(close_pg_que', pg_list')
    BY <1>3, <1>6, <1>12
  <2>. QED BY <2>1 DEF RankedInv, Ranked
<1>. QED BY <1>9, <1>10, <1>11, <1>12

\* The last PG of the queue is taken off it.
LEMMA ReloadRanked ==
  ASSUME TypeInv, RankedInv, ReloadRcmTarget
  PROVE  RankedInv'
<1>. DEFINE rest == SubSeq(close_pg_que, 1, Len(close_pg_que) - 1)
<1>1. /\ pg_list \in [PG -> PG_Info] /\ close_pg_que \in Seq(PG) /\ close_pg_que # <<>>
  BY DEF TypeInv, SsdTypeOK, FtlTypeOK, ReloadRcmTarget
<1>2. /\ Len(close_pg_que) \in Nat \ {0}
      /\ \A i \in 1..Len(close_pg_que) : close_pg_que[i] \in PG
  BY <1>1, EmptySeq, LenProperties, ElementOfSeq
<1>3. /\ Len(rest) = Len(close_pg_que) - 1
      /\ \A i \in 1..(Len(close_pg_que) - 1) : rest[i] = close_pg_que[i]
  <2>1. PICK n \in Nat : n = Len(close_pg_que) - 1
    BY <1>2
  <2>2. \A i \in 1..n : close_pg_que[i] \in PG
    BY <1>2, <2>1
  <2>3. /\ Len(SubSeq(close_pg_que, 1, n)) = n
        /\ \A i \in 1..n : SubSeq(close_pg_que, 1, n)[i] = close_pg_que[i]
    BY <2>2, SubSeqProperties
  <2>. QED BY <2>1, <2>3
<1>4. close_pg_que' = rest
  BY DEF ReloadRcmTarget, Front
<1>. HIDE DEF rest
<1>5. \A x \in PG : pg_list'[x].vs_num = pg_list[x].vs_num
  BY <1>1, <1>2 DEF ReloadRcmTarget, Last, PG_Info
<1>6. \A i \in 1..Len(rest) : i \in 1..Len(close_pg_que) /\ rest[i] = close_pg_que[i]
  BY <1>2, <1>3
<1>. QED BY <1>2, <1>4, <1>5, <1>6 DEF RankedInv, Ranked

(* A step that leaves the queue and the valid sectors alone. *)
LEMMA NoRankedStep ==
  ASSUME TypeInv, RankedInv, UNCHANGED close_pg_que,
         \A pg \in PG : pg_list'[pg].vs_num = pg_list[pg].vs_num
  PROVE  RankedInv'
<1>1. \A i \in 1..Len(close_pg_que) : close_pg_que[i] \in PG
  BY ElementOfSeq DEF TypeInv, SsdTypeOK, FtlTypeOK
<1>. QED BY <1>1 DEF RankedInv, Ranked

\* The actions of the device, one by one. Only the choice of a victim turns a
\* closed PG into a victim.
LEMMA RankedUnlessWrite ==
  ASSUME TypeInv, RankedInv, Next, ~LpWrite
  PROVE  /\ RankedInv'
         /\ Reload \/ \A pg \in PG : pg_list'[pg].status = "RCM" => pg_list[pg].status # "CLOSE"
<1>1. pg_list \in [PG -> PG_Info] /\ FtlTypeOK
  BY DEF TypeInv, SsdTypeOK, FtlTypeOK
<1>2. CASE UNCHANGED <<close_pg_que, pg_list>>
  BY <1>2, NoRankedStep
<1>3. CASE GetOpenPG_Build
  <2>1. CASE free_pg_que = <<>>
    BY <1>2, <1>3, <2>1 DEF GetOpenPG_Build, ftlVars, queueVars
  <2>2. CASE free_pg_que # <<>>
    <3>1. BuildPG(io.type)
      BY <1>3, <2>2 DEF GetOpenPG_Build
    <3>2. /\ UNCHANGED close_pg_que
          /\ \E bound : pg_list' = [pg_list EXCEPT ![Head(free_pg_que)].status = "OPEN",
                                                  ![Head(free_pg_que)].type = io.type,
                                                  ![Head(free_pg_que)].pb_num = bound]
      BY <3>1 DEF BuildPG, TakePG
    <3>3. \A pg \in PG : /\ pg_list'[pg].vs_num = pg_list[pg].vs_num
                         /\ pg_list'[pg].status \in {pg_list[pg].status, "OPEN"}
      BY <1>1, <3>2 DEF PG_Info
    <3>. QED BY <3>2, <3>3, NoRankedStep
  <2>. QED BY <2>1, <2>2
<1>4. CASE Reload
  <2>1. ReloadRcmTarget
    BY <1>4 DEF Reload
  <2>. QED BY <1>4, <2>1, ReloadRanked
<1>5. CASE Collect
  <2>1. /\ UNCHANGED close_pg_que
        /\ \A pg \in PG : /\ pg_list'[pg].vs_num = pg_list[pg].vs_num
                          /\ pg_list'[pg].status = pg_list[pg].status
    BY <1>1, <1>5 DEF Collect, ScanNext, PG_Info, queueVars
  <2>. QED BY <2>1, NoRankedStep
<1>6. CASE FormatPage \/ FormatDone \/ GetOpenPG_Present \/ \E lpn \in LP : HostWrite(lpn)
  BY <1>2, <1>6 DEF FormatPage, FormatDone, GetOpenPG_Present, HostWrite, ftlVars, queueVars
<1>7. CASE GetReWriteReq \/ ReloadDone \/ CollectDone \/ Rewrite \/ RewriteDone
  BY <1>2, <1>7 DEF GetReWriteReq, ReloadDone, CollectDone, Rewrite, RewriteDone, ftlVars, queueVars
<1>8. CASE CollectNextPG
  BY <1>2, <1>8 DEF CollectNextPG, ScanEnd
<1>9. CASE \E num \in 0..MaxErase : EraseReq(num)
  BY <1>2, <1>9 DEF EraseReq, GetEraseReq, queueVars
<1>10. CASE Erase
  BY <1>2, <1>10 DEF Erase, ErasePB, queueVars
<1>. QED
  BY <1>3, <1>4, <1>5, <1>6, <1>7, <1>8, <1>9, <1>10 DEF Next, Run, DoGC

(* With lp_write, which ranks what it closes and what loses a page. *)
LEMMA NextRanked ==
  ASSUME TypeInv, BooksInv, QueuesInv, RankedInv, [Next]_vars
  PROVE  /\ RankedInv'
         /\ Reload \/ \A pg \in PG : pg_list'[pg].status = "RCM" => pg_list[pg].status # "CLOSE"
<1>1. FtlTypeOK
  BY DEF TypeInv, SsdTypeOK
<1>2. CASE UNCHANGED <<close_pg_que, pg_list>>
  BY <1>2, NoRankedStep
<1>3. CASE LpWrite
  <2>1. CASE L2P_UpdateError(io.lpn, SectsPerLp, openpg[io.type])
    BY <1>2, <1>3, <2>1 DEF LpWrite, ftlVars, queueVars
  <2>2. CASE ~L2P_UpdateError(io.lpn, SectsPerLp, openpg[io.type])
    <3>. DEFINE lpn == io.lpn
                dst == openpg[io.type]
    <3>1. dst \in PG /\ lpn \in LP
      BY <1>1, <1>3 DEF LpWrite, TypeInv, ControlInv, SsdTypeOK, FtlTypeOK
    <3>2. ~L2P_UpdateError(lpn, SectsPerLp, dst) /\ L2P_Update(lpn, SectsPerLp, dst, FALSE)
      BY <1>3, <2>2 DEF LpWrite
    <3>. HIDE DEF lpn, dst
    <3>3. RankedInv'
      BY <1>1, <3>1, <3>2, SizesAssumption, UpdateRanked
    <3>4. \A pg \in PG : pg_list'[pg].status =
             IF Releases(lpn, dst) /\ pg = l2p_tbl[lpn].pgn THEN "FREE"
             ELSE IF pg = dst THEN IF Closes(lpn, dst) THEN "CLOSE" ELSE "OPEN"
             ELSE pg_list[pg].status
      BY <3>1, <3>2, StatusAfterUpdate DEF TypeInv, SsdTypeOK
    <3>. QED BY <3>3, <3>4
  <2>. QED BY <2>1, <2>2
<1>4. CASE UNCHANGED vars
  BY <1>2, <1>4 DEF vars, ftlVars, queueVars
<1>. QED BY <1>3, <1>4, RankedUnlessWrite

\* Of all closed PGs the one that becomes a victim has the fewest valid sectors.
LEMMA ChoiceOfVictim ==
  ASSUME FtlTypeOK, QueuesInv, RankedInv, ReloadRcmTarget, NEW pg \in PG, NEW other \in PG,
         pg_list[pg].status = "CLOSE", pg_list'[pg].status = "RCM",
         pg_list[other].status = "CLOSE"
  PROVE  pg_list[pg].vs_num <= pg_list[other].vs_num
<1>. DEFINE n == Len(close_pg_que)
<1>1. /\ pg_list \in [PG -> PG_Info] /\ close_pg_que \in Seq(PG)
      /\ Contains(close_pg_que, other)
  BY DEF FtlTypeOK, QueuesInv, QueuedAs
<1>2. PICK i \in 1..n : close_pg_que[i] = other
  BY <1>1 DEF Contains
<1>3. n \in 1..n /\ i <= n
  BY <1>1, <1>2, LenProperties
<1>4. pg = close_pg_que[n]
  <2>1. pg_list' = [pg_list EXCEPT ![close_pg_que[n]].status = "RCM"]
    BY DEF ReloadRcmTarget, Last
  <2>. QED BY <1>1, <2>1
<1>5. pg_list[other].vs_num >= pg_list[pg].vs_num
  BY <1>2, <1>3, <1>4 DEF RankedInv, Ranked
<1>6. pg_list[other].vs_num \in Nat /\ pg_list[pg].vs_num \in Nat
  BY <1>1 DEF PG_Info
<1>. QED BY <1>5, <1>6

(* The PG do_gc makes a victim has the least valid data of all closed PGs,   *)
(* for every number of pages and groups, although ReloadRcmTarget compares   *)
(* nothing: it takes the last PG of close_pg_que, and L2P_Update ranks each   *)
(* closed PG anew with every page it loses.                                   *)
THEOREM PicksTheEmptiest == Spec => VictimIsEmptiest
<1>. DEFINE A == \A pg, other \in PG :
                   /\ pg_list[pg].status = "CLOSE" /\ pg_list'[pg].status = "RCM"
                   /\ pg_list[other].status = "CLOSE"
                   => pg_list[pg].vs_num <= pg_list[other].vs_num
<1>1. Init => TypeInv /\ BooksInv /\ QueuesInv /\ RankedInv
  BY InitType, InitBooks, InitQueues, InitRanked
<1>2. TypeInv /\ BooksInv /\ QueuesInv /\ RankedInv /\ [Next]_vars
        => (TypeInv /\ BooksInv /\ QueuesInv /\ RankedInv)'
  BY NextType, NextBooks, NextLog, NextRanked
<1>3. TypeInv /\ BooksInv /\ QueuesInv /\ RankedInv /\ [Next]_vars => [A]_vars
  <2>. SUFFICES ASSUME TypeInv, BooksInv, QueuesInv, RankedInv, [Next]_vars,
                       NEW pg \in PG, NEW other \in PG,
                       pg_list[pg].status = "CLOSE", pg_list'[pg].status = "RCM",
                       pg_list[other].status = "CLOSE"
                PROVE  pg_list[pg].vs_num <= pg_list[other].vs_num
    OBVIOUS
  <2>1. FtlTypeOK /\ ReloadRcmTarget
    BY NextRanked DEF Reload, TypeInv, SsdTypeOK
  <2>. QED BY <2>1, ChoiceOfVictim
<1>. QED BY <1>1, <1>2, <1>3, PTL DEF Spec, VictimIsEmptiest

-----------------------------------------------------------------------------
(***************************************************************************)
(* The SSD implements BlockCounts, for every number of pages, groups and   *)
(* blocks: the two counters do_gc steers by, and the erasures it has still *)
(* to make, are those of a pool that hands out and takes back whole PGs.   *)
(*                                                                         *)
(* Dissolving a PG adds the number of blocks the PG says it has.  That the *)
(* pool has so many to get back is a balance over all PGs that are not     *)
(* free, and it holds until BuildPG runs out of blocks half-way, which     *)
(* ends the program.                                                       *)
(***************************************************************************)

\* The PGs that hold blocks.
Held == {pg \in PG : pg_list[pg].status # "FREE"}

\* Blocks are reserved only while do_gc erases; until a call fails, a PG that is
\* not free holds all its blocks, and every block is somewhere.
PoolInv ==
  /\ pc # "erase" => erase_left = 0
  /\ pc # "failed" =>
       /\ \A pg \in Held : pg_list[pg].pb_num = PgPbNum
       /\ total_free + total_invalid + erase_left + PgPbNum * Cardinality(Held) = PbNum

(* The PGs are finitely many, so those that hold blocks can be counted. *)
LEMMA HeldFinite == IsFiniteSet(Held) /\ Cardinality(Held) \in Nat
<1>1. IsFiniteSet(PG)
  BY SizesAssumption, FS_Interval DEF PG
<1>2. Held \in SUBSET PG
  BY DEF Held
<1>. QED BY <1>1, <1>2, FS_Subset, FS_CardinalityType

\* The blocks of one PG more.
LEMMA OneMore ==
  ASSUME NEW n \in Nat
  PROVE  /\ PgPbNum * n \in Nat
         /\ PgPbNum * (n + 1) = PgPbNum * n + PgPbNum
         /\ n # 0 => PgPbNum * (n - 1) = PgPbNum * n - PgPbNum /\ PgPbNum * n >= PgPbNum
<1>1. PgPbNum \in Nat
  BY SizesAssumption
<1>2. PgPbNum * n \in Nat /\ PgPbNum * (n + 1) = PgPbNum * n + PgPbNum
  BY <1>1
<1>3. ASSUME n # 0
      PROVE  PgPbNum * (n - 1) = PgPbNum * n - PgPbNum /\ PgPbNum * n >= PgPbNum
  <2>1. n - 1 \in Nat
    BY <1>3
  <2>2. PgPbNum * (n - 1) \in Nat /\ PgPbNum * (n - 1) = PgPbNum * n - PgPbNum
    BY <1>1, <2>1
  <2>. QED BY <1>1, <1>2, <2>2
<1>. QED BY <1>2, <1>3

(* A formatted device has bound no block. *)
LEMMA InitPool == Init => PoolInv
<1>. SUFFICES ASSUME Init PROVE PoolInv
  OBVIOUS
<1>1. Held = {}
  BY DEF Init, InitFTL, InitPG, Held
<1>2. PbNum \in Nat /\ PgPbNum * 0 = 0
  BY SizesAssumption DEF PbNum
<1>. QED BY <1>1, <1>2, FS_EmptySet DEF Init, InitFTL, PoolInv

-----------------------------------------------------------------------------
(* The steps that bind and dissolve PGs *)

\* BuildPG binds the blocks of one PG, or those that are left.
LEMMA BindStep ==
  ASSUME TypeInv, QueuesInv, PoolInv, GetOpenPG_Build, free_pg_que # <<>>
  PROVE  Counts!Bind /\ PoolInv'
<1>. DEFINE first == Head(free_pg_que)
            bound == IF EnoughFreePB THEN PgPbNum ELSE total_free
<1>1. /\ pg_list \in [PG -> PG_Info] /\ free_pg_que \in Seq(PG)
      /\ total_free \in Nat /\ total_invalid \in Nat
      /\ PgPbNum \in Nat /\ PbNum \in Nat
  BY SizesAssumption DEF TypeInv, SsdTypeOK, FtlTypeOK, PbNum
<1>2. first \in PG /\ first = free_pg_que[1] /\ 1 \in 1..Len(free_pg_que)
  BY <1>1, HeadTailProperties, EmptySeq, LenProperties
<1>3. pg_list[first].status = "FREE"
  BY <1>2 DEF QueuesInv, QueuedAs, Contains
<1>4. /\ pg_list' = [pg_list EXCEPT ![first].status = "OPEN", ![first].type = io.type,
                                    ![first].pb_num = bound]
      /\ total_free' = total_free - bound /\ total_invalid' = total_invalid
      /\ erase_left' = erase_left /\ pc = "open"
      /\ pc' = IF EnoughFreePB THEN "update" ELSE "failed"
  BY DEF GetOpenPG_Build, BuildPG, TakePG
<1>5. erase_left = 0
  BY <1>4 DEF PoolInv
<1>6. Counts!Bind
  BY <1>1, <1>4, <1>5 DEF Counts!Bind, EnoughFreePB
<1>7. CASE ~EnoughFreePB
  BY <1>4, <1>5, <1>6, <1>7 DEF PoolInv
<1>8. CASE EnoughFreePB
  <2>. HIDE DEF first
  <2>1. pg_list' = [pg_list EXCEPT ![first] =
                      [pg_list[first] EXCEPT !.status = "OPEN", !.type = io.type, !.pb_num = PgPbNum]]
    BY <1>1, <1>2, <1>4, <1>8 DEF PG_Info
  <2>2. /\ pg_list'[first].status = "OPEN" /\ pg_list'[first].pb_num = PgPbNum
        /\ \A pg \in PG \ {first} : pg_list'[pg] = pg_list[pg]
    <3>1. pg_list[first] \in PG_Info
      BY <1>1, <1>2
    <3>. QED BY <1>1, <1>2, <2>1, <3>1 DEF PG_Info
  <2>3. Held' = Held \cup {first} /\ first \notin Held
    BY <1>2, <1>3, <2>2 DEF Held
  <2>4. Cardinality(Held') = Cardinality(Held) + 1
    BY <2>3, HeldFinite, FS_AddElement
  <2>5. PgPbNum * Cardinality(Held') = PgPbNum * Cardinality(Held) + PgPbNum
    BY <2>4, HeldFinite, OneMore
  <2>6. \A pg \in Held' : pg_list'[pg].pb_num = PgPbNum
    BY <1>4, <2>2, <2>3 DEF PoolInv, Held
  <2>7. total_free + total_invalid + erase_left + PgPbNum * Cardinality(Held) = PbNum
    BY <1>4 DEF PoolInv
  <2>8. PgPbNum * Cardinality(Held) \in Nat
    BY HeldFinite, OneMore
  <2>9. total_free' + total_invalid' + erase_left' + PgPbNum * Cardinality(Held') = PbNum
    <3>. DEFINE blocks == PgPbNum * Cardinality(Held)
                blocks2 == PgPbNum * Cardinality(Held')
    <3>1. blocks \in Nat /\ blocks2 = blocks + PgPbNum
      BY <2>5, <2>8
    <3>2. total_free + total_invalid + erase_left + blocks = PbNum
      BY <2>7
    <3>3. total_free' = total_free - PgPbNum
      BY <1>4, <1>8
    <3>. HIDE DEF blocks, blocks2
    <3>4. total_free' + total_invalid' + erase_left' + blocks2 = PbNum
      BY <1>1, <1>4, <1>5, <3>1, <3>2, <3>3
    <3>. QED BY <3>4 DEF blocks2
  <2>. QED BY <1>4, <1>5, <1>6, <2>6, <2>9 DEF PoolInv
<1>. QED BY <1>7, <1>8

\* An accepted write dissolves the PG whose last page it takes, or no PG.
LEMMA UpdateStep ==
  ASSUME FtlTypeOK, NoPageInFreePG, QueuesInv, PoolInv, NEW lpn \in LP,
         NEW len \in Nat \ {0}, NEW dst \in PG, NEW align \in BOOLEAN, PageCounted(lpn),
         ~L2P_UpdateError(lpn, len, dst), L2P_Update(lpn, len, dst, align),
         pc = "update", pc' \notin {"erase", "failed"}, erase_left' = erase_left
  PROVE  /\ Counts!Dissolve \/ UNCHANGED <<total_free, total_invalid, erase_left>>
         /\ PoolInv'
<1>. DEFINE src == l2p_tbl[lpn].pgn
<1>1. total_free \in Nat /\ total_invalid \in Nat /\ PgPbNum \in Nat
  BY SizesAssumption DEF FtlTypeOK
<1>2. pc = "update" /\ pc' \notin {"erase", "failed"} /\ erase_left' = erase_left
  OBVIOUS
<1>3. pg_list[dst].status = "OPEN"
  BY DEF L2P_UpdateError
<1>4. erase_left = 0
  BY <1>2 DEF PoolInv
<1>5. src \in PG => pg_list[src].status # "FREE"
  <2>1. lpn \in Mapped(src)
    BY DEF Mapped
  <2>. QED BY <2>1 DEF NoPageInFreePG
<1>6. \A pg \in PG : pg_list'[pg].status =
         IF Releases(lpn, dst) /\ pg = src THEN "FREE"
         ELSE IF pg = dst THEN IF Fills(lpn, len, dst, align) THEN "CLOSE" ELSE "OPEN"
         ELSE pg_list[pg].status
  BY StatusAfterWrite
<1>7. /\ total_free' = total_free
      /\ total_invalid' = total_invalid + (IF Releases(lpn, dst) THEN pg_list[src].pb_num ELSE 0)
      /\ \A pg \in Held' : pg_list'[pg].pb_num = pg_list[pg].pb_num
  <2>. DEFINE new == Grown(lpn, len, dst, align)
  <2>1. new.pb_num = pg_list[dst].pb_num
    <3>1. pg_list[dst] \in PG_Info
      BY DEF FtlTypeOK
    <3>. QED BY <3>1 DEF Grown, Written, PG_Info
  <2>. HIDE DEF new
  <2>2. /\ total_free' = total_free
        /\ total_invalid' = total_invalid + (IF Releases(lpn, dst) THEN pg_list[src].pb_num ELSE 0)
        /\ \A pg \in PG : ~(Releases(lpn, dst) /\ pg = src) =>
             SameFields(pg_list'[pg], IF pg = dst THEN new ELSE pg_list[pg])
    BY RestAfterWrite DEF new
  <2>. QED BY <1>6, <2>1, <2>2 DEF SameFields, Held
<1>8. Held' = IF Releases(lpn, dst) THEN Held \ {src} ELSE Held
  BY <1>3, <1>6 DEF Held
<1>9. /\ \A pg \in Held : pg_list[pg].pb_num = PgPbNum
      /\ total_free + total_invalid + PgPbNum * Cardinality(Held) = PbNum
  BY <1>1, <1>2, <1>4, HeldFinite, OneMore DEF PoolInv
<1>10. \A pg \in Held' : pg_list'[pg].pb_num = PgPbNum
  BY <1>7, <1>8, <1>9
<1>11. CASE ~Releases(lpn, dst)
  <2>1. total_invalid' = total_invalid /\ Held' = Held
    BY <1>1, <1>7, <1>8, <1>11
  <2>. QED BY <1>2, <1>4, <1>7, <1>10, <2>1 DEF PoolInv
<1>12. CASE Releases(lpn, dst)
  <2>1. src \in Held
    BY <1>5, <1>12 DEF Releases, Held
  <2>2. total_invalid' = total_invalid + PgPbNum
    BY <1>7, <1>9, <1>12, <2>1
  <2>3. Cardinality(Held') = Cardinality(Held) - 1 /\ Cardinality(Held) # 0
    BY <1>8, <1>12, <2>1, HeldFinite, FS_RemoveElement, FS_EmptySet
  <2>. DEFINE blocks == PgPbNum * Cardinality(Held)
              blocks2 == PgPbNum * Cardinality(Held')
  <2>4. blocks \in Nat /\ blocks2 = blocks - PgPbNum /\ blocks >= PgPbNum
    BY <2>3, HeldFinite, OneMore
  <2>5. total_free + total_invalid + blocks = PbNum
    BY <1>9
  <2>. HIDE DEF blocks, blocks2
  <2>6. Counts!Dissolve
    BY <1>1, <1>2, <1>4, <1>7, <2>2, <2>4, <2>5 DEF Counts!Dissolve, Counts!Bound
  <2>7. total_free' + total_invalid' + erase_left' + blocks2 = PbNum
    BY <1>1, <1>2, <1>4, <1>7, <2>2, <2>4, <2>5
  <2>. QED BY <1>2, <1>4, <1>10, <2>6, <2>7 DEF PoolInv, blocks2
<1>. QED BY <1>11, <1>12

\* A step that leaves the pool and the blocks of PGs alone.
LEMMA NoPoolStep ==
  ASSUME PoolInv, UNCHANGED <<total_free, total_invalid, erase_left>>,
         pc # "failed" \/ pc' = "failed", pc # "erase", pc' # "erase",
         \A pg \in PG : /\ pg_list'[pg].status = "FREE" <=> pg_list[pg].status = "FREE"
                        /\ pg_list'[pg].pb_num = pg_list[pg].pb_num
  PROVE  PoolInv'
<1>1. Held' = Held
  BY DEF Held
<1>2. \A pg \in Held : pg_list'[pg].pb_num = pg_list[pg].pb_num
  BY DEF Held
<1>. QED BY <1>1, <1>2 DEF PoolInv

\* The actions of the device, one by one. LpWrite apart, none of them depends on
\* the length of a page.
LEMMA CountsUnlessWrite ==
  ASSUME TypeInv, QueuesInv, PoolInv, Next, ~LpWrite
  PROVE  /\ PoolInv'
         /\ [Counts!CountsNext]_<<total_free, total_invalid, erase_left>>
<1>. USE DEF Counts!CountsNext
<1>1. /\ pg_list \in [PG -> PG_Info] /\ close_pg_que \in Seq(PG) /\ rcm_pg_que \in Seq(PG)
      /\ total_free \in Nat /\ total_invalid \in Nat /\ erase_left \in 0..MaxErase
      /\ MaxErase \in Nat /\ PgPbNum \in Nat
  BY SizesAssumption DEF TypeInv, SsdTypeOK, FtlTypeOK
<1>2. PgPbNum * Cardinality(Held) \in Nat
  BY HeldFinite, OneMore
<1>3. CASE UNCHANGED <<pg_list, total_free, total_invalid, erase_left>> /\ pc # "erase"
           /\ pc' # "erase" /\ (pc # "failed" \/ pc' = "failed")
  BY <1>3, NoPoolStep
<1>4. CASE GetOpenPG_Build
  <2>1. CASE free_pg_que = <<>>
    BY <1>3, <1>4, <2>1 DEF GetOpenPG_Build, ftlVars
  <2>2. CASE free_pg_que # <<>>
    BY <1>4, <2>2, BindStep
  <2>. QED BY <2>1, <2>2
<1>5. CASE Reload
  <2>. DEFINE target == Last(close_pg_que)
  <2>1. /\ close_pg_que # <<>> /\ pg_list' = [pg_list EXCEPT ![target].status = "RCM"]
        /\ UNCHANGED <<total_free, total_invalid, erase_left>>
        /\ pc = "reload" /\ pc' \in {"reload", "failed"}
    BY <1>5 DEF Reload, ReloadRcmTarget
  <2>2. Contains(close_pg_que, target) /\ target \in PG
    <3>1. Len(close_pg_que) \in 1..Len(close_pg_que)
      BY <1>1, <2>1, EmptySeq, LenProperties
    <3>. QED BY <1>1, <3>1, ElementOfSeq DEF Last, Contains
  <2>. HIDE DEF target
  <2>3. pg_list[target].status = "CLOSE"
    BY <2>2 DEF QueuesInv, QueuedAs
  <2>4. \A pg \in PG : /\ pg_list'[pg].status = "FREE" <=> pg_list[pg].status = "FREE"
                       /\ pg_list'[pg].pb_num = pg_list[pg].pb_num
    BY <1>1, <2>1, <2>2, <2>3 DEF PG_Info
  <2>. QED BY <2>1, <2>4, NoPoolStep
<1>6. CASE Collect
  <2>1. \A pg \in PG : /\ pg_list'[pg].status = pg_list[pg].status
                       /\ pg_list'[pg].pb_num = pg_list[pg].pb_num
    BY <1>1, <1>6 DEF Collect, ScanNext, PG_Info
  <2>. QED BY <1>6, <2>1, NoPoolStep DEF Collect, ScanNext
<1>7. CASE FormatPage \/ FormatDone \/ GetOpenPG_Present \/ \E lpn \in LP : HostWrite(lpn)
  BY <1>3, <1>7 DEF FormatPage, FormatDone, GetOpenPG_Present, HostWrite, ftlVars
<1>8. CASE GetReWriteReq \/ ReloadDone \/ CollectDone \/ Rewrite \/ RewriteDone
  BY <1>3, <1>8 DEF GetReWriteReq, ReloadDone, CollectDone, Rewrite, RewriteDone, ftlVars
<1>9. CASE CollectNextPG
  BY <1>3, <1>9 DEF CollectNextPG, ScanEnd, ctlVars
<1>10. CASE \E num \in 0..MaxErase : EraseReq(num)
  <2>1. PICK num \in 0..MaxErase : EraseReq(num)
    BY <1>10
  <2>2. /\ total_invalid' = total_invalid - num /\ num <= total_invalid /\ erase_left' = num
        /\ total_free' = total_free /\ pg_list' = pg_list /\ pc = "geterase"
        /\ pc' # "failed" /\ (pc' # "erase" => num = 0)
    BY <2>1 DEF EraseReq, GetEraseReq
  <2>3. erase_left = 0 /\ Held' = Held
    BY <2>2 DEF PoolInv, Held
  <2>4. num # 0 => Counts!Reserve
    BY <1>1, <2>2, <2>3 DEF Counts!Reserve
  <2>5. total_free' + total_invalid' + erase_left' = total_free + total_invalid + erase_left
    BY <1>1, <2>2, <2>3
  <2>. QED BY <1>1, <2>2, <2>3, <2>4, <2>5 DEF PoolInv
<1>11. CASE Erase
  <2>1. /\ total_free' = total_free + 1 /\ total_invalid' = total_invalid /\ pg_list' = pg_list
        /\ erase_left' = erase_left - 1 /\ pc = "erase"
        /\ pc' # "failed" /\ (pc' # "erase" => erase_left = 1)
    BY <1>11 DEF Erase, ErasePB
  <2>2. erase_left # 0 /\ Held' = Held
    BY <2>1 DEF TypeInv, ControlInv, EraseInv, Held
  <2>3. Counts!Erased
    BY <1>1, <2>1, <2>2 DEF Counts!Erased
  <2>4. total_free' + total_invalid' + erase_left' = total_free + total_invalid + erase_left
    BY <1>1, <2>1
  <2>. QED BY <1>1, <2>1, <2>2, <2>3, <2>4 DEF PoolInv
<1>. QED
  BY <1>4, <1>5, <1>6, <1>7, <1>8, <1>9, <1>10, <1>11 DEF Next, Run, DoGC

(* With lp_write, which dissolves the PG whose last page it takes. *)
LEMMA NextCounts ==
  ASSUME TypeInv, BooksInv, QueuesInv, PoolInv, [Next]_vars
  PROVE  /\ PoolInv'
         /\ [Counts!CountsNext]_<<total_free, total_invalid, erase_left>>
<1>1. CASE LpWrite
  <2>1. CASE L2P_UpdateError(io.lpn, SectsPerLp, openpg[io.type])
    <3>1. /\ UNCHANGED <<pg_list, total_free, total_invalid, erase_left>>
          /\ pc = "update" /\ pc' = "failed"
      BY <1>1, <2>1 DEF LpWrite, ftlVars
    <3>. QED BY <3>1, NoPoolStep
  <2>2. CASE ~L2P_UpdateError(io.lpn, SectsPerLp, openpg[io.type])
    <3>1. FtlTypeOK /\ openpg[io.type] \in PG /\ io.lpn \in LP
      BY <1>1 DEF LpWrite, TypeInv, ControlInv, SsdTypeOK, FtlTypeOK
    <3>2. /\ L2P_Update(io.lpn, SectsPerLp, openpg[io.type], FALSE)
          /\ pc = "update" /\ pc' \notin {"erase", "failed"} /\ erase_left' = erase_left
      BY <1>1, <2>2 DEF LpWrite
    <3>3. SectsPerLp \in Nat \ {0} /\ PageCounted(io.lpn) /\ NoPageInFreePG
      BY <3>1, SizesAssumption, BookedPages DEF BooksInv
    <3>. QED BY <2>2, <3>1, <3>2, <3>3, UpdateStep DEF Counts!CountsNext
  <2>. QED BY <2>1, <2>2
<1>2. CASE UNCHANGED vars
  BY <1>2 DEF vars, ftlVars, ctlVars, PoolInv, Held
<1>. QED BY <1>1, <1>2, CountsUnlessWrite

\* On every device, whatever the order of writes, copies and erasures, the
\* counters GetNeededBlockNum and GetEraseReq read are those of a pool that binds
\* and dissolves whole PGs: a released PG gives back exactly what it was given.
THEOREM ImplementsBlockCounts == Spec => ImplementsCounts
<1>1. Init => Counts!CountsInit
  BY DEF Init, InitFTL, Counts!CountsInit
<1>2. Init => TypeInv /\ BooksInv /\ QueuesInv /\ PoolInv
  BY InitType, InitBooks, InitQueues, InitPool
<1>3. TypeInv /\ BooksInv /\ QueuesInv /\ PoolInv /\ [Next]_vars =>
        /\ (TypeInv /\ BooksInv /\ QueuesInv /\ PoolInv)'
        /\ [Counts!CountsNext]_<<total_free, total_invalid, erase_left>>
  BY NextType, NextBooks, NextLog, NextCounts
<1>. QED BY <1>1, <1>2, <1>3, PTL DEF Spec, ImplementsCounts, Counts!CountsSpec

-----------------------------------------------------------------------------
(***************************************************************************)
(* Where a PG is follows from its status, for every number of pages and    *)
(* groups: in one of four queues, once, or in the open slot of its type.   *)
(*                                                                         *)
(* QueuesInv says so of the free and of the close queue.  A victim may be  *)
(* on either of two queues, and CloseToInvalid looks into one and takes    *)
(* the other for granted; an open PG is found by the type it was opened    *)
(* for, which OpenToClose trusts when it empties a slot.                   *)
(***************************************************************************)

\* A victim is on rcm_pg_que, or when it is scanned on rcm_cmp_pg_que.
VictimsInv ==
  /\ Once(rcm_pg_que) /\ Once(rcm_cmp_pg_que)
  /\ \A pg \in PG :
       /\ pg_list[pg].status = "RCM" <=> Contains(rcm_pg_que, pg) \/ Contains(rcm_cmp_pg_que, pg)
       /\ ~(Contains(rcm_pg_que, pg) /\ Contains(rcm_cmp_pg_que, pg))

\* An open PG is in the slot of its type, unless BuildPG has lost it.
SlotsInv ==
  \A pg \in PG :
    /\ \A type \in IoType :
         openpg[type] = pg => pg_list[pg].status = "OPEN" /\ pg_list[pg].type = type
    /\ pg_list[pg].status = "OPEN" => openpg[pg_list[pg].type] = pg \/ pc = "failed"

PlacesInv == VictimsInv /\ SlotsInv

(* A formatted device has no victim and no open PG. *)
LEMMA InitPlaces == Init => PlacesInv
<1>. SUFFICES ASSUME Init PROVE PlacesInv
  OBVIOUS
<1>1. /\ \A pg \in PG : pg_list[pg].status = "FREE"
      /\ \A type \in IoType : openpg[type] = NoPG
      /\ rcm_pg_que = <<>> /\ rcm_cmp_pg_que = <<>> /\ NoPG \notin PG
  BY NoPGAssumption DEF Init, InitFTL, InitPG, PG
<1>2. VictimsInv
  BY <1>1 DEF VictimsInv, Once, Contains
<1>3. SlotsInv
  BY <1>1 DEF SlotsInv
<1>. QED BY <1>2, <1>3 DEF PlacesInv

\* BuildPG takes the first free PG, gives it a status, a type and blocks, and
\* leaves what is on record of its pages alone.
LEMMA TakenPG ==
  ASSUME FtlTypeOK, QueuesInv, NEW type \in IoType, TakePG(type)
  PROVE  \E first \in PG :
           /\ first = Head(free_pg_que) /\ pg_list[first].status = "FREE"
           /\ pg_list'[first].status = "OPEN" /\ pg_list'[first].type = type
           /\ pg_list'[first].vs_num = pg_list[first].vs_num
           /\ pg_list'[first].lp_num = pg_list[first].lp_num
           /\ pg_list'[first].p2l_tbl = pg_list[first].p2l_tbl
           /\ pg_list'[first].next_ofs = pg_list[first].next_ofs
           /\ pg_list'[first].next_rewr_index = pg_list[first].next_rewr_index
           /\ pg_list'[first].next_rewr_pgsect = pg_list[first].next_rewr_pgsect
           /\ \A pg \in PG \ {first} : pg_list'[pg] = pg_list[pg]
           /\ UNCHANGED <<l2p_tbl, close_pg_que, rcm_pg_que, rcm_cmp_pg_que>>
<1>. DEFINE bound == IF EnoughFreePB THEN PgPbNum ELSE total_free
<1>1. pg_list \in [PG -> PG_Info] /\ free_pg_que \in Seq(PG) /\ free_pg_que # <<>>
  BY DEF FtlTypeOK, TakePG
<1>2. PICK first \in PG : first = Head(free_pg_que) /\ Contains(free_pg_que, first)
  <2>1. Head(free_pg_que) = free_pg_que[1] /\ 1 \in 1..Len(free_pg_que) /\ Head(free_pg_que) \in PG
    BY <1>1, HeadTailProperties, EmptySeq, LenProperties
  <2>. QED BY <2>1 DEF Contains
<1>3. pg_list[first].status = "FREE"
  BY <1>2 DEF QueuesInv, QueuedAs
<1>4. /\ pg_list' = [pg_list EXCEPT ![first].status = "OPEN", ![first].type = type,
                                    ![first].pb_num = bound]
      /\ UNCHANGED <<l2p_tbl, close_pg_que, rcm_pg_que, rcm_cmp_pg_que>>
  BY <1>2 DEF TakePG
<1>. HIDE DEF bound
<1>5. pg_list' = [pg_list EXCEPT ![first] =
                    [pg_list[first] EXCEPT !.status = "OPEN", !.type = type, !.pb_num = bound]]
  BY <1>1, <1>4 DEF PG_Info
<1>6. pg_list[first] \in PG_Info
  BY <1>1
<1>7. /\ pg_list'[first].status = "OPEN" /\ pg_list'[first].type = type
      /\ pg_list'[first].vs_num = pg_list[first].vs_num
      /\ pg_list'[first].lp_num = pg_list[first].lp_num
      /\ pg_list'[first].p2l_tbl = pg_list[first].p2l_tbl
      /\ pg_list'[first].next_ofs = pg_list[first].next_ofs
      /\ pg_list'[first].next_rewr_index = pg_list[first].next_rewr_index
      /\ pg_list'[first].next_rewr_pgsect = pg_list[first].next_rewr_pgsect
      /\ \A pg \in PG \ {first} : pg_list'[pg] = pg_list[pg]
  BY <1>1, <1>5, <1>6 DEF PG_Info
<1>. QED BY <1>2, <1>3, <1>4, <1>7

\* The same of GetOpenPG, and the slot it fills.
LEMMA BuiltPG ==
  ASSUME TypeInv, QueuesInv, GetOpenPG_Build, free_pg_que # <<>>
  PROVE  \E first \in PG :
           /\ pg_list[first].status = "FREE"
           /\ pg_list'[first].status = "OPEN" /\ pg_list'[first].type = io.type
           /\ pg_list'[first].p2l_tbl = pg_list[first].p2l_tbl
           /\ pg_list'[first].next_ofs = pg_list[first].next_ofs
           /\ pg_list'[first].next_rewr_index = pg_list[first].next_rewr_index
           /\ pg_list'[first].next_rewr_pgsect = pg_list[first].next_rewr_pgsect
           /\ \A pg \in PG \ {first} : pg_list'[pg] = pg_list[pg]
           /\ openpg[io.type] = NoPG
           /\ openpg' = [openpg EXCEPT ![io.type] = IF EnoughFreePB THEN first ELSE NoPG]
           /\ pc = "open" /\ pc' = IF EnoughFreePB THEN "update" ELSE "failed"
           /\ UNCHANGED <<l2p_tbl, close_pg_que, rcm_pg_que, rcm_cmp_pg_que>>
<1>1. FtlTypeOK /\ io.type \in IoType
  BY DEF TypeInv, SsdTypeOK
<1>2. TakePG(io.type)
  BY DEF GetOpenPG_Build, BuildPG
<1>3. /\ openpg[io.type] = NoPG
      /\ openpg' = [openpg EXCEPT ![io.type] = IF EnoughFreePB THEN Head(free_pg_que) ELSE NoPG]
      /\ pc = "open" /\ pc' = IF EnoughFreePB THEN "update" ELSE "failed"
  BY DEF GetOpenPG_Build, BuildPG
<1>4. PICK first \in PG :
        /\ first = Head(free_pg_que) /\ pg_list[first].status = "FREE"
        /\ pg_list'[first].status = "OPEN" /\ pg_list'[first].type = io.type
        /\ pg_list'[first].p2l_tbl = pg_list[first].p2l_tbl
        /\ pg_list'[first].next_ofs = pg_list[first].next_ofs
        /\ pg_list'[first].next_rewr_index = pg_list[first].next_rewr_index
        /\ pg_list'[first].next_rewr_pgsect = pg_list[first].next_rewr_pgsect
        /\ \A pg \in PG \ {first} : pg_list'[pg] = pg_list[pg]
        /\ UNCHANGED <<l2p_tbl, close_pg_que, rcm_pg_que, rcm_cmp_pg_que>>
  BY <1>1, <1>2, TakenPG
<1>. WITNESS first \in PG
<1>. QED BY <1>3, <1>4, Zenon

\* A PG that is built goes into the empty slot of its type.
LEMMA BuildPlaces ==
  ASSUME TypeInv, QueuesInv, PlacesInv, GetOpenPG_Build, free_pg_que # <<>>
  PROVE  PlacesInv'
<1>1. /\ pg_list \in [PG -> PG_Info] /\ openpg \in [IoType -> PG \cup {NoPG}]
      /\ io.type \in IoType /\ NoPG \notin PG
  BY NoPGAssumption DEF TypeInv, SsdTypeOK, FtlTypeOK, PG
<1>2. PICK first \in PG :
         /\ pg_list[first].status = "FREE"
         /\ pg_list'[first].status = "OPEN" /\ pg_list'[first].type = io.type
         /\ \A pg \in PG \ {first} : pg_list'[pg] = pg_list[pg]
         /\ openpg[io.type] = NoPG
         /\ openpg' = [openpg EXCEPT ![io.type] = IF EnoughFreePB THEN first ELSE NoPG]
         /\ pc = "open" /\ pc' = IF EnoughFreePB THEN "update" ELSE "failed"
         /\ UNCHANGED <<rcm_pg_que, rcm_cmp_pg_que>>
  BY BuiltPG
<1>3. pg_list[first].status = "FREE"
  BY <1>2
<1>4. /\ openpg' = [openpg EXCEPT ![io.type] = IF EnoughFreePB THEN first ELSE NoPG]
      /\ UNCHANGED <<rcm_pg_que, rcm_cmp_pg_que>>
      /\ openpg[io.type] = NoPG /\ pc' = IF EnoughFreePB THEN "update" ELSE "failed"
      /\ pc = "open"
  BY <1>2
<1>5. /\ pg_list'[first].status = "OPEN" /\ pg_list'[first].type = io.type
      /\ \A pg \in PG \ {first} : pg_list'[pg] = pg_list[pg]
  BY <1>2
<1>6. VictimsInv'
  <2>1. \A pg \in PG : pg_list'[pg].status = "RCM" <=> pg_list[pg].status = "RCM"
    BY <1>3, <1>5
  <2>2. VictimsInv
    BY DEF PlacesInv
  <2>. QED BY <1>4, <2>1, <2>2 DEF VictimsInv, Contains, Once
<1>7. SlotsInv'
  <2>1. \A type \in IoType : openpg[type] # first
    BY <1>3 DEF PlacesInv, SlotsInv
  <2>2. /\ openpg'[io.type] = IF EnoughFreePB THEN first ELSE NoPG
        /\ \A type \in IoType \ {io.type} : openpg'[type] = openpg[type]
    BY <1>1, <1>4
  <2>3. \A pg \in PG : pg_list[pg].type \in IoType
    BY <1>1 DEF PG_Info
  <2>4. ASSUME NEW pg \in PG, NEW type \in IoType, openpg'[type] = pg
        PROVE  pg_list'[pg].status = "OPEN" /\ pg_list'[pg].type = type
    <3>1. CASE type = io.type
      BY <1>1, <1>5, <2>2, <2>4, <3>1
    <3>2. CASE type # io.type
      <4>1. openpg[type] = pg /\ pg # first
        BY <2>1, <2>2, <2>4, <3>2
      <4>2. pg_list[pg].status = "OPEN" /\ pg_list[pg].type = type
        BY <4>1 DEF PlacesInv, SlotsInv
      <4>. QED BY <1>5, <4>1, <4>2
    <3>. QED BY <3>1, <3>2
  <2>5. ASSUME NEW pg \in PG, pg_list'[pg].status = "OPEN"
        PROVE  openpg'[pg_list'[pg].type] = pg \/ pc' = "failed"
    <3>1. CASE pg = first
      BY <1>4, <1>5, <2>2, <3>1
    <3>2. CASE pg # first
      <4>1. pg_list'[pg] = pg_list[pg]
        BY <1>5, <3>2
      <4>2. openpg[pg_list[pg].type] = pg
        BY <1>4, <2>5, <4>1 DEF PlacesInv, SlotsInv
      <4>3. pg_list[pg].type \in IoType \ {io.type}
        BY <1>1, <1>4, <2>3, <4>2
      <4>. QED BY <2>2, <4>1, <4>2, <4>3
    <3>. QED BY <3>1, <3>2
  <2>. QED BY <2>4, <2>5 DEF SlotsInv
<1>. QED BY <1>6, <1>7 DEF PlacesInv

\* An accepted write takes the PG it releases from the queue of victims it is on.
LEMMA VictimsAfterWrite ==
  ASSUME FtlTypeOK, QueuesInv, VictimsInv, NEW lpn \in LP, NEW len \in Nat \ {0},
         NEW dst \in PG, NEW align \in BOOLEAN, PageCounted(lpn),
         ~L2P_UpdateError(lpn, len, dst), L2P_Update(lpn, len, dst, align)
  PROVE  VictimsInv'
<1>. DEFINE src    == l2p_tbl[lpn].pgn
            freed  == Releases(lpn, dst)
            victim == freed /\ pg_list[src].status = "RCM"
<1>1. rcm_pg_que \in Seq(PG) /\ rcm_cmp_pg_que \in Seq(PG)
  BY DEF FtlTypeOK
<1>2. pg_list[dst].status = "OPEN" /\ (freed => src \in PG /\ src # dst)
  BY DEF L2P_UpdateError, Releases
<1>3. \A pg \in PG : pg_list'[pg].status =
         IF freed /\ pg = src THEN "FREE"
         ELSE IF pg = dst THEN IF Fills(lpn, len, dst, align) THEN "CLOSE" ELSE "OPEN"
         ELSE pg_list[pg].status
  BY StatusAfterWrite
<1>4. /\ rcm_cmp_pg_que' = IF victim /\ Contains(rcm_cmp_pg_que, src)
                           THEN RemoveFirst(rcm_cmp_pg_que, src) ELSE rcm_cmp_pg_que
      /\ rcm_pg_que' = IF victim /\ ~Contains(rcm_cmp_pg_que, src)
                       THEN RemoveFirst(rcm_pg_que, src) ELSE rcm_pg_que
  BY RestAfterWrite
<1>. HIDE DEF src, freed
<1>5. CASE ~victim
  <2>1. \A pg \in PG : pg_list'[pg].status = "RCM" <=> pg_list[pg].status = "RCM"
    BY <1>2, <1>3, <1>5
  <2>. QED BY <1>4, <1>5, <2>1 DEF VictimsInv
<1>6. CASE victim
  <2>1. \A pg \in PG : pg_list'[pg].status = "RCM" <=> pg_list[pg].status = "RCM" /\ pg # src
    BY <1>2, <1>3, <1>6
  <2>2. /\ Once(rcm_pg_que) /\ Once(rcm_cmp_pg_que)
        /\ Contains(rcm_pg_que, src) \/ Contains(rcm_cmp_pg_que, src)
        /\ ~(Contains(rcm_pg_que, src) /\ Contains(rcm_cmp_pg_que, src))
    BY <1>2, <1>6 DEF VictimsInv
  <2>3. /\ Once(rcm_pg_que') /\ Once(rcm_cmp_pg_que')
        /\ \A pg \in PG : /\ Contains(rcm_pg_que', pg) <=> Contains(rcm_pg_que, pg) /\ pg # src
                          /\ Contains(rcm_cmp_pg_que', pg) <=> Contains(rcm_cmp_pg_que, pg) /\ pg # src
    <3>1. CASE Contains(rcm_cmp_pg_que, src)
      BY <1>1, <1>4, <1>6, <2>2, <3>1, RemoveFirstOnce
    <3>2. CASE ~Contains(rcm_cmp_pg_que, src)
      BY <1>1, <1>4, <1>6, <2>2, <3>2, RemoveFirstOnce
    <3>. QED BY <3>1, <3>2
  <2>. QED BY <2>1, <2>3 DEF VictimsInv
<1>. QED BY <1>5, <1>6

\* The same of a whole page.
LEMMA UpdateVictimQueues ==
  ASSUME FtlTypeOK, BooksInv, QueuesInv, VictimsInv, NEW lpn \in LP, NEW dst \in PG,
         ~L2P_UpdateError(lpn, SectsPerLp, dst),
         L2P_Update(lpn, SectsPerLp, dst, FALSE)
  PROVE  VictimsInv'
<1>1. SectsPerLp \in Nat \ {0} /\ PageCounted(lpn)
  BY SizesAssumption, BookedPages
<1>. QED BY <1>1, VictimsAfterWrite

\* An accepted write empties the slot of the PG it fills.
LEMMA SlotsAfterWrite ==
  ASSUME FtlTypeOK, QueuesInv, SlotsInv, NEW lpn \in LP, NEW len \in Nat \ {0}, NEW dst \in PG,
         NEW align \in BOOLEAN, PageCounted(lpn),
         ~L2P_UpdateError(lpn, len, dst), L2P_Update(lpn, len, dst, align), pc # "failed"
  PROVE  SlotsInv'
<1>. DEFINE src    == l2p_tbl[lpn].pgn
            freed  == Releases(lpn, dst)
            filled == Fills(lpn, len, dst, align)
            new    == Grown(lpn, len, dst, align)
<1>1. /\ pg_list \in [PG -> PG_Info] /\ openpg \in [IoType -> PG \cup {NoPG}]
      /\ NoPG \notin PG
  BY NoPGAssumption DEF FtlTypeOK, PG
<1>2. pg_list[dst].status = "OPEN" /\ (freed => src \in PG /\ src # dst)
  BY DEF L2P_UpdateError, Releases
<1>3. \A pg \in PG : pg_list'[pg].status =
         IF freed /\ pg = src THEN "FREE"
         ELSE IF pg = dst THEN IF filled THEN "CLOSE" ELSE "OPEN"
         ELSE pg_list[pg].status
  BY StatusAfterWrite
<1>4. new.type = pg_list[dst].type
  BY <1>1 DEF Grown, Written, PG_Info
<1>. HIDE DEF new
<1>5. /\ \A pg \in PG : ~(freed /\ pg = src) =>
            SameFields(pg_list'[pg], IF pg = dst THEN new ELSE pg_list[pg])
      /\ openpg' = IF filled THEN [openpg EXCEPT ![pg_list[dst].type] = NoPG] ELSE openpg
  BY RestAfterWrite DEF new
<1>6. \A pg \in PG : ~(freed /\ pg = src) => pg_list'[pg].type = pg_list[pg].type
  BY <1>4, <1>5 DEF SameFields
<1>. HIDE DEF src, freed, filled
<1>7. pg_list[dst].type \in IoType /\ openpg[pg_list[dst].type] = dst
  BY <1>1, <1>2 DEF PG_Info, SlotsInv
<1>8. /\ filled => openpg'[pg_list[dst].type] = NoPG
      /\ ~filled => openpg' = openpg
      /\ \A type \in IoType : type # pg_list[dst].type => openpg'[type] = openpg[type]
  BY <1>1, <1>5, <1>7
<1>9. freed => pg_list[src].status # "OPEN"
  BY DEF freed, src, Releases
<1>10. ASSUME NEW pg \in PG, NEW type \in IoType, openpg'[type] = pg
       PROVE  pg_list'[pg].status = "OPEN" /\ pg_list'[pg].type = type
  <2>1. openpg[type] = pg /\ (filled => type # pg_list[dst].type)
    BY <1>1, <1>7, <1>8, <1>10
  <2>2. pg_list[pg].status = "OPEN" /\ pg_list[pg].type = type
    BY <2>1 DEF SlotsInv
  <2>. QED BY <1>3, <1>6, <1>9, <2>1, <2>2
<1>11. ASSUME NEW pg \in PG, pg_list'[pg].status = "OPEN"
       PROVE  openpg'[pg_list'[pg].type] = pg
  <2>1. /\ pg_list[pg].status = "OPEN" /\ pg_list'[pg].type = pg_list[pg].type
        /\ ~(freed /\ pg = src) /\ (pg = dst => ~filled)
    BY <1>2, <1>3, <1>6, <1>11
  <2>2. openpg[pg_list[pg].type] = pg /\ pg_list[pg].type \in IoType
    BY <1>1, <2>1 DEF PG_Info, SlotsInv
  <2>. QED BY <1>7, <1>8, <2>1, <2>2
<1>. QED BY <1>10, <1>11 DEF SlotsInv

LEMMA UpdatePlaces ==
  ASSUME TypeInv, BooksInv, QueuesInv, PlacesInv, NEW lpn \in LP, NEW dst \in PG,
         ~L2P_UpdateError(lpn, SectsPerLp, dst),
         L2P_Update(lpn, SectsPerLp, dst, FALSE), pc # "failed"
  PROVE  PlacesInv'
<1>1. VictimsInv'
  BY UpdateVictimQueues DEF TypeInv, SsdTypeOK, PlacesInv
<1>2. SlotsInv'
  <2>1. /\ FtlTypeOK /\ SlotsInv /\ PageCounted(lpn) /\ SectsPerLp \in Nat \ {0}
    BY BookedPages, SizesAssumption DEF TypeInv, SsdTypeOK, PlacesInv
  <2>. QED BY <2>1, SlotsAfterWrite
<1>. QED BY <1>1, <1>2 DEF PlacesInv

\* ReloadRcmTarget makes the last closed PG a victim.
LEMMA ReloadTarget ==
  ASSUME FtlTypeOK, QueuesInv, ReloadRcmTarget
  PROVE  \E target \in PG :
           /\ target = Last(close_pg_que) /\ Contains(close_pg_que, target)
           /\ pg_list[target].status = "CLOSE"
           /\ pg_list' = [pg_list EXCEPT ![target].status = "RCM"]
           /\ rcm_pg_que' = Append(rcm_pg_que, target)
           /\ \A pg \in PG : /\ pg_list'[pg].status = IF pg = target THEN "RCM" ELSE pg_list[pg].status
                             /\ pg_list'[pg].type = pg_list[pg].type
<1>1. /\ pg_list \in [PG -> PG_Info]
      /\ close_pg_que \in Seq(PG) /\ close_pg_que # <<>>
  BY DEF FtlTypeOK, ReloadRcmTarget
<1>2. PICK target \in PG : target = Last(close_pg_que) /\ Contains(close_pg_que, target)
  <2>1. Len(close_pg_que) \in 1..Len(close_pg_que)
    BY <1>1, EmptySeq, LenProperties
  <2>. QED BY <1>1, <2>1, ElementOfSeq DEF Last, Contains
<1>3. pg_list[target].status = "CLOSE"
  BY <1>2 DEF QueuesInv, QueuedAs
<1>4. /\ pg_list' = [pg_list EXCEPT ![target].status = "RCM"]
      /\ rcm_pg_que' = Append(rcm_pg_que, target)
  BY <1>2 DEF ReloadRcmTarget
<1>5. \A pg \in PG : /\ pg_list'[pg].status = IF pg = target THEN "RCM" ELSE pg_list[pg].status
                     /\ pg_list'[pg].type = pg_list[pg].type
  BY <1>1, <1>4 DEF PG_Info
<1>. QED BY <1>2, <1>3, <1>4, <1>5

LEMMA ReloadVictimQueues ==
  ASSUME FtlTypeOK, QueuesInv, VictimsInv, ReloadRcmTarget
  PROVE  VictimsInv'
<1>1. PICK target \in PG :
        /\ pg_list[target].status = "CLOSE" /\ rcm_pg_que' = Append(rcm_pg_que, target)
        /\ \A pg \in PG : pg_list'[pg].status = IF pg = target THEN "RCM" ELSE pg_list[pg].status
  BY ReloadTarget
<1>2. rcm_pg_que \in Seq(PG) /\ rcm_cmp_pg_que' = rcm_cmp_pg_que
  BY DEF FtlTypeOK, ReloadRcmTarget
<1>3. ~Contains(rcm_pg_que, target) /\ ~Contains(rcm_cmp_pg_que, target) /\ Once(rcm_pg_que)
  BY <1>1 DEF VictimsInv
<1>4. Once(rcm_pg_que') /\ \A x : Contains(rcm_pg_que', x) <=> Contains(rcm_pg_que, x) \/ x = target
  BY <1>1, <1>2, <1>3, AppendOnce
<1>. QED BY <1>1, <1>2, <1>3, <1>4 DEF VictimsInv

LEMMA ReloadPlaces ==
  ASSUME TypeInv, QueuesInv, PlacesInv, ReloadRcmTarget, pc # "failed"
  PROVE  PlacesInv'
<1>1. VictimsInv'
  BY ReloadVictimQueues DEF TypeInv, SsdTypeOK, PlacesInv
<1>2. PICK target \in PG :
        /\ pg_list[target].status = "CLOSE"
        /\ \A pg \in PG : /\ pg_list'[pg].status = IF pg = target THEN "RCM" ELSE pg_list[pg].status
                          /\ pg_list'[pg].type = pg_list[pg].type
  BY ReloadTarget DEF TypeInv, SsdTypeOK
<1>3. SlotsInv'
  BY <1>2 DEF PlacesInv, SlotsInv, ReloadRcmTarget
<1>. QED BY <1>1, <1>3 DEF PlacesInv

\* A victim scanned to its end moves from one queue of victims to the other.
LEMMA ScanEndVictimQueues ==
  ASSUME FtlTypeOK, VictimsInv, rcm_pg_que # <<>>, ScanEnd(Head(rcm_pg_que))
  PROVE  VictimsInv'
<1>1. rcm_pg_que \in Seq(PG) /\ rcm_cmp_pg_que \in Seq(PG)
  BY DEF FtlTypeOK
<1>2. /\ Head(rcm_pg_que) \in PG /\ Contains(rcm_pg_que, Head(rcm_pg_que))
      /\ Once(Tail(rcm_pg_que))
      /\ \A x : Contains(Tail(rcm_pg_que), x) <=> Contains(rcm_pg_que, x) /\ x # Head(rcm_pg_que)
  BY <1>1, TailOnce DEF VictimsInv
<1>. PICK pg \in PG : pg = Head(rcm_pg_que)
  BY <1>2
<1>3. /\ rcm_pg_que' = Tail(rcm_pg_que) /\ rcm_cmp_pg_que' = Append(rcm_cmp_pg_que, pg)
      /\ pg_list' = pg_list
  BY DEF ScanEnd
<1>4. Contains(rcm_pg_que, pg) /\ Once(rcm_cmp_pg_que) /\ ~Contains(rcm_cmp_pg_que, pg)
  BY <1>2 DEF VictimsInv
<1>5. Once(rcm_pg_que') /\ \A x : Contains(rcm_pg_que', x) <=> Contains(rcm_pg_que, x) /\ x # pg
  BY <1>2, <1>3
<1>6. Once(rcm_cmp_pg_que') /\ \A x : Contains(rcm_cmp_pg_que', x) <=> Contains(rcm_cmp_pg_que, x) \/ x = pg
  BY <1>1, <1>3, <1>4, AppendOnce
<1>. QED BY <1>3, <1>4, <1>5, <1>6 DEF VictimsInv

LEMMA ScanEndPlaces ==
  ASSUME TypeInv, PlacesInv, rcm_pg_que # <<>>, ScanEnd(Head(rcm_pg_que)), pc' = pc
  PROVE  PlacesInv'
<1>1. VictimsInv'
  BY ScanEndVictimQueues DEF TypeInv, SsdTypeOK, PlacesInv
<1>2. SlotsInv'
  BY DEF PlacesInv, SlotsInv, ScanEnd
<1>. QED BY <1>1, <1>2 DEF PlacesInv

\* A step that moves no PG.
LEMMA NoPlaceStep ==
  ASSUME PlacesInv, UNCHANGED <<rcm_pg_que, rcm_cmp_pg_que, openpg>>,
         pc = "failed" => pc' = "failed",
         \A pg \in PG : /\ pg_list'[pg].status = pg_list[pg].status
                        /\ pg_list'[pg].type = pg_list[pg].type
  PROVE  PlacesInv'
<1>1. VictimsInv'
  BY DEF PlacesInv, VictimsInv
<1>2. SlotsInv'
  BY DEF PlacesInv, SlotsInv
<1>. QED BY <1>1, <1>2 DEF PlacesInv

(* The actions of the device, one by one. *)
LEMMA NextPlaces ==
  ASSUME TypeInv, BooksInv, QueuesInv, PlacesInv, [Next]_vars
  PROVE  PlacesInv'
<1>1. pg_list \in [PG -> PG_Info] /\ FtlTypeOK
  BY DEF TypeInv, SsdTypeOK, FtlTypeOK
<1>2. CASE UNCHANGED <<pg_list, rcm_pg_que, rcm_cmp_pg_que, openpg>> /\ (pc = "failed" => pc' = "failed")
  BY <1>2, NoPlaceStep
<1>3. CASE GetOpenPG_Build
  <2>1. CASE free_pg_que = <<>>
    BY <1>2, <1>3, <2>1 DEF GetOpenPG_Build, ftlVars, queueVars
  <2>. QED BY <1>3, <2>1, BuildPlaces
<1>4. CASE LpWrite
  <2>1. CASE L2P_UpdateError(io.lpn, SectsPerLp, openpg[io.type])
    BY <1>2, <1>4, <2>1 DEF LpWrite, ftlVars, queueVars
  <2>2. CASE ~L2P_UpdateError(io.lpn, SectsPerLp, openpg[io.type])
    <3>1. openpg[io.type] \in PG /\ io.lpn \in LP
      BY <1>1, <1>4 DEF LpWrite, TypeInv, ControlInv, SsdTypeOK, FtlTypeOK
    <3>2. L2P_Update(io.lpn, SectsPerLp, openpg[io.type], FALSE) /\ pc # "failed"
      BY <1>4, <2>2 DEF LpWrite
    <3>. QED BY <2>2, <3>1, <3>2, UpdatePlaces
  <2>. QED BY <2>1, <2>2
<1>5. CASE Reload
  BY <1>5, ReloadPlaces DEF Reload
<1>6. CASE Collect
  <2>1. \A pg \in PG : /\ pg_list'[pg].status = pg_list[pg].status
                       /\ pg_list'[pg].type = pg_list[pg].type
    BY <1>1, <1>6 DEF Collect, ScanNext, PG_Info
  <2>. QED BY <1>6, <2>1, NoPlaceStep DEF Collect, ScanNext, queueVars
<1>7. CASE UNCHANGED vars
  BY <1>2, <1>7 DEF vars, ftlVars, ctlVars, queueVars
<1>8. CASE FormatPage \/ FormatDone \/ GetOpenPG_Present \/ \E lpn \in LP : HostWrite(lpn)
  BY <1>2, <1>8 DEF FormatPage, FormatDone, GetOpenPG_Present, HostWrite, ftlVars, queueVars
<1>9. CASE GetReWriteReq \/ ReloadDone \/ CollectDone \/ Rewrite \/ RewriteDone
  BY <1>2, <1>9 DEF GetReWriteReq, ReloadDone, CollectDone, Rewrite, RewriteDone, ftlVars, queueVars
<1>10. CASE CollectNextPG
  BY <1>10, ScanEndPlaces DEF CollectNextPG, ctlVars
<1>11. CASE \E num \in 0..MaxErase : EraseReq(num)
  BY <1>2, <1>11 DEF EraseReq, GetEraseReq, queueVars
<1>12. CASE Erase
  BY <1>2, <1>12 DEF Erase, ErasePB, queueVars
<1>. QED
  BY <1>3, <1>4, <1>5, <1>6, <1>7, <1>8, <1>9, <1>10, <1>11, <1>12 DEF Next, Run, DoGC

-----------------------------------------------------------------------------
\* What is queued once occurs once, or not at all.
LEMMA OccurrencesOnce ==
  ASSUME NEW queue \in Seq(PG), NEW pg, Once(queue)
  PROVE  Occurrences(pg, queue) = IF Contains(queue, pg) THEN 1 ELSE 0
<1>. DEFINE at == {i \in DOMAIN queue : queue[i] = pg}
<1>1. DOMAIN queue = 1..Len(queue)
  BY LenProperties
<1>2. CASE Contains(queue, pg)
  <2>1. PICK i : at = {i}
    BY <1>1, <1>2 DEF Once, Contains
  <2>2. Cardinality(at) = 1
    BY <2>1, FS_Singleton
  <2>. QED BY <1>2, <2>2 DEF Occurrences
<1>3. CASE ~Contains(queue, pg)
  <2>1. at = {}
    BY <1>1, <1>3 DEF Contains
  <2>2. Cardinality(at) = 0
    BY <2>1, FS_EmptySet
  <2>. QED BY <1>3, <2>2 DEF Occurrences
<1>. QED BY <1>2, <1>3

(* Every state reached keeps types, books, queues and places. *)
LEMMA PlacesCorrect == Spec => [](TypeInv /\ BooksInv /\ QueuesInv /\ PlacesInv)
<1>1. Init => TypeInv /\ BooksInv /\ QueuesInv /\ PlacesInv
  BY InitType, InitBooks, InitQueues, InitPlaces
<1>2. TypeInv /\ BooksInv /\ QueuesInv /\ PlacesInv /\ [Next]_vars =>
        (TypeInv /\ BooksInv /\ QueuesInv /\ PlacesInv)'
  BY NextType, NextBooks, NextLog, NextPlaces
<1>. QED BY <1>1, <1>2, PTL DEF Spec

\* The queues and slots, each described by the status of its PGs, place every PG.
LEMMA PlacedOnce ==
  ASSUME TypeInv, QueuesInv, PlacesInv
  PROVE  PlaceMatchesStatus
<1>. SUFFICES ASSUME NEW pg \in PG
              PROVE  LET status == pg_list[pg].status
                         here(holds) == IF holds THEN 1 ELSE 0
                     IN  /\ Occurrences(pg, free_pg_que) = here(status = "FREE")
                         /\ Occurrences(pg, close_pg_que) = here(status = "CLOSE")
                         /\ Occurrences(pg, rcm_pg_que) + Occurrences(pg, rcm_cmp_pg_que) = here(status = "RCM")
                         /\ \A type \in IoType :
                              openpg[type] = pg => status = "OPEN" /\ pg_list[pg].type = type
                         /\ status = "OPEN" => openpg[pg_list[pg].type] = pg \/ pc = "failed"
  BY DEF PlaceMatchesStatus
<1>1. /\ free_pg_que \in Seq(PG) /\ close_pg_que \in Seq(PG)
      /\ rcm_pg_que \in Seq(PG) /\ rcm_cmp_pg_que \in Seq(PG)
  BY DEF TypeInv, SsdTypeOK, FtlTypeOK
<1>2. /\ Once(free_pg_que) /\ (Contains(free_pg_que, pg) <=> pg_list[pg].status = "FREE")
      /\ Once(close_pg_que) /\ (Contains(close_pg_que, pg) <=> pg_list[pg].status = "CLOSE")
  BY DEF QueuesInv, QueuedAs
<1>3. /\ Occurrences(pg, free_pg_que) = IF pg_list[pg].status = "FREE" THEN 1 ELSE 0
      /\ Occurrences(pg, close_pg_que) = IF pg_list[pg].status = "CLOSE" THEN 1 ELSE 0
  BY <1>1, <1>2, OccurrencesOnce
<1>4. Occurrences(pg, rcm_pg_que) + Occurrences(pg, rcm_cmp_pg_que)
        = IF pg_list[pg].status = "RCM" THEN 1 ELSE 0
  <2>1. Once(rcm_pg_que) /\ Once(rcm_cmp_pg_que)
    BY DEF PlacesInv, VictimsInv
  <2>2. /\ Occurrences(pg, rcm_pg_que) = IF Contains(rcm_pg_que, pg) THEN 1 ELSE 0
        /\ Occurrences(pg, rcm_cmp_pg_que) = IF Contains(rcm_cmp_pg_que, pg) THEN 1 ELSE 0
    BY <1>1, <2>1, OccurrencesOnce
  <2>3. /\ pg_list[pg].status = "RCM" <=> Contains(rcm_pg_que, pg) \/ Contains(rcm_cmp_pg_que, pg)
        /\ ~(Contains(rcm_pg_que, pg) /\ Contains(rcm_cmp_pg_que, pg))
    BY DEF PlacesInv, VictimsInv
  <2>. QED BY <2>2, <2>3
<1>5. /\ \A type \in IoType :
           openpg[type] = pg => pg_list[pg].status = "OPEN" /\ pg_list[pg].type = type
      /\ pg_list[pg].status = "OPEN" => openpg[pg_list[pg].type] = pg \/ pc = "failed"
  BY DEF PlacesInv, SlotsInv
<1>. QED BY <1>3, <1>4, <1>5

\* On every device, every PG is in exactly the one queue or slot its status names,
\* whatever moves of PGs between queues BuildPG, L2P_Update, ReloadRcmTarget and
\* the scan have made.
THEOREM PlacesHold == Spec => []PlaceMatchesStatus
<1>1. TypeInv /\ QueuesInv /\ PlacesInv => PlaceMatchesStatus
  BY PlacedOnce
<1>. QED BY <1>1, PlacesCorrect, PTL

-----------------------------------------------------------------------------
(***************************************************************************)
(* The scan of victims copies what is live, all of it and nothing else,    *)
(* for every number of pages and groups and every length of a request      *)
(* list.                                                                   *)
(*                                                                         *)
(* GetNextReWriteLPN does not ask the map what a victim holds: it walks    *)
(* along the reverse map, adds up lengths and compares the sum with the    *)
(* offset in the map.  Between two calls other copies close and release    *)
(* PGs.  That nothing is missed rests on what a reverse map has recorded   *)
(* since its PG was opened (TrailInv, FoundInv), that nothing is copied    *)
(* twice or in vain on how far the cursor has come (CurrentInv).           *)
(***************************************************************************)

\* A reverse map has an entry per page written, in the order of their sectors;
\* the cursors of a scan stand at the same entry, and at the first of a PG that
\* is no victim.  An open PG has room for the next page.
TrailInv ==
  \A pg \in PG :
    LET info == pg_list[pg]
    IN  /\ \A i \in 1..Len(info.p2l_tbl) : info.p2l_tbl[i].len = SectsPerLp
        /\ info.status = "FREE" => info.p2l_tbl = <<>> /\ info.next_ofs = 0
        /\ info.status = "OPEN" => /\ info.next_ofs = SectsPerLp * Len(info.p2l_tbl)
                                   /\ info.next_ofs + SectsPerLp <= PgCwNum
        /\ info.next_rewr_index <= Len(info.p2l_tbl)
        /\ info.next_rewr_pgsect = SectsPerLp * info.next_rewr_index
        /\ info.status # "RCM" => info.next_rewr_index = 0

\* A mapped page has an entry in the reverse map of its PG, where the map says.
FoundInv ==
  \A lpn \in LP :
    LET va == l2p_tbl[lpn]
    IN  va.pgn # NoPG =>
          \E i \in 1..Len(pg_list[va.pgn].p2l_tbl) :
            /\ pg_list[va.pgn].p2l_tbl[i].lpn = lpn
            /\ va.ofs = SectsPerLp * (i - 1)

\* A copy is being written.
Rewriting == io.type = "RCM_RWR" /\ pc \in {"open", "update", "failed"}

\* Requests are pending only while do_gc lists them and carries them out, and
\* Format runs before the first do_gc.
FlowInv ==
  /\ pc \notin {"open", "update", "failed"} => io.type = "HOST_WR"
  /\ req_list # <<>> => pc \in {"collect", "rewrite"} \/ Rewriting
  /\ Formatting => /\ pc \in {"format", "open", "update", "failed"}
                   /\ io.type = "HOST_WR" /\ req_list = <<>>

\* A pending page is still where the scan has found it, behind the cursor of a
\* victim, and is pending once.
CurrentInv ==
  /\ \A lpn \in Pending :
       LET va == l2p_tbl[lpn]
       IN  /\ va.pgn \in PG /\ pg_list[va.pgn].status = "RCM"
           /\ va.ofs < pg_list[va.pgn].next_rewr_pgsect
  /\ Once(req_list)
  /\ Rewriting => ~Contains(req_list, io.lpn)

ScanInv == TrailInv /\ FoundInv /\ FlowInv /\ CurrentInv /\ NoPageMissed

\* Offsets that are multiples of a page are ordered like the pages.
LEMMA PageOffsets ==
  ASSUME NEW s \in Nat \ {0}, NEW a \in Nat, NEW b \in Nat
  PROVE  /\ s * (a + 1) = s * a + s
         /\ s * a < s * b <=> a < b
         /\ s * a = s * b <=> a = b
         /\ s * a \in Nat
<1>1. s * (a + 1) = s * a + s
  OBVIOUS
<1>2. \A m, n \in Nat : m < n => s * m < s * n
  <2>. SUFFICES ASSUME NEW m \in Nat, NEW n \in Nat, m < n PROVE s * m < s * n
    OBVIOUS
  <2>1. PICK d \in Nat \ {0} : n = m + d
    <3>1. n - m \in Nat \ {0} /\ n = m + (n - m)
      OBVIOUS
    <3>. QED BY <3>1
  <2>2. s * n = s * m + s * d
    BY <2>1
  <2>3. s * d \in Nat \ {0}
    OBVIOUS
  <2>4. s * m \in Nat
    OBVIOUS
  <2>. QED BY <2>2, <2>3, <2>4
<1>3. s * a \in Nat /\ s * b \in Nat
  OBVIOUS
<1>4. a < b \/ a = b \/ b < a
  OBVIOUS
<1>. QED BY <1>1, <1>2, <1>3, <1>4

\* What is pending is on the list or being written.
LEMMA PendingPages ==
  ASSUME req_list \in Seq(LP)
  PROVE  \A lpn : lpn \in Pending <=> Contains(req_list, lpn) \/ (Rewriting /\ lpn = io.lpn)
<1>1. DOMAIN req_list = 1..Len(req_list)
  BY LenProperties
<1>2. \A lpn : lpn \in ToSet(req_list) <=> Contains(req_list, lpn)
  BY <1>1 DEF ToSet, Contains
<1>3. Pending = ToSet(req_list) \cup IF Rewriting THEN {io.lpn} ELSE {}
  BY DEF Pending, Rewriting
<1>. QED BY <1>2, <1>3

\* The same after a step.
LEMMA PendingPagesNext ==
  ASSUME req_list' \in Seq(LP)
  PROVE  \A lpn : lpn \in Pending' <=> Contains(req_list', lpn) \/ (Rewriting' /\ lpn = io'.lpn)
<1>1. DOMAIN req_list' = 1..Len(req_list')
  BY LenProperties
<1>2. \A lpn : lpn \in ToSet(req_list') <=> Contains(req_list', lpn)
  BY <1>1 DEF ToSet, Contains
<1>3. Pending' = ToSet(req_list') \cup IF Rewriting' THEN {io'.lpn} ELSE {}
  BY DEF Pending, Rewriting
<1>. QED BY <1>2, <1>3

(* On a formatted device reverse maps are empty and nothing is pending. *)
LEMMA InitScan == Init => ScanInv
<1>. SUFFICES ASSUME Init PROVE ScanInv
  OBVIOUS
<1>1. /\ \A pg \in PG : pg_list[pg] = InitPG
      /\ \A lpn \in LP : l2p_tbl[lpn].pgn = NoPG
      /\ pc = "format" /\ io.type = "HOST_WR" /\ req_list = <<>>
  BY DEF Init, InitFTL, NoIo
<1>2. TrailInv
  BY <1>1, SizesAssumption DEF TrailInv, InitPG
<1>3. FoundInv
  BY <1>1 DEF FoundInv
<1>4. Pending = {} /\ ~Rewriting
  BY <1>1 DEF Pending, Rewriting, ToSet
<1>5. FlowInv /\ CurrentInv
  BY <1>1, <1>4 DEF FlowInv, CurrentInv, Once
<1>6. NoPageMissed
  BY <1>1 DEF NoPageMissed, InitPG
<1>. QED BY <1>2, <1>3, <1>5, <1>6 DEF ScanInv

\* L2P_Update accepts every write of the device: the slot holds an open PG,
\* which is closed before a page too many, and the counters cover the old copy.
LEMMA Accepted ==
  ASSUME TypeInv, BooksInv, PlacesInv, TrailInv, pc = "update"
  PROVE  /\ openpg[io.type] \in PG /\ io.lpn \in LP
         /\ ~L2P_UpdateError(io.lpn, SectsPerLp, openpg[io.type])
<1>. DEFINE dst == openpg[io.type]
            old == l2p_tbl[io.lpn]
<1>1. dst \in PG /\ io.lpn \in LP /\ io.type \in IoType
  BY DEF TypeInv, ControlInv, SsdTypeOK, FtlTypeOK
<1>2. /\ pg_list[dst].status = "OPEN"
      /\ pg_list[dst].next_ofs + SectsPerLp <= PgCwNum
      /\ pg_list[dst].next_ofs \in Nat
  BY <1>1 DEF PlacesInv, SlotsInv, TrailInv, TypeInv, SsdTypeOK, FtlTypeOK, PG_Info
<1>3. old.pgn # NoPG => pg_list[old.pgn].vs_num >= old.len
  <2>. SUFFICES ASSUME old.pgn # NoPG PROVE pg_list[old.pgn].vs_num >= old.len
    OBVIOUS
  <2>1. /\ pg_list[old.pgn].lp_num \in Nat \ {0}
        /\ pg_list[old.pgn].vs_num = SectsPerLp * pg_list[old.pgn].lp_num
    BY <1>1, CountedPage DEF TypeInv, SsdTypeOK
  <2>2. old.len = SectsPerLp
    BY <1>1 DEF BooksInv, FullLength
  <2>3. \A n \in Nat \ {0} : SectsPerLp * n >= SectsPerLp
    <3>. TAKE n \in Nat \ {0}
    <3>1. n - 1 \in Nat /\ n = (n - 1) + 1
      OBVIOUS
    <3>2. SectsPerLp * n = SectsPerLp * (n - 1) + SectsPerLp /\ SectsPerLp * (n - 1) \in Nat
      BY <3>1, SizesAssumption, PageOffsets
    <3>. QED BY <3>2, SizesAssumption
  <2>. QED BY <2>1, <2>2, <2>3
<1>4. old.pgn # NoPG => pg_list[old.pgn].vs_num \in Nat /\ old.len \in Nat
  BY <1>1, CountedPage DEF TypeInv, SsdTypeOK, FtlTypeOK, VPA
<1>. QED BY <1>1, <1>2, <1>3, <1>4, SizesAssumption, PgSizeAssumption DEF L2P_UpdateError

-----------------------------------------------------------------------------
(* What the actions do to the reverse maps *)

\* A step that writes to no reverse map, moves no page and no cursor.
LEMMA NoTrailStep ==
  ASSUME TrailInv, FoundInv, l2p_tbl' = l2p_tbl,
         \A pg \in PG : /\ pg_list'[pg].p2l_tbl = pg_list[pg].p2l_tbl
                        /\ pg_list'[pg].next_ofs = pg_list[pg].next_ofs
                        /\ pg_list'[pg].next_rewr_index = pg_list[pg].next_rewr_index
                        /\ pg_list'[pg].next_rewr_pgsect = pg_list[pg].next_rewr_pgsect
                        /\ \/ pg_list'[pg].status = pg_list[pg].status
                           \/ pg_list'[pg].status = "RCM"
                           \/ pg_list'[pg].status = "OPEN" /\ pg_list[pg].status = "FREE",
         \A lpn \in LP : l2p_tbl[lpn].pgn \in PG \cup {NoPG}
  PROVE  TrailInv' /\ FoundInv'
<1>1. PgCwNum > SectsPerLp /\ PgCwNum \in Nat /\ SectsPerLp \in Nat \ {0}
  BY SizesAssumption, PgSizeAssumption
<1>2. SectsPerLp * 0 = 0 /\ 0 + SectsPerLp <= PgCwNum
  BY <1>1
<1>3. TrailInv'
  <2>. SUFFICES ASSUME NEW pg \in PG
                PROVE  LET info == pg_list'[pg]
                       IN  /\ \A i \in 1..Len(info.p2l_tbl) : info.p2l_tbl[i].len = SectsPerLp
                           /\ info.status = "FREE" => info.p2l_tbl = <<>> /\ info.next_ofs = 0
                           /\ info.status = "OPEN" => /\ info.next_ofs = SectsPerLp * Len(info.p2l_tbl)
                                                      /\ info.next_ofs + SectsPerLp <= PgCwNum
                           /\ info.next_rewr_index <= Len(info.p2l_tbl)
                           /\ info.next_rewr_pgsect = SectsPerLp * info.next_rewr_index
                           /\ info.status # "RCM" => info.next_rewr_index = 0
    BY DEF TrailInv
  <2>1. pg_list[pg].status = "FREE" => Len(pg_list[pg].p2l_tbl) = 0 /\ pg_list[pg].next_ofs = 0
    BY DEF TrailInv
  <2>. QED BY <1>2, <2>1 DEF TrailInv
<1>4. FoundInv'
  BY DEF FoundInv
<1>. QED BY <1>3, <1>4

\* An accepted write adds an entry to one reverse map, at the page it maps, and
\* clears that of the PG it releases, to which nothing is mapped any more.
LEMMA UpdateTrail ==
  ASSUME TypeInv, BooksInv, BooksInv', QueuesInv, TrailInv, FoundInv,
         NEW lpn \in LP, NEW dst \in PG,
         ~L2P_UpdateError(lpn, SectsPerLp, dst),
         L2P_Update(lpn, SectsPerLp, dst, FALSE)
  PROVE  TrailInv' /\ FoundInv'
<1>. DEFINE src   == l2p_tbl[lpn].pgn
            freed == Releases(lpn, dst)
            new   == Written(pg_list[dst], lpn, SectsPerLp, 0)
            entry == [lpn |-> lpn, len |-> SectsPerLp]
            len   == Len(pg_list[dst].p2l_tbl)
<1>0. SectsPerLp \in Nat \ {0} /\ PgCwNum \in Nat
  BY SizesAssumption, PgSizeAssumption
<1>1. /\ pg_list \in [PG -> PG_Info] /\ l2p_tbl \in [LP -> VPA] /\ NoPG \notin PG
      /\ pg_list[dst] \in PG_Info
  BY NoPGAssumption DEF TypeInv, SsdTypeOK, FtlTypeOK, PG
<1>2. pg_list[dst].status = "OPEN" /\ (freed => src \in PG /\ src # dst)
  BY DEF L2P_UpdateError, Releases
<1>3. /\ len \in Nat /\ pg_list[dst].next_ofs = SectsPerLp * len
      /\ SectsPerLp * (len + 1) = SectsPerLp * len + SectsPerLp
      /\ pg_list[dst].next_rewr_index = 0
      /\ pg_list[dst].next_rewr_pgsect = SectsPerLp * 0
  <2>1. pg_list[dst].p2l_tbl \in Seq(Reverse_Info)
    BY <1>1 DEF PG_Info
  <2>2. len \in Nat
    BY <2>1, LenProperties
  <2>. QED BY <1>0, <1>2, <2>2, PageOffsets DEF TrailInv
<1>4. /\ new.p2l_tbl = Append(pg_list[dst].p2l_tbl, entry)
      /\ new.next_rewr_index = 0 /\ new.next_rewr_pgsect = SectsPerLp * 0
      /\ new.status # "CLOSE" =>
           /\ new.next_ofs = SectsPerLp * (len + 1)
           /\ new.next_ofs + SectsPerLp <= PgCwNum
  <2>1. /\ new.p2l_tbl = Append(pg_list[dst].p2l_tbl, [lpn |-> lpn, len |-> SectsPerLp + 0])
        /\ new.next_rewr_index = pg_list[dst].next_rewr_index
        /\ new.next_rewr_pgsect = pg_list[dst].next_rewr_pgsect
        /\ LET next == pg_list[dst].next_ofs + SectsPerLp + 0
               full == next + SectsPerLp >= PgCwNum
           IN  /\ new.next_ofs = IF full THEN PgCwNum ELSE next
               /\ new.status = IF full THEN "CLOSE" ELSE pg_list[dst].status
    BY <1>1 DEF Written, PG_Info
  <2>2. pg_list[dst].next_ofs \in Nat
    BY <1>1 DEF PG_Info
  <2>. HIDE DEF new
  <2>. QED BY <1>0, <1>3, <2>1, <2>2
<1>5. /\ Len(new.p2l_tbl) = len + 1 /\ new.p2l_tbl[len + 1] = entry
      /\ \A i \in 1..len : new.p2l_tbl[i] = pg_list[dst].p2l_tbl[i]
  <2>1. pg_list[dst].p2l_tbl \in Seq(Reverse_Info) /\ entry \in Reverse_Info
    BY <1>0, <1>1 DEF PG_Info, Reverse_Info
  <2>. QED BY <1>4, <2>1, AppendProperties
<1>6. Closes(lpn, dst) <=> new.status = "CLOSE"
  BY DEF Closes, Fills, Grown, PadOf
<1>. HIDE DEF new, len, freed
<1>7. \A pg \in PG : pg_list'[pg].status =
         IF freed /\ pg = src THEN "FREE"
         ELSE IF pg = dst THEN IF Closes(lpn, dst) THEN "CLOSE" ELSE "OPEN"
         ELSE pg_list[pg].status
  BY StatusAfterUpdate DEF TypeInv, SsdTypeOK, freed
<1>8. /\ \A pg \in PG : ~(freed /\ pg = src) =>
            SameFields(pg_list'[pg], IF pg = dst THEN new ELSE pg_list[pg])
      /\ freed => pg_list'[src] = InitPG
  BY RestAfterUpdate DEF TypeInv, SsdTypeOK, freed, new
<1>9. l2p_tbl' = [l2p_tbl EXCEPT ![lpn] = [pgn |-> dst, ofs |-> pg_list[dst].next_ofs,
                                           len |-> SectsPerLp]]
  BY CountersAfterUpdate DEF TypeInv, SsdTypeOK, CountersMoved
<1>10. TrailInv'
  <2>. SUFFICES ASSUME NEW pg \in PG
                PROVE  LET info == pg_list'[pg]
                       IN  /\ \A i \in 1..Len(info.p2l_tbl) : info.p2l_tbl[i].len = SectsPerLp
                           /\ info.status = "FREE" => info.p2l_tbl = <<>> /\ info.next_ofs = 0
                           /\ info.status = "OPEN" => /\ info.next_ofs = SectsPerLp * Len(info.p2l_tbl)
                                                      /\ info.next_ofs + SectsPerLp <= PgCwNum
                           /\ info.next_rewr_index <= Len(info.p2l_tbl)
                           /\ info.next_rewr_pgsect = SectsPerLp * info.next_rewr_index
                           /\ info.status # "RCM" => info.next_rewr_index = 0
    BY DEF TrailInv
  <2>1. CASE freed /\ pg = src
    BY <1>0, <1>8, <2>1 DEF InitPG
  <2>2. CASE pg = dst
    <3>1. SameFields(pg_list'[dst], new) /\ pg_list'[dst].status = IF Closes(lpn, dst) THEN "CLOSE" ELSE "OPEN"
      BY <1>2, <1>7, <1>8
    <3>2. \A i \in 1..(len + 1) : new.p2l_tbl[i].len = SectsPerLp
      <4>1. \A i \in 1..len : pg_list[dst].p2l_tbl[i].len = SectsPerLp
        BY DEF TrailInv, len
      <4>2. \A i \in 1..(len + 1) : i \in 1..len \/ i = len + 1
        BY <1>3
      <4>. QED BY <1>5, <4>1, <4>2
    <3>. QED BY <1>3, <1>4, <1>5, <1>6, <2>2, <3>1, <3>2 DEF SameFields
  <2>3. CASE ~(freed /\ pg = src) /\ pg # dst
    <3>1. SameFields(pg_list'[pg], pg_list[pg]) /\ pg_list'[pg].status = pg_list[pg].status
      BY <1>7, <1>8, <2>3
    <3>. QED BY <3>1 DEF TrailInv, SameFields
  <2>. QED BY <2>1, <2>2, <2>3
<1>11. FoundInv'
  <2>. SUFFICES ASSUME NEW p \in LP, l2p_tbl'[p].pgn # NoPG
                PROVE  \E i \in 1..Len(pg_list'[l2p_tbl'[p].pgn].p2l_tbl) :
                         /\ pg_list'[l2p_tbl'[p].pgn].p2l_tbl[i].lpn = p
                         /\ l2p_tbl'[p].ofs = SectsPerLp * (i - 1)
    BY DEF FoundInv
  <2>1. SameFields(pg_list'[dst], new)
    BY <1>2, <1>8
  <2>2. CASE p = lpn
    <3>1. l2p_tbl'[p].pgn = dst /\ l2p_tbl'[p].ofs = SectsPerLp * ((len + 1) - 1)
      BY <1>1, <1>3, <1>9, <2>2
    <3>2. len + 1 \in 1..(len + 1) /\ entry.lpn = p
      BY <1>3, <2>2
    <3>. QED BY <1>5, <2>1, <3>1, <3>2 DEF SameFields
  <2>3. CASE p # lpn
    <3>1. l2p_tbl'[p] = l2p_tbl[p]
      BY <1>1, <1>9, <2>3
    <3>2. PICK pg \in PG : pg = l2p_tbl[p].pgn
      BY <1>1, <3>1 DEF VPA
    <3>3. PICK i \in 1..Len(pg_list[pg].p2l_tbl) :
             pg_list[pg].p2l_tbl[i].lpn = p /\ l2p_tbl[p].ofs = SectsPerLp * (i - 1)
      BY <3>1, <3>2 DEF FoundInv
    <3>4. ~(freed /\ pg = src)
      <4>1. p \in Mapped(pg)'
        BY <3>1, <3>2 DEF Mapped
      <4>2. pg_list'[pg].status # "FREE"
        BY <4>1 DEF BooksInv, NoPageInFreePG
      <4>. QED BY <1>7, <4>2
    <3>5. CASE pg = dst
      <4>1. i \in 1..len /\ i \in 1..(len + 1)
        BY <1>3, <3>3, <3>5 DEF len
      <4>2. new.p2l_tbl[i].lpn = p
        BY <1>5, <3>3, <3>5, <4>1
      <4>. QED BY <1>5, <2>1, <3>1, <3>2, <3>3, <3>5, <4>1, <4>2 DEF SameFields
    <3>6. CASE pg # dst
      <4>1. pg_list'[pg].p2l_tbl = pg_list[pg].p2l_tbl
        BY <1>8, <3>4, <3>6 DEF SameFields
      <4>. QED BY <3>1, <3>2, <3>3, <4>1
    <3>. QED BY <3>5, <3>6
  <2>. QED BY <2>2, <2>3
<1>. QED BY <1>10, <1>11

\* A turn of the scan moves both cursors of the victim past one entry.
LEMMA CollectTrail ==
  ASSUME TypeInv, PlacesInv, TrailInv, FoundInv, rcm_pg_que # <<>>, ScanNext(Head(rcm_pg_que))
  PROVE  LET pg == Head(rcm_pg_que)
         IN  /\ TrailInv' /\ FoundInv'
             /\ pg \in PG /\ Contains(rcm_pg_que, pg) /\ pg_list[pg].status = "RCM"
             /\ pg_list'[pg].next_rewr_pgsect = pg_list[pg].next_rewr_pgsect + SectsPerLp
             /\ \A other \in PG : pg_list'[other].status = pg_list[other].status
             /\ \A other \in PG \ {pg} : pg_list'[other] = pg_list[other]
<1>1. pg_list \in [PG -> PG_Info] /\ rcm_pg_que \in Seq(PG)
  BY DEF TypeInv, SsdTypeOK, FtlTypeOK
<1>2. PICK pg \in PG : pg = Head(rcm_pg_que) /\ Contains(rcm_pg_que, pg)
  <2>1. Head(rcm_pg_que) = rcm_pg_que[1] /\ 1 \in 1..Len(rcm_pg_que) /\ Head(rcm_pg_que) \in PG
    BY <1>1, HeadTailProperties, EmptySeq, LenProperties
  <2>. QED BY <2>1 DEF Contains
<1>3. pg_list[pg].status = "RCM"
  BY <1>2 DEF PlacesInv, VictimsInv
<1>. DEFINE info  == pg_list[pg]
            index == info.next_rewr_index
<1>4. info \in PG_Info /\ index \in Nat /\ info.next_rewr_pgsect \in Nat
  BY <1>1 DEF PG_Info
<1>5. /\ index < Len(info.p2l_tbl) /\ Len(info.p2l_tbl) \in Nat
      /\ info.next_rewr_pgsect = SectsPerLp * index
      /\ \A i \in 1..Len(info.p2l_tbl) : info.p2l_tbl[i].len = SectsPerLp
  BY <1>2, <1>4, LenProperties DEF ScanNext, ScanLeft, TrailInv, PG_Info
<1>6. ScanEntry(pg).len = SectsPerLp
  BY <1>4, <1>5 DEF ScanEntry
<1>7. pg_list' = [pg_list EXCEPT ![pg] = [info EXCEPT !.next_rewr_index = index + 1,
                                            !.next_rewr_pgsect = info.next_rewr_pgsect + SectsPerLp]]
  BY <1>1, <1>2, <1>6 DEF ScanNext, PG_Info
<1>8. /\ pg_list'[pg].next_rewr_index = index + 1
      /\ pg_list'[pg].next_rewr_pgsect = info.next_rewr_pgsect + SectsPerLp
      /\ pg_list'[pg].p2l_tbl = info.p2l_tbl /\ pg_list'[pg].status = "RCM"
      /\ \A other \in PG \ {pg} : pg_list'[other] = pg_list[other]
      /\ l2p_tbl' = l2p_tbl
  <2>1. l2p_tbl' = l2p_tbl
    BY <1>2 DEF ScanNext
  <2>2. /\ pg_list'[pg] = [info EXCEPT !.next_rewr_index = index + 1,
                                       !.next_rewr_pgsect = info.next_rewr_pgsect + SectsPerLp]
        /\ \A other \in PG \ {pg} : pg_list'[other] = pg_list[other]
    BY <1>1, <1>7
  <2>. HIDE DEF info, index
  <2>3. info.status = "RCM"
    BY <1>3 DEF info
  <2>. QED BY <1>4, <2>1, <2>2, <2>3 DEF PG_Info
<1>. HIDE DEF info, index
<1>9. SectsPerLp * (index + 1) = SectsPerLp * index + SectsPerLp
  BY <1>4, SizesAssumption, PageOffsets
<1>10. TrailInv'
  <2>1. /\ pg_list'[pg].next_rewr_index <= Len(pg_list'[pg].p2l_tbl)
        /\ pg_list'[pg].next_rewr_pgsect = SectsPerLp * pg_list'[pg].next_rewr_index
    BY <1>4, <1>5, <1>8, <1>9
  <2>. QED BY <1>5, <1>8, <2>1 DEF TrailInv
<1>11. FoundInv'
  <2>1. \A q \in PG : pg_list'[q].p2l_tbl = pg_list[q].p2l_tbl
    BY <1>8 DEF info
  <2>2. \A p \in LP : l2p_tbl[p].pgn \in PG \cup {NoPG}
    BY DEF TypeInv, SsdTypeOK, FtlTypeOK, VPA
  <2>. QED BY <1>8, <2>1, <2>2 DEF FoundInv
<1>. QED BY <1>2, <1>3, <1>8, <1>10, <1>11 DEF info

-----------------------------------------------------------------------------
(* What the actions do to the pending pages *)

\* A step that moves no page and no cursor, makes no victim, and keeps what is
\* pending.
LEMMA KeepsScan ==
  ASSUME CurrentInv, NoPageMissed, UNCHANGED <<l2p_tbl, rcm_pg_que>>,
         \A pg \in PG : /\ pg_list'[pg].status = "RCM" <=> pg_list[pg].status = "RCM"
                        /\ pg_list'[pg].next_rewr_pgsect = pg_list[pg].next_rewr_pgsect,
         \A lpn : lpn \in Pending' <=> lpn \in Pending,
         Once(req_list'), Rewriting' => ~Contains(req_list', io'.lpn)
  PROVE  CurrentInv' /\ NoPageMissed'
<1>1. \A pg : Mapped(pg)' = Mapped(pg)
  BY DEF Mapped
<1>. QED BY <1>1 DEF CurrentInv, NoPageMissed, Once, Contains

\* An accepted write takes its page from what is pending, and from the victim it
\* is on; the others stay where they were.
LEMMA WriteScan ==
  ASSUME TypeInv, BooksInv, BooksInv', QueuesInv, PlacesInv, CurrentInv, NoPageMissed,
         NEW lpn \in LP, NEW dst \in PG,
         ~L2P_UpdateError(lpn, SectsPerLp, dst),
         L2P_Update(lpn, SectsPerLp, dst, FALSE),
         ~Contains(req_list, lpn), req_list' = req_list, ~Rewriting',
         \A p \in Pending : Contains(req_list, p) \/ p = lpn
  PROVE  CurrentInv' /\ NoPageMissed'
<1>. DEFINE src   == l2p_tbl[lpn].pgn
            freed == Releases(lpn, dst)
<1>1. req_list \in Seq(LP) /\ rcm_pg_que \in Seq(PG) /\ l2p_tbl \in [LP -> VPA]
  BY DEF TypeInv, SsdTypeOK, FtlTypeOK
<1>2. /\ \A p : p \in Pending' <=> Contains(req_list, p)
      /\ \A p : Contains(req_list, p) => p \in Pending
  BY <1>1, PendingPages, PendingPagesNext
<1>3. l2p_tbl'[lpn].pgn = dst /\ \A p \in LP \ {lpn} : l2p_tbl'[p] = l2p_tbl[p]
  <2>1. l2p_tbl' = [l2p_tbl EXCEPT ![lpn] = [pgn |-> dst, ofs |-> pg_list[dst].next_ofs,
                                             len |-> SectsPerLp]]
    BY CountersAfterUpdate DEF TypeInv, SsdTypeOK, CountersMoved
  <2>. QED BY <1>1, <2>1
<1>4. \A pg \in PG : pg_list'[pg].status =
         IF freed /\ pg = src THEN "FREE"
         ELSE IF pg = dst THEN IF Closes(lpn, dst) THEN "CLOSE" ELSE "OPEN"
         ELSE pg_list[pg].status
  <2>1. FtlTypeOK
    BY DEF TypeInv, SsdTypeOK
  <2>. QED BY <2>1, StatusAfterUpdate
<1>5. /\ \A pg \in PG : ~(freed /\ pg = src) /\ pg # dst =>
            pg_list'[pg].next_rewr_pgsect = pg_list[pg].next_rewr_pgsect
      /\ rcm_pg_que' = IF freed /\ pg_list[src].status = "RCM" /\ ~Contains(rcm_cmp_pg_que, src)
                       THEN RemoveFirst(rcm_pg_que, src) ELSE rcm_pg_que
  BY RestAfterUpdate DEF TypeInv, SsdTypeOK, SameFields
<1>6. pg_list[dst].status = "OPEN"
  BY DEF L2P_UpdateError
<1>. HIDE DEF src, freed
<1>7. CurrentInv'
  <2>1. ASSUME NEW p \in Pending'
        PROVE  LET va == l2p_tbl'[p]
               IN  /\ va.pgn \in PG /\ pg_list'[va.pgn].status = "RCM"
                   /\ va.ofs < pg_list'[va.pgn].next_rewr_pgsect
    <3>1. Contains(req_list, p) /\ p # lpn /\ p \in Pending /\ p \in LP
      <4>1. Contains(req_list, p)
        BY <1>2
      <4>2. p \in LP
        BY <1>1, <4>1, ElementOfSeq DEF Contains
      <4>. QED BY <1>2, <4>1, <4>2
    <3>2. PICK pg \in PG : /\ pg = l2p_tbl[p].pgn /\ pg_list[pg].status = "RCM"
                           /\ l2p_tbl[p].ofs < pg_list[pg].next_rewr_pgsect
      BY <3>1 DEF CurrentInv
    <3>3. l2p_tbl'[p] = l2p_tbl[p] /\ pg # dst
      BY <1>3, <1>6, <3>1, <3>2
    <3>4. ~(freed /\ pg = src)
      <4>1. p \in Mapped(pg)'
        BY <3>1, <3>2, <3>3 DEF Mapped
      <4>2. pg_list'[pg].status # "FREE"
        BY <4>1 DEF BooksInv, NoPageInFreePG
      <4>. QED BY <1>4, <4>2
    <3>. QED BY <1>4, <1>5, <3>2, <3>3, <3>4
  <2>. QED BY <2>1 DEF CurrentInv
<1>8. NoPageMissed'
  <2>. SUFFICES ASSUME NEW pg \in PG, pg_list'[pg].status = "RCM", NEW p \in Mapped(pg)'
                PROVE  \/ p \in Pending'
                       \/ /\ Contains(rcm_pg_que', pg)
                          /\ l2p_tbl'[p].ofs >= pg_list'[pg].next_rewr_pgsect
    BY DEF NoPageMissed
  <2>1. ~(freed /\ pg = src) /\ pg # dst /\ pg_list[pg].status = "RCM"
    BY <1>4
  <2>2. p # lpn /\ p \in LP /\ l2p_tbl'[p] = l2p_tbl[p] /\ p \in Mapped(pg)
    BY <1>3, <2>1 DEF Mapped
  <2>3. \/ Contains(req_list, p)
        \/ Contains(rcm_pg_que, pg) /\ l2p_tbl[p].ofs >= pg_list[pg].next_rewr_pgsect
    BY <2>1, <2>2 DEF NoPageMissed
  <2>4. Contains(rcm_pg_que, pg) => Contains(rcm_pg_que', pg)
    <3>1. Once(rcm_pg_que)
      BY DEF PlacesInv, VictimsInv
    <3>. QED BY <1>1, <1>5, <2>1, <3>1, RemoveFirstOnce
  <2>. QED BY <1>2, <1>5, <2>1, <2>2, <2>3, <2>4
<1>. QED BY <1>7, <1>8

\* A new victim is scanned from its beginning.
LEMMA ReloadScan ==
  ASSUME TypeInv, QueuesInv, PlacesInv, ScanInv, Reload
  PROVE  TrailInv' /\ FoundInv' /\ CurrentInv' /\ NoPageMissed'
<1>1. /\ pg_list \in [PG -> PG_Info] /\ rcm_pg_que \in Seq(PG) /\ req_list \in Seq(LP)
      /\ close_pg_que \in Seq(PG) /\ close_pg_que # <<>> /\ l2p_tbl \in [LP -> VPA]
  BY DEF TypeInv, SsdTypeOK, FtlTypeOK, Reload, ReloadRcmTarget
<1>2. PICK target \in PG : target = Last(close_pg_que) /\ Contains(close_pg_que, target)
  <2>1. Len(close_pg_que) \in 1..Len(close_pg_que)
    BY <1>1, EmptySeq, LenProperties
  <2>. QED BY <1>1, <2>1, ElementOfSeq DEF Last, Contains
<1>3. pg_list[target].status = "CLOSE"
  BY <1>2 DEF QueuesInv, QueuedAs
<1>4. /\ pg_list' = [pg_list EXCEPT ![target].status = "RCM"]
      /\ rcm_pg_que' = Append(rcm_pg_que, target)
      /\ UNCHANGED <<l2p_tbl, io, req_list>>
      /\ pc = "reload"
  BY <1>2 DEF Reload, ReloadRcmTarget
<1>5. \A pg \in PG : /\ pg_list'[pg].status = IF pg = target THEN "RCM" ELSE pg_list[pg].status
                     /\ pg_list'[pg].p2l_tbl = pg_list[pg].p2l_tbl
                     /\ pg_list'[pg].next_ofs = pg_list[pg].next_ofs
                     /\ pg_list'[pg].next_rewr_index = pg_list[pg].next_rewr_index
                     /\ pg_list'[pg].next_rewr_pgsect = pg_list[pg].next_rewr_pgsect
  BY <1>1, <1>4 DEF PG_Info
<1>6. \A lpn \in LP : l2p_tbl[lpn].pgn \in PG \cup {NoPG} /\ l2p_tbl[lpn].ofs \in Nat
  BY <1>1 DEF VPA
<1>7. TrailInv' /\ FoundInv'
  BY <1>4, <1>5, <1>6, NoTrailStep DEF ScanInv
<1>8. req_list = <<>>
  BY <1>4 DEF ScanInv, FlowInv, Rewriting
<1>9. ~Rewriting /\ ~Rewriting' /\ req_list' = req_list
  BY <1>4 DEF ScanInv, FlowInv, Rewriting
<1>10. \A lpn : lpn \notin Pending /\ lpn \notin Pending'
  <2>1. \A lpn : ~Contains(req_list, lpn)
    BY <1>8 DEF Contains
  <2>2. /\ \A lpn : lpn \in Pending <=> Contains(req_list, lpn) \/ (Rewriting /\ lpn = io.lpn)
        /\ \A lpn : lpn \in Pending' <=> Contains(req_list', lpn) \/ (Rewriting' /\ lpn = io'.lpn)
    BY <1>1, <1>9, PendingPages, PendingPagesNext
  <2>. QED BY <1>9, <2>1, <2>2
<1>11. CurrentInv'
  BY <1>9, <1>10 DEF ScanInv, CurrentInv
<1>12. NoPageMissed'
  <2>. SUFFICES ASSUME NEW pg \in PG, pg_list'[pg].status = "RCM", NEW lpn \in Mapped(pg)'
                PROVE  /\ Contains(rcm_pg_que', pg)
                       /\ l2p_tbl'[lpn].ofs >= pg_list'[pg].next_rewr_pgsect
    BY DEF NoPageMissed
  <2>1. \A x : Contains(rcm_pg_que', x) <=> Contains(rcm_pg_que, x) \/ x = target
    <3>1. ~Contains(rcm_pg_que, target) /\ Once(rcm_pg_que)
      BY <1>3 DEF PlacesInv, VictimsInv
    <3>. QED BY <1>1, <1>4, <3>1, AppendOnce
  <2>2. lpn \in LP /\ lpn \in Mapped(pg) /\ l2p_tbl'[lpn] = l2p_tbl[lpn]
    BY <1>4 DEF Mapped
  <2>3. CASE pg = target
    <3>1. pg_list[pg].next_rewr_pgsect = SectsPerLp * 0 /\ SectsPerLp * 0 = 0
      BY <1>3, <2>3, SizesAssumption DEF ScanInv, TrailInv
    <3>. QED BY <1>5, <1>6, <2>1, <2>2, <2>3, <3>1
  <2>4. CASE pg # target
    <3>1. Contains(rcm_pg_que, pg) /\ l2p_tbl[lpn].ofs >= pg_list[pg].next_rewr_pgsect
      BY <1>5, <1>10, <2>2, <2>4 DEF ScanInv, NoPageMissed
    <3>. QED BY <1>5, <2>1, <2>2, <3>1
  <2>. QED BY <2>3, <2>4
<1>. QED BY <1>7, <1>11, <1>12

\* A turn of the scan lists the page at the cursor if it is there, and the pages
\* of the victim that are ahead of the cursor afterwards are all others.
LEMMA CollectScan ==
  ASSUME TypeInv, PlacesInv, ScanInv, Collect
  PROVE  TrailInv' /\ FoundInv' /\ CurrentInv' /\ NoPageMissed'
<1>1. /\ pg_list \in [PG -> PG_Info] /\ rcm_pg_que \in Seq(PG) /\ req_list \in Seq(LP)
      /\ l2p_tbl \in [LP -> VPA]
  BY DEF TypeInv, SsdTypeOK, FtlTypeOK
<1>2. PICK pg \in PG :
         /\ pg = Head(rcm_pg_que) /\ ScanNext(pg)
         /\ TrailInv' /\ FoundInv'
         /\ Contains(rcm_pg_que, pg) /\ pg_list[pg].status = "RCM"
         /\ pg_list'[pg].next_rewr_pgsect = pg_list[pg].next_rewr_pgsect + SectsPerLp
         /\ \A other \in PG : pg_list'[other].status = pg_list[other].status
         /\ \A other \in PG \ {pg} : pg_list'[other] = pg_list[other]
  BY CollectTrail DEF Collect, ScanInv
<1>. DEFINE entry == ScanEntry(pg).lpn
            ofs   == pg_list[pg].next_rewr_pgsect
<1>3. /\ req_list' = IF ScanValid(pg) THEN Append(req_list, entry) ELSE req_list
      /\ UNCHANGED <<l2p_tbl, rcm_pg_que, pc, io>> /\ pc = "collect"
  BY <1>2 DEF Collect, ScanNext, queueVars
<1>4. entry \in LP
  BY <1>2, ScanNextType DEF TypeInv, SsdTypeOK
<1>5. SectsPerLp \in Nat \ {0} /\ ofs \in Nat /\ \A lpn \in LP : l2p_tbl[lpn].ofs \in Nat
  BY <1>1, SizesAssumption DEF PG_Info, VPA
<1>6. ScanValid(pg) <=> l2p_tbl[entry].pgn = pg /\ l2p_tbl[entry].ofs = ofs
  BY DEF ScanValid
<1>. HIDE DEF entry
<1>7. ~Rewriting /\ ~Rewriting'
  BY <1>3 DEF Rewriting
<1>8. /\ \A lpn : lpn \in Pending <=> Contains(req_list, lpn)
      /\ \A lpn : Contains(req_list, lpn) => lpn \in LP
  BY <1>1, <1>7, PendingPages, ElementOfSeq DEF Contains
<1>9. /\ Once(req_list')
      /\ \A lpn : lpn \in Pending' <=> Contains(req_list, lpn) \/ (ScanValid(pg) /\ lpn = entry)
  <2>1. req_list' \in Seq(LP)
    BY <1>1, <1>3, <1>4, AppendProperties
  <2>2. \A lpn : lpn \in Pending' <=> Contains(req_list', lpn)
    BY <1>7, <2>1, PendingPagesNext
  <2>3. Once(req_list)
    BY DEF ScanInv, CurrentInv
  <2>4. ScanValid(pg) => ~Contains(req_list, entry)
    BY <1>4, <1>5, <1>6, <1>8 DEF ScanInv, CurrentInv
  <2>. QED BY <1>1, <1>3, <1>4, <2>2, <2>3, <2>4, AppendOnce
<1>10. \A lpn \in Pending : l2p_tbl[lpn].pgn = pg => l2p_tbl[lpn].ofs < ofs
  BY DEF ScanInv, CurrentInv
<1>11. CurrentInv'
  <2>1. ASSUME NEW lpn \in Pending'
        PROVE  LET va == l2p_tbl'[lpn]
               IN  /\ va.pgn \in PG /\ pg_list'[va.pgn].status = "RCM"
                   /\ va.ofs < pg_list'[va.pgn].next_rewr_pgsect
    <3>1. CASE lpn \in Pending
      <4>1. /\ l2p_tbl[lpn].pgn \in PG /\ pg_list[l2p_tbl[lpn].pgn].status = "RCM"
            /\ l2p_tbl[lpn].ofs < pg_list[l2p_tbl[lpn].pgn].next_rewr_pgsect
        BY <3>1 DEF ScanInv, CurrentInv
      <4>2. lpn \in LP
        BY <1>8, <3>1
      <4>3. CASE l2p_tbl[lpn].pgn = pg
        BY <1>2, <1>3, <1>5, <4>1, <4>2, <4>3
      <4>4. CASE l2p_tbl[lpn].pgn # pg
        BY <1>2, <1>3, <4>1, <4>4
      <4>. QED BY <4>3, <4>4
    <3>2. CASE ScanValid(pg) /\ lpn = entry
      BY <1>2, <1>3, <1>5, <1>6, <3>2
    <3>. QED BY <1>8, <1>9, <2>1, <3>1, <3>2
  <2>. QED BY <1>7, <1>9, <2>1 DEF CurrentInv
<1>12. NoPageMissed'
  <2>. SUFFICES ASSUME NEW q \in PG, pg_list'[q].status = "RCM", NEW lpn \in Mapped(q)'
                PROVE  \/ lpn \in Pending'
                       \/ /\ Contains(rcm_pg_que', q)
                          /\ l2p_tbl'[lpn].ofs >= pg_list'[q].next_rewr_pgsect
    BY DEF NoPageMissed
  <2>1. lpn \in LP /\ lpn \in Mapped(q) /\ l2p_tbl[lpn].pgn = q /\ pg_list[q].status = "RCM"
    BY <1>2, <1>3 DEF Mapped
  <2>2. lpn \in Pending \/ (Contains(rcm_pg_que, q) /\ l2p_tbl[lpn].ofs >= pg_list[q].next_rewr_pgsect)
    BY <2>1 DEF ScanInv, NoPageMissed
  <2>3. CASE q # pg \/ lpn \in Pending
    BY <1>2, <1>3, <1>8, <1>9, <2>2, <2>3
  <2>4. CASE q = pg /\ l2p_tbl[lpn].ofs >= ofs + SectsPerLp
    BY <1>2, <1>3, <2>4
  <2>5. CASE q = pg /\ lpn \notin Pending /\ l2p_tbl[lpn].ofs < ofs + SectsPerLp
    <3>1. PICK i \in 1..Len(pg_list[pg].p2l_tbl) :
             pg_list[pg].p2l_tbl[i].lpn = lpn /\ l2p_tbl[lpn].ofs = SectsPerLp * (i - 1)
      BY <2>1, <2>5, NoPGAssumption DEF ScanInv, FoundInv, PG
    <3>. DEFINE index == pg_list[pg].next_rewr_index
    <3>2. ofs = SectsPerLp * index /\ index \in Nat
      BY <1>1 DEF ScanInv, TrailInv, PG_Info
    <3>. HIDE DEF index
    <3>3. i - 1 \in Nat /\ SectsPerLp * (index + 1) = ofs + SectsPerLp
      BY <1>5, <3>2, PageOffsets
    <3>4. /\ SectsPerLp * (i - 1) < SectsPerLp * (index + 1)
          /\ ~(SectsPerLp * (i - 1) < SectsPerLp * index)
      BY <1>5, <2>1, <2>2, <2>5, <3>1, <3>2, <3>3
    <3>5. i - 1 < index + 1 /\ ~(i - 1 < index)
      <4>1. /\ SectsPerLp * (i - 1) < SectsPerLp * (index + 1) <=> i - 1 < index + 1
            /\ SectsPerLp * (i - 1) < SectsPerLp * index <=> i - 1 < index
        BY <1>5, <3>2, <3>3, PageOffsets
      <4>. QED BY <3>4, <4>1
    <3>6. i = index + 1
      BY <3>2, <3>3, <3>5
    <3>7. lpn = entry /\ l2p_tbl[lpn].ofs = ofs
      BY <3>1, <3>2, <3>6 DEF ScanEntry, entry, index
    <3>. QED BY <1>6, <1>9, <2>1, <2>5, <3>7
  <2>. QED BY <1>5, <2>1, <2>3, <2>4, <2>5
<1>. QED BY <1>2, <1>11, <1>12

\* A victim set aside has been walked to the end of its reverse map, and no page
\* lies behind that.
LEMMA EndScan ==
  ASSUME TypeInv, PlacesInv, ScanInv, CollectNextPG
  PROVE  TrailInv' /\ FoundInv' /\ CurrentInv' /\ NoPageMissed'
<1>1. /\ pg_list \in [PG -> PG_Info] /\ rcm_pg_que \in Seq(PG) /\ l2p_tbl \in [LP -> VPA]
  BY DEF TypeInv, SsdTypeOK, FtlTypeOK
<1>2. PICK pg \in PG :
         /\ ScanEnd(pg) /\ Contains(rcm_pg_que, pg)
         /\ \A x : Contains(rcm_pg_que', x) <=> Contains(rcm_pg_que, x) /\ x # pg
  <2>1. Once(rcm_pg_que) /\ rcm_pg_que # <<>>
    BY DEF PlacesInv, VictimsInv, CollectNextPG
  <2>2. /\ Head(rcm_pg_que) \in PG /\ Contains(rcm_pg_que, Head(rcm_pg_que))
        /\ \A x : Contains(Tail(rcm_pg_que), x) <=> Contains(rcm_pg_que, x) /\ x # Head(rcm_pg_que)
    BY <1>1, <2>1, TailOnce
  <2>3. rcm_pg_que' = Tail(rcm_pg_que) /\ ScanEnd(Head(rcm_pg_que))
    BY DEF CollectNextPG, ScanEnd
  <2>. QED BY <2>2, <2>3
<1>3. UNCHANGED <<l2p_tbl, pg_list, pc, io, req_list>> /\ ~ScanLeft(pg)
  BY <1>2 DEF CollectNextPG, ScanEnd, ctlVars
<1>4. TrailInv' /\ FoundInv'
  BY <1>3 DEF ScanInv, TrailInv, FoundInv
<1>5. Pending' = Pending /\ CurrentInv'
  BY <1>3 DEF ScanInv, CurrentInv, Pending, Rewriting
<1>6. ASSUME NEW lpn \in Mapped(pg), pg_list[pg].status = "RCM" PROVE lpn \in Pending
  <2>1. lpn \in LP /\ l2p_tbl[lpn].pgn = pg /\ pg # NoPG
    BY <1>6, NoPGAssumption DEF Mapped, PG
  <2>2. PICK i \in 1..Len(pg_list[pg].p2l_tbl) : l2p_tbl[lpn].ofs = SectsPerLp * (i - 1)
    BY <2>1 DEF ScanInv, FoundInv
  <2>. DEFINE index == pg_list[pg].next_rewr_index
              len   == Len(pg_list[pg].p2l_tbl)
  <2>3. /\ index \in Nat /\ len \in Nat /\ index >= len
        /\ pg_list[pg].next_rewr_pgsect = SectsPerLp * index
    BY <1>1, <1>3, LenProperties DEF ScanLeft, ScanInv, TrailInv, PG_Info
  <2>. HIDE DEF index
  <2>4. i - 1 \in Nat /\ i - 1 < index
    BY <2>2, <2>3
  <2>5. SectsPerLp * (i - 1) < SectsPerLp * index
    BY <2>3, <2>4, SizesAssumption, PageOffsets
  <2>6. SectsPerLp * (i - 1) \in Nat /\ SectsPerLp * index \in Nat
    BY <2>3, <2>4, SizesAssumption, PageOffsets
  <2>7. ~(l2p_tbl[lpn].ofs >= pg_list[pg].next_rewr_pgsect)
    BY <2>2, <2>3, <2>5, <2>6
  <2>. QED BY <1>6, <2>7 DEF ScanInv, NoPageMissed
<1>7. NoPageMissed'
  <2>1. \A q : Mapped(q)' = Mapped(q)
    BY <1>3 DEF Mapped
  <2>. QED BY <1>2, <1>3, <1>5, <1>6, <2>1 DEF ScanInv, NoPageMissed
<1>. QED BY <1>4, <1>5, <1>7

\* The next request is taken from the list and is pending until it is written.
LEMMA RewriteScan ==
  ASSUME TypeInv, ScanInv, Rewrite
  PROVE  CurrentInv' /\ NoPageMissed'
<1>1. /\ req_list \in Seq(LP) /\ req_list # <<>> /\ Once(req_list)
      /\ req_list' = Tail(req_list) /\ io'.lpn = Head(req_list)
      /\ pc = "rewrite" /\ UNCHANGED <<l2p_tbl, pg_list, rcm_pg_que>>
  BY DEF TypeInv, SsdTypeOK, ScanInv, CurrentInv, Rewrite, ftlVars, queueVars
<1>2. ~Rewriting /\ Rewriting'
  BY DEF Rewrite, Rewriting
<1>3. /\ Tail(req_list) \in Seq(LP) /\ Once(Tail(req_list))
      /\ Contains(req_list, Head(req_list))
      /\ \A x : Contains(Tail(req_list), x) <=> Contains(req_list, x) /\ x # Head(req_list)
  BY <1>1, TailOnce
<1>4. \A p : p \in Pending <=> Contains(req_list, p)
  BY <1>1, <1>2, PendingPages
<1>5. \A p : p \in Pending' <=> Contains(Tail(req_list), p) \/ p = Head(req_list)
  BY <1>1, <1>2, <1>3, PendingPagesNext
<1>6. \A p : p \in Pending' <=> p \in Pending
  BY <1>3, <1>4, <1>5
<1>. QED BY <1>1, <1>3, <1>6, KeepsScan DEF ScanInv

\* Where the thread stands says whether requests are pending.
LEMMA NextFlow ==
  ASSUME TypeInv, FlowInv, [Next]_vars,
         pc = "update" => ~L2P_UpdateError(io.lpn, SectsPerLp, openpg[io.type])
  PROVE  FlowInv'
<1>. USE DEF FlowInv, Rewriting, Formatting
<1>1. CASE UNCHANGED vars
  BY <1>1 DEF vars, ctlVars
<1>2. CASE FormatPage \/ FormatDone \/ GetOpenPG_Present \/ \E lpn \in LP : HostWrite(lpn)
  BY <1>2 DEF FormatPage, FormatDone, GetOpenPG_Present, HostWrite
<1>3. CASE GetOpenPG_Build
  BY <1>3 DEF GetOpenPG_Build
<1>4. CASE LpWrite
  <2>1. /\ pc = "update" /\ io'.type = "HOST_WR" /\ req_list' = req_list
        /\ fmt_lp' = IF Formatting THEN fmt_lp + 1 ELSE fmt_lp
        /\ pc' = IF Formatting THEN "format" ELSE IF io.type = "HOST_WR" THEN "gc" ELSE "rewrite"
    BY <1>4 DEF LpWrite, NoIo
  <2>. QED BY <2>1
<1>5. CASE GetReWriteReq \/ Reload \/ ReloadDone \/ Collect \/ CollectNextPG \/ CollectDone
  BY <1>5 DEF GetReWriteReq, Reload, ReloadDone, Collect, CollectNextPG, CollectDone, ctlVars
<1>6. CASE Rewrite \/ RewriteDone
  BY <1>6 DEF Rewrite, RewriteDone
<1>7. CASE (\E num \in 0..MaxErase : EraseReq(num)) \/ Erase
  BY <1>7 DEF EraseReq, Erase
<1>. QED BY <1>1, <1>2, <1>3, <1>4, <1>5, <1>6, <1>7 DEF Next, Run, DoGC

(* The actions of the device, one by one. *)
LEMMA NextScan ==
  ASSUME TypeInv, BooksInv, BooksInv', QueuesInv, PlacesInv, ScanInv, [Next]_vars
  PROVE  ScanInv'
<1>. USE DEF ScanInv
<1>1. FlowInv'
  BY Accepted, NextFlow
<1>2. CASE /\ UNCHANGED <<l2p_tbl, pg_list, rcm_pg_que, req_list>>
           /\ Rewriting' <=> Rewriting
           /\ Rewriting => io' = io
  <2>1. TrailInv' /\ FoundInv'
    BY <1>2 DEF TrailInv, FoundInv
  <2>2. \A lpn : lpn \in Pending' <=> lpn \in Pending
    <3>1. req_list \in Seq(LP)
      BY DEF TypeInv, SsdTypeOK
    <3>. QED BY <1>2, <3>1, PendingPages, PendingPagesNext
  <2>3. CurrentInv' /\ NoPageMissed'
    BY <1>2, <2>2, KeepsScan DEF CurrentInv
  <2>. QED BY <1>1, <2>1, <2>3
<1>3. CASE GetOpenPG_Build
  <2>1. Rewriting' = Rewriting /\ UNCHANGED <<io, req_list>>
    BY <1>3 DEF GetOpenPG_Build, Rewriting
  <2>2. CASE free_pg_que = <<>>
    BY <1>2, <1>3, <2>1, <2>2 DEF GetOpenPG_Build, ftlVars, queueVars
  <2>3. CASE free_pg_que # <<>>
    <3>1. PICK first \in PG :
           /\ pg_list[first].status = "FREE" /\ pg_list'[first].status = "OPEN"
           /\ pg_list'[first].p2l_tbl = pg_list[first].p2l_tbl
           /\ pg_list'[first].next_ofs = pg_list[first].next_ofs
           /\ pg_list'[first].next_rewr_index = pg_list[first].next_rewr_index
           /\ pg_list'[first].next_rewr_pgsect = pg_list[first].next_rewr_pgsect
           /\ \A pg \in PG \ {first} : pg_list'[pg] = pg_list[pg]
           /\ UNCHANGED <<l2p_tbl, rcm_pg_que>>
      BY <1>3, <2>3, BuiltPG
    <3>2. \A lpn \in LP : l2p_tbl[lpn].pgn \in PG \cup {NoPG}
      BY DEF TypeInv, SsdTypeOK, FtlTypeOK, VPA
    <3>3. TrailInv' /\ FoundInv'
      BY <3>1, <3>2, NoTrailStep
    <3>4. \A lpn : lpn \in Pending' <=> lpn \in Pending
      <4>1. req_list \in Seq(LP)
        BY DEF TypeInv, SsdTypeOK
      <4>. QED BY <2>1, <4>1, PendingPages, PendingPagesNext
    <3>5. CurrentInv' /\ NoPageMissed'
      BY <2>1, <3>1, <3>4, KeepsScan DEF CurrentInv
    <3>. QED BY <1>1, <3>3, <3>5
  <2>. QED BY <2>2, <2>3
<1>4. CASE LpWrite
  <2>1. pc = "update" /\ io' = NoIo /\ req_list' = req_list /\ req_list \in Seq(LP)
    BY <1>4 DEF LpWrite, TypeInv, SsdTypeOK
  <2>2. PICK dst \in PG, lpn \in LP : dst = openpg[io.type] /\ lpn = io.lpn
    BY <2>1, Accepted
  <2>3. ~L2P_UpdateError(lpn, SectsPerLp, dst) /\ L2P_Update(lpn, SectsPerLp, dst, FALSE)
    BY <1>4, <2>1, <2>2, Accepted DEF LpWrite
  <2>4. ~Rewriting'
    BY <2>1 DEF Rewriting, NoIo
  <2>5. ~Contains(req_list, lpn)
    <3>1. ~Rewriting => req_list = <<>>
      BY <2>1 DEF FlowInv
    <3>. QED BY <2>2, <3>1 DEF CurrentInv, Contains
  <2>6. \A p \in Pending : Contains(req_list, p) \/ p = lpn
    BY <2>1, <2>2, PendingPages
  <2>7. TrailInv' /\ FoundInv'
    BY <2>3, UpdateTrail
  <2>8. CurrentInv' /\ NoPageMissed'
    BY <2>1, <2>3, <2>4, <2>5, <2>6, WriteScan
  <2>. QED BY <1>1, <2>7, <2>8
<1>5. CASE Reload
  BY <1>1, <1>5, ReloadScan
<1>6. CASE Collect
  BY <1>1, <1>6, CollectScan
<1>7. CASE CollectNextPG
  BY <1>1, <1>7, EndScan
<1>8. CASE Rewrite
  <2>1. TrailInv' /\ FoundInv'
    BY <1>8 DEF Rewrite, ftlVars, TrailInv, FoundInv
  <2>. QED BY <1>1, <1>8, <2>1, RewriteScan
<1>9. CASE UNCHANGED vars
  BY <1>2, <1>9 DEF vars, ftlVars, ctlVars, queueVars, Rewriting
<1>10. CASE FormatPage \/ FormatDone \/ \E lpn \in LP : HostWrite(lpn)
  BY <1>2, <1>10 DEF FormatPage, FormatDone, HostWrite, ftlVars, queueVars, Rewriting, FlowInv
<1>11. CASE GetOpenPG_Present
  BY <1>2, <1>11 DEF GetOpenPG_Present, ftlVars, queueVars, Rewriting
<1>12. CASE GetReWriteReq \/ ReloadDone \/ CollectDone \/ RewriteDone
  BY <1>2, <1>12 DEF GetReWriteReq, ReloadDone, CollectDone, RewriteDone, ftlVars, queueVars, Rewriting
<1>13. CASE \E num \in 0..MaxErase : EraseReq(num)
  BY <1>2, <1>13 DEF EraseReq, GetEraseReq, queueVars, Rewriting
<1>14. CASE Erase
  BY <1>2, <1>14 DEF Erase, ErasePB, queueVars, Rewriting
<1>. QED
  BY <1>3, <1>4, <1>5, <1>6, <1>7, <1>8, <1>9, <1>10, <1>11, <1>12, <1>13, <1>14 DEF Next, Run, DoGC

-----------------------------------------------------------------------------
(* Every state reached keeps types, books, queues, places and the scan. *)
LEMMA ScanCorrect == Spec => [](TypeInv /\ BooksInv /\ QueuesInv /\ PlacesInv /\ ScanInv)
<1>. DEFINE Inv == TypeInv /\ BooksInv /\ QueuesInv /\ PlacesInv /\ ScanInv
<1>1. Init => Inv
  BY InitType, InitBooks, InitQueues, InitPlaces, InitScan
<1>2. Inv /\ [Next]_vars => Inv'
  BY NextType, NextBooks, NextLog, NextPlaces, NextScan
<1>. QED BY <1>1, <1>2, PTL DEF Spec

\* On every device a scan, however often it stops for a full request list and
\* whatever the copies in between move, release and close, lists every page that
\* lives in its victim.
THEOREM NothingMissed == Spec => []NoPageMissed
BY ScanCorrect, PTL DEF ScanInv

\* On every device do_gc copies a page once and while it still lives in a victim.
THEOREM CopiesAreCurrent == Spec => []RewritesAreCurrent
<1>1. ASSUME TypeInv, ScanInv PROVE RewritesAreCurrent
  <2>1. DOMAIN req_list = 1..Len(req_list)
    BY <1>1, LenProperties DEF TypeInv, SsdTypeOK
  <2>2. \A lpn \in Pending : l2p_tbl[lpn].pgn # NoPG /\ pg_list[l2p_tbl[lpn].pgn].status = "RCM"
    BY <1>1, NoPGAssumption DEF ScanInv, CurrentInv, PG
  <2>. QED BY <1>1, <2>1, <2>2 DEF RewritesAreCurrent, ScanInv, CurrentInv, Once
<1>. QED BY <1>1, ScanCorrect, PTL

\* L2P_Update is never asked for what it refuses.  An error there would end do_gc
\* with requests not carried out, whose victims no later scan looks at again.
WritesAreAccepted ==
  pc = "update" => ~L2P_UpdateError(io.lpn, SectsPerLp, openpg[io.type])

\* On every device a write that has found its open PG is recorded in it.
THEOREM WritesAccepted == Spec => []WritesAreAccepted
<1>1. TypeInv /\ BooksInv /\ PlacesInv /\ ScanInv => WritesAreAccepted
  BY Accepted DEF WritesAreAccepted, ScanInv
<1>. QED BY <1>1, ScanCorrect, PTL

-----------------------------------------------------------------------------
(***************************************************************************)
(* What do_gc has achieved when it returns, for every number of pages and  *)
(* groups, every reserve and every length of the request list.             *)
(*                                                                         *)
(* do_gc leaves its loop after a turn that listed nothing and reserved     *)
(* nothing, and looks at neither the reserve nor the victims then.  That   *)
(* such a turn has found every victim released rests on the scan           *)
(* (NoPageMissed) and the books, that it has found the reserve complete on *)
(* what GetReWriteReq knew at the beginning of the turn: nothing a turn    *)
(* without a copy does can change it.                                      *)
(***************************************************************************)

\* A victim has live pages: it is released with the last of them.
VictimsHavePages == \A pg \in PG : pg_list[pg].status = "RCM" => pg_list[pg].lp_num # 0

\* A turn of do_gc that has listed nothing so far.
NothingListed == pc \in {"rewrite", "geterase"} /\ req_num = 0

\* tgt_num counts what the reserve lacks; the list is scanned for only when it
\* lacks nothing more, or no closed PG is left; and a turn ends with nothing listed
\* only if no victim was left to scan.
ReserveInv ==
  /\ VictimsHavePages
  /\ req_list # <<>> \/ Rewriting => req_num # 0
  /\ pc = "reload" => tgt_num = GetNeededBlockNum
  /\ pc = "collect" \/ NothingListed => GetNeededBlockNum <= 0 \/ close_pg_que = <<>>
  /\ NothingListed => rcm_pg_que = <<>>

(* A formatted device has neither victims nor requests. *)
LEMMA InitReserve == Init => ReserveInv
BY DEF Init, InitFTL, InitPG, ReserveInv, VictimsHavePages, NothingListed, Rewriting, NoIo

\* The blocks of the victims and the blocks not in use are numbers.
LEMMA NeededType ==
  ASSUME TypeInv
  PROVE  /\ rcm_start_th \in Int /\ PgPbNum \in Nat
         /\ Len(rcm_cmp_pg_que) \in Nat /\ Len(rcm_pg_que) \in Nat
         /\ total_invalid \in Nat /\ total_free \in Nat
         /\ GetNeededBlockNum \in Int
<1>1. rcm_start_th \in Int /\ PgPbNum \in Nat
  BY SizesAssumption DEF rcm_start_th, PbNum
<1>2. /\ Len(rcm_cmp_pg_que) \in Nat /\ Len(rcm_pg_que) \in Nat
      /\ total_invalid \in Nat /\ total_free \in Nat
  BY LenProperties DEF TypeInv, SsdTypeOK, FtlTypeOK
<1>. QED BY <1>1, <1>2 DEF GetNeededBlockNum

\* A write leaves a page to every PG it does not release.
LEMMA UpdateVictims ==
  ASSUME TypeInv, BooksInv, QueuesInv, VictimsHavePages, NEW lpn \in LP, NEW dst \in PG,
         ~L2P_UpdateError(lpn, SectsPerLp, dst),
         L2P_Update(lpn, SectsPerLp, dst, FALSE)
  PROVE  VictimsHavePages'
<1>. DEFINE src == l2p_tbl[lpn].pgn
<1>1. \A pg \in PG : pg_list'[pg].status =
         IF Releases(lpn, dst) /\ pg = src THEN "FREE"
         ELSE IF pg = dst THEN IF Closes(lpn, dst) THEN "CLOSE" ELSE "OPEN"
         ELSE pg_list[pg].status
  BY StatusAfterUpdate DEF TypeInv, SsdTypeOK
<1>2. \A pg \in PG : pg_list'[pg].lp_num = pg_list[pg].lp_num + (IF pg = dst THEN 1 ELSE 0)
                                                             - (IF pg = src THEN 1 ELSE 0)
  <2>1. CountersMoved(lpn, dst)
    BY CountersAfterUpdate DEF TypeInv, SsdTypeOK
  <2>. QED BY <2>1, Zenon DEF CountersMoved
<1>. SUFFICES ASSUME NEW pg \in PG, pg_list'[pg].status = "RCM" PROVE pg_list'[pg].lp_num # 0
  BY DEF VictimsHavePages
<1>3. pg # dst /\ ~(Releases(lpn, dst) /\ pg = src) /\ pg_list[pg].status = "RCM"
  BY <1>1
<1>4. pg_list[pg].lp_num \in Nat \ {0}
  BY <1>3 DEF VictimsHavePages, TypeInv, SsdTypeOK, FtlTypeOK, PG_Info
<1>5. pg = src => pg_list[pg].lp_num # 1
  BY <1>3 DEF Releases
<1>. QED BY <1>2, <1>3, <1>4, <1>5

\* A step that leaves the PGs and the reserve alone.
LEMMA NoReserveStep ==
  ASSUME ReserveInv, UNCHANGED <<close_pg_que, rcm_pg_que, rcm_cmp_pg_que, total_free, total_invalid>>,
         \A pg \in PG : /\ pg_list'[pg].status = "RCM" => pg_list[pg].status = "RCM"
                        /\ pg_list'[pg].lp_num = pg_list[pg].lp_num,
         req_list' # <<>> \/ Rewriting' => req_num' # 0,
         pc' = "reload" => tgt_num' = GetNeededBlockNum,
         pc' = "collect" => GetNeededBlockNum <= 0 \/ close_pg_que = <<>>,
         NothingListed' => /\ GetNeededBlockNum <= 0 \/ close_pg_que = <<>>
                           /\ rcm_pg_que = <<>>
  PROVE  ReserveInv'
<1>1. GetNeededBlockNum' = GetNeededBlockNum
  BY DEF GetNeededBlockNum, rcm_start_th, PbNum
<1>. QED BY <1>1 DEF ReserveInv, VictimsHavePages

(* The actions of the device, one by one. *)
LEMMA NextReserve ==
  ASSUME TypeInv, BooksInv, QueuesInv, PlacesInv, ScanInv, ReserveInv, [Next]_vars
  PROVE  ReserveInv'
<1>0. pg_list \in [PG -> PG_Info] /\ FtlTypeOK /\ FlowInv
  BY DEF TypeInv, SsdTypeOK, FtlTypeOK, ScanInv
<1>1. CASE /\ UNCHANGED <<pg_list, close_pg_que, rcm_pg_que, rcm_cmp_pg_que, total_free, total_invalid>>
           /\ req_list' # <<>> \/ Rewriting' => req_num' # 0
           /\ pc' = "reload" => tgt_num' = GetNeededBlockNum
           /\ pc' = "collect" => GetNeededBlockNum <= 0 \/ close_pg_que = <<>>
           /\ NothingListed' => /\ GetNeededBlockNum <= 0 \/ close_pg_que = <<>>
                                /\ rcm_pg_que = <<>>
  BY <1>1, NoReserveStep
<1>2. CASE UNCHANGED vars
  BY <1>1, <1>2 DEF vars, ftlVars, ctlVars, queueVars, ReserveInv, NothingListed, Rewriting
<1>3. CASE FormatPage \/ FormatDone \/ \E lpn \in LP : HostWrite(lpn)
  BY <1>0, <1>1, <1>3 DEF FormatPage, FormatDone, HostWrite, ftlVars, queueVars,
                          ReserveInv, NothingListed, Rewriting, FlowInv
<1>4. CASE GetOpenPG_Present
  BY <1>1, <1>4 DEF GetOpenPG_Present, ftlVars, queueVars, ReserveInv, NothingListed, Rewriting
<1>5. CASE GetOpenPG_Build
  <2>1. /\ req_list' # <<>> \/ Rewriting' => req_num' # 0
        /\ pc' \notin {"reload", "collect", "rewrite", "geterase"}
    BY <1>5 DEF GetOpenPG_Build, ReserveInv, Rewriting
  <2>2. CASE free_pg_que = <<>>
    BY <1>1, <1>5, <2>1, <2>2 DEF GetOpenPG_Build, ftlVars, queueVars, NothingListed
  <2>3. CASE free_pg_que # <<>>
    <3>1. VictimsHavePages'
      <4>1. PICK first \in PG : /\ pg_list'[first].status = "OPEN"
                                /\ \A pg \in PG \ {first} : pg_list'[pg] = pg_list[pg]
        BY <1>5, <2>3, BuiltPG
      <4>. QED BY <4>1 DEF ReserveInv, VictimsHavePages
    <3>. QED BY <2>1, <3>1 DEF ReserveInv, NothingListed
  <2>. QED BY <2>2, <2>3
<1>6. CASE LpWrite
  <2>1. pc = "update" /\ openpg[io.type] \in PG /\ io.lpn \in LP
        /\ ~L2P_UpdateError(io.lpn, SectsPerLp, openpg[io.type])
    BY <1>6, Accepted DEF LpWrite, ScanInv
  <2>2. /\ L2P_Update(io.lpn, SectsPerLp, openpg[io.type], FALSE)
        /\ io' = NoIo /\ UNCHANGED <<req_list, req_num>>
        /\ pc' = IF Formatting THEN "format" ELSE IF io.type = "HOST_WR" THEN "gc" ELSE "rewrite"
    BY <1>6, <2>1 DEF LpWrite
  <2>3. VictimsHavePages'
    BY <2>1, <2>2, UpdateVictims DEF ReserveInv
  <2>4. io.type \in IoType
    BY DEF TypeInv, SsdTypeOK
  <2>5. pc' = "rewrite" => Rewriting
    BY <2>1, <2>2, <2>4 DEF IoType, Rewriting
  <2>. QED BY <2>2, <2>3, <2>5 DEF ReserveInv, NothingListed, Rewriting, NoIo
<1>7. CASE GetReWriteReq
  BY <1>0, <1>1, <1>7, NeededType DEF GetReWriteReq, ftlVars, queueVars, ReserveInv, NothingListed,
                                      Rewriting, FlowInv
<1>8. CASE Reload
  <2>1. /\ rcm_pg_que' = Append(rcm_pg_que, Last(close_pg_que))
        /\ pg_list' = [pg_list EXCEPT ![Last(close_pg_que)].status = "RCM"]
        /\ close_pg_que # <<>> /\ tgt_num' = tgt_num - PgPbNum
        /\ UNCHANGED <<rcm_cmp_pg_que, total_free, total_invalid, io, req_list, req_num>>
        /\ pc = "reload" /\ pc' \in {"reload", "failed"}
    BY <1>8 DEF Reload, ReloadRcmTarget
  <2>2. Last(close_pg_que) \in PG /\ pg_list[Last(close_pg_que)].status = "CLOSE"
    <3>1. /\ close_pg_que \in Seq(PG) /\ Len(close_pg_que) \in 1..Len(close_pg_que)
      BY <1>0, <2>1, EmptySeq, LenProperties DEF FtlTypeOK
    <3>2. Last(close_pg_que) \in PG /\ Contains(close_pg_que, Last(close_pg_que))
      BY <3>1, ElementOfSeq DEF Last, Contains
    <3>. QED BY <3>2 DEF QueuesInv, QueuedAs
  <2>3. VictimsHavePages'
    <3>1. \A pg \in PG : /\ pg_list'[pg].lp_num = pg_list[pg].lp_num
                         /\ pg_list'[pg].status = IF pg = Last(close_pg_que) THEN "RCM"
                                                  ELSE pg_list[pg].status
      BY <1>0, <2>1, <2>2 DEF PG_Info
    <3>. QED BY <2>2, <3>1 DEF QueuesInv, ClosedHasPages, ReserveInv, VictimsHavePages
  <2>4. GetNeededBlockNum' = GetNeededBlockNum - PgPbNum
    <3>. DEFINE kept == (Len(rcm_cmp_pg_que) + Len(rcm_pg_que)) * PgPbNum
    <3>1. Len(rcm_pg_que') = Len(rcm_pg_que) + 1
      BY <1>0, <2>1, <2>2, AppendProperties DEF FtlTypeOK
    <3>2. \A a, b \in Nat : (a + (b + 1)) * PgPbNum = (a + b) * PgPbNum + PgPbNum
      BY SizesAssumption
    <3>3. (Len(rcm_cmp_pg_que) + (Len(rcm_pg_que) + 1)) * PgPbNum = kept + PgPbNum /\ kept \in Nat
      BY <3>2, NeededType
    <3>4. GetNeededBlockNum' = rcm_start_th - ((kept + PgPbNum) + total_invalid + total_free)
      BY <2>1, <3>1, <3>3 DEF GetNeededBlockNum, rcm_start_th, PbNum
    <3>5. GetNeededBlockNum = rcm_start_th - (kept + total_invalid + total_free)
      BY DEF GetNeededBlockNum
    <3>6. rcm_start_th \in Int /\ PgPbNum \in Nat /\ total_invalid \in Nat /\ total_free \in Nat
      BY NeededType
    <3>. HIDE DEF kept
    <3>. QED BY <3>3, <3>4, <3>5, <3>6
  <2>5. req_list = <<>> /\ io.type = "HOST_WR"
    BY <1>0, <2>1 DEF FlowInv, Rewriting
  <2>. QED BY <2>1, <2>3, <2>4, <2>5, NeededType DEF ReserveInv, NothingListed, Rewriting
<1>9. CASE ReloadDone
  <2>1. pc = "reload" /\ (GetNeededBlockNum <= 0 \/ close_pg_que = <<>>)
    BY <1>9, NeededType DEF ReloadDone, ReserveInv
  <2>. QED BY <1>0, <1>1, <1>9, <2>1 DEF ReloadDone, ftlVars, queueVars, ReserveInv, NothingListed,
                                         Rewriting, FlowInv
<1>10. CASE Collect
  <2>1. /\ \A pg \in PG : /\ pg_list'[pg].status = pg_list[pg].status
                          /\ pg_list'[pg].lp_num = pg_list[pg].lp_num
        /\ UNCHANGED <<close_pg_que, rcm_pg_que, rcm_cmp_pg_que, total_free, total_invalid>>
    BY <1>0, <1>10 DEF Collect, ScanNext, PG_Info, queueVars
  <2>2. /\ pc = "collect" /\ pc' = "collect" /\ ~Rewriting'
        /\ req_list' # <<>> => req_num' # 0
    BY <1>10 DEF Collect, ReserveInv, Rewriting, TypeInv, SsdTypeOK
  <2>. QED BY <2>1, <2>2, NoReserveStep DEF ReserveInv, NothingListed
<1>11. CASE CollectNextPG
  <2>1. /\ rcm_pg_que # <<>> /\ rcm_pg_que' = Tail(rcm_pg_que)
        /\ rcm_cmp_pg_que' = Append(rcm_cmp_pg_que, Head(rcm_pg_que))
        /\ UNCHANGED <<pg_list, close_pg_que, total_free, total_invalid, pc, io, req_list, req_num>>
        /\ pc = "collect"
    BY <1>11 DEF CollectNextPG, ScanEnd, ctlVars
  <2>2. Len(rcm_pg_que') = Len(rcm_pg_que) - 1 /\ Len(rcm_cmp_pg_que') = Len(rcm_cmp_pg_que) + 1
    <3>1. rcm_pg_que \in Seq(PG) /\ rcm_cmp_pg_que \in Seq(PG) /\ Head(rcm_pg_que) \in PG
      BY <1>0, <2>1, HeadTailProperties DEF FtlTypeOK
    <3>. QED BY <2>1, <3>1, HeadTailProperties, AppendProperties
  <2>3. GetNeededBlockNum' = GetNeededBlockNum
    <3>1. Len(rcm_cmp_pg_que') + Len(rcm_pg_que') = Len(rcm_cmp_pg_que) + Len(rcm_pg_que)
      BY <2>2, NeededType
    <3>. QED BY <2>1, <3>1 DEF GetNeededBlockNum, rcm_start_th, PbNum
  <2>. QED BY <2>1, <2>3 DEF ReserveInv, VictimsHavePages, NothingListed, Rewriting
<1>12. CASE CollectDone
  <2>1. pc = "collect" /\ req_num' = req_num /\ (req_num = 0 => rcm_pg_que = <<>>)
    BY <1>12, MaxRewrAssumption DEF CollectDone
  <2>. QED BY <1>1, <1>12, <2>1 DEF CollectDone, ftlVars, queueVars, ReserveInv, NothingListed, Rewriting
<1>13. CASE Rewrite \/ RewriteDone
  BY <1>1, <1>13 DEF Rewrite, RewriteDone, ftlVars, queueVars, ReserveInv, NothingListed, Rewriting
<1>14. CASE \E num \in 0..MaxErase : EraseReq(num)
  <2>1. /\ pc' \in {"erase", "gc", "idle"} /\ req_list' = <<>> /\ pg_list' = pg_list
    BY <1>0, <1>14 DEF EraseReq, GetEraseReq, FlowInv, Rewriting
  <2>. QED BY <2>1 DEF ReserveInv, VictimsHavePages, NothingListed, Rewriting
<1>15. CASE Erase
  <2>1. /\ pc' \in {"erase", "gc"} /\ req_list' = <<>> /\ pg_list' = pg_list
    BY <1>0, <1>15 DEF Erase, ErasePB, FlowInv, Rewriting
  <2>. QED BY <2>1 DEF ReserveInv, VictimsHavePages, NothingListed, Rewriting
<1>. QED
  BY <1>2, <1>3, <1>4, <1>5, <1>6, <1>7, <1>8, <1>9, <1>10, <1>11, <1>12, <1>13, <1>14, <1>15
     DEF Next, Run, DoGC

(* The reserve argument holds beside the scan and the books. *)
LEMMA ReserveCorrect ==
  Spec => [](TypeInv /\ BooksInv /\ QueuesInv /\ PlacesInv /\ ScanInv /\ ReserveInv)
<1>1. Init => TypeInv /\ BooksInv /\ QueuesInv /\ PlacesInv /\ ScanInv /\ ReserveInv
  BY InitType, InitBooks, InitQueues, InitPlaces, InitScan, InitReserve
<1>2. TypeInv /\ BooksInv /\ QueuesInv /\ PlacesInv /\ ScanInv /\ ReserveInv /\ [Next]_vars
        => (TypeInv /\ BooksInv /\ QueuesInv /\ PlacesInv /\ ScanInv /\ ReserveInv)'
  BY NextType, NextBooks, NextLog, NextPlaces, NextScan, NextReserve
<1>. QED BY <1>1, <1>2, PTL DEF Spec

\* A scan that has listed nothing has found every victim released.
LEMMA EveryVictimReleased ==
  ASSUME TypeInv, BooksInv, PlacesInv, ScanInv, ReserveInv, pc = "geterase", req_num = 0
  PROVE  /\ \A pg \in PG : pg_list[pg].status # "RCM"
         /\ Len(rcm_cmp_pg_que) = 0 /\ Len(rcm_pg_que) = 0
<1>1. rcm_pg_que = <<>> /\ req_list = <<>> /\ ~Rewriting
  BY DEF ReserveInv, NothingListed, ScanInv, FlowInv, Rewriting
<1>2. \A x : ~Contains(<<>>, x)
  BY EmptySeq DEF Contains
<1>3. Pending = {}
  BY <1>1, <1>2, PendingPages DEF TypeInv, SsdTypeOK
<1>4. \A pg \in PG : pg_list[pg].status # "RCM"
  <2>. SUFFICES ASSUME NEW pg \in PG, pg_list[pg].status = "RCM" PROVE FALSE
    OBVIOUS
  <2>1. Mapped(pg) = {}
    BY <1>1, <1>2, <1>3 DEF ScanInv, NoPageMissed
  <2>2. pg_list[pg].lp_num = 0
    BY <2>1, FS_EmptySet DEF BooksInv, Accounting
  <2>. QED BY <2>2 DEF ReserveInv, VictimsHavePages
<1>5. rcm_cmp_pg_que = <<>>
  <2>. SUFFICES ASSUME rcm_cmp_pg_que # <<>> PROVE FALSE
    OBVIOUS
  <2>1. rcm_cmp_pg_que \in Seq(PG)
    BY DEF TypeInv, SsdTypeOK, FtlTypeOK
  <2>2. 1 \in 1..Len(rcm_cmp_pg_que) /\ rcm_cmp_pg_que[1] \in PG
    BY <2>1, EmptySeq, LenProperties, ElementOfSeq
  <2>3. Contains(rcm_cmp_pg_que, rcm_cmp_pg_que[1])
    BY <2>2 DEF Contains
  <2>. QED BY <1>4, <2>2, <2>3 DEF PlacesInv, VictimsInv
<1>. QED BY <1>1, <1>4, <1>5, EmptySeq

(* When do_gc returns to the host, for every number of pages and groups,   *)
(* every reserve and every length of the request list: no victim is left   *)
(* with data in it, no released block is left unerased, and the reserve is *)
(* rebuilt unless every closed PG has been taken. That it returns at all   *)
(* depends on the reserve and on the fairness of the run (GcTerminates).   *)
THEOREM GcReturns == Spec => GcReturnsWithReserve
<1>. DEFINE A == pc' = "idle" /\ pc \in {"geterase", "erase"} =>
                   /\ total_free' >= rcm_start_th \/ close_pg_que' = <<>>
                   /\ total_invalid' = 0
                   /\ \A pg \in PG : pg_list'[pg].status # "RCM"
<1>1. TypeInv /\ BooksInv /\ QueuesInv /\ PlacesInv /\ ScanInv /\ ReserveInv /\ [Next]_vars => [A]_vars
  <2>. SUFFICES ASSUME TypeInv, BooksInv, PlacesInv, ScanInv, ReserveInv, Next,
                       pc' = "idle", pc \in {"geterase", "erase"}
                PROVE  /\ total_free' >= rcm_start_th \/ close_pg_que' = <<>>
                       /\ total_invalid' = 0
                       /\ \A pg \in PG : pg_list'[pg].status # "RCM"
    OBVIOUS
  <2>1. /\ pc = "geterase" /\ req_num = 0 /\ total_invalid = 0
        /\ UNCHANGED <<pg_list, close_pg_que, total_free, total_invalid>>
    <3>1. \/ \E num \in 0..MaxErase : EraseReq(num)
          \/ Erase
      BY DEF Next, Run, DoGC, FormatPage, FormatDone, HostWrite, GetOpenPG_Present,
             GetOpenPG_Build, LpWrite, GetReWriteReq, Reload, ReloadDone, Collect,
             CollectNextPG, CollectDone, Rewrite, RewriteDone
    <3>2. ~Erase
      BY DEF Erase
    <3>. QED BY <3>1, <3>2 DEF EraseReq, GetEraseReq, ctlVars, ftlVars, queueVars
  <2>2. (\A pg \in PG : pg_list[pg].status # "RCM") /\ Len(rcm_cmp_pg_que) = 0 /\ Len(rcm_pg_que) = 0
    BY <2>1, EveryVictimReleased
  <2>3. GetNeededBlockNum <= 0 \/ close_pg_que = <<>>
    BY <2>1 DEF ReserveInv, NothingListed
  <2>4. GetNeededBlockNum = rcm_start_th - total_free
    BY <2>1, <2>2, NeededType DEF GetNeededBlockNum
  <2>. QED BY <2>1, <2>2, <2>3, <2>4, NeededType
<1>. QED BY <1>1, ReserveCorrect, PTL DEF Spec, GcReturnsWithReserve
=============================================================================
