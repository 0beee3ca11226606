--------------------------------- MODULE Ftl ---------------------------------
(***************************************************************************)
(* The page-mapping flash translation layer of ssdsim/ftl: the logical to  *)
(* virtual page map, the parity groups (PGs) data is appended to, and the  *)
(* queues a PG moves through                                               *)
(*                                                                         *)
(*   free_pg_que -> open slot -> close_pg_que -> rcm_pg_que                *)
(*        ^                           |             |                      *)
(*        |                           v             v                      *)
(*        +------ CloseToInvalid -----+<---- rcm_cmp_pg_que                *)
(*                                                                         *)
(* The operators with primed variables are the methods of FtlInterface and *)
(* FtlAsynReqInterface.  They leave the control flow to the module that    *)
(* extends this one (Ssd), as the class leaves it to its caller.           *)
(*                                                                         *)
(* Physical blocks are counted here and told apart in module BlockPool;    *)
(* module BlockCounts is what the two have in common.                      *)
(***************************************************************************)
EXTENDS Integers, FiniteSets, SequencesExt

CONSTANTS
  LpNum,        \* logical pages (LP_INFO::lp_num)
  PgNum,        \* parity groups (LP_INFO::pg_num)
  PgPbNum,      \* physical blocks of a PG (pg_pb_num)
  PgCwNum,      \* code words, i.e. sectors, of a PG (pg_cw_num)
  SectsPerLp,   \* FTL_SECTS_PER_LP
  SectsPerPp,   \* SECTS_PER_PP
  OpenPgNum,    \* what GetOpenPG_Num() answers
  RcmTh,        \* rcm_th, per cent of the blocks
  MaxErase,     \* FTL_MAX_ERASE_REQ
  NoPG          \* FTL_PG_INVALID_ID, and NULL as a PG_INFO*

ASSUME SizesAssumption ==
  /\ LpNum \in Nat \ {0} /\ PgNum \in Nat \ {0} /\ PgPbNum \in Nat \ {0}
  /\ SectsPerLp \in Nat \ {0} /\ SectsPerPp \in Nat \ {0}
  /\ OpenPgNum \in Nat \ {0} /\ RcmTh \in Nat /\ MaxErase \in Nat \ {0}

\* A PG has room for two logical pages and its sectors are whole physical pages.
ASSUME PgSizeAssumption ==
  /\ PgCwNum \in Nat /\ PgCwNum > SectsPerLp /\ PgCwNum % SectsPerPp = 0

ASSUME NoPGAssumption == NoPG \notin 0..(PgNum - 1)

LP == 0..(LpNum - 1)
PG == 0..(PgNum - 1)
PbNum == PgNum * PgPbNum
IoType == {"HOST_WR", "RCM_RWR"}

VARIABLES
  l2p_tbl,          \* logical page -> virtual page address
  pg_list,          \* PG -> its PG_INFO
  openpg,           \* write type -> the PG open for it (host_openpg, rcm_openpg)
  free_pg_que, close_pg_que, rcm_pg_que, rcm_cmp_pg_que,
  total_free,       \* pool.total_free_pb_count
  total_invalid     \* pool.total_invalid_pb_count

queueVars == <<free_pg_que, close_pg_que, rcm_pg_que, rcm_cmp_pg_que>>
ftlVars == <<l2p_tbl, pg_list, openpg, queueVars, total_free, total_invalid>>

VPA == [pgn : PG \cup {NoPG}, ofs : Nat, len : Nat]
Reverse_Info == [lpn : LP, len : Nat]
PG_Info ==
  [status : {"FREE", "OPEN", "CLOSE", "RCM"}, vs_num : Nat, lp_num : Nat,
   type : IoType, next_ofs : Nat, pb_num : 0..PgPbNum,
   p2l_tbl : Seq(Reverse_Info), next_rewr_index : Nat, next_rewr_pgsect : Nat]

FtlTypeOK ==
  /\ l2p_tbl \in [LP -> VPA]
  /\ pg_list \in [PG -> PG_Info]
  /\ openpg \in [IoType -> PG \cup {NoPG}]
  /\ free_pg_que \in Seq(PG) /\ close_pg_que \in Seq(PG)
  /\ rcm_pg_que \in Seq(PG) /\ rcm_cmp_pg_que \in Seq(PG)
  /\ total_free \in Nat /\ total_invalid \in Nat

-----------------------------------------------------------------------------
\* LP_INFO::InitPG.
InitPG ==
  [status |-> "FREE", vs_num |-> 0, lp_num |-> 0, type |-> "HOST_WR",
   next_ofs |-> 0, pb_num |-> 0, p2l_tbl |-> <<>>,
   next_rewr_index |-> 0, next_rewr_pgsect |-> 0]

\* LP_INFO::InitFTL: nothing mapped, every PG and every block free.
InitFTL ==
  /\ l2p_tbl = [lpn \in LP |-> [pgn |-> NoPG, ofs |-> 0, len |-> 0]]
  /\ pg_list = [pg \in PG |-> InitPG]
  /\ openpg = [type \in IoType |-> NoPG]
  /\ free_pg_que = [i \in 1..PgNum |-> i - 1]
  /\ close_pg_que = <<>> /\ rcm_pg_que = <<>> /\ rcm_cmp_pg_que = <<>>
  /\ total_free = PbNum /\ total_invalid = 0

\* Mutant: the reserve is a single PG.
rcm_start_th_Single ==
  LET th == (PbNum * RcmTh) \div 100
  IN  IF th <= OpenPgNum * PgPbNum THEN OpenPgNum * PgPbNum ELSE th

\* FtlAsynReqInterface::Init: the reserve of blocks reclamation aims at.
rcm_start_th ==
  LET th == (PbNum * RcmTh) \div 100
  IN  IF th <= OpenPgNum * PgPbNum THEN OpenPgNum * PgPbNum * 2 ELSE th

-----------------------------------------------------------------------------
(* Opening a PG *)

\* GetFreePB can be called PgPbNum times without returning NULL.
EnoughFreePB == total_free >= PgPbNum

\* Mutant: a PG costs the pool one block.
TakePG_OneBlock(type) ==
  LET pg == Head(free_pg_que)
  IN  /\ free_pg_que # <<>>
      /\ free_pg_que' = Tail(free_pg_que)
      /\ pg_list' = [pg_list EXCEPT ![pg].status = "OPEN", ![pg].type = type,
                                    ![pg].pb_num = PgPbNum]
      /\ total_free' = total_free - 1
      /\ UNCHANGED <<l2p_tbl, close_pg_que, rcm_pg_que, rcm_cmp_pg_que, total_invalid>>

\* BuildPG up to the end, or up to the block GetFreePB could not deliver: the
\* PG has then left free_pg_que and keeps the blocks it was given.
TakePG(type) ==
  LET pg == Head(free_pg_que)
      bound == IF EnoughFreePB THEN PgPbNum ELSE total_free
  IN  /\ free_pg_que # <<>>
      /\ free_pg_que' = Tail(free_pg_que)
      /\ pg_list' = [pg_list EXCEPT ![pg].status = "OPEN", ![pg].type = type,
                                    ![pg].pb_num = bound]
      /\ total_free' = total_free - bound
      /\ UNCHANGED <<l2p_tbl, close_pg_que, rcm_pg_que, rcm_cmp_pg_que, total_invalid>>

\* BuildPG for the slot of a write type.
BuildPG(type) ==
  /\ TakePG(type)
  /\ openpg' = [openpg EXCEPT ![type] = IF EnoughFreePB THEN Head(free_pg_que) ELSE NoPG]

-----------------------------------------------------------------------------
(* The close queue: begin ... end, the PG with the least valid data last *)

\* Mutant: pg moves back past the PGs with fewer valid sectors.
UpdateCloseRanking_Reversed(queue, pg, pgs) ==
  LET rest  == RemoveFirst(queue, pg)
      start == IF Contains(queue, pg) THEN SelectInSeq(queue, LAMBDA q : q = pg) ELSE 1
      stops == {i \in start..Len(rest) : pgs[pg].vs_num <= pgs[rest[i]].vs_num}
  IN  InsertAt(rest, IF stops = {} THEN Len(rest) + 1 ELSE Min(stops), pg)

\* UpdateCloseRanking: pg moves backwards from where it stands (from the
\* beginning when it was not queued) past every PG with more valid sectors.
UpdateCloseRanking(queue, pg, pgs) ==
  LET rest  == RemoveFirst(queue, pg)
      start == IF Contains(queue, pg) THEN SelectInSeq(queue, LAMBDA q : q = pg) ELSE 1
      stops == {i \in start..Len(rest) : pgs[pg].vs_num >= pgs[rest[i]].vs_num}
  IN  InsertAt(rest, IF stops = {} THEN Len(rest) + 1 ELSE Min(stops), pg)

-----------------------------------------------------------------------------
(* L2P_Update and what it calls *)

\* The write refused by the error checks at the head of L2P_Update.
L2P_UpdateError(lpn, len, dst) ==
  LET old == l2p_tbl[lpn]
  IN  \/ pg_list[dst].status # "OPEN"
      \/ pg_list[dst].next_ofs + len > PgCwNum
      \/ old.pgn # NoPG /\ pg_list[old.pgn].vs_num < old.len

\* The pad that aligns the next write to a physical page.
Pad(next) == IF next % SectsPerPp = 0 THEN 0 ELSE SectsPerPp - (next % SectsPerPp)

\* Mutant: the write position stays.
Written_InPlace(pg, lpn, len, pad) ==
  [pg EXCEPT !.p2l_tbl  = Append(@, [lpn |-> lpn, len |-> len + pad]),
             !.vs_num   = @ + len,
             !.lp_num   = @ + 1]

\* Mutant: the reverse map keeps the length without the pad.
Written_NoPad(pg, lpn, len, pad) ==
  LET next == pg.next_ofs + len + pad
      full == next + SectsPerLp >= PgCwNum
  IN  [pg EXCEPT !.p2l_tbl  = Append(@, [lpn |-> lpn, len |-> len]),
                 !.vs_num   = @ + len,
                 !.lp_num   = @ + 1,
                 !.next_ofs = IF full THEN PgCwNum ELSE next,
                 !.status   = IF full THEN "CLOSE" ELSE @]

\* The destination PG with one more page; it closes when one more might not fit.
Written(pg, lpn, len, pad) ==
  LET next == pg.next_ofs + len + pad
      full == next + SectsPerLp >= PgCwNum
  IN  [pg EXCEPT !.p2l_tbl  = Append(@, [lpn |-> lpn, len |-> len + pad]),
                 !.vs_num   = @ + len,
                 !.lp_num   = @ + 1,
                 !.next_ofs = IF full THEN PgCwNum ELSE next,
                 !.status   = IF full THEN "CLOSE" ELSE @]

\* Mutant: the page count is not updated.
Released_NoCount(pg, len) == [pg EXCEPT !.vs_num = @ - len]

\* The source PG with one valid page less.
Released(pg, len) == [pg EXCEPT !.vs_num = @ - len, !.lp_num = @ - 1]

\* Mutant: the PG is queued as free without being initialised.
CloseToInvalid_NoInit(pg, pgs, queue) ==
  LET inRcm    == pgs[pg].status = "RCM"
      inRcmCmp == inRcm /\ Contains(rcm_cmp_pg_que, pg)
  IN  /\ total_invalid' = total_invalid + pgs[pg].pb_num
      /\ rcm_cmp_pg_que' = IF inRcmCmp THEN RemoveFirst(rcm_cmp_pg_que, pg) ELSE rcm_cmp_pg_que
      /\ rcm_pg_que' = IF inRcm /\ ~inRcmCmp THEN RemoveFirst(rcm_pg_que, pg) ELSE rcm_pg_que
      /\ close_pg_que' = IF inRcm THEN queue ELSE RemoveFirst(queue, pg)
      /\ pg_list' = pgs
      /\ free_pg_que' = Append(free_pg_que, pg)

\* CloseToInvalid of a PG without valid data: its blocks await erasure, it
\* leaves the queue its status says and returns to free_pg_que.  pgs and queue
\* are the PGs and the close queue L2P_Update has already brought up to date.
CloseToInvalid(pg, pgs, queue) ==
  LET inRcm    == pgs[pg].status = "RCM"
      inRcmCmp == inRcm /\ Contains(rcm_cmp_pg_que, pg)
  IN  /\ total_invalid' = total_invalid + pgs[pg].pb_num
      /\ rcm_cmp_pg_que' = IF inRcmCmp THEN RemoveFirst(rcm_cmp_pg_que, pg) ELSE rcm_cmp_pg_que
      /\ rcm_pg_que' = IF inRcm /\ ~inRcmCmp THEN RemoveFirst(rcm_pg_que, pg) ELSE rcm_pg_que
      /\ close_pg_que' = IF inRcm THEN queue ELSE RemoveFirst(queue, pg)
      /\ pg_list' = [pgs EXCEPT ![pg] = InitPG]
      /\ free_pg_que' = Append(free_pg_que, pg)

\* OpenToClose: dst leaves the slot of the type it was opened for.  (It is then
\* ranked, by L2P_Update below.)
OpenToClose(dst) == [openpg EXCEPT ![pg_list[dst].type] = NoPG]

\* L2P_Update: lpn moves to the end of dst; dst is closed and ranked when it is
\* full; the PG lpn came from loses it, and is ranked again or released.
L2P_Update(lpn, len, dst, align_to_pp) ==
  LET old     == l2p_tbl[lpn]
      src     == old.pgn
      ofs     == pg_list[dst].next_ofs
      pad     == IF align_to_pp THEN Pad(ofs + len) ELSE 0
      written == [pg_list EXCEPT ![dst] = Written(@, lpn, len, pad)]
      closing == written[dst].status = "CLOSE"
      ranked  == IF closing THEN UpdateCloseRanking(close_pg_que, dst, written)
                            ELSE close_pg_que
      drops   == src # NoPG /\ written[src].lp_num # 0
      dropped == [written EXCEPT ![src] = Released(@, old.len)]
  IN  /\ l2p_tbl' = [l2p_tbl EXCEPT ![lpn] = [pgn |-> dst, ofs |-> ofs, len |-> len]]
      /\ openpg' = IF closing THEN OpenToClose(dst) ELSE openpg
      /\ UNCHANGED total_free
      /\ IF drops /\ dropped[src].vs_num = 0 /\ dropped[src].status # "OPEN"
         THEN CloseToInvalid(src, dropped, ranked)
         ELSE /\ pg_list' = IF drops THEN dropped ELSE written
              /\ close_pg_que' = IF drops /\ dropped[src].status = "CLOSE"
                                 THEN UpdateCloseRanking(ranked, src, dropped)
                                 ELSE ranked
              /\ UNCHANGED <<free_pg_que, rcm_pg_que, rcm_cmp_pg_que, total_invalid>>

-----------------------------------------------------------------------------
(* Reclamation *)

\* Mutant: the free blocks are not counted.
GetNeededBlockNum_NoFree ==
  rcm_start_th - ((Len(rcm_cmp_pg_que) + Len(rcm_pg_que)) * PgPbNum + total_invalid)

\* GetNeededBlockNum: the reserve, less what is free or on its way to be.
GetNeededBlockNum ==
  rcm_start_th - ((Len(rcm_cmp_pg_que) + Len(rcm_pg_que)) * PgPbNum
                   + total_invalid + total_free)

\* Mutant: the target stays on the close queue.
ReloadRcmTarget_Keep ==
  LET pg == Last(close_pg_que)
  IN  /\ close_pg_que # <<>>
      /\ rcm_pg_que' = Append(rcm_pg_que, pg)
      /\ pg_list' = [pg_list EXCEPT ![pg].status = "RCM"]
      /\ UNCHANGED <<l2p_tbl, openpg, free_pg_que, close_pg_que, rcm_cmp_pg_que,
                     total_free, total_invalid>>

\* One turn of the loop of ReloadRcmTarget: the last PG of the close queue
\* becomes a reclamation target.
ReloadRcmTarget ==
  LET pg == Last(close_pg_que)
  IN  /\ close_pg_que # <<>>
      /\ close_pg_que' = Front(close_pg_que)
      /\ rcm_pg_que' = Append(rcm_pg_que, pg)
      /\ pg_list' = [pg_list EXCEPT ![pg].status = "RCM"]
      /\ UNCHANGED <<l2p_tbl, openpg, free_pg_que, rcm_cmp_pg_que, total_free, total_invalid>>

\* The entry of the reverse map GetNextReWriteLPN looks at, and whether the map
\* still agrees with it.
ScanEntry(pg) == pg_list[pg].p2l_tbl[pg_list[pg].next_rewr_index + 1]

\* Mutants: the cursor is compared after it has moved; the PG alone is compared.
ScanValid_Late(pg) ==
  LET vpa == l2p_tbl[ScanEntry(pg).lpn]
  IN  vpa.pgn = pg /\ vpa.ofs = pg_list[pg].next_rewr_pgsect + ScanEntry(pg).len
ScanValid_AnyOfs(pg) == l2p_tbl[ScanEntry(pg).lpn].pgn = pg

ScanValid(pg) ==
  LET vpa == l2p_tbl[ScanEntry(pg).lpn]
  IN  vpa.pgn = pg /\ vpa.ofs = pg_list[pg].next_rewr_pgsect
ScanLeft(pg) == pg_list[pg].next_rewr_index < Len(pg_list[pg].p2l_tbl)

\* One turn of the loop of GetNextReWriteLPN: the cursors of pg move on.
ScanNext(pg) ==
  /\ ScanLeft(pg)
  /\ pg_list' = [pg_list EXCEPT ![pg].next_rewr_index = @ + 1,
                                ![pg].next_rewr_pgsect = @ + ScanEntry(pg).len]
  /\ UNCHANGED <<l2p_tbl, openpg, queueVars, total_free, total_invalid>>

\* GetReWriteReq on a PG scanned to its end.
ScanEnd(pg) ==
  /\ ~ScanLeft(pg)
  /\ rcm_pg_que' = Tail(rcm_pg_que)
  /\ rcm_cmp_pg_que' = Append(rcm_cmp_pg_que, pg)
  /\ UNCHANGED <<l2p_tbl, pg_list, openpg, free_pg_que, close_pg_que, total_free, total_invalid>>

\* Mutant: requests are counted whether or not a block was found for them.
GetEraseReq_Unfilled(num) ==
  /\ num \in 0..MaxErase
  /\ num = 0 <=> total_invalid = 0
  /\ total_invalid' = total_invalid - num
  /\ UNCHANGED <<l2p_tbl, pg_list, openpg, queueVars, total_free>>

\* GetEraseReq takes at most one block of a bus and CE at a turn, so it may
\* deliver fewer requests than it could; it delivers none only if there are none.
GetEraseReq(num) ==
  /\ num \in 0..MaxErase /\ num <= total_invalid
  /\ num = 0 <=> total_invalid = 0
  /\ total_invalid' = total_invalid - num
  /\ UNCHANGED <<l2p_tbl, pg_list, openpg, queueVars, total_free>>

\* ErasePB and InvalidToFree of one reserved block.
ErasePB ==
  /\ total_free' = total_free + 1
  /\ UNCHANGED <<l2p_tbl, pg_list, openpg, queueVars, total_invalid>>
=============================================================================
