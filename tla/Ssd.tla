--------------------------------- MODULE Ssd ---------------------------------
(***************************************************************************)
(* class SSD (ssdsim/ssd.cpp) driving the translation layer: init formats  *)
(* the device, then every page of a host write goes through lp_write and   *)
(* is followed by do_gc, which loops                                       *)
(*                                                                         *)
(*   GetReWriteReq -> lp_write of each request -> GetEraseReq -> ErasePB   *)
(*                                                                         *)
(* until a turn finds nothing to copy and nothing to erase.  pc is the     *)
(* point the single thread of the simulator has reached; the steps between *)
(* two points are the calls do_gc and lp_write make.                       *)
(***************************************************************************)
EXTENDS Ftl

CONSTANT MaxRewr      \* FTL_MAX_REWR_REQ

ASSUME MaxRewrAssumption == MaxRewr \in Nat \ {0}

VARIABLES
  pc,          \* the call the thread is about to make
  io,          \* the lp_write in progress: its type and logical page
  fmt_lp,      \* the next logical page of Format; LpNum once formatted
  tgt_num,     \* blocks ReloadRcmTarget still has to find
  req_list,    \* rewrite requests not yet carried out
  req_num,     \* rewrite requests of this turn of do_gc
  erase_left   \* erase requests of this turn not yet carried out

ctlVars == <<pc, io, fmt_lp, tgt_num, req_list, req_num, erase_left>>
vars == <<ftlVars, ctlVars>>

SsdTypeOK ==
  /\ FtlTypeOK
  /\ pc \in {"format", "idle", "open", "update", "gc", "reload", "collect",
             "rewrite", "geterase", "erase", "failed"}
  /\ io \in [type : IoType, lpn : LP]
  /\ fmt_lp \in 0..LpNum
  /\ tgt_num \in Int
  /\ req_list \in Seq(LP) /\ req_num \in 0..MaxRewr
  /\ erase_left \in 0..MaxErase

Formatting == fmt_lp < LpNum

\* Local variables of a finished call are reset, for they are dead: io here.
NoIo == [type |-> "HOST_WR", lpn |-> 0]

Init ==
  /\ InitFTL
  /\ pc = "format" /\ io = NoIo /\ fmt_lp = 0
  /\ tgt_num = 0 /\ req_list = <<>> /\ req_num = 0 /\ erase_left = 0

-----------------------------------------------------------------------------
(* Writes *)

\* The loop of Format, which writes every logical page once, without do_gc.
FormatPage ==
  /\ pc = "format" /\ Formatting
  /\ pc' = "open" /\ io' = [type |-> "HOST_WR", lpn |-> fmt_lp]
  /\ UNCHANGED <<ftlVars, fmt_lp, tgt_num, req_list, req_num, erase_left>>

FormatDone ==
  /\ pc = "format" /\ ~Formatting
  /\ pc' = "idle"
  /\ UNCHANGED <<ftlVars, io, fmt_lp, tgt_num, req_list, req_num, erase_left>>

\* SSD::write reaches its loop body for logical page lpn.
HostWrite(lpn) ==
  /\ pc = "idle"
  /\ pc' = "open" /\ io' = [type |-> "HOST_WR", lpn |-> lpn]
  /\ UNCHANGED <<ftlVars, fmt_lp, tgt_num, req_list, req_num, erase_left>>

\* GetOpenPG finds the slot of the write type occupied,
GetOpenPG_Present ==
  /\ pc = "open" /\ openpg[io.type] # NoPG
  /\ pc' = "update"
  /\ UNCHANGED <<ftlVars, io, fmt_lp, tgt_num, req_list, req_num, erase_left>>

\* or has to build a PG, which fails when no PG is free, and half-way when
\* blocks run out.
GetOpenPG_Build ==
  /\ pc = "open" /\ openpg[io.type] = NoPG
  /\ IF free_pg_que = <<>>
     THEN pc' = "failed" /\ UNCHANGED ftlVars
     ELSE /\ BuildPG(io.type)
          /\ pc' = IF EnoughFreePB THEN "update" ELSE "failed"
  /\ UNCHANGED <<io, fmt_lp, tgt_num, req_list, req_num, erase_left>>

\* SSD::lp_write writes whole logical pages, without alignment.
LpWrite ==
  /\ pc = "update"
  /\ IF L2P_UpdateError(io.lpn, SectsPerLp, openpg[io.type])
     THEN pc' = "failed" /\ UNCHANGED <<ftlVars, fmt_lp>>
     ELSE /\ L2P_Update(io.lpn, SectsPerLp, openpg[io.type], FALSE)
          /\ fmt_lp' = IF Formatting THEN fmt_lp + 1 ELSE fmt_lp
          /\ pc' = IF Formatting THEN "format"
                   ELSE IF io.type = "HOST_WR" THEN "gc" ELSE "rewrite"
  /\ io' = NoIo
  /\ UNCHANGED <<tgt_num, req_list, req_num, erase_left>>

-----------------------------------------------------------------------------
(* do_gc *)

\* GetReWriteReq starts by topping up the reclamation targets.
GetReWriteReq ==
  /\ pc = "gc"
  /\ tgt_num' = IF GetNeededBlockNum > 0 THEN GetNeededBlockNum ELSE 0
  /\ pc' = IF GetNeededBlockNum > 0 THEN "reload" ELSE "collect"
  /\ UNCHANGED <<ftlVars, io, fmt_lp, req_list, req_num, erase_left>>

\* ReloadRcmTarget goes on while tgt_num >= 0, one PG further than asked; it
\* gives up on a PG whose every sector is valid.
Reload ==
  /\ pc = "reload" /\ tgt_num >= 0
  /\ ReloadRcmTarget
  /\ tgt_num' = tgt_num - PgPbNum
  /\ pc' = IF pg_list[Last(close_pg_que)].vs_num = PgCwNum THEN "failed" ELSE pc
  /\ UNCHANGED <<io, fmt_lp, req_list, req_num, erase_left>>

ReloadDone ==
  /\ pc = "reload" /\ (tgt_num < 0 \/ close_pg_que = <<>>)
  /\ pc' = "collect" /\ tgt_num' = 0
  /\ UNCHANGED <<ftlVars, io, fmt_lp, req_list, req_num, erase_left>>

\* GetReWriteReq fills the request list from the first target,
Collect ==
  /\ pc = "collect" /\ req_num # MaxRewr /\ rcm_pg_que # <<>>
  /\ LET pg == Head(rcm_pg_que)
     IN  /\ ScanNext(pg)
         /\ req_list' = IF ScanValid(pg) THEN Append(req_list, ScanEntry(pg).lpn) ELSE req_list
         /\ req_num' = IF ScanValid(pg) THEN req_num + 1 ELSE req_num
  /\ UNCHANGED <<pc, io, fmt_lp, tgt_num, erase_left>>

\* sets it aside when it is exhausted,
CollectNextPG ==
  /\ pc = "collect" /\ req_num # MaxRewr /\ rcm_pg_que # <<>>
  /\ ScanEnd(Head(rcm_pg_que))
  /\ UNCHANGED ctlVars

\* and stops when the list is full or no target is left.
CollectDone ==
  /\ pc = "collect" /\ (req_num = MaxRewr \/ rcm_pg_que = <<>>)
  /\ pc' = "rewrite"
  /\ UNCHANGED <<ftlVars, io, fmt_lp, tgt_num, req_list, req_num, erase_left>>

\* The loop over req_list: lp_read, then lp_write of type FMT_RCM_RWR.
Rewrite ==
  /\ pc = "rewrite" /\ req_list # <<>>
  /\ pc' = "open" /\ io' = [type |-> "RCM_RWR", lpn |-> Head(req_list)]
  /\ req_list' = Tail(req_list)
  /\ UNCHANGED <<ftlVars, fmt_lp, tgt_num, req_num, erase_left>>

RewriteDone ==
  /\ pc = "rewrite" /\ req_list = <<>>
  /\ pc' = "geterase"
  /\ UNCHANGED <<ftlVars, io, fmt_lp, tgt_num, req_list, req_num, erase_left>>

\* GetEraseReq; the turn was the last one if it found nothing to do.
EraseReq(num) ==
  /\ pc = "geterase"
  /\ GetEraseReq(num)
  /\ erase_left' = num /\ req_num' = 0
  /\ pc' = IF num # 0 THEN "erase" ELSE IF req_num # 0 THEN "gc" ELSE "idle"
  /\ UNCHANGED <<io, fmt_lp, tgt_num, req_list>>

\* Mutant: a turn that erased is the last one.
Erase_Last ==
  /\ pc = "erase"
  /\ ErasePB
  /\ erase_left' = erase_left - 1
  /\ pc' = IF erase_left = 1 THEN "idle" ELSE pc
  /\ UNCHANGED <<io, fmt_lp, tgt_num, req_list, req_num>>

Erase ==
  /\ pc = "erase"
  /\ ErasePB
  /\ erase_left' = erase_left - 1
  /\ pc' = IF erase_left = 1 THEN "gc" ELSE pc
  /\ UNCHANGED <<io, fmt_lp, tgt_num, req_list, req_num>>

DoGC ==
  \/ GetReWriteReq \/ Reload \/ ReloadDone
  \/ Collect \/ CollectNextPG \/ CollectDone
  \/ Rewrite \/ RewriteDone
  \/ \E num \in 0..MaxErase : EraseReq(num)
  \/ Erase

\* What the thread does by itself once a host write has been issued.
Run ==
  \/ FormatPage \/ FormatDone
  \/ GetOpenPG_Present \/ GetOpenPG_Build \/ LpWrite
  \/ DoGC

Next == Run \/ \E lpn \in LP : HostWrite(lpn)

Spec == Init /\ [][Next]_vars

\* The thread does not stop in the middle of a call; the host may stop writing.
FairSpec == Spec /\ WF_vars(Run)
-----------------------------------------------------------------------------
(* Properties *)

Mapped(pg) == {lpn \in LP : l2p_tbl[lpn].pgn = pg}

\* The pages do_gc has collected and not yet copied.
Pending == ToSet(req_list) \cup
             (IF io.type = "RCM_RWR" /\ pc \in {"open", "update", "failed"} THEN {io.lpn} ELSE {})

\* A PG counts exactly the pages the map still sends to it.  CloseToInvalid
\* and the ranking of the close queue trust the counters and never the map.
Accounting ==
  \A pg \in PG :
    /\ pg_list[pg].lp_num = Cardinality(Mapped(pg))
    /\ pg_list[pg].vs_num = SectsPerLp * pg_list[pg].lp_num

\* No page is mapped to a PG that waits on free_pg_que: a PG is released, and
\* its blocks sent to erasure, only once nothing can be read from it.
NoPageInFreePG == \A pg \in PG : pg_list[pg].status = "FREE" => Mapped(pg) = {}

\* Two logical pages never share a sector of a PG, and none lies beyond the
\* write position, however often PGs are filled, reclaimed and opened again.
SectorsDisjoint ==
  \A a \in LP :
    LET va == l2p_tbl[a]
    IN  va.pgn # NoPG =>
          /\ va.ofs + va.len <= pg_list[va.pgn].next_ofs
          /\ \A b \in LP \ {a} :
               LET vb == l2p_tbl[b]
               IN  vb.pgn = va.pgn =>
                     va.ofs + va.len <= vb.ofs \/ vb.ofs + vb.len <= va.ofs

\* Where a PG is follows from its status: in one queue, or in the slot of its
\* type, and nowhere twice.  (BuildPG may lose a PG, but only by failing.)
Occurrences(pg, queue) == Cardinality({i \in DOMAIN queue : queue[i] = pg})
PlaceMatchesStatus ==
  \A pg \in PG :
    LET status == pg_list[pg].status
        here(holds) == IF holds THEN 1 ELSE 0
    IN  /\ Occurrences(pg, free_pg_que) = here(status = "FREE")
        /\ Occurrences(pg, close_pg_que) = here(status = "CLOSE")
        /\ Occurrences(pg, rcm_pg_que) + Occurrences(pg, rcm_cmp_pg_que) = here(status = "RCM")
        /\ \A type \in IoType :
             openpg[type] = pg => status = "OPEN" /\ pg_list[pg].type = type
        /\ status = "OPEN" => openpg[pg_list[pg].type] = pg \/ pc = "failed"

\* The scan of a victim PG misses no page: what is mapped to it lies ahead of
\* the cursor or has been collected and awaits its copy.  A page missed would
\* leave the PG on rcm_cmp_pg_que for ever.
NoPageMissed ==
  \A pg \in PG : pg_list[pg].status = "RCM" =>
    \A lpn \in Mapped(pg) :
      \/ lpn \in Pending
      \/ /\ Contains(rcm_pg_que, pg)
         /\ l2p_tbl[lpn].ofs >= pg_list[pg].next_rewr_pgsect

\* A page do_gc has collected is still mapped to a victim when its copy is
\* written, and is collected once: no copy is made of stale data.
RewritesAreCurrent ==
  /\ \A lpn \in Pending : l2p_tbl[lpn].pgn # NoPG /\ pg_list[l2p_tbl[lpn].pgn].status = "RCM"
  /\ \A i, j \in DOMAIN req_list : i # j => req_list[i] # req_list[j]

\* With the spare PGs of the instance no call reports an error: in particular
\* do_gc, whose copies need free blocks before they yield any, never runs dry.
NeverFails == pc # "failed"

\* ReloadRcmTarget takes a closed PG with the fewest valid sectors, because
\* every change of a closed PG has kept close_pg_que ranked.
VictimIsEmptiest ==
  [][\A pg, other \in PG :
        /\ pg_list[pg].status = "CLOSE" /\ pg_list'[pg].status = "RCM"
        /\ pg_list[other].status = "CLOSE"
        => pg_list[pg].vs_num <= pg_list[other].vs_num]_vars

\* do_gc returns to the host only with the reserve rebuilt (or no closed PG
\* left to take), every victim released and every released block erased.
GcReturnsWithReserve ==
  [][pc' = "idle" /\ pc \in {"geterase", "erase"} =>
        /\ total_free' >= rcm_start_th \/ close_pg_que' = <<>>
        /\ total_invalid' = 0
        /\ \A pg \in PG : pg_list'[pg].status # "RCM"]_vars

\* do_gc ends: its while(1) does not copy the same data round and round.
GcTerminates == pc = "gc" ~> pc = "idle"

\* A victim is released in the end, whatever the host overwrites.
VictimsReleased == \A pg \in PG : pg_list[pg].status = "RCM" ~> pg_list[pg].status = "FREE"

\* The device is a segment log: its counters and queues release a PG exactly
\* when no page lives there any more.
Log == INSTANCE SegmentLog WITH
         Page <- LP, Segment <- PG, Nowhere <- NoPG,
         home <- [lpn \in LP |-> l2p_tbl[lpn].pgn],
         state <- [pg \in PG |-> pg_list[pg].status]
ImplementsLog == Log!LogSpec

\* The counters do_gc steers by are those of a pool that hands out whole PGs
\* and erases what they give up; BlockPool shows the code's queues to be one.
Counts == INSTANCE BlockCounts WITH
            Total <- PbNum, PerPG <- PgPbNum, PerTurn <- MaxErase,
            free <- total_free, invalid <- total_invalid, reserved <- erase_left
ImplementsCounts == Counts!CountsSpec
=============================================================================
