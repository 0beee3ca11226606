------------------------------- MODULE CompSsd -------------------------------
(***************************************************************************)
(* class CompSSD (ssdsim/ssd.cpp), the drive that compresses.  It inherits *)
(* write and do_gc from SSD and overrides lp_write and lp_read:            *)
(*                                                                         *)
(*   - lp_write puts the page into a buffer, one for the host and one for  *)
(*     reclamation, and buffered_data_write empties a buffer that is full; *)
(*   - pages have lengths: what the compression engine answers for the     *)
(*     host, what the map says for a page that is copied;                  *)
(*   - the last page of a flush is padded to a physical page (CA-FTL).     *)
(*                                                                         *)
(* do_gc does not know of the buffers: pages it has copied may still wait  *)
(* in rcm_write_buffer when it returns, their PG stays a victim, and the   *)
(* host may write them again before they are flushed.  Reads are collected *)
(* too: lp_read treats what SSD::write reads of the pages a command covers *)
(* in part like the reads of do_gc, and dispatches both kinds together.    *)
(***************************************************************************)
EXTENDS Ssd

CONSTANTS
  BufferedPageNum,   \* buffered_page_num
  Lengths,           \* sectors a logical page can compress to
  FormatLen,         \* FTL_SECTS_PER_LP * avg_cmp_ratio, truncated
  AlignToPp,         \* align_type = A_CA_FTL
  ReadBatch          \* reads that are dispatched together (10)

ASSUME CompAssumption ==
  /\ BufferedPageNum \in Nat \ {0} /\ ReadBatch \in Nat \ {0}
  /\ Lengths \subseteq 1..SectsPerLp /\ Lengths # {}
  /\ FormatLen \in 0..SectsPerLp
  /\ AlignToPp \in BOOLEAN

VARIABLES
  write_buffer,       \* pages the host has written, not yet flushed
  rcm_write_buffer,   \* pages do_gc has copied, not yet flushed
  rcm_read_buffer,    \* pages read for a copy or a write since the last dispatch
  len_list,           \* lengths of the pages the flush has still to write
  end_lp              \* the page the write in work ends in and has to read;
                      \* LpNum if it ends with a page

bufVars == <<write_buffer, rcm_write_buffer, rcm_read_buffer, len_list, end_lp>>
compVars == <<vars, bufVars>>

CompInit ==
  /\ Init
  /\ write_buffer = <<>> /\ rcm_write_buffer = <<>> /\ rcm_read_buffer = <<>>
  /\ len_list = <<>> /\ end_lp = LpNum

-----------------------------------------------------------------------------
(* lp_read of any type but FMT_HOST_RD: reads for do_gc and for SSD::write *)

\* Mutant: the page a group begins in is not counted.
PagesBetween_Short(first, last) ==
  (last.ofs + last.len) \div SectsPerPp - first.ofs \div SectsPerPp

\* The physical pages from the start of one logical page to the end of another;
\* a place is a VPA.
PagesBetween(first, last) ==
  1 + (last.ofs + last.len) \div SectsPerPp - first.ofs \div SectsPerPp

\* The next page continues the group when it begins in the physical page the
\* one before it ends in.
Continues(last, next) ==
  /\ next.pgn = last.pgn
  /\ next.ofs \div SectsPerPp = (last.ofs + last.len) \div SectsPerPp

\* The next read makes the buffer full.
LastOfBatch == Len(rcm_read_buffer) + 1 >= ReadBatch

\* The page joins the buffer, and a full buffer is dispatched and cleared.
RcmRead(lpn) ==
  rcm_read_buffer' = IF LastOfBatch THEN <<>> ELSE Append(rcm_read_buffer, lpn)

\* What a dispatch is charged: the physical pages read, where the pages are now.
RcmReadPages(lpns) ==
  LET at(i)  == l2p_tbl[lpns[i]]
      begin  == {i \in DOMAIN lpns : i = 1 \/ ~Continues(at(i - 1), at(i))}
      end(i) == Min({j \in i..Len(lpns) : j = Len(lpns) \/ j + 1 \in begin})
  IN  MapThenSumSet(LAMBDA i : PagesBetween(at(i), at(end(i))), begin)

-----------------------------------------------------------------------------
(* lp_write and buffered_data_write *)

Buffer(type) == IF type = "HOST_WR" THEN write_buffer ELSE rcm_write_buffer

\* A buffer with its last page in it is flushed at once.
Full(buffer) == Len(buffer) = BufferedPageNum

\* Where the thread goes on after an lp_write.
AfterLpWrite(type) == IF type = "HOST_WR" THEN "gc" ELSE "rewrite"

\* CompEngine::get_next_ratio, rounded up to sectors.  The engine goes round
\* its trace, which other drives advance too: any length may come next.
get_next_length == Lengths

\* len_list of a flush: for a copy the lengths the map has when it begins.
FlushLengths(type, buffer) ==
  IF type = "HOST_WR" THEN [1..Len(buffer) -> get_next_length]
                      ELSE {[i \in 1..Len(buffer) |-> l2p_tbl[buffer[i]].len]}

\* lp_write: the page joins buffer, and a full buffer is flushed from its
\* first page on.
Push(type, lpn, buffer) ==
  LET pushed == Append(buffer, lpn)
  IN  IF Full(pushed)
      THEN /\ pc' = "open" /\ io' = [type |-> type, lpn |-> pushed[1]]
           /\ len_list' \in FlushLengths(type, pushed)
      ELSE /\ pc' = AfterLpWrite(type) /\ io' = NoIo
           /\ UNCHANGED len_list

\* A turn of the loop of SSD::write up to do_gc.  The first page is read before
\* if the write covers it in part (rmw_start); the last turn may leave a part of
\* the next page, which is read after the loop (rmw_end).
CompHostWrite(lpn) ==
  /\ pc = "idle" /\ end_lp = LpNum
  /\ RcmRead(lpn) \/ UNCHANGED rcm_read_buffer
  /\ end_lp' \in {lpn + 1, LpNum}
  /\ write_buffer' = Append(write_buffer, lpn)
  /\ Push("HOST_WR", lpn, write_buffer)
  /\ UNCHANGED <<ftlVars, fmt_lp, tgt_num, req_list, req_num, erase_left,
                 rcm_write_buffer>>

\* SSD::write after its loop: lp_read succeeds, so lp_write is not called.
CompReadEnd ==
  /\ pc = "idle" /\ end_lp # LpNum
  /\ RcmRead(end_lp)
  /\ end_lp' = LpNum
  /\ UNCHANGED <<vars, write_buffer, rcm_write_buffer, len_list>>

\* The loop over req_list: lp_read, then lp_write, of one request.
CompRewrite ==
  /\ pc = "rewrite" /\ req_list # <<>>
  /\ LET lpn == Head(req_list)
     IN  /\ RcmRead(lpn)
         /\ rcm_write_buffer' = Append(rcm_write_buffer, lpn)
         /\ Push("RCM_RWR", lpn, rcm_write_buffer)
  /\ req_list' = Tail(req_list)
  /\ UNCHANGED <<ftlVars, fmt_lp, tgt_num, req_num, erase_left, write_buffer, end_lp>>

UpdateLen == IF Formatting THEN FormatLen ELSE Head(len_list)

\* Mutant: the loop of a flush ends one page early.
LastOfFlush_Early == Len(len_list) <= 2
\* No page of the buffer is left after this one.
LastOfFlush == Len(len_list) = 1
Aligned == AlignToPp /\ ~Formatting /\ LastOfFlush

\* The next page of the flush, or the end of it: the buffer is cleared.
FlushNext ==
  IF LastOfFlush
  THEN /\ pc' = AfterLpWrite(io.type) /\ io' = NoIo
       /\ write_buffer' = IF io.type = "HOST_WR" THEN <<>> ELSE write_buffer
       /\ rcm_write_buffer' = IF io.type = "RCM_RWR" THEN <<>> ELSE rcm_write_buffer
  ELSE /\ pc' = "open"
       /\ io' = [io EXCEPT !.lpn = Buffer(io.type)[Len(Buffer(io.type)) + 2 - Len(len_list)]]
       /\ UNCHANGED <<write_buffer, rcm_write_buffer>>

\* Format and buffered_data_write: L2P_Update of one page.
CompUpdate ==
  /\ pc = "update"
  /\ IF L2P_UpdateError(io.lpn, UpdateLen, openpg[io.type])
     THEN /\ pc' = "failed" /\ io' = NoIo /\ len_list' = <<>>
          /\ UNCHANGED <<ftlVars, fmt_lp, write_buffer, rcm_write_buffer>>
     ELSE /\ L2P_Update(io.lpn, UpdateLen, openpg[io.type], Aligned)
          /\ IF Formatting
             THEN /\ pc' = "format" /\ io' = NoIo /\ fmt_lp' = fmt_lp + 1
                  /\ UNCHANGED <<write_buffer, rcm_write_buffer, len_list>>
             ELSE /\ FlushNext /\ len_list' = Tail(len_list)
                  /\ UNCHANGED fmt_lp
  /\ UNCHANGED <<tgt_num, req_list, req_num, erase_left, rcm_read_buffer, end_lp>>

\* What CompSSD inherits.
Inherited ==
  /\ \/ FormatPage \/ FormatDone
     \/ GetOpenPG_Present \/ GetOpenPG_Build
     \/ GetReWriteReq \/ Reload \/ ReloadDone
     \/ Collect \/ CollectNextPG \/ CollectDone
     \/ RewriteDone
     \/ \E num \in 0..MaxErase : EraseReq(num)
     \/ Erase
  /\ UNCHANGED bufVars

CompNext ==
  \/ Inherited
  \/ CompRewrite \/ CompUpdate \/ CompReadEnd
  \/ \E lpn \in LP : CompHostWrite(lpn)

CompSpec == CompInit /\ [][CompNext]_compVars
-----------------------------------------------------------------------------
(* Properties *)

\* The valid sectors of a PG, each as a page and a number within the page.
ValidSectors(pg) ==
  {s \in LP \X (0..(SectsPerLp - 1)) : l2p_tbl[s[1]].pgn = pg /\ s[2] < l2p_tbl[s[1]].len}

\* vs_num counts the valid sectors of a PG, as many as the pages mapped to it are
\* long, whatever lengths they had when they were written, copied and overwritten.
CompAccounting ==
  \A pg \in PG :
    /\ pg_list[pg].lp_num = Cardinality(Mapped(pg))
    /\ pg_list[pg].vs_num = Cardinality(ValidSectors(pg))

\* The pages do_gc has collected and whose copy is not yet in the map.
CompPending == ToSet(req_list) \cup ToSet(rcm_write_buffer)

\* A page of a victim is ahead of the scan, collected, or in the buffer.
\* Padding and lengths make the offsets the scan adds up; one sector off and a
\* page is overlooked and its PG never released.
CompNoPageMissed ==
  \A pg \in PG : pg_list[pg].status = "RCM" =>
    \A lpn \in Mapped(pg) :
      \/ lpn \in CompPending
      \/ /\ Contains(rcm_pg_que, pg)
         /\ l2p_tbl[lpn].ofs >= pg_list[pg].next_rewr_pgsect

\* do_gc leaves victims behind, but only as many as the buffer has pages, each
\* one scanned to its end and waiting for a page of the buffer.
VictimsWaitForBuffer ==
  pc = "idle" =>
    LET victims == {pg \in PG : pg_list[pg].status = "RCM"}
    IN  /\ rcm_pg_que = <<>>
        /\ \A pg \in victims : Mapped(pg) # {} /\ Mapped(pg) \subseteq ToSet(rcm_write_buffer)
        /\ Cardinality(victims) < BufferedPageNum

\* The physical pages charged to a dispatch of reads are at least those that
\* hold a sector of the pages read, and at most one more for each of these than
\* it has sectors in.  The dispatch mixes reads of do_gc and of host writes, in
\* any order and a page twice, and goes by where the pages are by then: a page
\* may have moved since it joined the buffer.
Touched(lpn) ==
  LET vpa == l2p_tbl[lpn]
  IN  {<<vpa.pgn, (vpa.ofs + i) \div SectsPerPp>> : i \in 0..(vpa.len - 1)}
NextReads ==
  CASE pc = "idle" /\ end_lp = LpNum    -> LP
    [] pc = "idle" /\ end_lp # LpNum    -> {end_lp}
    [] pc = "rewrite" /\ req_list # <<>> -> {Head(req_list)}
    [] OTHER                            -> {}
RcmReadCostBounded ==
  LastOfBatch =>
    \A lpn \in NextReads :
      LET lpns   == Append(rcm_read_buffer, lpn)
          read   == RcmReadPages(lpns)
          single == MapThenSumSet(LAMBDA i : Cardinality(Touched(lpns[i])) + 1, DOMAIN lpns)
      IN  /\ Cardinality(UNION {Touched(lpns[i]) : i \in DOMAIN lpns}) <= read
          /\ read <= single

=============================================================================
