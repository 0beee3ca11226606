------------------------------ MODULE CloseQueue ------------------------------
(***************************************************************************)
(* The device with its close queue as the code keeps it: the PGs linked by *)
(* the pointers of pbque.h, which the methods of FtlInterface splice.      *)
(* Module Ftl holds the same queue as the sequence close_pg_que; a step    *)
(* here is a step of Ssd together with the calls the code makes on the     *)
(* pointers in it, so that the two can be compared.                        *)
(***************************************************************************)
EXTENDS Ssd

VARIABLE close_links     \* apg.close_pg_que and PG_INFO::que

Que == INSTANCE PbQue WITH Items <- PG, Begin <- PgNum, End <- PgNum + 1, Null <- NoPG

linkVars == <<vars, close_links>>

LinkInit == Init /\ close_links = Que!init_que_head

\* The search of UpdateCloseRanking along the pointers of q, from first towards
\* the end: past the PGs with more valid sectors than pg.
StopFrom(q, first, pg, pgs) ==
  LET stop[pos \in {n \in Que!Nodes : Que!is_que_end(n) \/ q.linked[n]}] ==
        IF Que!is_que_end(pos) \/ pgs[pg].vs_num >= pgs[pos].vs_num
        THEN pos ELSE stop[q.bck[pos]]
  IN  stop[first]

\* UpdateCloseRanking: pg is taken out, if it is in, and the search goes from
\* its old neighbour towards the end.
LinkRanking(q, pg, pgs) ==
  LET first == IF q.linked[pg] THEN q.bck[pg] ELSE Que!begin_item(q)
      out   == IF q.linked[pg] THEN Que!remove_item(q, pg) ELSE q
  IN  Que!insert_forward(out, StopFrom(out, first, pg, pgs), pg)

\* Mutant: the PG is ranked before its page is taken off.
LinkUpdate_Early(q) ==
  LET lpn     == io.lpn
      dst     == openpg[io.type]
      old     == l2p_tbl[lpn]
      written == [pg_list EXCEPT ![dst] = Written(@, lpn, SectsPerLp, 0)]
      closed  == IF written[dst].status = "CLOSE" THEN LinkRanking(q, dst, written) ELSE q
      left    == [written EXCEPT ![old.pgn] = Released(@, old.len)]
  IN  IF old.pgn = NoPG \/ left[old.pgn].status # "CLOSE" THEN closed
      ELSE IF left[old.pgn].vs_num # 0 THEN LinkRanking(closed, old.pgn, written)
      ELSE Que!remove_item(closed, old.pgn)

\* What L2P_Update does to the pointers: OpenToClose ranks the PG it has
\* written, then the PG the page comes from is ranked again, or taken out by
\* CloseToInvalid.
LinkUpdate(q) ==
  LET lpn     == io.lpn
      dst     == openpg[io.type]
      old     == l2p_tbl[lpn]
      written == [pg_list EXCEPT ![dst] = Written(@, lpn, SectsPerLp, 0)]
      closed  == IF written[dst].status = "CLOSE" THEN LinkRanking(q, dst, written) ELSE q
      left    == [written EXCEPT ![old.pgn] = Released(@, old.len)]
  IN  IF old.pgn = NoPG \/ left[old.pgn].status # "CLOSE" THEN closed
      ELSE IF left[old.pgn].vs_num # 0 THEN LinkRanking(closed, old.pgn, left)
      ELSE Que!remove_item(closed, old.pgn)

LinkLpWrite ==
  /\ LpWrite
  /\ close_links' = IF pc' = "failed" THEN close_links ELSE LinkUpdate(close_links)

\* ReloadRcmTarget takes the item at the end.
LinkReload ==
  /\ Reload
  /\ close_links' = Que!remove_item(close_links, Que!end_item(close_links))

LinkOther ==
  /\ \/ FormatPage \/ FormatDone
     \/ \E lpn \in LP : HostWrite(lpn)
     \/ GetOpenPG_Present \/ GetOpenPG_Build
     \/ GetReWriteReq \/ ReloadDone
     \/ Collect \/ CollectNextPG \/ CollectDone
     \/ Rewrite \/ RewriteDone
     \/ \E num \in 0..MaxErase : EraseReq(num)
     \/ Erase
  /\ UNCHANGED close_links

LinkNext == LinkLpWrite \/ LinkReload \/ LinkOther

LinkSpec == LinkInit /\ [][LinkNext]_linkVars
-----------------------------------------------------------------------------
(* Properties *)

\* The pointers are those of close_pg_que, both ways, in the same order: a PG
\* unhooked on one side only, ranked with a stale count or taken from the wrong
\* end would leave a queue that ends early, goes round, or yields a bad victim.
LinksMatchQueue == Que!Holds(close_links, close_pg_que, Len(close_pg_que))
=============================================================================
