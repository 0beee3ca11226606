-------------------------------- MODULE FtlWl --------------------------------
(***************************************************************************)
(* The wear-levelling translation layer (ssdsim/ftl/ftl_lp_wlctl.cpp):     *)
(* FtlInterfaceWL keeps one open PG for each write attribute and chooses   *)
(* the attribute of every write by the policy wl_type; wf_info keeps for   *)
(* each attribute the write amplification of its last victim and the       *)
(* number of its PGs.  GetOpenPG, OpenToClose and ReloadRcmTarget are      *)
(* overridden; everything else, the device above included, is inherited.   *)
(*                                                                         *)
(* The slots of FtlInterface (openpg) stay empty.  wl_type is protected    *)
(* and set by Init alone, to WL_ROUNDROBIN, so it is a constant here; the  *)
(* other policies are translated and not run.                              *)
(***************************************************************************)
EXTENDS Ssd

CONSTANTS
  WlNum,      \* FTL_OPENPG_WL_NUM, and the attribute of a page without a PG
  WlType,     \* wl_type
  RcmMod      \* rcm_count is kept modulo this (256: it is an uchar)

\* GetOpenPG_Num, which the inherited reserve is computed from.
GetOpenPG_Num == IF WlType = "WL_RCM_FIX" THEN 3 ELSE WlNum

ASSUME WlAssumption ==
  /\ OpenPgNum = GetOpenPG_Num
  /\ WlNum \in Nat /\ WlNum >= 3       \* checked by Init
  /\ WlType \in {"WL_PROPOSE", "WL_STEPPING", "WL_RCM_FIX", "WL_ROUNDROBIN"}
  /\ RcmMod \in Nat \ {0}

Attr == 0..(WlNum - 1)

VARIABLES
  wl_openpg,    \* attribute -> the PG open for it
  attr,         \* PG -> PG_INFO::attr
  rcm_count,    \* page -> VPA_INFO::rcm_count, copies since the last host write
  victim_vs,    \* attribute -> vs_num of its last victim; -1 before (wf_info.wa)
  pgnum,        \* attribute -> wf_info.pgnum
  dst           \* the PG GetOpenPG has answered

wfVars == <<wl_openpg, attr, rcm_count, victim_vs, pgnum>>
wlVars == <<vars, wfVars, dst>>

\* FtlInterfaceWL::Init, and InitFTL for the rest.  (The counts of a page
\* without a place are never read before a host write has reset them.)
WlInit ==
  /\ Init
  /\ wl_openpg = [a \in Attr |-> NoPG]
  /\ attr = [pg \in PG |-> 0]
  /\ rcm_count = [lpn \in LP |-> 0]
  /\ victim_vs = [a \in Attr |-> -1]
  /\ pgnum = [a \in Attr |-> 0]
  /\ dst = NoPG

-----------------------------------------------------------------------------
(* GetOpenPG *)

Assigned(lpn) == l2p_tbl[lpn].pgn # NoPG
CurAttr(lpn) == IF Assigned(lpn) THEN attr[l2p_tbl[lpn].pgn] ELSE WlNum

\* The class a copy moves to; the last one is kept for first writes.
Colder(a) == IF a < WlNum - 2 THEN a + 1 ELSE a

\* wf_info[a].wa < n, where wa is pg_cw_num / (pg_cw_num - vs_num) of the last
\* victim, and 0 before there was one.
WaBelow(a, n) ==
  IF victim_vs[a] = -1 THEN 0 < n ELSE PgCwNum < n * (PgCwNum - victim_vs[a])

\* rcm_count once GetOpenPG has counted the write.
Counted(type, lpn) == IF type = "HOST_WR" THEN 0 ELSE (rcm_count[lpn] + 1) % RcmMod

\* nxt_attr for a host write and for a copy.  The index of WL_ROUNDROBIN is a
\* static variable, which every drive advances: it may stand anywhere.
HostAttrs(lpn) ==
  CASE WlType = "WL_PROPOSE"    -> {IF CurAttr(lpn) # 0 THEN CurAttr(lpn) - 1 ELSE 0}
    [] WlType = "WL_ROUNDROBIN" -> Attr
    [] OTHER                     -> {IF Assigned(lpn) THEN 0 ELSE WlNum - 1}
RcmAttrs(lpn) ==
  LET cur == CurAttr(lpn)
  IN  CASE WlType = "WL_PROPOSE"    -> {IF WaBelow(cur, Counted("RCM_RWR", lpn))
                                         THEN Colder(cur) ELSE cur}
        [] WlType = "WL_STEPPING"   -> {Colder(cur)}
        [] WlType = "WL_ROUNDROBIN" -> Attr
        [] OTHER                     -> {1}
NextAttrs(type, lpn) == IF type = "HOST_WR" THEN HostAttrs(lpn) ELSE RcmAttrs(lpn)

\* GetOpenPG with the slot of attribute a occupied,
WlGetOpenPG_Present(a) ==
  /\ pc = "open" /\ a \in NextAttrs(io.type, io.lpn) /\ wl_openpg[a] # NoPG
  /\ rcm_count' = [rcm_count EXCEPT ![io.lpn] = Counted(io.type, io.lpn)]
  /\ dst' = wl_openpg[a] /\ pc' = "update"
  /\ UNCHANGED <<ftlVars, io, fmt_lp, tgt_num, req_list, req_num, erase_left,
                 wl_openpg, attr, victim_vs, pgnum>>

\* Mutant: the PG is opened, and its attribute is not set.
WlGetOpenPG_NoAttr(a) ==
  /\ pc = "open" /\ a \in NextAttrs(io.type, io.lpn) /\ wl_openpg[a] = NoPG
  /\ rcm_count' = [rcm_count EXCEPT ![io.lpn] = Counted(io.type, io.lpn)]
  /\ IF free_pg_que = <<>> THEN UNCHANGED ftlVars
                           ELSE TakePG(io.type) /\ UNCHANGED openpg
  /\ IF free_pg_que # <<>> /\ EnoughFreePB
     THEN /\ dst' = Head(free_pg_que) /\ pc' = "update"
          /\ wl_openpg' = [wl_openpg EXCEPT ![a] = Head(free_pg_que)]
          /\ pgnum' = [pgnum EXCEPT ![a] = @ + 1]
          /\ UNCHANGED attr
     ELSE /\ pc' = "failed"
          /\ UNCHANGED <<dst, wl_openpg, attr, pgnum>>
  /\ UNCHANGED <<io, fmt_lp, tgt_num, req_list, req_num, erase_left, victim_vs>>

\* or with a PG to build, which fails as in FtlInterface.
WlGetOpenPG_Build(a) ==
  /\ pc = "open" /\ a \in NextAttrs(io.type, io.lpn) /\ wl_openpg[a] = NoPG
  /\ rcm_count' = [rcm_count EXCEPT ![io.lpn] = Counted(io.type, io.lpn)]
  /\ IF free_pg_que = <<>> THEN UNCHANGED ftlVars
                           ELSE TakePG(io.type) /\ UNCHANGED openpg
  /\ IF free_pg_que # <<>> /\ EnoughFreePB
     THEN /\ dst' = Head(free_pg_que) /\ pc' = "update"
          /\ wl_openpg' = [wl_openpg EXCEPT ![a] = Head(free_pg_que)]
          /\ attr' = [attr EXCEPT ![Head(free_pg_que)] = a]
          /\ pgnum' = [pgnum EXCEPT ![a] = @ + 1]
     ELSE /\ pc' = "failed"
          /\ UNCHANGED <<dst, wl_openpg, attr, pgnum>>
  /\ UNCHANGED <<io, fmt_lp, tgt_num, req_list, req_num, erase_left, victim_vs>>

-----------------------------------------------------------------------------
(* L2P_Update and do_gc *)

\* SSD::lp_write, with OpenToClose emptying the slot of the attribute and
\* CloseToInvalid (InitPG) resetting the attribute of a PG it releases.
WlLpWrite ==
  /\ pc = "update"
  /\ IF L2P_UpdateError(io.lpn, SectsPerLp, dst)
     THEN pc' = "failed" /\ UNCHANGED <<ftlVars, fmt_lp, wl_openpg, attr>>
     ELSE /\ L2P_Update(io.lpn, SectsPerLp, dst, FALSE)
          /\ wl_openpg' = IF Written(pg_list[dst], io.lpn, SectsPerLp, 0).status = "CLOSE"
                          THEN [wl_openpg EXCEPT ![attr[dst]] = NoPG] ELSE wl_openpg
          /\ attr' = [pg \in PG |-> IF pg_list'[pg].status = "FREE" THEN 0 ELSE attr[pg]]
          /\ fmt_lp' = IF Formatting THEN fmt_lp + 1 ELSE fmt_lp
          /\ pc' = IF Formatting THEN "format"
                   ELSE IF io.type = "HOST_WR" THEN "gc" ELSE "rewrite"
  /\ io' = NoIo /\ dst' = NoPG
  /\ UNCHANGED <<tgt_num, req_list, req_num, erase_left,
                 rcm_count, victim_vs, pgnum>>

\* Mutant: the PG is counted off when the reclamation is refused, too, and twice.
WlReload_Twice ==
  /\ Reload
  /\ LET pg == Last(close_pg_que)
     IN  /\ victim_vs' = [victim_vs EXCEPT ![attr[pg]] = pg_list[pg].vs_num]
         /\ pgnum' = [pgnum EXCEPT ![attr[pg]] = @ - 2]
  /\ UNCHANGED <<wl_openpg, attr, rcm_count, dst>>

\* FtlAsynReqInterfaceWL::ReloadRcmTarget: a victim is recorded and counted off.
WlReload ==
  /\ Reload
  /\ IF pc' = "failed"
     THEN UNCHANGED <<victim_vs, pgnum>>
     ELSE LET pg == Last(close_pg_que)
          IN  /\ victim_vs' = [victim_vs EXCEPT ![attr[pg]] = pg_list[pg].vs_num]
              /\ pgnum' = [pgnum EXCEPT ![attr[pg]] = @ - 1]
  /\ UNCHANGED <<wl_openpg, attr, rcm_count, dst>>

Inherited ==
  /\ \/ FormatPage \/ FormatDone
     \/ \E lpn \in LP : HostWrite(lpn)
     \/ GetReWriteReq \/ ReloadDone
     \/ Collect \/ CollectNextPG \/ CollectDone
     \/ Rewrite \/ RewriteDone
     \/ \E num \in 0..MaxErase : EraseReq(num)
     \/ Erase
  /\ UNCHANGED <<wfVars, dst>>

WlNext ==
  \/ Inherited
  \/ \E a \in Attr : WlGetOpenPG_Present(a) \/ WlGetOpenPG_Build(a)
  \/ WlLpWrite \/ WlReload

WlSpec == WlInit /\ [][WlNext]_wlVars
-----------------------------------------------------------------------------
(* Properties *)

\* Every open PG is in the slot of its attribute, which is where OpenToClose
\* looks for it, and a PG in a slot is open and in no queue.
SlotMatchesAttr ==
  /\ \A a \in Attr : wl_openpg[a] # NoPG =>
       /\ pg_list[wl_openpg[a]].status = "OPEN" /\ attr[wl_openpg[a]] = a
       /\ ~Contains(free_pg_que \o close_pg_que \o rcm_pg_que \o rcm_cmp_pg_que, wl_openpg[a])
  /\ \A pg \in PG : pg_list[pg].status = "OPEN" => wl_openpg[attr[pg]] = pg \/ pc = "failed"
  /\ pc = "update" => wl_openpg[attr[dst]] = dst

\* The PGs of an attribute that have not been reclaimed.
PgsOf(a) == {pg \in PG : attr[pg] = a /\ pg_list[pg].status \in {"OPEN", "CLOSE"}}

\* The average Dump divides by is never too small: victims are counted off
\* under the attribute they were counted on.
PgnumCovers == pc # "failed" => \A a \in Attr : pgnum[a] >= Cardinality(PgsOf(a))
=============================================================================
