------------------------------- MODULE MCFtlWl -------------------------------
EXTENDS FtlWl

CONSTANTS MaxPgnum, MaxRcm   \* bounds of two counters

Bounded == /\ \A a \in Attr : pgnum[a] <= MaxPgnum
           /\ \A lpn \in LP : rcm_count[lpn] <= MaxRcm

\* A state up to a renaming of the PGs, which nothing compares: they are
\* numbered by their places in the queues and slots.
Slot[a \in 0..WlNum] ==
  IF a = 0 THEN <<>> ELSE Slot[a - 1] \o (IF wl_openpg[a - 1] = NoPG THEN <<>>
                                                              ELSE <<wl_openpg[a - 1]>>)
Places == free_pg_que \o close_pg_que \o rcm_pg_que \o rcm_cmp_pg_que \o Slot[WlNum]
PlaceOf(pg) == IF Contains(Places, pg) THEN SelectInSeq(Places, LAMBDA q : q = pg) ELSE 0

\* Nothing reads rcm_count and the victims' vs_num but WL_PROPOSE.
UpToPgNames ==
  <<[lpn \in LP |-> [l2p_tbl[lpn] EXCEPT !.pgn = PlaceOf(@)]],
    [i \in DOMAIN Places |-> <<pg_list[Places[i]], attr[Places[i]]>>],
    Len(free_pg_que), Len(close_pg_que), Len(rcm_pg_que), PlaceOf(dst),
    [a \in Attr |-> wl_openpg[a] = NoPG], total_free, total_invalid, ctlVars, pgnum,
    IF WlType = "WL_PROPOSE" THEN <<rcm_count, victim_vs>> ELSE <<>>>>
=============================================================================
