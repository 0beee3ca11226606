----------------------------- MODULE MCCloseQueue -----------------------------
EXTENDS CloseQueue

\* Nothing compares PG numbers, so a state may be looked at up to a renaming of
\* the PGs: PGs are numbered by their places in the queues and open slots.  The
\* pointers follow from the queues as long as they match them.
Slots == [type \in IoType |-> IF openpg[type] = NoPG THEN <<>> ELSE <<openpg[type]>>]
Places == free_pg_que \o close_pg_que \o rcm_pg_que \o rcm_cmp_pg_que
            \o Slots["HOST_WR"] \o Slots["RCM_RWR"]
PlaceOf(pg) == IF Contains(Places, pg) THEN SelectInSeq(Places, LAMBDA q : q = pg) ELSE 0
UpToPgNames ==
  <<[lpn \in LP |-> [l2p_tbl[lpn] EXCEPT !.pgn = PlaceOf(@)]],
    [i \in DOMAIN Places |-> pg_list[Places[i]]],
    Len(free_pg_que), Len(close_pg_que), Len(rcm_pg_que), Slots["HOST_WR"] = <<>>,
    total_free, total_invalid, ctlVars, LinksMatchQueue>>
=============================================================================
