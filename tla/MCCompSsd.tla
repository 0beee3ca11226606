------------------------------ MODULE MCCompSsd ------------------------------
EXTENDS CompSsd

\* Nothing compares PG numbers, so a state may be looked at up to a renaming of
\* the PGs: PGs are numbered by their places in the queues and open slots.
UpToPgNames ==
  LET opened(type) == SelectSeq(<<openpg[type]>>, LAMBDA pg : pg # NoPG)
      places  == free_pg_que \o close_pg_que \o rcm_pg_que \o rcm_cmp_pg_que
                   \o opened("HOST_WR") \o opened("RCM_RWR")
      at(pg)  == {i \in DOMAIN places : places[i] = pg}
  IN  <<[lpn \in LP |-> [l2p_tbl[lpn] EXCEPT !.pgn = at(@)]],
        [i \in DOMAIN places |-> pg_list[places[i]]],
        Len(free_pg_que), Len(close_pg_que), Len(rcm_pg_que), openpg["HOST_WR"] = NoPG,
        total_free, total_invalid, ctlVars, bufVars>>
=============================================================================
