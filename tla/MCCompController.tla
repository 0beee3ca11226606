--------------------------- MODULE MCCompController ---------------------------
EXTENDS CompController

\* Bound: a behaviour is followed up to the step that puts the open block on the
\* free list (run cc_lone_rewrite shows what comes of it).
UpToLoneRewrite == OpenBlockKept

\* A free block is told from another by its place on the free list only: what it
\* held is dropped when it is opened again.
Dead(lb) == lbt[lb].state = "LB_FREE" /\ lb # buf.tgt_lgblock /\ ~(pc = "gc" /\ lb = victim)
LiveState ==
  <<lpt, [lb \in {b \in LB : ~Dead(b)} |-> lbt[lb]], free_list, buf, pending_cmd,
    {lb \in destaged : ~Dead(lb)}, pc, host_cmd, lp_list, at, victim, rev_at>>
=============================================================================
