---------------------------- MODULE CompController ----------------------------
(***************************************************************************)
(* class CompController (controller.cpp): the controller that compresses.  *)
(* A page of the host is compressed and appended to the open log block; a  *)
(* full log block is closed and written to the RAID group whole; do_gc     *)
(* makes a closed block free again by appending its live pages elsewhere.  *)
(* Raid5 models what raid_translation makes of the commands queued here;   *)
(* the reads among them (lp_read) change nothing and are left out.         *)
(***************************************************************************)
EXTENDS Integers, FiniteSets, SequencesExt

CONSTANTS
  LbNum,        \* lb_num, the log blocks of the group
  LbSize,       \* lb_size, the sectors of a log block
  LpNum,        \* lp_num, the pages of the host
  LpSize,       \* lp_size, the sectors of a page
  AvgLen,       \* lp_size * avg_comp_ratio: what a page takes at first
  Lengths,      \* what a page may take later (do_compression)
  GcThreshold,  \* gc_threshold, lb_num / 100 in the code
  MaxSectors    \* bound: the longest host command

LB == 0..(LbNum - 1)
LP == 0..(LpNum - 1)
PagesPerLB == LbSize \div AvgLen
FirstOpen == (LpNum - 1) \div PagesPerLB   \* the block open after init

ASSUME CompAssumption ==
  /\ {LbNum, LbSize, LpNum, LpSize, AvgLen} \subseteq Nat \ {0}
  /\ LbSize % LpSize = 0 /\ AvgLen <= LpSize
  /\ Lengths \subseteq 1..LpSize /\ Lengths # {}
  /\ FirstOpen \in LB
  /\ GcThreshold \in Nat /\ MaxSectors \in Nat

VARIABLES
  lpt,          \* the place of each page
  lbt,          \* the log blocks
  free_list,    \* free log blocks, in order of use
  buf,          \* the open log block and where its next page goes
  pending_cmd,  \* log blocks queued for writing to the group, not yet pulled
  pc,           \* idle, pages (of the host command), gc, or failed
  host_cmd,     \* the host command in work
  lp_list,      \* its pages (LPCMD)
  at,           \* how many of them are done
  victim,       \* the block do_gc is at
  rev_at,       \* how much of its rev_map is done
  destaged      \* history: the closed blocks written since they were opened

store == <<lpt, lbt, free_list, buf, pending_cmd, destaged>>
vars == <<store, pc, host_cmd, lp_list, at, victim, rev_at>>

NoCmd == [opcode |-> "IO_READ", lba |-> 0, sector_num |-> 0]
HostCommands ==
  {cmd \in [opcode : {"IO_READ", "IO_WRITE"}, lba : 0..(LpNum * LpSize),
            sector_num : 0..MaxSectors] : cmd.lba + cmd.sector_num <= LpNum * LpSize}
LPMAP == [lb_id : LB, ofs : 0..(LbSize - 1), len : 1..LpSize]
REVMAP == [ofs : 0..(LbSize - 1), lpn : LP]
LOGBLOCK == [state : {"LB_FREE", "LB_OPEN", "LB_CLOSE"}, free_sector_num : 0..LbSize,
             rev_map : Seq(REVMAP)]
LPCMD == [lpn : LP, rmw_needed : BOOLEAN]

CompTypeOK ==
  /\ lpt \in [LP -> LPMAP] /\ lbt \in [LB -> LOGBLOCK]
  /\ free_list \in Seq(LB)
  /\ buf \in [tgt_lgblock : LB, cur_sector : 0..LbSize]
  /\ pending_cmd \in Seq(LB)
  /\ pc \in {"idle", "pages", "gc", "failed"}
  /\ host_cmd \in HostCommands /\ lp_list \in Seq(LPCMD) /\ at \in 0..Len(lp_list)
  /\ victim \in LB /\ rev_at \in Nat /\ destaged \subseteq LB

\* init: the pages are laid out in order, AvgLen each.  The blocks it fills are
\* taken to be on the drives (destage_tgt.clear()); block 0 becomes LB_OPEN
\* nowhere, so that it is still LB_FREE if it is the one left open.
Init ==
  /\ lpt = [lp \in LP |-> [lb_id |-> lp \div PagesPerLB,
                           ofs |-> (lp % PagesPerLB) * AvgLen, len |-> AvgLen]]
  /\ lbt = [lb \in LB |->
       LET pages == {lp \in LP : lp \div PagesPerLB = lb}
       IN  [state |-> IF lb < FirstOpen THEN "LB_CLOSE"
                      ELSE IF lb = FirstOpen /\ lb # 0 THEN "LB_OPEN" ELSE "LB_FREE",
            free_sector_num |-> LbSize - Cardinality(pages) * AvgLen,
            rev_map |-> [i \in 1..Cardinality(pages) |->
                           [ofs |-> (i - 1) * AvgLen, lpn |-> lb * PagesPerLB + i - 1]]]]
  /\ free_list = [i \in 1..(LbNum - 1 - FirstOpen) |-> FirstOpen + i]
  /\ buf = [tgt_lgblock |-> FirstOpen,
            cur_sector |-> (LpNum - FirstOpen * PagesPerLB) * AvgLen]
  /\ pending_cmd = <<>> /\ pc = "idle"
  /\ host_cmd = NoCmd /\ lp_list = <<>> /\ at = 0
  /\ victim = 0 /\ rev_at = 0
  /\ destaged = 0..(FirstOpen - 1)

-----------------------------------------------------------------------------
(* Pages.                                                                    *)

\* extract_hcmd_to_lp, one turn of its loop: s has the sector reached and the
\* sectors left.
LpCmd(sect, len) ==
  [lpn |-> sect \div LpSize,
   rmw_needed |-> \/ sect % LpSize # 0
                  \/ sect \div LpSize = (sect + len) \div LpSize]

extract_hcmd_to_lp(cmd) ==
  LET turn[n \in 0..cmd.sector_num] ==
        IF n = 0 THEN [sect |-> cmd.lba, len |-> cmd.sector_num, list |-> <<>>]
        ELSE LET s == turn[n - 1]
                 next_sect == (s.sect \div LpSize + 1) * LpSize
             IN  IF s.len = 0 THEN s
                 ELSE [sect |-> next_sect,
                       len  |-> IF s.sect \div LpSize = (s.sect + s.len) \div LpSize
                                THEN 0 ELSE s.len - (next_sect - s.sect),
                       list |-> Append(s.list, LpCmd(s.sect, s.len))]
  IN  turn[cmd.sector_num].list

is_buf_full(length) == buf.cur_sector + length > LbSize

\* What lp_write works on: the blocks, the free ones, the open one, and the
\* blocks closed on the way (destage_tgt, which is empty outside lp_write).
Blocks == [lbt |-> lbt, free_list |-> free_list, buf |-> buf, destage_tgt |-> <<>>]

\* close_buf_and_open_next, when there is a free block.
\* Mutant: the closed block is not destaged.
OpenNext_NoDestage(s) ==
  LET lb == Head(s.free_list)
  IN  [s EXCEPT !.lbt[s.buf.tgt_lgblock].state = "LB_CLOSE",
                !.lbt[lb] = [state |-> "LB_OPEN", free_sector_num |-> LbSize, rev_map |-> <<>>],
                !.free_list = Tail(@), !.buf = [tgt_lgblock |-> lb, cur_sector |-> 0]]

OpenNext(s) ==
  LET lb == Head(s.free_list)
  IN  [s EXCEPT !.lbt[s.buf.tgt_lgblock].state = "LB_CLOSE",
                !.lbt[lb] = [state |-> "LB_OPEN", free_sector_num |-> LbSize, rev_map |-> <<>>],
                !.free_list = Tail(@), !.buf = [tgt_lgblock |-> lb, cur_sector |-> 0],
                !.destage_tgt = Append(@, s.buf.tgt_lgblock)]

\* The reverse map of the open block learns the page.
\* Mutant: it does not.
AddRevMap_None(s, lp) == s
AddRevMap(s, lp) ==
  [s EXCEPT !.lbt[s.buf.tgt_lgblock].rev_map =
              Append(@, [ofs |-> s.buf.cur_sector, lpn |-> lp])]

\* The old place of the page is given back; a block that has nothing else is free.
\* Mutant: one sector is given back, whatever the page took.
Invalidate_One(s, old) ==
  LET freed == s.lbt[old.lb_id].free_sector_num + 1
      t == [s EXCEPT !.lbt[old.lb_id].free_sector_num = freed]
  IN  IF freed = LbSize
      THEN [t EXCEPT !.lbt[old.lb_id].state = "LB_FREE", !.free_list = Append(@, old.lb_id)]
      ELSE t

Invalidate(s, old) ==
  LET freed == s.lbt[old.lb_id].free_sector_num + old.len
      t == [s EXCEPT !.lbt[old.lb_id].free_sector_num = freed]
  IN  IF freed = LbSize
      THEN [t EXCEPT !.lbt[old.lb_id].state = "LB_FREE", !.free_list = Append(@, old.lb_id)]
      ELSE t

\* Mutant: the place of the next page is not moved on by the whole of it.
Charge_Short(s, length) ==
  [s EXCEPT !.buf.cur_sector = @ + 1,
            !.lbt[s.buf.tgt_lgblock].free_sector_num = @ - length]

\* The open block is charged for the new copy.
Charge(s, length) ==
  [s EXCEPT !.buf.cur_sector = @ + length,
            !.lbt[s.buf.tgt_lgblock].free_sector_num = @ - length]

NoFreeBlock(length) == is_buf_full(length) /\ free_list = <<>>

\* lp_write up to "invalidate old data".
Placed(lp, length) ==
  AddRevMap(IF is_buf_full(length) THEN OpenNext(Blocks) ELSE Blocks, lp)

\* The check "size violation" of lp_write.
SizeViolation(lp, length) ==
  /\ ~NoFreeBlock(length)
  /\ Placed(lp, length).lbt[lpt[lp].lb_id].free_sector_num + lpt[lp].len > LbSize

\* lp_write of page lp, compressed to length.
lp_write(lp, length) ==
  /\ ~NoFreeBlock(length) /\ ~SizeViolation(lp, length)
  /\ LET s == Placed(lp, length)
         t == Charge(Invalidate(s, lpt[lp]), length)
     IN  /\ lpt' = [lpt EXCEPT ![lp] = [lb_id |-> s.buf.tgt_lgblock,
                                        ofs |-> s.buf.cur_sector, len |-> length]]
         /\ lbt' = t.lbt /\ free_list' = t.free_list /\ buf' = t.buf
         /\ pending_cmd' = pending_cmd \o t.destage_tgt
         /\ destaged' = (destaged \ {t.buf.tgt_lgblock}) \cup ToSet(t.destage_tgt)

\* The locals of receive_command and do_gc are gone when they return.
Return ==
  /\ pc' = "idle" /\ host_cmd' = NoCmd /\ lp_list' = <<>> /\ at' = 0
  /\ victim' = 0 /\ rev_at' = 0
  /\ UNCHANGED store

\* lp_write stops with an error, which ends the simulation:
\* what it has changed before is not looked at again.
LpWriteFails(lp, length) == NoFreeBlock(length) \/ SizeViolation(lp, length)
Fail ==
  /\ pc' = "failed"
  /\ UNCHANGED <<store, host_cmd, lp_list, at, victim, rev_at>>
-----------------------------------------------------------------------------
(* A host command, page by page (receive_command).                           *)

receive_command(cmd) ==
  /\ pc = "idle" /\ pending_cmd = <<>>   \* the driver has pulled everything
  /\ host_cmd' = cmd /\ lp_list' = extract_hcmd_to_lp(cmd) /\ at' = 0
  /\ pc' = "pages"
  /\ UNCHANGED <<store, victim, rev_at>>

Page == lp_list[at + 1].lpn
InPages == pc = "pages" /\ at < Len(lp_list)

ReadPage ==
  /\ InPages /\ host_cmd.opcode = "IO_READ"
  /\ at' = at + 1
  /\ UNCHANGED <<store, pc, host_cmd, lp_list, victim, rev_at>>

WritePage(length) ==
  /\ InPages /\ host_cmd.opcode = "IO_WRITE"
  /\ IF LpWriteFails(Page, length) THEN Fail
     ELSE /\ lp_write(Page, length)
          /\ at' = at + 1
          /\ UNCHANGED <<pc, host_cmd, lp_list, victim, rev_at>>

PagesDone ==
  /\ pc = "pages" /\ at = Len(lp_list) /\ Len(free_list) >= GcThreshold
  /\ Return

-----------------------------------------------------------------------------
(* do_gc.  lb_list is ordered by state, closed blocks first, then by free    *)
(* sectors, most first; which of equals comes first is left open.            *)

StateRank == [LB_FREE |-> 0, LB_OPEN |-> 1, LB_CLOSE |-> 2]
\* Mutant: the blocks are ordered by their free sectors alone.
Before_AnyState(a, b) == lbt[a].free_sector_num > lbt[b].free_sector_num

Before(a, b) ==
  \/ StateRank[lbt[a].state] > StateRank[lbt[b].state]
  \/ lbt[a].state = lbt[b].state /\ lbt[a].free_sector_num > lbt[b].free_sector_num
FirstsOf(blocks) == {lb \in blocks : \A other \in blocks : ~Before(other, lb)}

\* The loop comes to one of the first of blocks; it fails at one that cannot
\* be reclaimed.
Reclaimable(lb) == lbt[lb].state = "LB_CLOSE" /\ lbt[lb].free_sector_num # 0
GcAt(blocks) ==
  \E lb \in FirstsOf(blocks) :
    IF Reclaimable(lb)
    THEN /\ victim' = lb /\ rev_at' = 0 /\ pc' = "gc"
         /\ UNCHANGED <<store, host_cmd, lp_list, at>>
    ELSE Fail

GcStart ==
  /\ pc = "pages" /\ at = Len(lp_list) /\ Len(free_list) < GcThreshold
  /\ GcAt(LB)

\* Mutant: the last entry of the reverse map is left out.
InVictim_Short == pc = "gc" /\ rev_at + 1 < Len(lbt[victim].rev_map)

InVictim == pc = "gc" /\ rev_at < Len(lbt[victim].rev_map)
Rev == lbt[victim].rev_map[rev_at + 1]
\* The entry of the reverse map is the page's present place.
IsLive(rev) == lpt[rev.lpn].lb_id = victim /\ lpt[rev.lpn].ofs = rev.ofs

GcSkip ==
  /\ InVictim /\ ~IsLive(Rev)
  /\ rev_at' = rev_at + 1
  /\ UNCHANGED <<store, pc, host_cmd, lp_list, at, victim>>

GcMove(length) ==
  /\ InVictim /\ IsLive(Rev)
  /\ IF LpWriteFails(Rev.lpn, length) THEN Fail
     ELSE /\ lp_write(Rev.lpn, length)
          /\ rev_at' = rev_at + 1
          /\ UNCHANGED <<pc, host_cmd, lp_list, at, victim>>

\* After a block: do_gc ends when the threshold is reached or lb_list has no
\* further block; the reclaimed block itself has moved back in the list.
GcNext ==
  LET following == {lb \in LB : Before(victim, lb)}
  IN  /\ pc = "gc" /\ ~InVictim
      /\ IF Len(free_list) >= GcThreshold \/ following = {}
         THEN Return
         ELSE GcAt(following)

pull_next_command ==
  /\ pc = "idle" /\ pending_cmd # <<>>
  /\ pending_cmd' = Tail(pending_cmd)
  /\ UNCHANGED <<lpt, lbt, free_list, buf, destaged, pc, host_cmd, lp_list, at, victim, rev_at>>

Next ==
  \/ \E cmd \in HostCommands : receive_command(cmd)
  \/ ReadPage
  \/ \E length \in Lengths : WritePage(length)
  \/ PagesDone \/ GcStart \/ GcSkip
  \/ \E length \in Lengths : GcMove(length)
  \/ GcNext \/ pull_next_command

Spec == Init /\ [][Next]_vars
-----------------------------------------------------------------------------
(* Properties.                                                               *)

\* The sectors page lp takes, and the live pages of a block.
Extent(lp) == lpt[lp].ofs..(lpt[lp].ofs + lpt[lp].len - 1)
LiveIn(lb) == {lp \in LP : lpt[lp].lb_id = lb}

\* free_sector_num, which decides what is free and what do_gc takes next, is
\* the number of sectors of the block that no live page lies on, after any
\* rewriting of pages of one length by pages of another.
EmptySectors(lb) == (0..(LbSize - 1)) \ UNION {Extent(lp) : lp \in LiveIn(lb)}
FreeSectorsExact ==
  \A lb \in LB : lbt[lb].free_sector_num = Cardinality(EmptySectors(lb))

\* No page is laid over another one or over the end of its block, and the open
\* block is written behind everything in it.
LiveExtentsDisjoint ==
  /\ \A lp, other \in LP :
       lp # other /\ lpt[lp].lb_id = lpt[other].lb_id => Extent(lp) \cap Extent(other) = {}
  /\ \A lp \in LP :
       lpt[lp].ofs + lpt[lp].len <=
         IF lpt[lp].lb_id = buf.tgt_lgblock THEN buf.cur_sector ELSE LbSize

\* A block on the free list is there once and holds no page; a closed one that
\* holds no page is on it.
FreeListExact ==
  /\ IsInjective(free_list)
  /\ \A lb \in LB \ {buf.tgt_lgblock} : lb \in ToSet(free_list) <=> LiveIn(lb) = {}

\* The room do_gc steers by: what is counted free of a block, and which blocks
\* are listed as free, is what the live pages say.
RoomExact == CompTypeOK /\ FreeSectorsExact /\ FreeListExact

\* do_gc finds every page of a block: its place is in the block's reverse map.
RevMapCovers ==
  \A lp \in LP :
    [ofs |-> lpt[lp].ofs, lpn |-> lp] \in ToSet(lbt[lpt[lp].lb_id].rev_map)

\* A page that is no longer in the open block has been written to the drives,
\* with the block it was closed in.
ClosedIsDestaged ==
  \A lp \in LP : lpt[lp].lb_id # buf.tgt_lgblock => lpt[lp].lb_id \in destaged

\* do_gc leaves a block only when it is free: nothing live was overlooked.
VictimReclaimed ==
  [][GcNext => lbt[victim].state = "LB_FREE"]_vars

\* The check "size violation" in lp_write never fires: no block has more free
\* sectors than it has sectors.
NoSizeViolation ==
  InPages /\ host_cmd.opcode = "IO_WRITE" =>
    \A length \in Lengths : ~SizeViolation(Page, length)

\* No write of the host and no step of do_gc runs into an error: there is a free
\* block whenever the open one is full, and do_gc meets a block it can reclaim.
NeverFails == pc # "failed"

\* The open block is not on the free list.
OpenBlockKept == buf.tgt_lgblock \notin ToSet(free_list)
=============================================================================
