------------------------------ MODULE BlockPool ------------------------------
(***************************************************************************)
(* The physical blocks behind Ftl: one queue of free and one of invalid    *)
(* blocks for every bus and CE, searched round robin (GetFreePB,           *)
(* GetEraseReq), and the reservations a block is erased under.  The        *)
(* cursors of the two searches are static variables: all the devices of    *)
(* the simulation share them.                                              *)
(***************************************************************************)
EXTENDS FmInfo, FiniteSets, SequencesExt

CONSTANTS
  Geometries,   \* the geometries a device may have
  PgPbNum,      \* pg_pb_num
  MaxErase,     \* FTL_MAX_ERASE_REQ
  MaxEraseReg,  \* FTL_MAX_ERASE_REG
  NoPB          \* NULL as a PB_INFO*

ASSUME PoolAssumption ==
  /\ Geometries \subseteq Geometry
  /\ \A fm \in Geometries : InitFlashModule(fm) => WholeDies(fm)
  /\ {PgPbNum, MaxErase} \subseteq Nat \ {0}
  /\ MaxEraseReg \in Nat /\ MaxErase <= MaxEraseReg
  /\ NoPB \notin Nat

VARIABLES
  fm_info,            \* the geometry of this device
  lane_of             \* PB -> its lane, bus_no and ce_no of PB_INFO

BusNum == fm_info.bus
LaneNum == BusNum * fm_info.ce
Lane == 0..(LaneNum - 1)     \* bus b of CE c is lane c * BusNum + b
PG == 0..(pb_num(fm_info) \div PgPbNum - 1)
PbNum == pb_num(fm_info) - (pb_num(fm_info) % PgPbNum)  \* odd blocks are left out
PB == 0..(PbNum - 1)
RegId == 0..(MaxEraseReg - 1)

\* The lane of a block: its bus and the chip enable of its die.
\* Mutant: the chip enable is the die's number in its chip.
LaneOf_DieOnly(fm, gid) ==
  LET addr == GetPBFMAddressFromGID(fm, gid) IN addr.die * fm.bus + addr.bus
LaneOf(fm, gid) ==
  LET addr == GetPBFMAddressFromGID(fm, gid)
  IN  GetCEAddressFromDieAddress(fm, addr).ce_id * fm.bus + addr.bus

VARIABLES
  status,             \* PB -> pb_info->status
  free_block_que, invalid_block_que,   \* lane -> queue of blocks
  total_free, total_invalid,           \* the pool's counters
  erase_resv_que,     \* free reservation ids
  erase_resv_list,    \* reservation id -> the block reserved, or none
  pb_list,            \* PG -> its blocks; none while the PG is free
  free_cursor,        \* nxt_bus and nxt_ce of GetFreePB, as a lane
  erase_cursor,       \* those of GetEraseReq
  erase_req,          \* requests of the caller not yet passed to ErasePB
  failed              \* BuildPG has failed, which ends the simulation

vars == <<fm_info, lane_of, status, free_block_que, invalid_block_que, total_free, total_invalid,
          erase_resv_que, erase_resv_list, pb_list, free_cursor, erase_cursor,
          erase_req, failed>>

PoolTypeOK ==
  /\ fm_info \in Geometries /\ lane_of \in [PB -> Lane]
  /\ status \in [PB -> {"FREE", "BIND", "INVALID"}]
  /\ free_block_que \in [Lane -> Seq(PB)] /\ invalid_block_que \in [Lane -> Seq(PB)]
  /\ total_free \in 0..PbNum /\ total_invalid \in 0..PbNum
  /\ erase_resv_que \in Seq(RegId) /\ erase_resv_list \in [RegId -> PB \cup {NoPB}]
  /\ pb_list \in [PG -> Seq(PB)]
  /\ free_cursor \in Lane /\ erase_cursor \in Lane
  /\ erase_req \in Seq([pb : PB, reg_id : RegId]) /\ Len(erase_req) <= MaxErase
  /\ failed \in BOOLEAN

\* Blocks queue one by one, each in its own lane.
PushBack(que, pb) == [que EXCEPT ![lane_of[pb]] = Append(@, pb)]
PushAll(que, pbs) ==
  LET pushed[n \in 0..Len(pbs)] == IF n = 0 THEN que ELSE PushBack(pushed[n - 1], pbs[n])
  IN  pushed[Len(pbs)]

NoBlocks == [lane \in Lane |-> <<>>]

Init ==
  /\ fm_info \in Geometries /\ InitFlashModule(fm_info)
  /\ lane_of = [pb \in PB |-> LaneOf(fm_info, pb)]
  /\ status = [pb \in PB |-> "FREE"]
  /\ free_block_que = PushAll(NoBlocks, [i \in 1..PbNum |-> i - 1])
  /\ invalid_block_que = NoBlocks
  /\ total_free = PbNum /\ total_invalid = 0
  /\ erase_resv_que = [i \in 1..MaxEraseReg |-> i - 1]
  /\ erase_resv_list = [id \in RegId |-> NoPB]
  /\ pb_list = [pg \in PG |-> <<>>]
  /\ free_cursor = 0 /\ erase_cursor = 0
  /\ erase_req = <<>> /\ failed = FALSE

-----------------------------------------------------------------------------
\* The lanes both searches look at from cursor on: the rest of the cursor's CE
\* line, then CeNum whole lines, the first one again at last.
\* Mutant: one line less.
Visits_OneRound(cursor) ==
  [i \in 1..(LaneNum - (cursor % BusNum)) |-> (cursor + i - 1) % LaneNum]
Visits(cursor) ==
  [i \in 1..(LaneNum + BusNum - (cursor % BusNum)) |-> (cursor + i - 1) % LaneNum]

\* Where the cursor is after a search that did not stop at a lane.
NextLine(cursor) == ((cursor \div BusNum + 1) * BusNum) % LaneNum

\* A turn of BuildPG's loop on s, one call of GetFreePB; the loop is left at the
\* first that returns NULL.
TakeFreePB(s) ==
  LET visits == Visits(s.cursor)
      hits == {i \in DOMAIN visits : s.que[visits[i]] # <<>>}
      lane == visits[Min(hits)]
  IN  IF s.null THEN s
      ELSE IF hits = {} THEN [s EXCEPT !.cursor = NextLine(@), !.null = TRUE]
      ELSE [s EXCEPT !.cursor = (lane + 1) % LaneNum,
                     !.pbs = Append(@, Head(s.que[lane])),
                     !.que[lane] = Tail(@)]

Turns[n \in 0..PgPbNum] ==
  IF n = 0 THEN [que |-> free_block_que, cursor |-> free_cursor, pbs |-> <<>>, null |-> FALSE]
  ELSE TakeFreePB(Turns[n - 1])

\* The blocks BuildPG was given until GetFreePB failed stay with the PG.
BuildPG(pg) ==
  /\ ~failed /\ erase_req = <<>> /\ pb_list[pg] = <<>>
  /\ LET end == Turns[PgPbNum]
     IN  /\ free_block_que' = end.que /\ free_cursor' = end.cursor
         /\ pb_list' = [pb_list EXCEPT ![pg] = end.pbs]
         /\ status' = [pb \in PB |-> IF Contains(end.pbs, pb) THEN "BIND" ELSE status[pb]]
         /\ total_free' = total_free - Len(end.pbs)
         /\ failed' = end.null
  /\ UNCHANGED <<fm_info, lane_of, invalid_block_que, total_invalid, erase_resv_que, erase_resv_list,
                 erase_cursor, erase_req>>

\* CloseToInvalid: the blocks of a PG queue for erasure.
CloseToInvalid(pg) ==
  /\ ~failed /\ erase_req = <<>> /\ pb_list[pg] # <<>>
  /\ invalid_block_que' = PushAll(invalid_block_que, pb_list[pg])
  /\ status' = [pb \in PB |-> IF Contains(pb_list[pg], pb) THEN "INVALID" ELSE status[pb]]
  /\ total_invalid' = total_invalid + Len(pb_list[pg])
  /\ pb_list' = [pb_list EXCEPT ![pg] = <<>>]
  /\ UNCHANGED <<fm_info, lane_of, free_block_que, total_free, erase_resv_que, erase_resv_list,
                 free_cursor, erase_cursor, erase_req, failed>>

\* GetEraseReq at one lane of its search: at most one block, under a
\* reservation, until the request list is full.
ReserveAt(s, lane) ==
  IF Len(s.reqs) = MaxErase \/ s.que[lane] = <<>> \/ s.resv = <<>> THEN s
  ELSE [s EXCEPT !.reqs = Append(@, [pb |-> Head(s.que[lane]), reg_id |-> Head(s.resv)]),
                 !.list[Head(s.resv)] = Head(s.que[lane]),
                 !.que[lane] = Tail(@), !.resv = Tail(@),
                 !.cursor = IF Len(s.reqs) + 1 = MaxErase THEN (lane + 1) % LaneNum ELSE @]

Searched[n \in 0..Len(Visits(erase_cursor))] ==
  IF n = 0 THEN [que |-> invalid_block_que, resv |-> erase_resv_que, list |-> erase_resv_list,
                 reqs |-> <<>>, cursor |-> NextLine(erase_cursor)]
  ELSE ReserveAt(Searched[n - 1], Visits(erase_cursor)[n])

EraseSearch == Searched[Len(Visits(erase_cursor))]

GetEraseReq ==
  /\ ~failed /\ erase_req = <<>>
  /\ LET end == EraseSearch
     IN  /\ erase_req' = end.reqs
         /\ invalid_block_que' = end.que /\ total_invalid' = total_invalid - Len(end.reqs)
         /\ erase_resv_que' = end.resv /\ erase_resv_list' = end.list
         /\ erase_cursor' = end.cursor
  /\ UNCHANGED <<fm_info, lane_of, status, free_block_que, total_free, pb_list, free_cursor, failed>>

\* ErasePB and InvalidToFree of the next request of the caller.
\* Mutants: the reservation is not given back; the counter is not updated.
ErasePB_KeepReg ==
  /\ erase_req # <<>>
  /\ LET req == Head(erase_req)
     IN  /\ erase_resv_list' = [erase_resv_list EXCEPT ![req.reg_id] = NoPB]
         /\ status' = [status EXCEPT ![req.pb] = "FREE"]
         /\ free_block_que' = PushBack(free_block_que, req.pb)
  /\ total_free' = total_free + 1
  /\ erase_req' = Tail(erase_req)
  /\ UNCHANGED <<fm_info, lane_of, invalid_block_que, total_invalid, erase_resv_que, pb_list, free_cursor,
                 erase_cursor, failed>>
ErasePB_NoCount ==
  /\ erase_req # <<>>
  /\ LET req == Head(erase_req)
     IN  /\ erase_resv_list' = [erase_resv_list EXCEPT ![req.reg_id] = NoPB]
         /\ erase_resv_que' = Append(erase_resv_que, req.reg_id)
         /\ status' = [status EXCEPT ![req.pb] = "FREE"]
         /\ free_block_que' = PushBack(free_block_que, req.pb)
  /\ erase_req' = Tail(erase_req)
  /\ UNCHANGED <<fm_info, lane_of, invalid_block_que, total_free, total_invalid, pb_list,
                 free_cursor, erase_cursor, failed>>

ErasePB ==
  /\ erase_req # <<>>
  /\ LET req == Head(erase_req)
     IN  /\ erase_resv_list' = [erase_resv_list EXCEPT ![req.reg_id] = NoPB]
         /\ erase_resv_que' = Append(erase_resv_que, req.reg_id)
         /\ status' = [status EXCEPT ![req.pb] = "FREE"]
         /\ free_block_que' = PushBack(free_block_que, req.pb)
  /\ total_free' = total_free + 1
  /\ erase_req' = Tail(erase_req)
  /\ UNCHANGED <<fm_info, lane_of, invalid_block_que, total_invalid, pb_list, free_cursor, erase_cursor, failed>>

\* Another device of the simulation uses the static cursors.
OtherDevice ==
  /\ free_cursor' \in Lane /\ erase_cursor' \in Lane
  /\ UNCHANGED <<fm_info, lane_of, status, free_block_que, invalid_block_que, total_free, total_invalid,
                 erase_resv_que, erase_resv_list, pb_list, erase_req, failed>>

Next ==
  \/ \E pg \in PG : BuildPG(pg) \/ CloseToInvalid(pg)
  \/ GetEraseReq \/ ErasePB
  \/ OtherDevice

Spec == Init /\ [][Next]_vars
-----------------------------------------------------------------------------
(* Properties *)

Times(pb, queue) == Cardinality({i \in DOMAIN queue : queue[i] = pb})

\* The places in a family of queues, and those a block is in.
Places(queues) == UNION {{x} \X DOMAIN queues[x] : x \in DOMAIN queues}
TimesIn(pb, queues) == Cardinality({at \in Places(queues) : queues[at[1]][at[2]] = pb})

\* A block is in exactly one place: the free or the invalid queue of its own
\* lane, a PG, or a reservation; the counters do_gc steers by are the lengths of
\* the queues; an outstanding request names the block its reservation holds, a
\* free reservation holds none, and every one is free or outstanding.  A block in
\* two places is erased while a PG holds it, or bound twice, and its data is lost.
BlockInOnePlace ==
  \A pb \in PB :
    LET reserved == Cardinality({id \in RegId : erase_resv_list[id] = pb})
        here(holds) == IF holds THEN 1 ELSE 0
    IN  /\ Times(pb, free_block_que[lane_of[pb]]) = here(status[pb] = "FREE")
        /\ TimesIn(pb, pb_list) = here(status[pb] = "BIND")
        /\ Times(pb, invalid_block_que[lane_of[pb]]) + reserved = here(status[pb] = "INVALID")

CountersMatch ==
  /\ total_free = Cardinality(Places(free_block_que))
  /\ total_invalid = Cardinality(Places(invalid_block_que))

ReservationsExact ==
  /\ \A req \in ToSet(erase_req) : erase_resv_list[req.reg_id] = req.pb
  /\ \A id \in ToSet(erase_resv_que) : erase_resv_list[id] = NoPB
  /\ \A id \in RegId :
       Times(id, erase_resv_que) + Cardinality({i \in DOMAIN erase_req : erase_req[i].reg_id = id}) = 1

BlocksExact == PoolTypeOK /\ BlockInOnePlace /\ CountersMatch /\ ReservationsExact

\* Every block of the module has a place of its own in it, the conversions lead
\* back to its number, and each bus and chip enable has as many blocks as any
\* other: the searches spread the load over lanes of one length.
AddressesExact ==
  LET lanes == [gid \in 0..(pb_num(fm_info) - 1) |-> LaneOf(fm_info, gid)]
  IN  /\ \A gid \in DOMAIN lanes : AddressOK(fm_info, gid)
      /\ \A lane \in Lane : Cardinality({gid \in DOMAIN lanes : lanes[gid] = lane})
                              = pb_num(fm_info) \div LaneNum

\* The two searches miss nothing, wherever the blocks are and wherever another
\* device has left the cursors: GetEraseReq returns a request whenever a block
\* is invalid (do_gc takes an empty answer for the end of its work), and BuildPG
\* fails only when there are fewer free blocks than a PG takes.
EraseReqFindsBlocks ==
  total_invalid > 0 /\ erase_req = <<>> => EraseSearch.reqs # <<>>
BuildPGFindsBlocks == [][~failed /\ failed' => total_free < PgPbNum]_vars
SearchesFindBlocks == []EraseReqFindsBlocks /\ BuildPGFindsBlocks

\* Only numbers looked at, the pool is the counters Ftl keeps: BuildPG takes a
\* PG's worth of blocks, and none comes back but by way of an erasure.
Counts == INSTANCE BlockCounts WITH
            Total <- PbNum, PerPG <- PgPbNum, PerTurn <- MaxErase,
            free <- total_free, invalid <- total_invalid, reserved <- Len(erase_req)
ImplementsCounts == Counts!CountsSpec
=============================================================================
