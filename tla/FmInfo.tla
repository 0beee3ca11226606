------------------------------- MODULE FmInfo -------------------------------
(***************************************************************************)
(* FM_INFO, the geometry of a flash module: what InitFlashModule accepts,  *)
(* how many blocks it makes of the capacity, and the conversions between   *)
(* the number of a block and its place.  A geometry is the record of       *)
(* InitFlashModule's arguments.                                            *)
(***************************************************************************)
EXTENDS Integers

CONSTANTS BYTES_PER_SECTOR, SECTS_PER_PP, PP_PER_PB

ASSUME FmAssumption == {BYTES_PER_SECTOR, SECTS_PER_PP, PP_PER_PB} \subseteq Nat \ {0}

Geometry == [bus : Nat, chip : Nat, die : Nat,  \* buses, chips of a bus, dies of a chip
             byte : Nat,                        \* capacity of a chip
             dma : Nat, ce : Nat]               \* chip enables across buses, and of a bus

\* The capacity, page aligned, and the blocks of it.
fm_byte(fm) == fm.byte * fm.chip * fm.bus
fm_sects(fm) ==
  LET sects == fm_byte(fm) \div BYTES_PER_SECTOR
  IN  IF sects % SECTS_PER_PP = 0 THEN sects
      ELSE sects + (SECTS_PER_PP - (sects % SECTS_PER_PP))
pb_num(fm) == fm_sects(fm) \div (SECTS_PER_PP * PP_PER_PB)

pb_per_bus(fm) == pb_num(fm) \div fm.bus
pb_per_chip(fm) == pb_num(fm) \div (fm.bus * fm.chip)
pb_per_die(fm) == pb_num(fm) \div (fm.bus * fm.chip * fm.die)

\* The loop that halves the capacity: only a power of two passes.
Halves[bytes \in Nat] == bytes \in {0, 2} \/ (bytes % 2 = 0 /\ Halves[bytes \div 2])

InitFlashModule(fm) ==
  /\ \A part \in DOMAIN fm : fm[part] # 0
  /\ Halves[fm_byte(fm)]
  /\ pb_per_bus(fm) # 0 /\ pb_per_chip(fm) # 0 /\ pb_per_die(fm) # 0
  /\ fm.bus % fm.dma = 0 /\ fm.dma <= fm.bus
  /\ fm.ce <= fm.chip * fm.die /\ (fm.chip * fm.die) % fm.ce = 0

die_per_ce_per_bus(fm) == (fm.die * fm.chip) \div fm.ce
BusNumPerCe(fm) == fm.bus \div fm.dma

\* Block number to place and back, and the chip enable of a place.
GetPBFMAddressFromGID(fm, gid) ==
  [bus  |-> gid \div pb_per_bus(fm),
   chip |-> (gid % pb_per_bus(fm)) \div pb_per_chip(fm),
   die  |-> (gid % pb_per_chip(fm)) \div pb_per_die(fm),
   pb   |-> gid % pb_per_die(fm)]

GetPBGIDFromFMAddress(fm, addr) ==
  addr.bus * pb_per_bus(fm) + addr.chip * pb_per_chip(fm) + addr.die * pb_per_die(fm) + addr.pb

GetCEAddressFromDieAddress(fm, addr) ==
  [dma_id |-> addr.bus \div BusNumPerCe(fm),
   ce_id  |-> (addr.chip * fm.die + addr.die) \div die_per_ce_per_bus(fm)]

GetBusOffsetFromDieAddress(fm, addr) == addr.bus % BusNumPerCe(fm)

-----------------------------------------------------------------------------
(* What the conversions owe the pool, for a geometry whose dies have equally *)
(* many blocks.  InitFlashModule does not check that: a chip of three dies   *)
(* passes, and its last blocks get a die and a chip enable it does not have. *)
(* SSD::init makes it so: its capacity is a multiple of buses, chips and     *)
(* dies and a power of two, hence so are they and the number of blocks.      *)
WholeDies(fm) == pb_num(fm) % (fm.bus * fm.chip * fm.die) = 0

\* A place inside the module, and back at the number it came from.
AddressOK(fm, gid) ==
  LET addr == GetPBFMAddressFromGID(fm, gid)
      ce == GetCEAddressFromDieAddress(fm, addr)
  IN  /\ addr.bus < fm.bus /\ addr.chip < fm.chip /\ addr.die < fm.die
      /\ GetPBGIDFromFMAddress(fm, addr) = gid
      /\ ce.dma_id < fm.dma /\ ce.ce_id < fm.ce
      /\ ce.dma_id * BusNumPerCe(fm) + GetBusOffsetFromDieAddress(fm, addr) = addr.bus
=============================================================================
