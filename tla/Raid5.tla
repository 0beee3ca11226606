-------------------------------- MODULE Raid5 --------------------------------
(***************************************************************************)
(* class Controller (controller.cpp): one RAID5 group over equal drives.   *)
(* receive_command translates a host command into drive commands, which    *)
(* the driver of the simulation then pulls one by one; it sends the next   *)
(* host command only when the queue is empty.                              *)
(***************************************************************************)
EXTENDS Integers, FiniteSets, SequencesExt

CONSTANTS
  DriveLists,   \* the drive lists build_raid is called with: capacities in sectors
  StripeSize,   \* stripe_size
  MaxSectors    \* bound: the longest host command

ASSUME RaidAssumption ==
  /\ \A drives \in DriveLists : drives \in Seq(Nat)
  /\ StripeSize \in Nat \ {0} /\ MaxSectors \in Nat

VARIABLES
  rg_list,      \* the RAID groups: none, or one
  pending_cmd,  \* drive commands not yet pulled
  host_cmd,     \* history: the last host command accepted, none at first
  pulled        \* history: the drive commands pulled on its behalf

vars == <<rg_list, pending_cmd, host_cmd, pulled>>

Opcode == {"IO_READ", "IO_WRITE"}
RGInfo == [max_lba : Nat, drive_num : Nat, stripe_width : Nat, drv_lba : Nat]
CommandInfo == [opcode : Opcode, lba : Nat, sector_num : Nat]
DriveCommandInfo == [tgt_drive : Nat, opcode : Opcode, lba : Nat, sector_num : Nat]

RaidTypeOK ==
  /\ rg_list \in Seq(RGInfo) /\ Len(rg_list) <= 1
  /\ pending_cmd \in Seq(DriveCommandInfo) /\ pulled \in Seq(DriveCommandInfo)
  /\ host_cmd \in Seq(CommandInfo) /\ Len(host_cmd) <= 1

Init ==
  /\ rg_list = <<>> /\ pending_cmd = <<>>
  /\ host_cmd = <<>> /\ pulled = <<>>

-----------------------------------------------------------------------------
\* build_raid accepts two or more drives of one capacity, of at least a stripe,
\* and uses the whole stripes of each; there is only ever one group.
build_raid(drives) ==
  /\ Len(drives) >= 2 /\ rg_list = <<>>
  /\ StripeSize <= Head(drives)
  /\ \A i \in DOMAIN drives : drives[i] = Head(drives)
  /\ LET drv_lba == Head(drives) - (Head(drives) % StripeSize)
     IN  rg_list' = Append(rg_list,
                   [max_lba |-> drv_lba * (Len(drives) - 1), drive_num |-> Len(drives),
                    stripe_width |-> StripeSize * (Len(drives) - 1),
                    drv_lba |-> Head(drives)])
  /\ UNCHANGED <<pending_cmd, host_cmd, pulled>>

\* The drive of a stripe unit: the units of a row skip its parity drive.
\* Mutant: the unit standing on the parity drive is not moved on.
TgtDrive_NoSkip(rg, unit, parity_drive) == IF unit > parity_drive THEN unit + 1 ELSE unit

TgtDrive(rg, unit, parity_drive) ==
  IF unit >= parity_drive THEN (IF unit + 1 = rg.drive_num THEN 0 ELSE unit + 1) ELSE unit

\* The part of the parity that is read and written back: the sectors of the one
\* segment, or the whole stripe when the write goes on to another drive.
ParityRange(row, seg, multi_drive) ==
  IF multi_drive THEN [lba |-> row * StripeSize, sector_num |-> StripeSize]
                 ELSE [lba |-> seg.lba, sector_num |-> seg.sector_num]

\* The segment that starts at inRow ends with its row.
RowEnds(rg, inRow, seg) == inRow + seg.sector_num = rg.stripe_width

\* What the first segment of a write to a row does to the parity: one read and
\* one write of the same sectors.
ParityCommand(opcode, parity_drive, range) ==
  [tgt_drive |-> parity_drive, opcode |-> opcode,
   lba |-> range.lba, sector_num |-> range.sector_num]

\* Mutant: the parity is written without having been read.
ParityUpdate_Blind(parity_drive, range) == <<ParityCommand("IO_WRITE", parity_drive, range)>>

ParityUpdate(parity_drive, range) ==
  <<ParityCommand("IO_READ", parity_drive, range),
    ParityCommand("IO_WRITE", parity_drive, range)>>

\* One turn of the loop of raid_translation on the loop's variables s: what is
\* left of the command in one stripe unit becomes drive commands.
Segment(rg, opcode, s) ==
  LET row    == s.ofs_in_rg \div rg.stripe_width
      inRow  == s.ofs_in_rg % rg.stripe_width
      inDrv  == inRow % StripeSize
      parity_drive == row % rg.drive_num
      fits   == inDrv + s.ttl_length <= StripeSize
      multi  == s.multi_drive \/ ~fits
      seg    == [tgt_drive |-> TgtDrive(rg, inRow \div StripeSize, parity_drive),
                 opcode |-> opcode, lba |-> row * StripeSize + inDrv,
                 sector_num |-> IF fits THEN s.ttl_length ELSE StripeSize - inDrv]
      parity == IF s.parity_update THEN <<>>
                ELSE ParityUpdate(parity_drive, ParityRange(row, seg, multi))
      rmw    == IF opcode = "IO_READ" THEN <<>>
                ELSE <<[seg EXCEPT !.opcode = "IO_READ"]>> \o parity
  IN  [ofs_in_rg     |-> s.ofs_in_rg + seg.sector_num,
       ttl_length    |-> s.ttl_length - seg.sector_num,
       multi_drive   |-> multi /\ ~RowEnds(rg, inRow, seg),
       parity_update |-> (s.parity_update \/ opcode = "IO_WRITE") /\ ~RowEnds(rg, inRow, seg),
       cmd_list      |-> s.cmd_list \o rmw \o <<seg>>]

\* raid_translation of an accepted command: the loop takes at least one sector
\* a turn, so as many turns as there are sectors are enough.
raid_translation(rg, cmd) ==
  LET turn[n \in 0..cmd.sector_num] ==
        IF n = 0
        THEN [ofs_in_rg |-> cmd.lba, ttl_length |-> cmd.sector_num,
              multi_drive |-> FALSE, parity_update |-> FALSE, cmd_list |-> <<>>]
        ELSE LET s == turn[n - 1]
             IN  IF s.ttl_length = 0 THEN s ELSE Segment(rg, cmd.opcode, s)
  IN  turn[cmd.sector_num].cmd_list

\* receive_command; a command beyond the group is refused whole.
receive_command(cmd) ==
  /\ rg_list # <<>> /\ pending_cmd = <<>>
  /\ cmd.lba + cmd.sector_num <= rg_list[1].max_lba
  /\ pending_cmd' = raid_translation(rg_list[1], cmd)
  /\ host_cmd' = <<cmd>> /\ pulled' = <<>>
  /\ UNCHANGED rg_list

pull_next_command ==
  /\ pending_cmd # <<>>
  /\ pending_cmd' = Tail(pending_cmd)
  /\ pulled' = Append(pulled, Head(pending_cmd))
  /\ UNCHANGED <<rg_list, host_cmd>>

HostCommands ==
  {[opcode |-> op, lba |-> lba, sector_num |-> num] :
     op \in Opcode, num \in 0..MaxSectors,
     lba \in 0..(IF rg_list = <<>> THEN 0 ELSE rg_list[1].max_lba)}

Next ==
  \/ \E drives \in DriveLists : build_raid(drives)
  \/ \E cmd \in HostCommands : receive_command(cmd)
  \/ pull_next_command

Spec == Init /\ [][Next]_vars
-----------------------------------------------------------------------------
(* Properties.  The layout they refer to is the textbook one: row r of the   *)
(* group has its parity on drive r mod n, and its data on the other drives   *)
(* in ascending order.                                                       *)

ParityDrive(rg, row) == row % rg.drive_num
DataDrive(rg, row, unit) ==
  CHOOSE d \in 0..(rg.drive_num - 1) \ {ParityDrive(rg, row)} :
    Cardinality({e \in 0..(d - 1) : e # ParityDrive(rg, row)}) = unit
Row(rg, x) == x \div rg.stripe_width
Home(rg, x) ==
  <<DataDrive(rg, Row(rg, x), (x % rg.stripe_width) \div StripeSize),
    Row(rg, x) * StripeSize + (x % StripeSize)>>

\* All drive commands the accepted host command led to, in order.
Issued == pulled \o pending_cmd
Sectors(cmd) == cmd.lba..(cmd.lba + cmd.sector_num - 1)
Touches(cmd, drive, sector) == cmd.tgt_drive = drive /\ sector \in Sectors(cmd)
IsParity(cmd) == cmd.tgt_drive = ParityDrive(rg_list[1], cmd.lba \div StripeSize)
IsWrite(cmd) == cmd.opcode = "IO_WRITE"
DriveSectors(rg) == (0..(rg.drive_num - 1)) \X (0..(rg.drv_lba - 1))

\* The data commands transfer every sector of the host command exactly once,
\* at its home, and touch no other sector: neither a gap nor an overlap at the
\* borders of stripe units and rows.
EverySectorOnce ==
  \A cmd \in ToSet(host_cmd) : \A place \in DriveSectors(rg_list[1]) :
    LET transfers == {i \in DOMAIN Issued :
                        /\ Issued[i].opcode = cmd.opcode /\ ~IsParity(Issued[i])
                        /\ Touches(Issued[i], place[1], place[2])}
    IN  Cardinality(transfers) =
          Cardinality({x \in Sectors(cmd) : Home(rg_list[1], x) = place})

\* Whatever a write stores on a data drive of a row, the parity of the row is
\* written over the same sectors, once and on a drive that holds no data of it.
ParityCoversData ==
  \A i \in DOMAIN Issued : IsWrite(Issued[i]) /\ ~IsParity(Issued[i]) =>
    \A sector \in Sectors(Issued[i]) :
      Cardinality({j \in DOMAIN Issued :
                     IsWrite(Issued[j]) /\ IsParity(Issued[j]) /\ sector \in Sectors(Issued[j])}) = 1

\* No sector is written, data or parity, that the same host command has not
\* read before: what was there is part of the new parity.
ReadBeforeWrite ==
  \A i \in DOMAIN Issued : IsWrite(Issued[i]) =>
    \E j \in 1..(i - 1) : Issued[j] = [Issued[i] EXCEPT !.opcode = "IO_READ"]

\* Every drive command stays on an existing drive and within its capacity.
WithinDrives ==
  /\ RaidTypeOK
  /\ \A cmd \in ToSet(Issued) :
       /\ cmd.tgt_drive < rg_list[1].drive_num
       /\ cmd.lba + cmd.sector_num <= rg_list[1].drv_lba
=============================================================================
