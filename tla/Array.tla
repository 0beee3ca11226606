-------------------------------- MODULE Array --------------------------------
(***************************************************************************)
(* The program of test_cmb_main.cpp: the RAID controller (Raid5) over      *)
(* drives that translate sectors into logical pages (HostIo).  The driver  *)
(* hands the controller a command, pulls the drive commands one by one and *)
(* calls write() or read() of the drive each is for; one drive works at a  *)
(* time, so the drives share one copy of the translation's state, and      *)
(* drive tells whose it is.                                                *)
(***************************************************************************)
EXTENDS Raid5

CONSTANTS
  LpNum,        \* logical pages of a drive
  SectsPerLp    \* FTL_SECTS_PER_LP

\* get_max_lba() of a drive: build_raid is given the capacity of the drives.
ASSUME ArrayAssumption ==
  /\ LpNum \in Nat \ {0} /\ SectsPerLp \in Nat \ {0}
  /\ \A drives \in DriveLists : \A i \in DOMAIN drives : drives[i] <= LpNum * SectsPerLp

VARIABLES
  pc, cmd, lp_no, calls,   \* the drive at work, see HostIo
  drive,                   \* which drive that is
  written                  \* history: the pages lp_write was called for, per drive

devVars == <<pc, cmd, lp_no, calls>>
arrayVars == <<vars, devVars, drive, written>>

\* No command of a drive is longer than a stripe unit.
Dev == INSTANCE HostIo WITH MaxLen <- StripeSize

ArrayInit == Init /\ Dev!Init /\ drive = 0 /\ written = {}

-----------------------------------------------------------------------------
BuildRaid ==
  /\ \E drives \in DriveLists : build_raid(drives)
  /\ UNCHANGED <<devVars, drive, written>>

\* The driver writes at multiples of its command size; any command that the
\* controller accepts is taken here.
Receive ==
  /\ rg_list # <<>> /\ pc = "idle"
  /\ \E c \in HostCommands : receive_command(c)
  /\ written' = {}
  /\ UNCHANGED <<devVars, drive>>

\* pull_next_command, and the call of write() or read() of its drive.
\* Mutant: every command goes to the first drive (single_ssd_mode without its test).
Dispatch_First ==
  /\ pull_next_command
  /\ LET c == Head(pending_cmd)
     IN  /\ Dev!Begin([opcode |-> c.opcode, lba |-> c.lba, len |-> c.sector_num])
         /\ drive' = 0
  /\ UNCHANGED written

Dispatch ==
  /\ pull_next_command
  /\ LET c == Head(pending_cmd)
     IN  /\ Dev!Begin([opcode |-> c.opcode, lba |-> c.lba, len |-> c.sector_num])
         /\ drive' = c.tgt_drive
  /\ UNCHANGED written

DriveWrites ==
  /\ Dev!WritePage
  /\ written' = written \cup {<<drive, lp_no>>}
  /\ UNCHANGED <<vars, drive>>

DriveStep ==
  /\ Dev!Collect \/ Dev!ReadPage \/ Dev!LastPage \/ Dev!Return
  /\ UNCHANGED <<vars, drive, written>>

ArrayNext == BuildRaid \/ Receive \/ Dispatch \/ DriveWrites \/ DriveStep

ArraySpec == ArrayInit /\ [][ArrayNext]_arrayVars
-----------------------------------------------------------------------------
Idle == pending_cmd = <<>> /\ pc = "idle" /\ host_cmd # <<>>

PagesOf(d, sectors) == {<<d, Dev!HlbaToLpn(x)>> : x \in sectors}

\* The pages the sectors of a host command live in, and those that hold the
\* parity over them.
DataPages(c) ==
  UNION {PagesOf(Home(rg_list[1], x)[1], {Home(rg_list[1], x)[2]}) : x \in Sectors(c)}
ParityPages(c) ==
  UNION {PagesOf(ParityDrive(rg_list[1], Row(rg_list[1], x)), {Home(rg_list[1], x)[2]}) : x \in Sectors(c)}

\* When a host write is done and its pages are whole (stripe unit and command
\* are multiples of a page), exactly the pages of its sectors and of the parity
\* over them have been written, or, for a write to several drives of a row,
\* the parity of the whole stripe unit.
PagesReachDrives ==
  \A c \in ToSet(host_cmd) :
    (Idle /\ IsWrite(c) /\ StripeSize % SectsPerLp = 0 /\ c.lba % SectsPerLp = 0
          /\ c.sector_num % SectsPerLp = 0) =>
      /\ DataPages(c) \cup ParityPages(c) \subseteq written
      /\ \A w \in written \ (DataPages(c) \cup ParityPages(c)) :
           \E x \in Sectors(c) :
             /\ w[1] = ParityDrive(rg_list[1], Row(rg_list[1], x))
             /\ Row(rg_list[1], x) = (w[2] * SectsPerLp) \div StripeSize

\* A drive command keeps the drive within its pages, and every page a write
\* covers up to its end is written once, after it was read if it is covered in
\* part, and followed by do_gc.
DrivePagesExact == Dev!OnlyItsPages /\ Dev!FrontPagesWritten

\* A sector that is written has been read before under the same host command
\* (the old data is part of the new parity), and whatever is stored on a data
\* drive of a row the parity of the row is written over, once.
ParityFollowsData == ParityCoversData /\ ReadBeforeWrite

\* The data commands transfer every sector of the host command exactly once
\* and at its home, on drives that have it.
DataAtHome == EverySectorOnce /\ WithinDrives

\* The comment "for read modify write": the page a write ends in is read, and
\* then written with the part the command has of it.
LastPageWritten == Dev!LastPageWritten
=============================================================================
