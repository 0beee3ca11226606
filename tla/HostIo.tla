-------------------------------- MODULE HostIo --------------------------------
(***************************************************************************)
(* SSD::write and SSD::read (ssdsim/ssd.cpp): a command in sectors becomes *)
(* calls of lp_read, lp_write and do_gc on logical pages.  What those do   *)
(* is module Ssd's; here they are only recorded.                           *)
(***************************************************************************)
EXTENDS Integers, FiniteSets, SequencesExt

CONSTANTS
  LpNum,        \* logical pages of the device
  SectsPerLp,   \* FTL_SECTS_PER_LP
  MaxLen        \* bound: the longest command

MaxLba == LpNum * SectsPerLp
Commands ==
  {cmd \in [opcode : {"IO_READ", "IO_WRITE"}, lba : 0..MaxLba, len : 0..MaxLen] :
     cmd.lba + cmd.len <= MaxLba}
NoCmd == [opcode |-> "IO_READ", lba |-> 0, len |-> 0]

VARIABLES
  pc,      \* idle, page (the loop), gc (after a write) or done
  cmd,     \* the command in work
  lp_no,   \* the loop's page
  calls    \* history: the calls made for the command

vars == <<pc, cmd, lp_no, calls>>

HostIoTypeOK ==
  /\ pc \in {"idle", "page", "gc", "done"}
  /\ cmd \in Commands /\ lp_no \in 0..LpNum
  /\ calls \in Seq([op : {"lp_read", "lp_write", "do_gc"}, lpn : Nat])

\* HostIoToFMIo.
HlbaToLpn(hlba) == hlba \div SectsPerLp
IsPPAligned(hlba) == hlba % SectsPerLp = 0
start_lp == HlbaToLpn(cmd.lba)
\* Mutant: the page that holds the sector after the last is always counted.
end_lp_Next == HlbaToLpn(cmd.lba + cmd.len) + 1
end_lp == HlbaToLpn(cmd.lba + cmd.len)
rmw_start == ~IsPPAligned(cmd.lba)
rmw_end == ~IsPPAligned(cmd.lba + cmd.len)

Call(name, lpn) == [op |-> name, lpn |-> lpn]

Init == pc = "idle" /\ cmd = NoCmd /\ lp_no = 0 /\ calls = <<>>

Begin(c) ==
  /\ pc = "idle"
  /\ cmd' = c /\ lp_no' = HlbaToLpn(c.lba)
  /\ calls' = <<>> /\ pc' = "page"

\* A turn of the loop of SSD::write up to do_gc, and of SSD::read.
WritePage ==
  /\ pc = "page" /\ cmd.opcode = "IO_WRITE" /\ lp_no < end_lp
  /\ calls' = calls
       \o (IF lp_no = start_lp /\ rmw_start THEN <<Call("lp_read", lp_no)>> ELSE <<>>)
       \o <<Call("lp_write", lp_no)>>
  /\ pc' = "gc"
  /\ UNCHANGED <<cmd, lp_no>>

Collect ==
  /\ pc = "gc"
  /\ calls' = Append(calls, Call("do_gc", lp_no))
  /\ lp_no' = lp_no + 1 /\ pc' = "page"
  /\ UNCHANGED cmd

ReadPage ==
  /\ pc = "page" /\ cmd.opcode = "IO_READ" /\ lp_no < end_lp
  /\ calls' = Append(calls, Call("lp_read", lp_no))
  /\ lp_no' = lp_no + 1
  /\ UNCHANGED <<pc, cmd>>

\* After the loop: the page the command ends in is read.  A write would go on
\* to lp_write only if lp_read returned FALSE, which it never does.
LastPage ==
  /\ pc = "page" /\ lp_no >= end_lp
  /\ calls' = IF start_lp # end_lp /\ rmw_end
              THEN Append(calls, Call("lp_read", end_lp)) ELSE calls
  /\ pc' = "done"
  /\ UNCHANGED <<cmd, lp_no>>

Return ==
  /\ pc = "done"
  /\ pc' = "idle" /\ cmd' = NoCmd /\ lp_no' = 0 /\ calls' = <<>>

Next ==
  \/ \E c \in Commands : Begin(c)
  \/ WritePage \/ Collect \/ ReadPage \/ LastPage \/ Return

Spec == Init /\ [][Next]_vars
-----------------------------------------------------------------------------
Covered(lpn) ==
  (lpn * SectsPerLp)..(lpn * SectsPerLp + SectsPerLp - 1) \cap cmd.lba..(cmd.lba + cmd.len - 1)
Calls(name, lpn) == {i \in DOMAIN calls : calls[i] = Call(name, lpn)}

\* A command within the device touches no page behind the last one, and none
\* it has no sector of, although the page loop ends at the sector after it.
OnlyItsPages ==
  /\ HostIoTypeOK
  /\ \A i \in DOMAIN calls : calls[i].lpn < LpNum /\ Covered(calls[i].lpn) # {}

\* When a write returns, every page it covers to the page's end was written
\* once, after it was read if it is covered in part, and reclaimed after.
FrontPagesWritten ==
  pc = "done" /\ cmd.opcode = "IO_WRITE" =>
    \A lpn \in 0..(LpNum - 1) :
      lpn * SectsPerLp + SectsPerLp - 1 \in Covered(lpn) =>
        /\ Cardinality(Calls("lp_write", lpn)) = 1
        /\ \A i \in Calls("lp_write", lpn) :
             /\ Cardinality(Covered(lpn)) < SectsPerLp => \E j \in Calls("lp_read", lpn) : j < i
             /\ i + 1 \in Calls("do_gc", lpn)

\* The comment "for read modify write": the page a write ends in is read, and
\* then written with the part the command has of it.
LastPageWritten ==
  pc = "done" /\ cmd.opcode = "IO_WRITE" /\ start_lp # end_lp /\ rmw_end =>
    Calls("lp_write", end_lp) # {}
=============================================================================
