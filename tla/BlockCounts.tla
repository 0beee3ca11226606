----------------------------- MODULE BlockCounts -----------------------------
(***************************************************************************)
(* What a pool of physical blocks promises when only numbers are looked    *)
(* at: a block is free, bound to a parity group, invalid, or reserved for  *)
(* erasure, and goes round in this order.  BlockPool refines this with the *)
(* queues of the code, Ssd with the counters the code keeps beside them.   *)
(***************************************************************************)
EXTENDS Naturals

CONSTANTS Total,      \* the blocks
          PerPG,      \* the blocks a parity group takes
          PerTurn     \* the most that are reserved for erasure at a time

VARIABLES free, invalid, reserved

Bound == Total - (free + invalid + reserved)

CountsInit == free = Total /\ invalid = 0 /\ reserved = 0

\* A parity group is given its blocks, or all there are when they run out.
Bind ==
  /\ reserved = 0
  /\ free' = IF free >= PerPG THEN free - PerPG ELSE 0
  /\ UNCHANGED <<invalid, reserved>>

\* A parity group gives up its blocks.
Dissolve ==
  /\ reserved = 0 /\ Bound >= PerPG
  /\ invalid' = invalid + PerPG
  /\ UNCHANGED <<free, reserved>>

Reserve ==
  /\ reserved = 0
  /\ \E num \in 1..PerTurn :
       num <= invalid /\ invalid' = invalid - num /\ reserved' = num
  /\ UNCHANGED free

Erased ==
  /\ reserved > 0 /\ reserved' = reserved - 1
  /\ free' = free + 1
  /\ UNCHANGED invalid

CountsNext == Bind \/ Dissolve \/ Reserve \/ Erased

CountsSpec == CountsInit /\ [][CountsNext]_<<free, invalid, reserved>>
=============================================================================
