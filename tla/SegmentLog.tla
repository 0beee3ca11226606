------------------------------ MODULE SegmentLog ------------------------------
(***************************************************************************)
(* What the flash translation layer promises its user, without counters,   *)
(* queues or a reverse map: pages are appended to open segments, a full    *)
(* segment is sealed, a sealed one may be picked for reclamation, and a    *)
(* segment is freed by, and only by, the write that takes its last live    *)
(* page elsewhere.  Ssd refines this with segments = parity groups.        *)
(***************************************************************************)
CONSTANTS Page, Segment, Nowhere

VARIABLES home,    \* page -> the segment that holds its data
          state    \* segment -> its state

Live(s) == {p \in Page : home[p] = s}

LogInit ==
  /\ home = [p \in Page |-> Nowhere]
  /\ state = [s \in Segment |-> "FREE"]

OpenSegment(s) ==
  /\ state[s] = "FREE"
  /\ state' = [state EXCEPT ![s] = "OPEN"]
  /\ UNCHANGED home

\* Page p goes to the open segment s, which may be full with it.
Put(p, s, full) ==
  LET old    == home[p]
      sealed == [state EXCEPT ![s] = IF full THEN "CLOSE" ELSE "OPEN"]
      empty  == old \in Segment /\ old # s /\ Live(old) \subseteq {p}
  IN  /\ state[s] = "OPEN"
      /\ home' = [home EXCEPT ![p] = s]
      /\ state' = IF empty /\ state[old] # "OPEN" THEN [sealed EXCEPT ![old] = "FREE"]
                                                   ELSE sealed

PickVictim(s) ==
  /\ state[s] = "CLOSE" /\ Live(s) # {}
  /\ state' = [state EXCEPT ![s] = "RCM"]
  /\ UNCHANGED home

LogNext ==
  \/ \E s \in Segment : OpenSegment(s) \/ PickVictim(s)
  \/ \E p \in Page, s \in Segment, full \in BOOLEAN : Put(p, s, full)

LogSpec == LogInit /\ [][LogNext]_<<home, state>>
=============================================================================
