# raidsim in TLA+

raidsim is a trace-driven simulator of a RAID group of solid-state drives. A
host command enters a RAID controller (`src/controller.cpp`), which translates
it into commands to drives; a drive (`src/ssdsim/ssd.cpp`) passes every logical
page through a flash translation layer (`src/ssdsim/ftl/`). The simulator moves
no data. What it computes, write amplification and drive traffic, is a function
of its *metadata*, and the metadata is what these modules are about: maps,
counters, queues and block states that many functions change a little at a time
and that have to agree with one another millions of writes later. No exception
or assertion notices if they do not; a wrong counter only bends a curve.

## 1. The system

The whole program is one thread. "Concurrency" is that of long operations which
are cut into steps while other work changes the same tables: garbage collection
lists pages first and copies them later, copies wait in a buffer while the host
rewrites the same pages, log blocks are queued and written later, and several
drives share function-static search cursors.

| Component | Source | State it keeps | Operations |
|---|---|---|---|
| Page-mapping FTL | `ftl_lp_ctl.cpp`, `ftl_lp_info.*` | `l2p_tbl`; per parity group (PG) `status`, `lp_num`, `vs_num`, `next_ofs`, `p2l_tbl`, scan cursors; the queues of free, closed, victim and scanned PGs; one open PG per kind of write | `GetOpenPG`, `BuildPG`, `L2P_Update`, `OpenToClose`, `UpdateCloseRanking`, `CloseToInvalid`, `ErasePB`, `Format` |
| Close queue | `pbque.h` | a doubly linked list, ordered by valid sectors | `remove_item`, `insert_forward`, the items at both ends and walks along the links |
| Reclamation requests | `ftl_asyn_ctl.cpp` | thresholds | `GetReWriteReq`, `ReloadRcmTarget`, `GetNextReWriteLPN`, `GetEraseReq` |
| Block pool | `POOL_INFO` and the two files above | per bus and CE a queue of free and one of invalid blocks; `total_free_pb_count`, `total_invalid_pb_count`; the erase reservations; two static cursors | `GetFreePB`, and the block part of `BuildPG`, `CloseToInvalid`, `GetEraseReq`, `ErasePB` |
| Flash geometry | `phy/fm_arch_info.*` | sizes | `InitFlashModule`, address conversions |
| SSD device | `ssd.cpp`, `ftl_lp_func.h` | the drive's FTL | `init`, `write`, `read`, `lp_write`, `lp_read`, `do_gc` |
| Compressing SSD | `CompSSD` in `ssd.cpp` | a write and a reclamation buffer, and a buffer of reads | `lp_write`, `buffered_data_write`, `lp_read`, `do_gc` |
| Wear-levelling FTL | `ftl_lp_wlctl.*` | write attributes per PG, PG counts per attribute, one open PG per attribute | overrides of `GetOpenPG`, `OpenToClose`, `ReloadRcmTarget` |
| RAID controller | `Controller` in `controller.cpp` | `rg_list`, `pending_cmd` | `build_raid`, `receive_command`, `raid_translation`, `pull_next_command` |
| Compressing controller | `CompController` in `controller.cpp` | `lpt`, `lbt` with a reverse map per log block, `lb_list`, `free_list`, the open block `buf` | `init`, `receive_command`, `extract_hcmd_to_lp`, `lp_write`, `close_buf_and_open_next`, `do_gc` |
| I/O sources | `iosrc.*`, `iogenerator.*` | patterns with their area and position | `CreateIOPattern`, `AddIoPattern`, `GetNextCommand`, `NextIo` |
| SPC-1 load | `spc1_gen/` | per unit of load eight streams: walks, random reads and writes, sequences | `Init`, `GetNextCommand` |
| Simulation core | `sim.*` | the load and the count of commands | `Initialize`, `RunStep` |
| Configuration reader | `inilib/ini.cpp` | buffer, token, sections and options | `fill`, `lexer`, `fromInputStream`, lookups |

How they interact: a driver reads a configuration, draws commands from the
sources, gives each to the controller and then pulls drive commands until none
is pending; a drive splits a command into pages; every page written is followed
by `do_gc`; `do_gc` writes pages itself, through the same `lp_write` and
`L2P_Update` as the host, and then erases.

What makes each part correct, and hard:

* **FTL.** The counters of a PG are the only thing that says when it may be
  erased. `L2P_Update` touches the counters of two PGs, which may be the same
  one, and may close one and release the other in the same call. The ranking of
  the close queue, and its pointers, have to be kept at every invalidation.
* **Reclamation.** A request is a page number, not a copy; between its
  collection and its execution other copies close PGs and release victims.
  The scan trusts offsets it adds up itself. The copies need free blocks
  before they yield any. `while(1)` has to end.
* **Pool and geometry.** The same block is known to a status, a queue, a PG, a
  reservation and two counters, and the queue is found by integer divisions.
* **Compressing drive.** Pages differ in length, a page may be in a buffer
  twice, and victims stay behind `do_gc` until their copies leave the buffer.
  Reads of reclamation and of the host's read-modify-write fill one buffer, and
  the one that fills it is charged for the physical pages of all.
* **Wear levelling.** A PG is in the slot, and on the count, of an attribute
  that is stored in another table and reset elsewhere.
* **Controller.** Parity of a row has to be updated for the sectors of all
  segments of the row.
* **Compressing controller.** Pages of one length replace pages of another; a
  block is freed by a sum reaching its size; the reverse map is never cleaned.
* **Load.** Addresses are differences and sums of unsigned numbers, rounded, with
  inclusive bounds; a walk starts where the last one ended.
* **Configuration.** A hand-made scanner without bounds, and its error path.

## 2. The modules

| Module | Models | Builds on |
|---|---|---|
| `Ftl` | the FTL's tables and the reclamation requests as actions and operators on them | |
| `Ssd` | the thread of a device: format, host writes, `do_gc`, step by step | extends `Ftl` |
| `SegmentLog` | abstract: what an FTL promises, without counters and queues | refined by `Ssd` |
| `BlockCounts` | abstract: a pool of blocks as three numbers | refined by `Ssd` and by `BlockPool` |
| `PbQue`, `CloseQueue` | the linked queue as records of pointers; the device with its close queue kept in both forms | `CloseQueue` extends `Ssd`, `PbQue` |
| `CompSsd` | the compressing drive over the same FTL | extends `Ssd` |
| `FtlWl` | the wear-levelling FTL over the same tables | extends `Ssd` |
| `FmInfo` | sizes and address conversions of a flash module | |
| `BlockPool` | the pool queue by queue, with the shared cursors | extends `FmInfo` |
| `HostIo` | the split of a drive command into page operations | |
| `Raid5` | `Controller` | |
| `Array` | a controller over its drives, command by command | `Raid5`, `HostIo` |
| `CompController` | `CompController` | |
| `IoSources`, `SimCore` | sources of commands; the simulation core that reads a load and runs it | `SimCore` extends `IoSources` |
| `Spc1Gen` | the SPC-1 load | |
| `IniFile` | the configuration reader, one call of its scanner at a time | |
| `SsdProofs` | theorems on `Ssd`: types, books, queues, ranking and refinements, then places, scan and return of `do_gc` | extends `Ssd` |
| `LayerProofs` | theorems on `CloseQueue` and `FtlWl`, the layers beneath and above `Ssd` | extends `CloseQueue`, `FtlWl`, `SsdProofs` |
| `CompSsdProofs` | theorems on `CompSsd` | extends `CompSsd`, `SsdProofs` |
| `RaidProofs` | theorems on `Array` | extends `Array`, `Numbers` |
| `CompProofs` | theorems on `CompController` | extends `CompController`, `Numbers` |
| `SimProofs` | theorems on `SimCore` | extends `SimCore`, `Numbers` |
| `PoolProofs` | theorems on `BlockPool` and the geometry | extends `BlockPool`, `Numbers` |
| `Numbers` | lemmas on division and iteration | |
| `MC*` | constants, constraints and views for TLC | |

### Ftl and Ssd

`Ftl` keeps the source's names: `l2p_tbl`, `pg_list`, `openpg` (the slots of
`ACT_PG_INFO`), the four PG queues, and two numbers of the pool. The pool is
reduced to its counters here, because nothing above it looks at a particular
block; that the queues of the code really behave like counters is what
`BlockPool` shows. Code words have one size, as in the code's
constants. A field that is read nowhere (erase counts, statistics) is left out.

`Ssd` adds the program counter `pc` and the locals that live across calls. A
step is one call `do_gc` or `lp_write` makes, with everything the call does:
`LpWrite` is all of `L2P_Update` with the close, the ranking and the release
it may end in. Inside `GetReWriteReq` and `ReloadRcmTarget` a step is one turn
of the loop. Locals of finished calls are reset, since they are dead.

`GetOpenPG` has two actions, an open PG found and a PG built. `BuildPG` can fail
half-way, with the PG taken from the free queue and put nowhere: the model does
the same. Every error return leads to `pc = "failed"`, where the program ends.

The scan (`ScanNext`) models `GetNextReWriteLPN` with its two cursors. Reading a
page in `do_gc` changes nothing and has no step.

### PbQue and CloseQueue

`PbQue` has the list as a record (`count`, and of every item its pointers `fwd` and
`bck` and whether it is `linked`), and `remove_item` and `insert_forward` as operators
that make their assignments in the code's order; the rest of the header has no caller. `CloseQueue` runs every
step of `Ssd` and, beside the sequence `close_pg_que`, does to the pointers what
`OpenToClose`, `UpdateCloseRanking` (a walk along `bck`, `StopFrom`) and `ReloadRcmTarget` do.
`LinksMatchQueue` compares the two.

### CompSsd

The buffers are sequences of pages with the length drawn for them. `lp_write`
appends; a full buffer is written page by page, with the padding of
`align_to_pp` between them. `do_gc` is the inherited one, with the overridden
`lp_write`: its copies may stay in `rcm_write_buffer` when it returns.
The trace of compression ratios is shared by the drives, so a length is any
member of `Lengths`. `lp_read` puts every read that is not of a host read
(`FMT_HOST_RD`) into `rcm_read_buffer`, and dispatches all of them when the buffer is full
(`RcmRead`). Besides the copies of `do_gc` these are the reads of `SSD::write`: of the page
an unaligned write begins in, before it is written (`CompHostWrite`), and of the one it ends in
(`CompReadEnd`), which is then not written (finding 1). `end_lp` remembers that the
second read is still to come. The reads of `SSD::read` change no state but the
read penalty and the statistics.

### FtlWl

`wl_openpg` replaces the two slots of the base class; `attr`, `pgnum` and the
counts of reclamation are the module's own. All four policies of `GetOpenPG` are
modelled; the run uses round robin, the one the code sets. The round-robin
index is a static that other drives advance, and so any value.

### FmInfo and BlockPool

`FmInfo` translates `InitFlashModule`, check by check, and the conversions between
the number of a block and its bus, chip, die and chip enable. `BlockPool` begins
with every accepted member of `Geometries` and puts each block in the queue its
address says. `Visits` is the order in which the loop of `GetFreePB` looks at
lanes from the cursor's place. The loops of the code are recursive functions of the
number of turns made: `Turns` is the loop of `BuildPG` over `GetFreePB`, left at the
first that finds nothing, `Searched` that of `GetEraseReq` over the lanes, `PushAll` that of
`CloseToInvalid` over the blocks of a PG. The cursors are function-static in the code, so
all drives of a group share them: `OtherDevice` sets them to anything at any time.
The error returns for a block in the wrong state (`BuildPG`, `CloseToInvalid`, `ErasePB`)
or a reservation in use (`GetEraseReq`) have no action: `BlocksExact` says that they are never taken.

### HostIo, Raid5 and Array

`HostIoToFMIo` and the loops of `SSD::write` and `SSD::read` become the sequence
of calls `lp_read`, `lp_write`, `do_gc` a command leads to. `raid_translation` is
a function of the turns of its loop (a fold without recursion). `Array` is the
driver's loop: a host command is translated, its drive commands are pulled one
by one, and each is split into pages by the drive it names; none is longer than a
stripe unit (`MaxLen` of `HostIo`).

### CompController

`lp_write` is built from the functions `OpenNext`, `AddRevMap`, `Invalidate` and
`Charge` on a record of what it changes, applied in the code's order, because
the order matters (finding 2). The length a page compresses to is any member of
`Lengths` at each write. `lb_list` is a list
ordered by state and free sectors; the model takes any block that no other
precedes. `destaged` is
the only history variable: the closed blocks written since they were opened.
The driver pulls all drive commands before the next host command.

### IoSources, SimCore and Spc1Gen

A random number is every value it may have. A pattern is a record of its area,
alignment, length and position; a percent is one of `Percent` parts instead of a hundred. Shares are read and added up modulo
`ShareWord`, addresses modulo `Word`. `SimCore` starts
from every configuration of `Confs`: `Initialize` accepts or refuses it with the code's checks,
then every step of the run draws a pattern and a command. `Spc1Gen` has the three
kinds of generator, the units that draw from them, and the generator over the units. A field
that is not initialised (`last_written_addr`) holds the model value `Garbage` until it is assigned.
`MaxLevels` bounds the depth of the tree of a walk.

### IniFile

A file is a sequence of `Lines`, each with what it means by the rules of the format.
The model holds the characters in the buffer and runs the lexer token by
token, with the parser's `state`, the error path and the options collected.
The scanner's 6 000 generated lines are modelled by the rules they were
generated from (`ini.cc.re2c`, lines 423 to 430), as maximal munch over them.

## 3. The runs

Every bound is a constant of a `.cfg`, or named below.

| Run | Question | Instance |
|---|---|---|
| `ssd_gc` | Do tables, queues, pointers and map agree, and does reclamation copy exactly what is live, always take the best victim and come back with its reserve, in every history of writes? Does `Ssd` refine `SegmentLog` and `BlockCounts`? | 5 pages, 5 PGs of two blocks and three sectors, requests listed two at a time; 99 376 states up to names of PGs |
| `ssd_live` | Does `do_gc` end, is every victim released? | 3 pages, 4 PGs of one block; 38 026 states |
| `comp_ssd` | Do counters and map agree, does the scan miss nothing and is every victim accounted for, when pages differ in length and copies wait in a buffer? Is a dispatch of buffered reads, of the host and of reclamation together, charged for every physical page the reads touch, and at most one more a page? | 3 pages of one or two sectors, physical pages of three, writes in buffers of two, reads in batches of three; 3 949 219 states |
| `wl` | Is every open PG in the slot of its attribute, and every PG on its count? | 3 attributes, 7 PGs, 3 pages; 400 343 states |
| `pool` | Is a block in one place, at an address of its own; do searches find what the counters promise, whatever other drives do to the cursors? Refinement of `BlockCounts` | the shapes of `MCGeometries` up to eight blocks, PGs of three, two erasures at a time, three reservations; 84 403 states |
| `array` | Is every sector transferred once, at its home, with parity over what is written, and does it reach the pages it should? | 2 to 4 drives, stripes of 4 sectors, pages of 2, commands up to 13 sectors; 27 892 states |
| `hostio_last_page` | Is the page a write ends in written? (no, finding 1) | same |
| `cc_gc` | Do lengths, extents, free list and reverse map agree, does `do_gc` leave no live page behind, and does a group with a block to spare never run dry? | 3 blocks of 6 sectors, 2 pages of up to 3, threshold 2; 377 145 states |
| `cc_lone_rewrite` | Is the size check of `lp_write` an assertion that holds? (no, finding 2) | 4 blocks of 4 sectors, 3 pages |
| `sim` | When do commands stay in the area of their pattern, and do they come in the shares configured, until the run has issued all? | lists of up to three of twelve patterns, and lists whose shares wrap; area of 10 sectors; 8 598 states |
| `spc1` | Do commands stay within volume and hotspot, for every sequence of random numbers? | two units of load, a tree of eight leaves; 82 946 states |
| `ini` | Is a file read as written, and a damaged line's damage local? | every file of up to three of sixteen lines |

Why the bounds are enough. In `ssd_gc` a PG holds two pages (the third sector is
the room the code never fills), so that the first page of a PG is not its
last; five pages and five PGs make a PG lose pages to others while it is open,
closed, a victim being scanned and a victim scanned, and the close queue grow to
three PGs, so that one moves past the first, a middle and the last item; a list
of two requests makes a scan stop in the middle of a PG and go on in the next
turn, after copies that have released the other victim. Two blocks to a PG and
at most two erasures make the reserve and the erasure requests partial. With
one spare PG less the same instance fails for want of blocks.
`comp_ssd` has physical pages of one and a half pages, so that a page ends on a
border or lies across one. A batch of three reads has groups of several adjoining pages in it, reads of the host
among those of a scan, and a page twice, moved or not between its reads. `pool` has more lanes than a PG takes and chip enables
shared by dies, so that cursors wrap round in both coordinates. `array` has
drives with an incomplete last stripe, the parity on every drive, and
commands that span three rows of one data drive or two rows of three with both
ends inside a unit. In `cc_gc` a block holds two pages at their largest and six at their smallest, so
that a write may close a block, `do_gc` runs and moves pages into the block it
later frees. `ini` has a line for every rule of the scanner and every form of a line in the
sample configuration.

Views. Nothing in the FTL compares the numbers of PGs, they are only passed on. `UpToPgNames` (in
`MCCloseQueue`, `MCCompSsd`, `MCFtlWl`) therefore identifies states that differ
by a renaming of the PGs, numbering them by their places in queues and
slots; a PG in no place is one `BuildPG` has lost, and nothing refers to it again. `LiveState`
forgets what a free log block last held, which `close_buf_and_open_next`
overwrites. `WithoutCmd` forgets the last SPC-1 command, which nothing reads.
Every property checked under a view is one the renaming does not change.

Named bounds besides the sizes: `MaxSectors` limits the length of a command. `UpToLoneRewrite` follows behaviours
only up to the step that frees the open block, which `cc_lone_rewrite` pursues;
the other properties of the component would fail after it for that one reason.
`Bounded` cuts `wl` off where an attribute counts more than `MaxPgnum` PGs or a page
more than `MaxRcm` reclamations: the first counter really grows without
end (section 5). `GcThreshold` is a constant of its own: in the code it is
`lb_num * 0.01`, truncated, and 0 for every group small enough for TLC.
`MaxLevels` bounds the tree of `Spc1Gen`.
Deadlock is checked except in `wl`, whose program stops with an error when a copy
finds no free block, and in `cc_lone_rewrite`.

Fairness. Only `FairSpec` of `Ssd` has any: weak fairness of `Run`, all that the
one thread does after a host write. The simulator is a plain loop, and nothing
takes the thread away in the middle of a call. The host may stop writing for
good, so `HostWrite` has no fairness. `GcTerminates` is then a statement on
`while(1)` alone.

### Properties worth knowing

* `Accounting`: `lp_num`, `vs_num` equal what the map says. `CloseToInvalid` and
  the ranking read the counters and never the map. `CompAccounting` says the
  same with lengths that change and with padding.
* `SectorsDisjoint`: releasing and reopening PGs never lays one page over another.
* `NoPageMissed`, `RewritesAreCurrent`: between collecting and copying, a
  request stays true; a scan interrupted by other copies misses nothing.
* `VictimIsEmptiest`, `LinksMatchQueue`: the queue kept in order by local moves along
  pointers really has the PG with the fewest valid sectors at its end.
* `GcReturnsWithReserve`, `NeverFails`, `GcTerminates`: reclamation reaches its
  goal, and the free blocks it needs on its way are there.
* `VictimsWaitForBuffer`: a victim that outlives `do_gc` has a copy in the buffer for
  every live page, so the reserve it is counted for will come.
* `SlotMatchesAttr`, `PgnumCovers`: what `OpenToClose` empties is what `GetOpenPG`
  has filled, and the count of an attribute never falls below its PGs.
* `BlocksExact`, `SearchesFindBlocks`: bounded searches from an arbitrary
  cursor find a block whenever the counters say there is one.
* `DataAtHome`, `ParityFollowsData`, `PagesReachDrives`: no gap or overlap at any
  border of unit, row or page.
* `RoomExact`, `RevMapCovers`, `VictimReclaimed`: a log block is freed when,
  and only when, nothing lives in it, and `do_gc` overlooks nothing.
* `RcmReadCostBounded`: a dispatch that mixes reads of `do_gc` and of host writes, of pages
  that may have moved since, charges every physical page it touches and little more.
* `CommandsInArea`: which sources stay in their area, for every configuration accepted.
* `RunAsConfigured`: a number from 0 to 100 and strict comparisons give every
  pattern its share, and no draw falls between the patterns.
* `DamageIsLocal`: what the parser may lose after a rejected line is the next one.

### Refinements

`ImplementsLog` maps a page to the PG in `l2p_tbl` and a PG to its `status`. In
`SegmentLog` a segment is freed by the write that takes the last live page
away, defined by the map; in `Ssd` it is freed by counters. Scanning, listing
and erasing are stuttering. `ImplementsCounts` maps the pool's
counters; in `BlockPool` the same abstract module is refined by queues, with the
reserved blocks counted by the outstanding requests. The two together justify
that `Ftl` models the pool by numbers.

## 4. What is proved

Theorems hold for every value of the constants: every number of pages, PGs, log
blocks and drives, every size of PG, page, stripe and log block, every length of
the request list and reserve, every set of compressed lengths.

| Module | Theorem | Says |
|---|---|---|
| `SsdProofs` | `TypeCorrect` | `Spec => []SsdTypeOK` |
| | `AccountingHolds` | `Spec => []Accounting` |
| | `FreePGsAreEmpty` | `Spec => []NoPageInFreePG` |
| | `NoOverlap` | `Spec => []SectorsDisjoint` |
| | `ImplementsSegmentLog` | `Spec => ImplementsLog` |
| | `PicksTheEmptiest` | `Spec => VictimIsEmptiest` |
| | `ImplementsBlockCounts` | `Spec => ImplementsCounts` |
| | `PlacesHold` | `Spec => []PlaceMatchesStatus` |
| | `NothingMissed` | `Spec => []NoPageMissed` |
| | `CopiesAreCurrent` | `Spec => []RewritesAreCurrent` |
| | `WritesAccepted` | `Spec => []WritesAreAccepted`: no write, of the host or of `do_gc`, ever meets an error return of `L2P_Update` |
| | `GcReturns` | `Spec => GcReturnsWithReserve` |
| `CompSsdProofs` | `CompAccountingHolds` | `CompSpec => []CompAccounting` |
| | `CompNothingMissed` | `CompSpec => []CompNoPageMissed` |
| | `VictimsWait` | `CompSpec => []VictimsWaitForBuffer` |
| | `CompNoOverlap` | `CompSpec => []SectorsDisjoint` |
| | `CompPlacesHold` | `CompSpec => []PlaceMatchesStatus` |
| | `CompWritesAccepted` | `CompSpec => []CompWritesAreAccepted`: no page of a flush meets an error return of `L2P_Update` |
| | `CompPicksTheEmptiest` | `CompSpec => VictimIsEmptiest` |
| | `CompImplementsLog` | `CompSpec => ImplementsLog` |
| | `CompImplementsCounts` | `CompSpec => ImplementsCounts` |
| `LayerProofs` | `LinksHold` | `LinkSpec => []LinksMatchQueue` |
| | `SlotsMatch` | `WlSpec => []SlotMatchesAttr` |
| | `PgnumHolds` | `WlSpec => []PgnumCovers` |
| | `WlBooksHold` | `WlSpec => [](Accounting /\ SectorsDisjoint /\ NoPageInFreePG)` |
| `RaidProofs` | `SectorsAtHome` | `ArraySpec => []DataAtHome` |
| | `ParityIsKept` | `ArraySpec => []ParityFollowsData` |
| | `DrivesKeepToPages` | `ArraySpec => []DrivePagesExact` |
| | `PagesReach` | `ArraySpec => []PagesReachDrives` |
| `CompProofs` | `RoomIsExact` | `Spec /\ []OpenBlockKept => []RoomExact` |
| | `PagesApart` | `Spec /\ []OpenBlockKept => []LiveExtentsDisjoint` |
| | `ReverseMapsComplete` | `Spec /\ []OpenBlockKept => []RevMapCovers` |
| | `PagesDestaged` | `Spec /\ []OpenBlockKept => []ClosedIsDestaged` |
| | `VictimsFree` | `Spec /\ []OpenBlockKept => VictimReclaimed` |
| | `SizesHold` | `Spec /\ []OpenBlockKept => []NoSizeViolation` |
| `SimProofs` | `CommandsStay` | `Spec => []CommandsInArea` |
| | `RunsAsConfigured` | `Spec => []RunAsConfigured` |
| `PoolProofs` | `BlocksHold` | `Spec => []BlocksExact` |
| | `AddressesHold` | `Spec => []AddressesExact` |
| | `SearchesFind` | `Spec => SearchesFindBlocks` |
| | `PoolImplementsCounts` | `Spec => ImplementsCounts` |

Assumptions: `SizesAssumption` (sizes are natural numbers, positive where the
code divides by them or allocates them), `PgSizeAssumption` (a PG has room for
more than one page, and whole physical pages), `NoPGAssumption` (the code's
invalid id is no PG) of `Ftl`, and `MaxRewrAssumption` of `Ssd`; `RaidAssumption`
(a stripe has a sector) and `ArrayAssumption` (pages and drives have a size, and
`build_raid` is given no more than the drives have) of the array;
`WlAssumption` (the attributes are at least the three `Init` asks for, the policy is one of
the four, and the reserve is computed from the number of slots) of the wear-levelling layer;
`CompAssumption` (sizes are positive, a page fits a log block, a length is
between one sector and a page) of the compressing controller, and that of the same name of the
compressing drive (a length is between one sector and a page, that of `Format` may be
0, the buffer and its fill are not empty); `IoAssumption`,
`SimAssumption` (twice a hundred is below 2^16) and `ConfAssumption` (numbers of the file are
not negative, no area ends so close to 2^64 that two requests behind it would wrap, and the size of
a unit is asked of units there are) of the load; `FmAssumption` (the sizes of sector, page and
block are positive) and `PoolAssumption` (a PG takes a block, a request list is not empty and no longer
than there are reservations, and the dies of a geometry have equally many blocks) of the pool. TLC
evaluates each on the runs of the modules that extend the one that declares it.

That dies have equally many blocks (`WholeDies`) is nothing `InitFlashModule` checks, but its
only callers see to it. `SSD::init` and `CompSSD::init` pass a chip's capacity as a multiple of its dies
(`ssd.cpp:59`), so buses, chips and dies are factors of the whole capacity, which has to be a
power of two; so are sector, page and block, and with them the number of blocks. Of
two powers of two the smaller divides the larger, and `pb_per_die # 0` says which is smaller.

The theorems on the compressing drive have one hypothesis more, `FormatLen # 0`.
`Format` multiplies the length of a page by the compression ratio and truncates
(ftl_lp_ctl.cpp:460), so below one sector in a page every page of the formatted device
has length 0 and adds nothing to the counters: a PG full of such pages would be
released with pages in it, and the theorems would not hold. It is the hazard listed
for that line; `comp_ssd` runs with lengths above it.

The argument, first the books. `TypeInv` is `SsdTypeOK` with `ControlInv`, what
the point the thread has reached says of the locals and of the open PG, and is
proved first, action by action. `BooksInv` is `Accounting`, `NoPageInFreePG`,
`SectorsDisjoint` and one more conjunct, `FullLength`: every mapped page has the
length a write gives it. None of them is inductive by itself. `Accounting`
needs `FullLength`, because the old copy is subtracted by the length the map has
for it; it needs `NoPageInFreePG`, because opening a PG resets its counters,
which is right only if nothing is mapped to it; and `NoPageInFreePG` needs
`Accounting`, because a PG is released by its counters. `SectorsDisjoint` needs
`NoPageInFreePG` too, for the write position starts again at 0. The one action
that disturbs the books is `L2P_Update`; its lemmas are about what happens to the
counters of the two PGs (`CountersAfterUpdate`: the four cases of the old PG
being the new one, another one, one that is released, or none), about the set
of pages mapped to a PG (`MappedAfterMove`, with the cardinality facts of
`FiniteSetTheorems`), and about those that move nothing (`NothingMoves`).

Then the refinement of `SegmentLog`. The log frees a segment when its last live
page has left; the device frees a PG when a counter reaches zero, opens the PG
at the head of one queue and reclaims the last of another. The counters are
right by the books; `QueuesInv` adds that the free and the close queue hold only
PGs of the status their name says, none twice, and that a closed PG has pages.
"None twice" is what makes it inductive: a PG taken from a queue must not be left
in it. It rests on lemmas about the sequence operators (`RemoveFirstOnce`,
`InsertAtOnce`, `AppendOnce`, `TailOnce`, `UpdateCloseRankingOnce`). `StatusAfterUpdate` says
which PGs change state in `L2P_Update`, for all its branches; `OpenStep`,
`ReloadStep`, `WriteStep` and `NoStep` map the actions.

Then the refinement of `BlockCounts`. Dissolving a PG adds the number of blocks
the PG has on record, and the abstract pool allows that only if so many are
bound. `PoolInv` is the balance free + invalid + reserved + blocks of all PGs
that are not free = all blocks, with every such PG holding a whole set; it fails
for one reason only, a `BuildPG` that runs out of blocks half-way, after which
the program has ended. It needs `QueuesInv` (the PG built is a free one) and the
books (the PG released is not).

The order of the close queue. `ReloadRcmTarget` compares nothing and takes the
last PG. `RankedInv` says that the queue is ordered by valid sectors.
`UpdateCloseRanking` looks only at the PGs behind the one it moves, so the proof
(`RankedAfterUpdate`) needs that a queued PG never gains a sector: the only PG
that gains is the open one, and `QueuesInv` says that it is not queued. The
order carries over by what `RemoveFirst` and `InsertAt` do to the places of the
others (`RemoveFirstPlaces`, `InsertAtPlaces`).

The places of PGs. `VictimsInv` says of the two queues of victims what
`QueuesInv` says of the others, and that a victim is on one of them only;
`SlotsInv` ties an open PG to the slot of the type it carries, both ways. A type
without its slot, or a slot without its type, would let `OpenToClose` empty the
wrong slot. `QueuedAs` of a queue is: exactly the PGs of that status, each once.

The scan. `GetNextReWriteLPN` adds up offsets of its own and trusts them against
the map. `TrailInv` says that they stay in step: entry i of `p2l_tbl` begins at
i pages, the write position is the end of the last entry, the two cursors of the
scan denote the same place, and a PG that is not a victim has them at 0.
`FoundInv` says that the entry at the offset the map has for a page of a victim
names that page, so a page the cursor has passed was listed and a page it has not
reached will be found. `FlowInv` restricts the list to the part of `do_gc` where it lives, `CurrentInv` says that
a listed page is still where it was found, where the cursor has passed, and is listed once.
`NoPageMissed` closes the circle: it and the four parts are inductive together
(`NextScan`), on top of the books, the queues and the places. `Accepted` follows:
the checks at the head of `L2P_Update` never refuse what `lp_write` asks for.

The return of `do_gc`. It leaves its loop after a turn that listed and erased
nothing. `ReserveInv` carries what such a turn has found out from one call to the
next: the reserve was complete, or no closed PG left, when the list was
begun (`GetNeededBlockNum` does not change while a scan lists nothing), and
the scan has been through all victims. Then no page is pending, by `NoPageMissed` no victim
has a live page, by the books its counter is 0, and such a victim does not exist
(`VictimsHavePages`). So the reserve is made of free blocks alone.

The pointers of the close queue. `LinksInv` says that the record of pointers is
well-typed and holds the sequence. `remove_item` and `insert_forward` assign four or
five pointers around one place; their lemmas say which sequence the result
holds, by `PathOnce`: a node stands at one place of the path between the two
sentinels, so an assignment at a neighbour changes one place and no other.
The walk of `UpdateCloseRanking` is a recursion along pointers, and
`StopFromTarget` shows by descending along the queue, without induction over
data, that it stops where the sequence has its place (`Target`). `QueuesInv` supplies
that no PG is queued twice, without which a path would not be one.

The wear-levelling layer. It overrides the choice of the PG and inherits the rest, so
the lemmas on the inherited steps (`CommonStep`) and on `L2P_Update` are stated
without the slots of `FtlInterface` and used twice. `WlInv` is the books and the
queues as above with `WlSlotsInv` in the place of `SlotsInv`, and `PgnumCovers`. An open PG is
in the slot of its attribute; `OpenToClose` empties the slot the attribute names,
and a PG released loses its attribute (`InitPG`), which is right because it is
then in no slot: only a PG that is not open is released. A PG counted on
an attribute is counted off it by the reclamation, because the attribute does not
change in between. The proof holds for every policy, since any attribute may be chosen.

The compressing drive. It writes pages of any length, in groups, and pads what is
left of a physical page, so `L2P_Update` is called with lengths and alignments `SSD` never uses.
The lemmas on what the call does to states of PGs, queues and slots are stated for any
length and pad and used by both drives; those on the counters are proved
anew (`CountersAfterWrite`), with the valid sectors of a PG counted as pairs of a page and a
sector of it (`ValidSectors`, `SectorsOf`), since `Accounting` can no longer count pages
and multiply. `LengthsInv`, no mapped page is empty, takes the place of `FullLength`. The scan
steps by the lengths it finds in `p2l_tbl` and over pads: `SumsInv` says that the
offset of an entry is the sum of what stands before it, whatever the buffer
flushes between two turns, and `FlushedInv` what is true while a buffer is being written
out. A page that was listed is then in the buffer, and `CompNoPageMissed` follows as on
`SSD`, with the buffer as one more place a page may be.

That is why `do_gc` may return with victims. `TurnInv` carries the last turn's findings to
the return, as `ReserveInv` does on `SSD`: nothing was listed, and the scan has been
through all victims. Each still has a page (`VictimsHavePages`), the page can only be in the
buffer, and pages of different victims are different; so the victims are fewer than the
pages of a buffer that is written out when it is full (`RestingVictims`).

Extents and room, last. `RoomInv` is what `L2P_Update` keeps up by closing a PG early: a PG that is
open has room for a page that does not compress at all. It needs the PG released to have no page
left (the books), because its write position starts again at 0. With it, and with the
sectors counted as pairs, the checks at the head of `L2P_Update` refuse no page of a flush; so
a flush ends early only when `BuildPG` runs out of blocks.

The order of the close queue, the segment log and the balance of blocks carry over. Their invariants
(`RankedInv`, `QueuesInv`, `PoolInv`) never speak of the length of a page, so the steps the drive
inherits are covered by the lemmas on `SSD` (`RankedUnlessWrite`, `LogUnlessWrite`,
`CountsUnlessWrite`), and those on `L2P_Update` (`UpdateRanked`, `WriteStep`, `UpdateStep`) are stated
for any length and pad and used by both drives. Of the books they need that `lp_num` counts the
pages mapped (`MappedCounted`) and that the sectors of a PG run out with its last page
(`PageCounted`), which each drive has from its own way of counting.

The array. A turn of the loop of `raid_translation` is followed by `TurnInv`: the
commands listed so far transfer the sectors up to the offset and no others,
parity is written over all data written in rows that are finished, and in the row
the offset is in, `parity_update` says whether it has been written, over all of
the stripe unit if the command goes on (`WholeUnit`). The delicate case is a write that goes on to another drive: its parity is the
whole stripe, decided at the first segment, and must cover segments that do not
exist yet. `SegmentIs` translates the offset into row, unit and sector
(`TwoLevels`, division by a product in two steps), `DataDriveIsSkip` shows that skipping
the parity drive is the ascending order of the layout. `LoopEnds`: each turn takes a
sector or more, so that the turns the function has are enough. `RaidInv` is then
inductive over commands and `DriveInv` over the pages of the drive at work: which
pages have been called for, and that each is written once, after the read it needs and
before the `do_gc` it owes. That a drive stays inside its pages follows from both: the
controller keeps to the capacities it was given.

That the pages are reached (`PagesReach`) needs two more facts. `WrittenInv` says that nothing
is written but pages of write commands already pulled, and of those, but for the one at work, all.
The loop keeps to whole pages if stripe and command do, so that the page a command ends in, the
one finding 1 loses, is not there; and each command it lists lies in a row
in which the host command has a sector (`Serves`). What is written beside the
pages of the command is then parity of its rows.

The compressing controller. `CompInv` consists of the store and the scan. The store:
the counters equal the empty sectors of the map, the free list the empty blocks,
extents are disjoint and end before the write position, every page is
in the reverse map of its block, a block that is closed is destaged and its state
says what its counter does. None is inductive alone: a page is
subtracted from the block the map names, which is right if extents are disjoint;
they stay disjoint because the sectors behind the write position are empty; a
block is opened from its beginning, which is right if the free list holds
empty blocks only; and it does because counters are exact. The scan: the
victim is not the open block, and a live page of it stands in its reverse map at or behind
the cursor (`PagesAhead`), whatever the moves append elsewhere. When the cursor is at the
end the victim has no live page, its counter is `LbSize`, and it has been freed.
`WriteDoes` and `PlacedDoes` state once what `lp_write` does to map, blocks and
list; the initial state is the layout the loop of `init` produces (`PagesOf`).

The hypothesis `[]OpenBlockKept` is where finding 2 enters: a lone rewrite frees the open
block, and every one of these properties may fail after it. It is the bound
`UpToLoneRewrite` of `cc_gc`, stated as a formula. It is not a property of the
program. `SizesHold` says what follows if it held: the check
the finding trips is right about every other behaviour.

The load. `SimInv` says what `Initialize` has let through: areas with an end behind
their start and a length and boundary within the limits (`SectionIsGood`), sequential sources at a place
from which the next request is still inside, and `total_ratio` equal to the sum of the shares modulo
2^16. The sum and the check wrap independently of the draw, which adds in 32 bits:
what makes a hundred in 16 bits is at least a hundred, so every number finds a source; and if no share is above a
hundred it cannot have wrapped, and is a hundred exactly. How often a source is drawn is
the size of an interval between two sums (`DrawnNumbers`).
`Initialize` does not compare a length with its area, and `CommandsStay` covers the requests that
do not fit as well: a random source stays in its area exactly if its request fits. If it
does not, the subtraction of `iosrc.cpp:96` wraps and some draw leaves the area (`LongRequestLeaves`
names one); if it does, none does (`RandomInArea`), up to the rounding to the boundary. A
sequential source never begins before its area, and reaches the end only
from one of the two addresses it may start at, when the request does not fit there. `SumOf` is a recursive function; that it
has the values its definition says (`SumExists`) is proved by the least counterexample, since the
induction theorems of the library cannot be used.

The pool, lane by lane. `PoolInv` speaks of sets of blocks: the free queues hold the blocks with
status `FREE`, each once and in its lane (`LanesHold`), the invalid queues those that are `INVALID` and under no
request, the PGs those that are bound; a counter is the cardinality of its set. A push or a pop moves one block in or out of
a set (`LaneTakes`, `LaneGives`), and what a loop has done after n turns is an invariant of the
loop, carried from turn to turn by `UpTo` of `Numbers`: `TurnOK` for `BuildPG` (what has been taken is
no longer queued, and when a search gives up no block is free), `SearchOK` for `GetEraseReq` (while
nothing has been reserved, the lanes looked at were empty). `VisitsAll` says that from any cursor the order
of the search comes by every lane; so an empty answer means that all were empty. `Reserved` makes the
reservations a partition, free or out under one request, so that one is free whenever `GetEraseReq` is
called. `BlocksExact`, with its counts of places, follows from the sets (`OneToOne`: the
places of a family of queues are as many as its blocks). For the refinement, a closed PG has all its blocks
(`PGsWhole`, until a `BuildPG` has failed), and they are neither free nor invalid.

The geometry. The sizes are divisions of divisions; `GeometrySized` turns them into products from the die
upwards, which needs `WholeDies`, and `PlaceOf` takes a block's number apart by them (`Regroup`) and finds the
coordinates. The chip enable is a division across chip and die; the blocks of a lane are an interval of
numbers (`LaneInterval`), and all intervals have one length.

Only model-checked: liveness (`GcTerminates`, `VictimsReleased`), out of the prover's reach; `NeverFails`, which holds for the
instances' ratio of pages to blocks and not for every one; `IniFile` and
`Spc1Gen`, whose operators are recursions over data (a text, a tree);
`RcmReadCostBounded` of `CompSsd`, a sum over the list of requests by the folds of the library.

## 5. Findings

1. `hostio_last_page`: a write that ends inside a page reads that page and does
   not write it: `!lp_read(..) && !lp_write(..)` stops at the first.
2. `cc_lone_rewrite`: `lp_write` gives the old copy back before it charges the new
   one. When the page rewritten is the only live one of the open block, the
   block is put on the free list while it is open and in use.

Seen while modelling, and not stated otherwise by a text of the repository:

* Translation layer. `ReloadRcmTarget` refuses a victim whose every sector is
  valid, but no PG ever has `vs_num = pg_cw_num`, since a PG is closed a page
  early. With too little over-provisioning `SSD::do_gc` copies the same data for
  ever. `BuildPG` that fails loses its PG. A `Format` with a ratio under an
  eighth gives every page the length 0 (`ftl_lp_ctl.cpp:460`); such pages count in
  `lp_num` and not in `vs_num`, and their PG is released with them.
* Compressing drive. Victims whose copies wait in `rcm_write_buffer` count as
  reserve (`ftl_asyn_ctl.cpp:34`), so `do_gc` may return with less than it has
  promised.
* Wear levelling. A PG released before it is a victim is never taken off the
  count of its attribute, which therefore only grows; `wf_info` and the
  round-robin index are shared by all drives.
* Geometry. `InitFlashModule` does not check that the dies divide the blocks of a
  chip; blocks would get an address that does not exist. No caller passes such
  numbers (section 4, `WholeDies`).
* Controller. A parity write is queued before the old data of later segments of
  its row is read; nothing depends on the order in a simulator without data.
* Drive. `SSD::read` of a range within one page reads nothing.
* Compressing controller. `do_gc` stops after one block even below the
  threshold; `gc_threshold` is 0 below a hundred log blocks.
* Sources. A volume number equal to the number of volumes passes the check
  (`iosrc.cpp:33`); the range of a random address underflows when the request is
  longer than the area (`iosrc.cpp:96`; `CommandsInArea` says that commands then
  leave it); rounding up to the alignment can pass its end; the
  sequential source skips the first boundary and never issues the last block;
  the first pattern gets one number out of 101 more than its share; shares are
  read and added in 16 bits, so a `RATIO` of -1 can complete a hundred;
  `iogenerator.cpp:124` allocates one number where it means an array. The
  test drivers draw addresses with an inclusive bound and can ask for the
  sector behind the last.
* SPC-1. A hotspot too small for its tree is read out of bounds
  (`HotspotAssumption` excludes it); `last_written_addr` is used before it is
  set; a walk never leaves the half of the tree it began in; a generator whose
  `Init` was refused may be destroyed or used with pointers that were never set.
  Nothing in the repository calls it.
* Simulation core. `host_io_count` is never incremented and the FTL calls of the
  step are commented out; an output trigger by time only prints an error.
* Configuration. `;` with a letter behind it does not begin a comment; an
  assignment cut off by the end of the line swallows the next line; lines that
  end in CR LF are never accepted; the last line loses a character without its
  newline; of two options of one name the first counts.

## 6. What is not modelled

* Reading a ratio trace (`CompEngine`) and its average: the compressing modules
  take every length instead.
* `Cello_IoGenerator` and the test drivers: a read of a file and a straight line.
  The drivers' loops are in `Array` and in `HostWrite` of `Ssd`.
* Statistics, dumps, debug options and everything printed; the read penalty of
  the compressing drive.
* In `CompController`, `lp_read` (it only queues reads) and the arithmetic on
  ratios by which `init` derives its sizes; in `SSD`, that of `simple_init`.
* In `ini_document`, files beyond the buffer and `toOutputStream`, which has no
  caller.
* Policies of `FtlWl` other than round robin are translated and not run:
  `Init` is the only code that sets the policy.
* Memory safety and timing: allocation sizes are hazards in `PROJECT.json`
  without a property.

## 7. What would come next

A condition on the sizes under which `NeverFails` holds for every one of them.
