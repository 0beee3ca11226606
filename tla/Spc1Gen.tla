------------------------------- MODULE Spc1Gen -------------------------------
(***************************************************************************)
(* The SPC-1 load (spc1_gen, SPC1_IoGenerator of iogenerator.cpp): twenty  *)
(* business scaling units take turns, each draws one of eight generators,  *)
(* and a generator issues a command on one of three volumes.  UniformGen   *)
(* picks any address, SeqGen runs a stream of requests and starts another  *)
(* when it is used up, HRGen walks the leaves of a tree laid over a        *)
(* hotspot of the volume.                                                  *)
(*                                                                         *)
(* get_random answers a number in [0, 1): it is replaced by any value the  *)
(* expression it stands in can take.  Shares are per cent, and sizes are   *)
(* parameters; a generator's method answers the outcomes it may have.      *)
(***************************************************************************)
EXTENDS Integers, Sequences, FiniteSets

CONSTANTS
  Volumes,        \* sector_list: the sizes of the three volumes
  BsuNum,         \* bsu_num (20)
  Used,           \* BSU -> the generators it draws commands from
  BlockSectors,   \* HRGen::block_size and the transfer size (8)
  LeafBlocks,     \* HRGen::leaf_size (8)
  HStart,         \* HRGen::h_start (7)
  Sizes,          \* the transfer sizes of get_smix
  Garbage,        \* what last_written_addr holds before the first write
  MaxLevels       \* bound on the levels of a tree

Bsu == 0..(BsuNum - 1)

(* The constructor of BSU: its eight generators. *)
Uniform(asu, read, lower, upper) ==
  [kind |-> "uniform", asu |-> asu, read |-> read, lower |-> lower, upper |-> upper]
HR(asu, read, lower, upper) ==
  [kind |-> "hr", asu |-> asu, read |-> read, lower |-> lower, upper |-> upper]
Stream(asu, read, start, startvar, length) ==
  [kind |-> "seq", asu |-> asu, read |-> read,
   start |-> start, startvar |-> startvar, length |-> length]

iogen == << Uniform(0, 50, 0, 100), HR(0, 50, 15, 20), Stream(0, 100, 40, 40, 10),
            HR(0, 50, 70, 75), Uniform(1, 30, 0, 100), HR(1, 30, 47, 52),
            Stream(1, 100, 40, 40, 10), Stream(2, 0, 35, 70, 30) >>

Volume(g) == Volumes[g.asu + 1]

\* The integer part of what get_random puts between x and y, both in n-ths.
Drawn(x, y, n) == (x \div n)..(IF y > x THEN (y - 1) \div n ELSE x \div n)

\* What get_random() < read_frac may choose.
Opcodes(g) == (IF g.read > 0 THEN {"READ"} ELSE {}) \cup (IF g.read < 100 THEN {"WRITE"} ELSE {})

-----------------------------------------------------------------------------
(* UniformGen *)

UniformOutcomes(g) ==
  LET max_addr == (g.upper * Volume(g)) \div 100 - BlockSectors
      addr(a)  == IF a > max_addr THEN max_addr ELSE a
  IN  {[lba |-> addr(a), size |-> BlockSectors] :
         a \in Drawn(g.lower * Volume(g), g.upper * Volume(g), 100)}

-----------------------------------------------------------------------------
(* HRGen *)

LeafSectors == LeafBlocks * BlockSectors

\* hotspot_size in hundredths of a sector; the tree is the largest with a power
\* of two of leaves that fits, and h_max the levels below its root.
Hotspot(g) == (g.upper - g.lower) * Volume(g)
h_max(g) == Cardinality({h \in 1..MaxLevels : LeafSectors * 2^(h + 1) <= Hotspot(g) \div 100})
node_num(g) == 2^(h_max(g) + 1)
tree_size(g) == LeafSectors * node_num(g)

ASSUME Spc1Assumption ==
  /\ Volumes \in Seq(Nat) /\ Len(Volumes) = 3
  /\ BsuNum \in Nat \ {0} /\ Used \in [Bsu -> SUBSET DOMAIN iogen]
  /\ BlockSectors \in Nat \ {0} /\ LeafBlocks \in Nat \ {0} /\ HStart \in Nat \ {0}
  /\ MaxLevels \in Nat /\ \A g \in {iogen[i] : i \in DOMAIN iogen} :
       g.kind = "hr" => Hotspot(g) \div 100 < LeafSectors * 2^(MaxLevels + 2)
  /\ \A b \in Bsu : Used[b] # {}
  /\ \A v \in DOMAIN Volumes : \A s \in Sizes : BlockSectors <= s /\ s <= Volumes[v]

\* The lowest climb of select_leaf stays within the tree.  The code does not
\* check it: on a smaller volume it reads last_read out of bounds.
ASSUME HotspotAssumption ==
  \A b \in Bsu : \A i \in Used[b] :
    iogen[i].kind = "hr" =>
      /\ LeafSectors * 2 <= Hotspot(iogen[i]) \div 100
      /\ HStart <= h_max(iogen[i])

HRInit(g) ==
  [offset : Drawn(g.lower * Volume(g), g.lower * Volume(g) + Hotspot(g) - 100 * tree_size(g), 100),
   last_read : {[n \in 0..(node_num(g) - 1) |-> LeafBlocks - 1]},
   last_written_addr : {Garbage},
   leaf : 0..(node_num(g) - 1)]

\* Mutant: the subtree is one level too high.
select_leaf_High(g, last_leaf) ==
  UNION {{2^(h + 1) * (last_leaf \div 2^(h + 1)) + n : n \in 0..(2^(h + 1) - 1)} :
           h \in HStart..h_max(g)}

\* The walk climbs HStart to h_max levels and comes down to any leaf there.
select_leaf(g, last_leaf) ==
  UNION {{2^h * (last_leaf \div 2^h) + n : n \in 0..(2^h - 1)} : h \in HStart..h_max(g)}

Addr(st, leaf, block) == st.offset + leaf * LeafSectors + block * BlockSectors

\* select_addr: a read takes the next block of the leaf, a write any block, or
\* the address of the last write again.
HRReads(st, g) ==
  {LET block == (st.last_read[leaf] + 1) % LeafBlocks
   IN  [state |-> [st EXCEPT !.leaf = leaf, !.last_read[leaf] = block],
        lba |-> Addr(st, leaf, block), size |-> BlockSectors] :
     leaf \in select_leaf(g, st.leaf)}

HRWrites(st, g) ==
  UNION {{[state |-> [st EXCEPT !.leaf = leaf, !.last_written_addr = lba],
           lba |-> lba, size |-> BlockSectors] :
            lba \in {st.last_written_addr} \cup {Addr(st, leaf, b) : b \in 0..(LeafBlocks - 1)}} :
         leaf \in select_leaf(g, st.leaf)}

-----------------------------------------------------------------------------
(* SeqGen *)

SeqInit == [max_addr |-> 0, last_addr |-> 1, last_transfer_size |-> 0]

get_start_addr(g, size) ==
  {IF a + size > Volume(g) THEN Volume(g) - size ELSE a :
     a \in Drawn((2 * g.start - g.startvar) * Volume(g),
                 (2 * g.start + g.startvar) * Volume(g), 200)}

StreamEnd(g, addr) ==
  LET max_addr == addr + (g.length * Volume(g)) \div 100
  IN  IF max_addr > Volume(g) - 1 THEN Volume(g) - 1 ELSE max_addr

\* generate: the stream goes on behind the last request, or another one starts.
SeqOutcomes(g, st) ==
  LET next == st.last_addr + st.last_transfer_size     \* stride is 0
      at(addr, end, size) ==
        [state |-> [max_addr |-> end, last_addr |-> addr, last_transfer_size |-> size],
         lba |-> addr, size |-> size]
  IN  UNION {IF next + size > st.max_addr + 1
             THEN {at(a, StreamEnd(g, a), size) : a \in get_start_addr(g, size)}
             ELSE {at(next, st.max_addr, size)} : size \in Sizes}

-----------------------------------------------------------------------------
(* BSU, SPC1Generator, SPC1_IoGenerator *)

VARIABLES
  generator,   \* "none", "refused" by SPC1Generator::Init, or "ready"
  tree,        \* <<BSU, generator>> -> state of an HRGen
  stream,      \* <<BSU, generator>> -> state of a SeqGen
  idx,         \* the BSU whose turn it is
  cmd          \* the last command

vars == <<generator, tree, stream, idx, cmd>>

OfKind(kind) == {<<b, i>> \in Bsu \X DOMAIN iogen : i \in Used[b] /\ iogen[i].kind = kind}

NoCmd == [asu |-> 0, lba |-> 0, size |-> 0, opcode |-> "READ"]

Init ==
  /\ generator = "none" /\ tree = <<>> /\ stream = <<>>
  /\ idx = 0 /\ cmd = NoCmd

\* The first call makes the generator, and keeps one that Init has refused.
InitGenerator(lu_num) ==
  \/ /\ generator = "none" /\ lu_num = Len(Volumes)
     /\ generator' = "ready"
     /\ tree' \in {f \in [OfKind("hr") -> UNION {HRInit(iogen[k[2]]) : k \in OfKind("hr")}] :
                     \A k \in OfKind("hr") : f[k] \in HRInit(iogen[k[2]])}
     /\ stream' = [k \in OfKind("seq") |-> SeqInit]
     /\ UNCHANGED <<idx, cmd>>
  \/ /\ generator = "none" /\ lu_num # Len(Volumes)
     /\ generator' = "refused" /\ UNCHANGED <<tree, stream, idx, cmd>>
  \/ generator # "none" /\ UNCHANGED vars

\* What generator i of BSU b may do when it has chosen a read or a write.
Outcomes(b, i, opcode) ==
  CASE iogen[i].kind = "uniform" -> UniformOutcomes(iogen[i])
    [] iogen[i].kind = "seq"     -> SeqOutcomes(iogen[i], stream[<<b, i>>])
    [] iogen[i].kind = "hr"      -> IF opcode = "READ" THEN HRReads(tree[<<b, i>>], iogen[i])
                                                       ELSE HRWrites(tree[<<b, i>>], iogen[i])

\* NextIo: the BSU whose turn it is draws generator i.
GetNextCommand(i) ==
  /\ generator = "ready" /\ i \in Used[idx]
  /\ \E opcode \in Opcodes(iogen[i]) : \E out \in Outcomes(idx, i, opcode) :
       /\ cmd' = [asu |-> iogen[i].asu, lba |-> out.lba, size |-> out.size, opcode |-> opcode]
       /\ tree' = IF iogen[i].kind = "hr" THEN [tree EXCEPT ![<<idx, i>>] = out.state] ELSE tree
       /\ stream' = IF iogen[i].kind = "seq" THEN [stream EXCEPT ![<<idx, i>>] = out.state] ELSE stream
  /\ idx' = IF idx + 1 > BsuNum - 1 THEN 0 ELSE idx + 1
  /\ UNCHANGED generator

Next ==
  \/ \E lu_num \in {Len(Volumes) - 1, Len(Volumes)} : InitGenerator(lu_num)
  \/ \E i \in DOMAIN iogen : GetNextCommand(i)

Spec == Init /\ [][Next]_vars
-----------------------------------------------------------------------------
(* Properties *)

\* A command lies within its volume, but for one that repeats a write before
\* there was one.
InVolume == cmd.lba # Garbage => cmd.lba + cmd.size <= Volumes[cmd.asu + 1]

\* The walk never leaves the half of the tree it began in (h_max is one level
\* below the root), and what it wrote last lies there, too.
InHalf ==
  \A k \in OfKind("hr") :
    LET st   == tree[k]
        half == node_num(iogen[k[2]]) \div 2
    IN  st.last_written_addr # Garbage =>
          (st.last_written_addr - st.offset) \div (half * LeafSectors) = st.leaf \div half

\* Commands stay where their generator belongs, however streams end and walks
\* wander.
CommandsInPlace == [][generator' = "ready" => InVolume' /\ InHalf']_vars
=============================================================================
