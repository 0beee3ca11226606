------------------------------ MODULE IoSources ------------------------------
(***************************************************************************)
(* The synthetic load (iosrc.cpp, Generic_IoGenerator of iogenerator.cpp): *)
(* an I/O source issues commands of one pattern, in ascending order or at  *)
(* random, and the generator draws the source of each command from the     *)
(* patterns' shares of a hundred.  A source is a record, a method that     *)
(* changes it returns the new one.  The random numbers are parameters:     *)
(* sim_rand32 and sim_rand64 (util_random.cpp 97-111) answer any number    *)
(* from 0 to their argument, the argument included.                        *)
(***************************************************************************)
EXTENDS Integers, Sequences, FiniteSets, FiniteSetsExt, TLC

CONSTANTS
    LuSectors,   \* lu_sector_list: the sectors of each logical unit
    Percent,     \* what the shares of the patterns add up to (100)
    MaxAlign,    \* largest boundary accepted (1024)
    MaxLength,   \* longest request accepted (20480)
    Word         \* addresses are counted modulo this (2^64)

ASSUME IoAssumption ==
    /\ LuSectors \in Seq(Nat) /\ LuSectors # <<>>
    /\ Percent \in Nat \ {0} /\ MaxAlign \in Nat /\ MaxLength \in Nat
    /\ Word \in Nat \ {0}

(* GenericIoSrc::CreateIOPattern: the pattern kept, and whether it is      *)
(* accepted.  Units count from 0, and a pattern for the unit behind the    *)
(* last one is let through.                                                *)
Pattern(pat) ==
    IF pat.end_sec = 0 THEN [pat EXCEPT !.end_sec = LuSectors[pat.tgt_vol + 1]] ELSE pat

Accepted(pat) ==
    /\ pat.tgt_vol <= Len(LuSectors)
    /\ pat.align # 0 /\ pat.align <= MaxAlign
    /\ pat.length <= MaxLength
    /\ Pattern(pat).end_sec >= pat.start_sec

(* The source AddIoPattern makes; SequentialIO starts one boundary behind  *)
(* the start of its area.                                                  *)
Source(pat, random, share) ==
    [pattern |-> Pattern(pat), random |-> random, ratio |-> share,
     current_lba |-> IF random THEN 0 ELSE pat.start_sec + pat.align]

(* The command of the i-th source, which is src.                           *)
Command(i, src, lba) == [src |-> i, vol |-> src.pattern.tgt_vol, lba |-> lba,
                         sector_num |-> src.pattern.length]

(* SequentialIO::NextIo: the command, and where the next one starts.       *)
Advanced(src) ==
    LET next == src.current_lba + src.pattern.length
    IN  [src EXCEPT !.current_lba = IF next + src.pattern.length >= src.pattern.end_sec
                                    THEN src.pattern.start_sec ELSE next]

(* RandomIO::NextIo: the numbers sim_rand64 may answer, and the address    *)
(* made of one.  The range wraps when the request is longer than its area. *)
RandomRange(pat) ==
    0..((pat.end_sec + 2 * Word - pat.length - pat.start_sec) % Word)

Aligned_Never(pat, lba) == lba

Aligned(pat, lba) ==
    IF lba % pat.align = 0 THEN lba ELSE lba + (pat.align - (lba % pat.align))

RandomLba(pat, r) == Aligned(pat, (r + pat.start_sec) % Word) % Word

(* Generic_IoGenerator: the sum of the first n shares, and the source      *)
(* GetNextCommand picks for a drawn number: the first whose sum reaches    *)
(* it, 0 if none does.                                                     *)
SumOf(gen, n) ==
    LET sum[i \in 0..n] == IF i = 0 THEN 0 ELSE sum[i - 1] + gen[i].ratio
    IN  sum[n]

Picked_Strict(gen, choise) ==
    LET hits == {i \in DOMAIN gen : SumOf(gen, i) > choise}
    IN  IF hits = {} THEN 0 ELSE Min(hits)

Picked(gen, choise) ==
    LET hits == {i \in DOMAIN gen : SumOf(gen, i) >= choise}
    IN  IF hits = {} THEN 0 ELSE Min(hits)
=============================================================================
