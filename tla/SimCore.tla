------------------------------- MODULE SimCore -------------------------------
(***************************************************************************)
(* The stepping simulation core (SimCore, sim.cpp): Initialize reads the   *)
(* configuration, one pattern section after the other, and refuses what it *)
(* cannot use; RunStep issues a command until the wanted number is issued. *)
(* The calls into the FTL are commented out in the source, so a step is    *)
(* the command it generates and the condition that ends the run.           *)
(***************************************************************************)
EXTENDS IoSources

CONSTANTS
    Confs,       \* the configurations: version, type, patterns, interval
    UsrArea,     \* usr_area_sector (10000)
    EndCount,    \* TOTAL_COUNT: commands of a run
    ShareWord    \* shares are read and added up modulo this (2^16)

ASSUME SimAssumption ==
    /\ UsrArea \in Nat /\ EndCount \in Nat
    /\ ShareWord \in Nat /\ 2 * Percent < ShareWord

VARIABLES
    conf,         \* the file's contents
    phase,        \* where the program is: Initialize, the run, or refused
    generator,    \* the sources of io_gen
    total_ratio,  \* the shares read so far
    io_count, is_sim_end,
    command,      \* the last command, and the source it came from
    printed       \* an intermediate result has been printed

vars == <<conf, phase, generator, total_ratio, io_count, is_sim_end, command, printed>>

NoCommand == [src |-> 0]

-----------------------------------------------------------------------------
(* Initialize.                                                             *)
Refuse ==
    /\ phase' = "refused"
    /\ UNCHANGED <<conf, generator, total_ratio, io_count, is_sim_end, command, printed>>

CheckFile ==
    /\ phase = "file"
    /\ IF conf.version # "3.1" \/ conf.type # "NORMAL" THEN Refuse
       ELSE /\ phase' = "patterns"
            /\ UNCHANGED <<conf, generator, total_ratio, io_count, is_sim_end, command, printed>>

(* A sector number, or a share of the user area with an R behind it.       *)
Sector(s) == IF s.rule = "R" THEN (UsrArea * s.num) \div Percent ELSE s.num

(* What a section of the file is read as (atoi).  No area ends so close to *)
(* the end of the addresses that two requests behind it wrap; the size of  *)
(* a unit is asked of units there are.                                     *)
PatternConf ==
    [TARGET_VOL : Nat, LENGTH : Nat, ALIGN_SEC : Nat, OP_CODE : STRING, PATTERN : STRING,
     START_SEC : [rule : STRING, num : Nat], END_SEC : [rule : STRING, num : Nat],
     RATIO : 0..(ShareWord - 1)]

FarFromEnd(sector) == sector + 2 * (MaxAlign + MaxLength) < Word

ASSUME ConfAssumption ==
    /\ \A c \in Confs :
          /\ c.patterns \in Seq(PatternConf)
          /\ \A i \in DOMAIN c.patterns :
                LET p == c.patterns[i] IN
                /\ FarFromEnd(Sector(p.END_SEC))
                /\ Sector(p.END_SEC) = 0 => p.TARGET_VOL < Len(LuSectors)
    /\ \A i \in DOMAIN LuSectors : FarFromEnd(LuSectors[i])

IoPattern(c) ==
    [tgt_vol |-> c.TARGET_VOL, length |-> c.LENGTH, align |-> c.ALIGN_SEC,
     start_sec |-> Sector(c.START_SEC), end_sec |-> Sector(c.END_SEC)]

(* The loop over the sections A0, A1, ... (sim.cpp 266-318): it ends when  *)
(* the shares make a hundred, and fails at a missing section, an unknown   *)
(* word, a pattern CreateIOPattern refuses and shares beyond a hundred.    *)
SharesFit(gen) == SumOf(gen, Len(gen)) % ShareWord <= Percent

Usable(c) ==
    /\ c.OP_CODE \in {"READ", "WRITE"}
    /\ c.PATTERN \in {"RAN", "SEQ"}
    /\ Accepted(IoPattern(c))

AddPattern ==
    /\ phase = "patterns"
    /\ total_ratio # Percent
    /\ LET i   == Len(generator) + 1
           c   == conf.patterns[i]
           gen == Append(generator, Source(IoPattern(c), c.PATTERN = "RAN", c.RATIO))
       IN  IF i <= Len(conf.patterns) /\ Usable(c) /\ SharesFit(gen)
           THEN /\ generator' = gen
                /\ total_ratio' = (total_ratio + c.RATIO) % ShareWord
                /\ UNCHANGED <<conf, phase, io_count, is_sim_end, command, printed>>
           ELSE Refuse

(* The output and debug options change nothing the properties see, except  *)
(* the interval; then the run may start.                                   *)
StartRun ==
    /\ phase = "patterns"
    /\ total_ratio = Percent
    /\ phase' = "run"
    /\ is_sim_end' = FALSE
    /\ UNCHANGED <<conf, generator, total_ratio, io_count, command, printed>>

-----------------------------------------------------------------------------
(* GetNextCommand: a source is drawn, and it makes its next command.       *)
Issue(i) ==
    LET src == generator[i] IN
    IF src.random
    THEN \E r \in RandomRange(src.pattern) :
            /\ command' = Command(i, src, RandomLba(src.pattern, r))
            /\ UNCHANGED generator
    ELSE /\ command' = Command(i, src, src.current_lba)
         /\ generator' = [generator EXCEPT ![i] = Advanced(src)]

(* The intermediate result: host_io_count is never counted up (its line is *)
(* commented out), so it is printed in every step if the interval is 0 and *)
(* in none otherwise.                                                      *)
PrintMidResult == printed' = (printed \/ conf.interval = 0)

Counted == io_count' = io_count + 1

RunStep ==
    /\ phase = "run"
    /\ ~is_sim_end
    /\ \/ /\ io_count < EndCount
          /\ \E choise \in 0..Percent :
                IF Picked(generator, choise) = 0
                THEN /\ is_sim_end' = TRUE
                     /\ UNCHANGED <<generator, io_count, command, printed>>
                ELSE /\ Issue(Picked(generator, choise))
                     /\ Counted
                     /\ PrintMidResult
                     /\ UNCHANGED is_sim_end
       \/ /\ io_count >= EndCount
          /\ is_sim_end' = TRUE
          /\ PrintMidResult
          /\ UNCHANGED <<generator, io_count, command>>
    /\ UNCHANGED <<conf, phase, total_ratio>>

(* The caller stops at a refusal and at IsSimEnd().                        *)
Stopped ==
    /\ phase = "refused" \/ is_sim_end
    /\ UNCHANGED vars

Init ==
    /\ conf \in Confs
    /\ phase = "file"
    /\ generator = <<>> /\ total_ratio = 0
    /\ io_count = 0 /\ is_sim_end = FALSE
    /\ command = NoCommand /\ printed = FALSE

Next == CheckFile \/ AddPattern \/ StartRun \/ RunStep \/ Stopped

Spec == Init /\ [][Next]_vars

-----------------------------------------------------------------------------
(* Where the commands of any pattern Initialize accepts go.                *)
Fits(pat) == pat.start_sec + pat.length <= pat.end_sec

(* In the area, but for the rounding: an address rounded up may run over   *)
(* the end by less than a boundary, if the area does not end on one.       *)
WithinArea(pat, lba) ==
    /\ lba >= pat.start_sec
    /\ lba % pat.align = 0
    /\ lba + pat.length < pat.end_sec + pat.align
    /\ (pat.end_sec - pat.length) % pat.align = 0 => lba + pat.length <= pat.end_sec

(* A random source stays in its area exactly if one request fits in it: of *)
(* a longer one the unsigned difference wraps, and commands leave the area *)
(* by a boundary or more.  A sequential source never begins before its     *)
(* area, and runs to its end or over it only from one of the two addresses *)
(* it may start at, so never if a request fits behind both.                *)
CommandsInArea ==
    /\ \A i \in DOMAIN generator :
          LET pat == generator[i].pattern
          IN  generator[i].random =>
                (Fits(pat) <=> \A r \in RandomRange(pat) : WithinArea(pat, RandomLba(pat, r)))
    /\ command # NoCommand =>
          LET src == generator[command.src]
              pat == src.pattern
              lba == command.lba
          IN  /\ src.random /\ Fits(pat) => WithinArea(pat, lba)
              /\ ~src.random =>
                    /\ lba >= pat.start_sec
                    /\ \/ lba + pat.length < pat.end_sec
                       \/ lba \in {pat.start_sec, pat.start_sec + pat.align}

(* Once Initialize has succeeded the run issues all its commands: no draw  *)
(* finds no source, so it never ends early with "fail to get next io", not *)
(* even when the shares make a hundred only because they wrap; and         *)
(* the sources are drawn in the shares the file gives them, if none is     *)
(* above a hundred: of the 101 numbers sim_rand32(100) may answer each     *)
(* picks as many as its share, the first source one more (for 0).          *)
EndsAfterAllCommands == is_sim_end => io_count = EndCount

SharesAsConfigured ==
    (phase = "run" /\ \A i \in DOMAIN generator : generator[i].ratio <= Percent) =>
        \A i \in DOMAIN generator :
            Cardinality({c \in 0..Percent : Picked(generator, c) = i})
                = generator[i].ratio + (IF i = 1 THEN 1 ELSE 0)

RunAsConfigured == EndsAfterAllCommands /\ SharesAsConfigured
=============================================================================
