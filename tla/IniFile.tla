-------------------------------- MODULE IniFile --------------------------------
(***************************************************************************)
(* The configuration reader of the simulator (inilib/ini.cpp): fill() puts *)
(* the file in the lexer's buffer, lexer() cuts the longest token that     *)
(* starts at p, and fromInputStream() drives a state machine with it.      *)
(* The scanner proper is generated code: its states yy2..yy693 are what    *)
(* the operators ...Len below compute, a length for each rule of           *)
(* ini.cc.re2c 423-430.                                                    *)
(*                                                                         *)
(* A file is a sequence of lines of a small alphabet.  Files shorter than  *)
(* the buffer only (testconf.ini has 1125 bytes of 8192): the first fill() *)
(* then reads the whole file and every later one does nothing.             *)
(***************************************************************************)
EXTENDS Naturals, Sequences, FiniteSetsExt, SequencesExt

CONSTANTS
    Lines,       \* the lines a file is made of: [text, means], see Meaning
    MaxLines,    \* lines of a file
    TextMax,     \* the longest TEXT or ESCAPED_TEXT token (80 in the rules)
    CommentMax   \* the longest COMMENT token (201 in the rules)

ASSUME IniAssumption ==
    /\ MaxLines \in Nat \ {0}
    /\ TextMax \in Nat \ {0, 1}
    /\ CommentMax \in Nat \ {0}

VARIABLES
    file,          \* the lines, and whether the last one ends with a newline
    buffer,        \* the characters after fill()
    p, q,          \* YYCURSOR, and where the current token starts
    state, token_value, label, value,   \* locals of fromInputStream
    section_list   \* current_section is its last element, NULL if there is none

vars == <<file, buffer, p, q, state, token_value, label, value, section_list>>

-----------------------------------------------------------------------------
EOLs   == {"\n", "\r"}
Blanks == {" ", "\t"}
Stops_NoAssign == Blanks \cup EOLs
Stops  == Blanks \cup EOLs \cup {"="}          \* what ends a TEXT

(* The text of a file, with or without the newline at its end: what the    *)
(* reader is given, no part of it.                                         *)
Flat(lines, terminated) ==
    LET text == FlattenSeq([i \in DOMAIN lines |-> Append(lines[i].text, "\n")])
    IN  IF terminated THEN text ELSE Front(text)

(* fill(), first call: eos is the place behind the last character; a       *)
(* newline is stored there and over the last character of the file.        *)
Filled_NoHack(text) == Append(text, "\n")
Filled(text) == [text EXCEPT ![Len(text)] = "\n"] \o <<"\n">>
eos == Len(buffer)

(* The length of the longest run of characters from i on that are not in S *)
(* (at most max of them).  A run never passes the newline at eos.          *)
Run(i, S, max) ==
    Max({n \in 0..max : /\ i + n <= eos
                        /\ \A x \in i..(i + n - 1) : buffer[x] \notin S})

SectionLen(i) ==
    LET n == Run(i + 1, EOLs \cup {"[", "]"}, eos)
    IN  IF buffer[i] = "[" /\ n > 0 /\ buffer[i + 1 + n] = "]" THEN n + 2 ELSE 0

AssignLen(i) == IF buffer[i] = "=" THEN 1 ELSE 0

TextLen(i) ==
    IF buffer[i] \in Stops \cup {"["} THEN 0 ELSE 1 + Run(i + 1, Stops, TextMax - 1)

EscapedLen(i) ==
    LET quotes == {n \in 1..Run(i + 1, EOLs, TextMax - 1) : buffer[i + n] = "\""}
    IN  IF buffer[i] = "\"" /\ quotes # {} THEN Max(quotes) + 1 ELSE 0

CommentLen(i) == IF buffer[i] = ";" THEN 1 + Run(i + 1, EOLs, CommentMax - 1) ELSE 0

BlankLen(i) == Max({n \in 0..(eos - i) : \A x \in i..(i + n - 1) : buffer[x] \in Blanks})

NewlineLen(i) == IF buffer[i] = "\n" THEN 1 ELSE 0

(* The rules in their order: the longest match wins, the first of them if  *)
(* there are several, and ERROR takes one character when none matches.     *)
Rules(i) == << [kind |-> "SECTION",      len |-> SectionLen(i)],
               [kind |-> "=",            len |-> AssignLen(i)],
               [kind |-> "TEXT",         len |-> TextLen(i)],
               [kind |-> "ESCAPED_TEXT", len |-> EscapedLen(i)],
               [kind |-> "COMMENT",      len |-> CommentLen(i)],
               [kind |-> "WS",           len |-> BlankLen(i)],
               [kind |-> "EOL",          len |-> NewlineLen(i)],
               [kind |-> "ERROR",        len |-> 1] >>

LongestFirst(rules) ==
    LET wins(r) == \A s \in DOMAIN rules : \/ rules[r].len > rules[s].len
                                           \/ rules[r].len = rules[s].len /\ r <= s
    IN  rules[CHOOSE r \in DOMAIN rules : wins(r)]

(* One call of lexer(): the token, its text and the new p and q.  "=" and  *)
(* the newline move q by one only, and ERROR not at all: q then lags       *)
(* behind, and the next text starts with what was left over.               *)
Token(kind, len) ==
    LET np == p + len
        to(k, text, nq) == [kind |-> k, text |-> text, p |-> np, q |-> nq]
    IN  CASE kind = "SECTION" -> to(kind, SubSeq(buffer, q + 1, np - 2), np)
          [] kind = "COMMENT" -> to(kind, SubSeq(buffer, q + 1, np - 1), np)
          [] kind = "="       -> to(buffer[q], <<>>, q + 1)
          [] kind = "EOL"     -> to(IF np = eos THEN "EOS" ELSE "EOL", <<>>, q + 1)
          [] kind = "ERROR"   -> to(kind, <<>>, q)
          [] OTHER            -> to(kind, SubSeq(buffer, q, np - 1), np)

Lexed == LET of(m) == Token(m.kind, m.len) IN of(LongestFirst(Rules(p)))

LineEnd(t) == t.kind \in {"EOL", "EOS"}

-----------------------------------------------------------------------------
(* The document.                                                           *)
createSection(doc, name) == Append(doc, [name |-> name, options |-> <<>>])

Current(doc) == IF doc = <<>> THEN createSection(doc, <<>>) ELSE doc

pushOption(doc, l, v) ==
    LET d == Current(doc)
    IN  [d EXCEPT ![Len(d)].options = Append(@, [label |-> l, value |-> v])]

pushComment(doc) == pushOption(doc, <<>>, <<>>)

(* section_list[name][label]: the first section of that name, the first    *)
(* option of that label, the empty string when there is none.              *)
Lookup(doc, name, l) ==
    LET secs == {i \in DOMAIN doc : doc[i].name = name}
        opts == IF secs = {} THEN <<>> ELSE doc[Min(secs)].options
        hits == {i \in DOMAIN opts : opts[i].label = l}
    IN  IF hits = {} THEN <<>> ELSE opts[Min(hits)].value

-----------------------------------------------------------------------------
(* fromInputStream: one action per state, a call of lexer() and its case.  *)
Read(s, t) ==
    /\ state = s
    /\ token_value' = t.kind
    /\ p' = t.p
    /\ q' = t.q
    /\ UNCHANGED <<file, buffer>>

Default(t) ==
    /\ Read(0, t)
    /\ state' = CASE t.kind = "["       -> 1
                  [] t.kind = "SECTION" -> 3
                  [] t.kind = "TEXT"    -> 4
                  [] t.kind = "COMMENT" -> 30
                  [] t.kind = "WS"      -> 0
                  [] LineEnd(t)         -> 0
                  [] OTHER              -> 31
    /\ label' = IF t.kind \in {"SECTION", "TEXT"} THEN t.text ELSE label
    /\ section_list' = IF t.kind = "COMMENT" THEN pushComment(section_list) ELSE section_list
    /\ UNCHANGED value

StartSection(t) ==
    /\ Read(1, t)
    /\ state' = IF t.kind = "TEXT" THEN 2 ELSE 31
    /\ label' = IF t.kind = "TEXT" THEN t.text ELSE label
    /\ UNCHANGED <<value, section_list>>

CloseSection(t) ==
    /\ Read(2, t)
    /\ state' = IF t.kind = "]" THEN 3 ELSE 31
    /\ UNCHANGED <<label, value, section_list>>

AfterSection(t) ==
    /\ Read(3, t)
    /\ state' = CASE t.kind = "COMMENT" -> 30
                  [] t.kind = "WS"      -> 3
                  [] LineEnd(t)         -> 0
                  [] OTHER              -> 31
    /\ section_list' = IF t.kind = "COMMENT" \/ LineEnd(t)
                       THEN createSection(section_list, label) ELSE section_list
    /\ UNCHANGED <<label, value>>

WaitForAssign(t) ==
    /\ Read(4, t)
    /\ state' = CASE t.kind = "="  -> 5
                  [] t.kind = "WS" -> 4
                  [] OTHER         -> 31
    /\ UNCHANGED <<label, value, section_list>>

WaitForValue(t) ==
    /\ Read(5, t)
    /\ state' = CASE t.kind \in {"TEXT", "ESCAPED_TEXT"} -> 6
                  [] t.kind = "WS" -> 5
                  [] LineEnd(t)    -> 0
                  [] OTHER         -> 31
    /\ value' = IF t.kind \in {"TEXT", "ESCAPED_TEXT"} THEN t.text ELSE value
    /\ section_list' = IF LineEnd(t) THEN pushOption(section_list, label, <<>>) ELSE section_list
    /\ UNCHANGED label

AfterValue(t) ==
    /\ Read(6, t)
    /\ state' = CASE LineEnd(t)         -> 0
                  [] t.kind = "COMMENT" -> 30
                  [] t.kind = "WS"      -> 6
                  [] OTHER              -> 31
    /\ section_list' = IF t.kind = "COMMENT" \/ LineEnd(t)
                       THEN pushOption(section_list, label, value) ELSE section_list
    /\ UNCHANGED <<label, value>>

WaitForEol(t) ==
    /\ Read(30, t)
    /\ state' = CASE LineEnd(t) -> 0 [] t.kind = "WS" -> 30 [] OTHER -> 31
    /\ UNCHANGED <<label, value, section_list>>

SkipLine_ToTheEnd(t) ==
    /\ Read(31, t)
    /\ state' = IF t.kind = "EOS" THEN 0 ELSE 31
    /\ UNCHANGED <<label, value, section_list>>

SkipLine(t) ==
    /\ Read(31, t)
    /\ state' = IF LineEnd(t) THEN 0 ELSE 31
    /\ UNCHANGED <<label, value, section_list>>

-----------------------------------------------------------------------------
(* Every file of 1 to MaxLines lines, its last line ended or not; the      *)
(* empty file is left out (fill() would write in front of the buffer).     *)
Files == [lines : SeqOf(Lines, MaxLines) \ {<<>>}, terminated : BOOLEAN]

Init ==
    /\ file \in {f \in Files : Flat(f.lines, f.terminated) # <<>>}
    /\ buffer = Filled(Flat(file.lines, file.terminated))
    /\ p = 1 /\ q = 1
    /\ state = 0 /\ token_value = "" /\ label = <<>> /\ value = <<>>
    /\ section_list = <<>>

(* The document is in use: the caller looks options up and changes nothing.*)
Parsed == token_value = "EOS"
Used   == Parsed /\ UNCHANGED vars

Parse ==
    /\ token_value # "EOS"
    /\ \E t \in {Lexed} :
        \/ Default(t) \/ StartSection(t) \/ CloseSection(t) \/ AfterSection(t)
        \/ WaitForAssign(t) \/ WaitForValue(t) \/ AfterValue(t)
        \/ WaitForEol(t) \/ SkipLine(t)

Next == Parse \/ Used

Spec == Init /\ [][Next]_vars

-----------------------------------------------------------------------------
(* What a file says, line by line, with no lexer: Lines gives each line    *)
(* its meaning, one of                                                     *)
(*   [is |-> "section", name |-> ...]                                      *)
(*   [is |-> "option", label |-> ..., value |-> ...]                       *)
(*   [is |-> "comment"], [is |-> "blank"], [is |-> "bad"].                 *)
Meant(lines) ==
    FoldLeft(LAMBDA doc, l :
                 CASE l.means.is = "section" -> createSection(doc, l.means.name)
                   [] l.means.is = "option"  -> pushOption(doc, l.means.label, l.means.value)
                   [] l.means.is = "comment" -> pushComment(doc)
                   [] OTHER                  -> doc,
             <<>>, lines)

Good(i) == file.lines[i].means.is # "bad"

(* The pointers stay where the generated scanner relies on them: the token *)
(* starts at or before the cursor, and the cursor never passes the newline *)
(* that fill() stored behind the file, whatever the file holds.            *)
ScansWithinBuffer == q <= p /\ p <= eos

(* The name of the section line i stands in, and whether a lookup for its   *)
(* option stops earlier: at a section of the same name, or at an option of *)
(* the same label.                                                         *)
Headers(i)  == {h \in 1..i : file.lines[h].means.is = "section"}
NameAt(i)   == IF Headers(i) = {} THEN <<>> ELSE file.lines[Max(Headers(i))].means.name
Shadowed(i) ==
    \/ \E h \in Headers(i) : h # Max(Headers(i)) /\ NameAt(h) = NameAt(i)
    \/ \E j \in 1..(i - 1) : /\ Headers(j) = Headers(i)
                             /\ file.lines[j].means.is = "option"
                             /\ file.lines[j].means.label = file.lines[i].means.label

(* A file of well-formed, ended lines is read as it is written: every      *)
(* section, option and comment, in order, in the section it stands in; and *)
(* the lookup finds each option that no earlier one hides.                 *)
ParsedAsWritten ==
    (Parsed /\ file.terminated /\ \A i \in DOMAIN file.lines : Good(i)) =>
        /\ section_list = Meant(file.lines)
        /\ \A i \in DOMAIN file.lines :
              LET m == file.lines[i].means
              IN  m.is = "option" /\ ~Shadowed(i)
                      => Lookup(section_list, NameAt(i), m.label) = m.value

(* A line the reader rejects costs at most itself and the next line that   *)
(* is not blank: an option or a section whose nearest line before it that  *)
(* is not blank is well formed (or that has none) is in the document.      *)
DamageIsLocal ==
    Parsed => \A i \in DOMAIN file.lines :
        LET m == file.lines[i].means
            safe == /\ i = Len(file.lines) => file.terminated
                    /\ \A j \in 1..(i - 1) :
                          Good(j) \/ \E k \in (j + 1)..(i - 1) : Good(k) /\ file.lines[k].means.is # "blank"
        IN  /\ safe /\ m.is = "option" =>
                  \E s \in DOMAIN section_list : \E o \in DOMAIN section_list[s].options :
                     section_list[s].options[o] = [label |-> m.label, value |-> m.value]
            /\ safe /\ m.is = "section" =>
                  \E s \in DOMAIN section_list : section_list[s].name = m.name
================================================================================
