------------------------------ MODULE MCSimCore ------------------------------
(* Patterns in the shape of testconf.ini, four "percent" instead of a      *)
(* hundred: areas given in sectors and in shares of the user area, both    *)
(* orders, boundaries that divide the area and one that does not, a        *)
(* request longer than its area, shares that wrap, and what Initialize     *)
(* refuses.                                                                *)
EXTENDS SimCore

Pat(order, ratio, start, end, length, align) ==
    [TARGET_VOL |-> 0, LENGTH |-> length, ALIGN_SEC |-> align,
     START_SEC |-> start, END_SEC |-> end, OP_CODE |-> "WRITE",
     PATTERN |-> order, RATIO |-> ratio]

N(n) == [rule |-> "", num |-> n]
R(n) == [rule |-> "R", num |-> n]

MCPatterns == {
    Pat("RAN", 2, N(0), R(2), 2, 2),
    Pat("RAN", 1, R(2), R(3), 2, 2),
    Pat("RAN", 2, R(1), N(0), 3, 2),
    Pat("SEQ", 2, N(0), N(0), 2, 2),
    Pat("SEQ", 2, R(1), R(3), 1, 1),
    Pat("SEQ", 0, N(0), N(3), 2, 2),
    Pat("RAN", 2, N(4), N(5), 2, 1),
    Pat("RAN", 2, N(4), N(2), 2, 1),
    Pat("RAN", 2, N(0), N(4), 2, 0),
    [Pat("SEQ", 1, N(2), N(7), 2, 1) EXCEPT !.TARGET_VOL = 1],
    [Pat("SEQ", 2, N(2), N(7), 2, 1) EXCEPT !.OP_CODE = "ERASE"],
    [Pat("SEQ", 2, N(2), N(7), 2, 1) EXCEPT !.PATTERN = "ZIPF"] }

Conf(version, type, patterns, interval) ==
    [version |-> version, type |-> type, patterns |-> patterns, interval |-> interval]

Lists == UNION {[1..n -> MCPatterns] : n \in 0..2}
         \cup {<<a, b, c>> : a, b \in {p \in MCPatterns : p.RATIO < 2}, c \in MCPatterns}

\* A share of -1, and shares that make a hundred because it wraps.
Wrapping == {<<Pat(a, 2, N(0), N(4), 2, 2), Pat(b, 15, N(4), N(8), 2, 1), Pat("SEQ", 3, R(3), N(0), 1, 1)>> :
               a, b \in {"RAN", "SEQ"}}

MCConfs ==
    {Conf("3.1", "NORMAL", l, 1) : l \in Lists \cup Wrapping}
    \cup {Conf("3.0", "NORMAL", <<>>, 1), Conf("3.1", "SPC1", <<>>, 1)}
    \cup {Conf("3.1", "NORMAL", <<p, p>>, 0) : p \in MCPatterns}

MCLuSectors == <<10>>
=============================================================================
