------------------------------- MODULE MCIniFile -------------------------------
(* The lines of the instance: every form of a line in testconf.ini (a comment *)
(* behind blanks, an option commented out, a header, blanks around "=", an    *)
(* empty line), a quoted value, an empty one, a header with a comment, and    *)
(* lines the rules of the scanner reject.                                     *)
EXTENDS IniFile

Line(text, means) == [text |-> text, means |-> means]
Section(name)     == [is |-> "section", name |-> name]
Option(l, v)      == [is |-> "option", label |-> l, value |-> v]
Comment           == [is |-> "comment"]
Bad               == [is |-> "bad"]

MCLines == {
    Line(<<>>, [is |-> "blank"]),
    Line(<<" ">>, [is |-> "blank"]),
    Line(<<"[", "s", "]">>, Section(<<"s">>)),
    Line(<<"[", "s", " ", "t", "]", " ", ";", " ", "c">>, Section(<<"s", " ", "t">>)),
    Line(<<"k", "\t", "=", "v">>, Option(<<"k">>, <<"v">>)),
    Line(<<"k", "=", " ", "\"", "v", " ", "\"">>, Option(<<"k">>, <<"\"", "v", " ", "\"">>)),
    Line(<<"l", "=", "v", " ", ";", " ", "c">>, Option(<<"l">>, <<"v">>)),
    Line(<<"l", " ", "=">>, Option(<<"l">>, <<>>)),
    Line(<<";", " ", "c", "c", "c", "c", "=">>, Comment),
    Line(<<";", "l", "\t", "=", "v">>, Comment),
    Line(<<";", "c">>, Bad),                       \* a comment without a blank is a TEXT
    Line(<<"k">>, Bad),
    Line(<<"k", "=", "v", "v", "v", "v", "v">>, Bad),   \* a value beyond TextMax
    Line(<<"k", "=", "v", "\r">>, Bad),            \* a line of a DOS file
    Line(<<"[", "[">>, Bad),
    Line(<<"=", "k">>, Bad) }
================================================================================
