---------------------------- MODULE MCSelectBatch ----------------------------
(* An administrator, a teacher and two students, one of whom has no scores yet, *)
(* so that a selection has up to two pages and one without rows.                *)
EXTENDS SelectBatch

CONSTANTS admin, teacher, stud1, stud2

MCAccts == {admin, teacher, stud1, stud2}
MCIdentity == [a \in MCAccts |-> CASE a = admin -> 3 [] a = teacher -> 2 [] OTHER -> 1]
MCIds == [a \in MCAccts |-> CASE a = admin -> 100000 [] a = teacher -> 100001
                              [] a = stud1 -> 100002 [] OTHER -> 100003]
MCScores == [a \in MCAccts \ {admin} |-> CASE a = teacher -> <<60, 90>> [] a = stud1 -> <<90, 60>>
                                           [] OTHER -> <<44, 100>>]
MCUsers == <<admin, teacher, stud1>>

\* "100001-100003", "44-90", and "300-90", whose 300 becomes 44.
IdRange == NumberToStr(100001) \o <<Dash>> \o NumberToStr(100003)
ScoreRange == NumberToStr(44) \o <<Dash>> \o NumberToStr(90)
CastRange == NumberToStr(300) \o <<Dash>> \o NumberToStr(90)
One == <<49>>
RangeAndTotal == <<50, 124, 51>>
FourAndOne == <<52, 124, 49>>

Input(kind, text, range, rank, fits, subjects) ==
    [kind |-> kind, text |-> text, range |-> range, rank |-> rank, fits |-> fits,
     subjects |-> subjects]

MCInputs ==
    {Input("users", <<>>, <<>>, 0, MCAccts, 0),
     Input("users", One, IdRange, 0, MCAccts, 0),
     Input("users", RangeAndTotal, <<>>, 0, {stud1, stud2}, 0),
     Input("scores", FourAndOne, <<>>, 2, MCAccts, 2),
     Input("scores", RangeAndTotal, CastRange, 0, MCAccts, 1),
     Input("scores", RangeAndTotal, IdRange, 0, MCAccts, 1)}
==============================================================================
