---------------------------- MODULE MCScoreTable ----------------------------
(* The columns and the accounts at the start, as sequences.                    *)
EXTENDS ScoreTable

MCCols == <<1, 2>>
MCUsers == <<"x">>
==============================================================================
