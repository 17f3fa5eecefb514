----------------------------- MODULE MCUserRights -----------------------------
(* An administrator, a teacher and a student.                                  *)
EXTENDS UserRights

MCDefault == <<<<"edit">>, <<"edit", "score">>, <<"edit", "score", "grant">>>>

MCRow(a, i) == [acct |-> a, ident |-> i, rights |-> MCDefault[i]]

MCStaff == [admin |-> MCRow("a", 3), teach |-> MCRow("t", 2), stud |-> MCRow("s", 1)]
==============================================================================
