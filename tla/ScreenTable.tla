----------------------------- MODULE ScreenTable -----------------------------
(***************************************************************************)
(* The fourteen screens of the client, what each offers (initMapChoose),   *)
(* and the requests each operation is made of.  An operation has the       *)
(* number of its right in OperPermission; 7, 8, 21 and 22 have a right but *)
(* no screen offers them.                                                  *)
(***************************************************************************)
EXTENDS Integers, Sequences, Functions

\* m_mProcMgr, in the order of ProcDef.
Order == <<"enter", "common", "score", "userInfo", "authority", "addScore", "updateScore",
           "selectScore", "deleteScore", "alterSubjects", "addUserInfo", "updateUserInfo",
           "selectUserInfo", "deleteUserInfo">>
Screens == Range(Order)

\* OPER_PER_INVALID, of a choice that only leads to a screen.
NoOper == 0

------------------------------------------------------------------------------
(* What each screen offers (initMapChoose): its operations, and the requests *)
(* of each in their order.  SwitchToOper sends the first, or asks the user   *)
(* for it; in StartRecv the handler of the answer to one asks for the next.  *)

EnterSysProc == [o \in 1..2 |-> IF o = 1 THEN <<"login">> ELSE <<"register">>]

AddScoreSysProc ==
    [o \in 3..6 |-> IF o \in 3..4 THEN <<"addBatchScore">>
                    ELSE <<"getSubjects", "addSingleScore">>]

UpdateScoreSysProc ==
    [o \in 9..10 |-> <<"getSubjects", "selectSingleScore", "updateSingleScore">>]

SelectScoreSysProc ==
    [o \in 11..14 |->
        <<"getSubjects", IF o \in 11..12 THEN "selectBatchScore" ELSE "selectSingleScore">>]

DeleteScoreSysProc == [o \in 15..16 |-> <<"deleteScore">>]

AlterSubjectsSysProc == [o \in 17..18 |-> <<"getSubjects", "alterSubjects">>]

AddUserInfoSysProc ==
    [o \in 19..20 |-> IF o = 19 THEN <<"addBatchUserInfo">> ELSE <<"addSingleUserInfo">>]

UpdateUserInfoSysProc == [o \in 23..24 |-> <<"selectSingleUserInfo", "updateSingleUserInfo">>]

SelectUserInfoSysProc ==
    [o \in 25..26 |-> IF o = 25 THEN <<"selectBatchUserInfo">> ELSE <<"selectSingleUserInfo">>]

DeleteUserInfoSysProc == [o \in 27..28 |-> <<"deleteUserInfo">>]

AuthoritySysProc == [o \in 29..30 |-> <<"getAuthority", "editAuthority">>]

Offers == [p \in Screens |->
    CASE p = "enter" -> EnterSysProc
      [] p = "addScore" -> AddScoreSysProc          [] p = "updateScore" -> UpdateScoreSysProc
      [] p = "selectScore" -> SelectScoreSysProc    [] p = "deleteScore" -> DeleteScoreSysProc
      [] p = "alterSubjects" -> AlterSubjectsSysProc
      [] p = "addUserInfo" -> AddUserInfoSysProc    [] p = "updateUserInfo" -> UpdateUserInfoSysProc
      [] p = "selectUserInfo" -> SelectUserInfoSysProc
      [] p = "deleteUserInfo" -> DeleteUserInfoSysProc
      [] p = "authority" -> AuthoritySysProc
      [] OTHER -> <<>>]

Operations == UNION {DOMAIN Offers[p] : p \in Screens}

LoginOpers == DOMAIN EnterSysProc

ScreenOf == [o \in Operations |-> CHOOSE p \in Screens : o \in DOMAIN Offers[p]]

Steps == [o \in Operations |-> Offers[ScreenOf[o]][o]]

\* The screen an operation that went well leads to.
After == [o \in Operations |-> IF o \in LoginOpers THEN "common" ELSE ScreenOf[o]]

\* The screens a screen leads to without an operation; "exit" ends the program.
CommonSysProc == {"score", "userInfo", "authority", "enter"}

ScoreSysProc ==
    {"addScore", "updateScore", "selectScore", "deleteScore", "alterSubjects", "common"}

UserInfoSysProc == {"addUserInfo", "updateUserInfo", "selectUserInfo", "deleteUserInfo", "common"}

LeadsTo == [p \in Screens |->
    CASE p = "enter" -> {"exit"}
      [] p = "common" -> CommonSysProc
      [] p = "score" -> ScoreSysProc
      [] p = "userInfo" -> UserInfoSysProc
      [] p = "authority" -> {"common"}
      [] p \in ScoreSysProc \ {"common"} -> {"score"}
      [] OTHER -> {"userInfo"}]

\* The screens that are menus only take the notification to exit.
Menus == {"common", "score", "userInfo"}

------------------------------------------------------------------------------
Kinds == UNION {Range(Steps[o]) : o \in Operations}

\* Sent in parts, each after the answer to the one before.
Batches == {"addBatchScore", "addBatchUserInfo"}

\* Answered in pages.
Paged == {"selectBatchScore", "selectBatchUserInfo"}

\* Sent without asking the user anything.
Unasked == {"getSubjects"} \cup Batches

\* Good input for these sets m_iOperInputErrorLimit back.
Forgiving == {"login", "register", "alterSubjects"}

\* The answers a screen has a handler for, which does what it is for if the
\* screen is at an operation with such a request.
Handled == [p \in Screens |-> UNION {Range(Offers[p][o]) : o \in DOMAIN Offers[p]}]

\* The request after one of a kind; "none" after the last, or if the screen is at
\* no operation that has it.
NextKind(o, kind) ==
    LET i == {k \in 1..(IF o = NoOper THEN 0 ELSE Len(Steps[o]) - 1) : Steps[o][k] = kind}
    IN IF i = {} THEN "none" ELSE Steps[o][(CHOOSE k \in i : TRUE) + 1]
==============================================================================
