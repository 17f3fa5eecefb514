----------------------------- MODULE ScoreTable -----------------------------
(***************************************************************************)
(* Subjects and scores.  A subject is a column of studScore and an entry   *)
(* of m_vExistSubjects, the server's list of the columns, read once at the *)
(* start and changed with every ALTER.  A client first asks for that list, *)
(* lets its user choose from it and sends a second request, which meets    *)
(* the columns and rows that other clients have left by then.              *)
(***************************************************************************)
EXTENDS Ordering, SequencesExt

CONSTANTS Subjects,      \* the ids of m_mAllSubjects
          Accts,
          Socks,         \* the connections, one for each client
          Scores,        \* what a user may type
          Junk,          \* stands for a byte that was never written
          InitCols,      \* the columns of studScore at the start, in their order
          InitUsers,     \* the accounts of userInfo at the start, in the order of their ids;
                         \* each has a row
          MaxReq, MaxFaults \* bounds: requests sent, statements that fail

VARIABLES
    exist,   \* m_vExistSubjects
    cols,    \* the columns of studScore
    users,   \* userInfo: the accounts, in the order of their ids
    rows,    \* studScore: for each account, its rows
    oper,    \* what the user of each client is doing
    queue,   \* m_RecvMsgQueue
    stmts,   \* m_MysqlMsgQueue
    inbox,   \* for each client, the answers on their way
    reqs, faults

vars == <<exist, cols, users, rows, oper, queue, stmts, inbox, reqs, faults>>

ASSUME ScoreAssumption ==
    /\ Subjects \subseteq Nat /\ IsFiniteSet(Subjects)
    /\ Scores \subseteq 0..100 /\ Junk \notin 0..100
    /\ InitCols \in Seq(Subjects) /\ IsInjective(InitCols)
    /\ InitUsers \in Seq(Accts) /\ IsInjective(InitUsers)

Altering == {"addSubject", "deleteSubject"}
Adding == {"addOne", "addAll"}
Selecting == {"selectOne", "selectAll"}
Updating == {"updateOne", "updateAll"}
Opers == Altering \cup Adding \cup Selecting \cup Updating
States == Opers \cup {"idle", "delete", "gone"}

Send(s, ack) ==
    inbox' = IF oper[s] = "gone" THEN inbox ELSE [inbox EXCEPT ![s] = Append(@, ack)]

------------------------------------------------------------------------------
(* The clients *)

Request(r) ==
    /\ reqs < MaxReq /\ reqs' = reqs + 1
    /\ queue' = Append(queue, r)

Unmoved == UNCHANGED <<exist, cols, users, rows, stmts, faults>>

\* The ...ChooseHandle that SwitchToOper calls.
Ask(s, op) ==
    /\ oper[s] = "idle"
    /\ oper' = [oper EXCEPT ![s] = op]
    /\ Request([kind |-> "get", sock |-> s, type |-> IF op = "addSubject" THEN 1 ELSE 2])
    /\ Unmoved /\ UNCHANGED inbox

\* By account (lo = 0), or by a range of ids.
DeleteScoreChooseHandle(s) ==
    /\ oper[s] = "idle"
    /\ oper' = [oper EXCEPT ![s] = "delete"]
    /\ \/ \E a \in Accts : Request([kind |-> "delete", sock |-> s, acct |-> a, lo |-> 0, hi |-> 0])
       \/ \E lo, hi \in 1..Cardinality(Accts) :
             lo <= hi /\ Request([kind |-> "delete", sock |-> s, lo |-> lo, hi |-> hi])
    /\ Unmoved /\ UNCHANGED inbox

Leave(s) ==
    /\ oper[s] # "gone"
    /\ oper' = [oper EXCEPT ![s] = "gone"]
    /\ inbox' = [inbox EXCEPT ![s] = <<>>]
    /\ Unmoved /\ UNCHANGED <<queue, reqs>>

Take(s, kind) ==
    /\ inbox[s] # <<>> /\ Head(inbox[s]).kind = kind
    /\ inbox' = [inbox EXCEPT ![s] = Tail(@)]
    /\ Unmoved

\* The user has his answer, or typed something wrong: the screen again.  An
\* operation that OperInputErrorHandle starts again is the next Ask.
Finish(s) ==
    /\ oper' = [oper EXCEPT ![s] = "idle"]
    /\ UNCHANGED <<queue, reqs>>

\* AddSubjectChooseHandle, DeleteSubjectChooseHandle.
AlterChoose(s, list) ==
    /\ oper[s] \in Altering
    /\ \E x \in Range(list) :
          Request([kind |-> "alter", sock |-> s, type |-> IF oper[s] = "addSubject" THEN 1 ELSE 2,
                      subj |-> x])

\* The subjects are shown in the order of their ids and sent in that of the list;
\* the scores are sent as the user types them, and may be too few.
\* shown is a ghost.
AddChoose(s, list) ==
    \E a \in Accts :
        \/ /\ oper[s] = "addOne"
           /\ \E x \in Range(list), v \in Scores :
                 Request([kind |-> "add", sock |-> s, acct |-> a, subjs |-> <<x>>, scores |-> <<v>>,
                             shown |-> <<x>>])
        \/ /\ oper[s] = "addAll" /\ list # <<>>
           /\ \E n \in DOMAIN list : \E typed \in [1..n -> Scores] :
                 Request([kind |-> "add", sock |-> s, acct |-> a, subjs |-> list, scores |-> typed,
                             shown |-> InOrder(Range(list))])

\* An update reads all scores of the user first, whatever subjects there are.
SelectChoose(s, list) ==
    \E a \in Accts :
        \/ /\ oper[s] = "selectOne"
           /\ \E x \in Range(list) :
                 Request([kind |-> "select", sock |-> s, acct |-> a, subjs |-> <<x>>])
        \/ /\ oper[s] \in Updating \/ (oper[s] = "selectAll" /\ list # <<>>)
           /\ Request([kind |-> "select", sock |-> s, acct |-> a, subjs |-> list])

\* GetSubjectsAfter...RecvHandle.
GetSubjectsAnswer(s) ==
    /\ Take(s, "get")
    /\ \/ Finish(s)
       \/ /\ LET list == Head(inbox[s]).list
             IN AlterChoose(s, list) \/ AddChoose(s, list) \/ SelectChoose(s, list)
          /\ UNCHANGED oper

\* UpdateSingleScoreBySubjectsChooseHandle: all subjects are sent, and with them
\* what bScore holds where the user typed nothing.
Filled(typed, n) == [i \in 1..n |-> IF i \in DOMAIN typed THEN typed[i] ELSE Junk]

UpdateChoose(s, ack) ==
    \/ /\ oper[s] = "updateOne"
       /\ \E x \in Range(ack.subjs), v \in Scores :
             Request([kind |-> "update", sock |-> s, acct |-> ack.acct, subjs |-> <<x>>, scores |-> <<v>>])
    \/ /\ oper[s] = "updateAll"
       /\ \E n \in DOMAIN ack.subjs : \E typed \in [1..n -> Scores] :
             Request([kind |-> "update", sock |-> s, acct |-> ack.acct, subjs |-> ack.subjs,
                         scores |-> Filled(typed, Len(ack.subjs))])

\* SelectSingleScoreRecvHandle, GetSubjectsScoreAfterUpdateSingleScoreRecvHandle.
SelectAnswer(s) ==
    /\ Take(s, "select")
    /\ \/ Finish(s)
       \/ /\ Head(inbox[s]).code = 0
          /\ UpdateChoose(s, Head(inbox[s]))
          /\ UNCHANGED oper

\* AlterSubjectRecvHandle, AddSingleScoreRecvHandle, UpdateSingleScoreRecvHandle,
\* DeleteScoreRecvHandle of the client.
ChangeAnswer(s) ==
    /\ \E kind \in {"alter", "add", "update", "delete"} : Take(s, kind)
    /\ Finish(s)

------------------------------------------------------------------------------
(* The server: requests *)

HeadIs(q, kind) == q # <<>> /\ Head(q).kind = kind

RecvFront(kind) ==
    /\ HeadIs(queue, kind)
    /\ queue' = Tail(queue)
    /\ UNCHANGED <<exist, cols, users, rows, oper, reqs, faults>>

\* GetVNotExistSubjects or GetVExistSubjects.
CheckCanAlterSubjectRecvHandle ==
    /\ RecvFront("get")
    /\ LET r == Head(queue)
       IN Send(r.sock, [kind |-> "get", list |-> IF r.type = 1
                                                 THEN InOrder(Subjects \ Range(exist))
                                                 ELSE exist])
    /\ UNCHANGED stmts

\* A subject from a list the server sent is in m_mAllSubjects, and the type and
\* the ranges a client sends are valid: these handlers always queue a statement.
PassOn(kind) ==
    /\ RecvFront(kind)
    /\ stmts' = Append(stmts, Head(queue))
    /\ UNCHANGED inbox

AlterSubjectRecvHandle == PassOn("alter")
DeleteScoreRecvHandle == PassOn("delete")

\* The answer when no statement is queued.
Refused(r) ==
    IF r.kind = "select" THEN [kind |-> "select", code |-> 3] ELSE [kind |-> r.kind, ok |-> FALSE]

\* AddSingleScoreRecvHandle compares the numbers of subjects and scores.
Valid(r) == r.subjs # <<>> /\ (r.kind = "add" => Len(r.scores) = Len(r.subjs))

\* Mutant of PassIfValid: a request that is not valid is dropped.
PassOrDrop(kind) ==
    /\ RecvFront(kind)
    /\ stmts' = IF Valid(Head(queue)) THEN Append(stmts, Head(queue)) ELSE stmts
    /\ UNCHANGED inbox

PassIfValid(kind) ==
    /\ RecvFront(kind)
    /\ LET r == Head(queue)
       IN IF Valid(r) THEN stmts' = Append(stmts, r) /\ UNCHANGED inbox
          ELSE Send(r.sock, Refused(r)) /\ UNCHANGED stmts

AddSingleScoreRecvHandle == PassIfValid("add")
SelectSingleScoreRecvHandle == PassIfValid("select")
UpdateSingleScoreRecvHandle == PassIfValid("update")

------------------------------------------------------------------------------
(* The server: statements and their replies *)

MysqlFront(kind) ==
    /\ HeadIs(stmts, kind)
    /\ stmts' = Tail(stmts)
    /\ UNCHANGED <<oper, queue, reqs>>

\* The columns that are named are there.
Known(st) == Range(st.subjs) \subseteq cols

\* Every reply handler looks at the result of the statement first.
Failed(st) ==
    IF st.kind = "select" THEN [kind |-> "select", code |-> 1] ELSE [kind |-> st.kind, ok |-> FALSE]

\* Mutant of Fails: the failure is answered where it is seen and at the end.
FailsTwice(st) ==
    /\ inbox' = IF oper[st.sock] = "gone" THEN inbox
                ELSE [inbox EXCEPT ![st.sock] = @ \o <<Failed(st), Failed(st)>>]
    /\ UNCHANGED <<exist, cols, users, rows>>

\* Mutant of Fails: the list is changed all the same.
FailsListed(st) ==
    /\ Send(st.sock, Failed(st))
    /\ exist' = IF st.kind = "alter" /\ st.type = 2 THEN RemoveFirst(exist, st.subj) ELSE exist
    /\ UNCHANGED <<cols, users, rows>>

\* A statement that fails has changed nothing, and is answered.
Fails(st) == Send(st.sock, Failed(st)) /\ UNCHANGED <<exist, cols, users, rows>>

Succeeds(st) == Send(st.sock, [kind |-> st.kind, ok |-> TRUE])

ExecFault ==
    /\ faults < MaxFaults /\ faults' = faults + 1
    /\ \/ \E kind \in {"alter", "add", "select", "update", "delete"} :
             MysqlFront(kind) /\ Fails(Head(stmts))
       \/ MysqlFront("boot") /\ UNCHANGED <<exist, cols, users, rows, inbox>>

\* The subjects in the order of the columns.
GetExistSubjectReplyHandle ==
    /\ MysqlFront("boot")
    /\ exist' = exist \o InitCols
    /\ UNCHANGED <<cols, users, rows, inbox, faults>>

\* AddOneExistSubject, DeleteOneExistSubject.
Listed(st) ==
    IF st.type = 2 THEN RemoveFirst(exist, st.subj)
    ELSE IF st.subj \in Range(exist) THEN exist ELSE Append(exist, st.subj)

\* ALTER TABLE: a new column is 0 in every row.
Altered(row, columns) == [c \in columns |-> IF c \in DOMAIN row THEN row[c] ELSE 0]

AlterSubjectReplyHandle ==
    /\ MysqlFront("alter")
    /\ LET st == Head(stmts)
           columns == IF st.type = 1 THEN cols \cup {st.subj} ELSE cols \ {st.subj}
       IN \/ /\ columns = cols
             /\ Fails(st)
          \/ /\ columns # cols
             /\ cols' = columns
             /\ rows' = [a \in Accts |-> [i \in DOMAIN rows[a] |-> Altered(rows[a][i], columns)]]
             /\ exist' = Listed(st)
             /\ Succeeds(st)
             /\ UNCHANGED users
    /\ UNCHANGED faults

\* The score a statement gives a column.
Given(st, c) == st.scores[CHOOSE i \in DOMAIN st.subjs : st.subjs[i] = c]

\* Mutant of Scored: the other scores of the row are reset.
ScoredAlone(st, row) == [c \in cols |-> IF c \in Range(st.subjs) THEN Given(st, c) ELSE 0]

\* A row with these scores.
Scored(st, row) ==
    [c \in cols |-> IF c \in Range(st.subjs) THEN Given(st, c) ELSE row[c]]

NoScores == [c \in cols |-> 0]

\* Mutant of Added: a row is inserted whether there is one or not.
AddedAgain(st, rs) == Append(rs, Scored(st, NoScores))

\* AddSingleScoreHaveRegister: a row if there is none, otherwise the row updated.
Added(st, rs) ==
    IF rs = <<>> THEN <<Scored(st, NoScores)>> ELSE <<Scored(st, rs[1])>>

\* AddSingleScore: the user is registered first, and stays so when the row cannot
\* be inserted.
AddSingleScoreReplyHandle ==
    /\ MysqlFront("add")
    /\ LET st == Head(stmts)
       IN /\ users' = IF st.acct \in Range(users) THEN users ELSE Append(users, st.acct)
          /\ \/ /\ Known(st)
                /\ rows' = [rows EXCEPT ![st.acct] = Added(st, @)]
                /\ Succeeds(st)
             \/ /\ ~Known(st)
                /\ Send(st.sock, Failed(st))
                /\ UNCHANGED rows
    /\ UNCHANGED <<exist, cols, faults>>

SelectSingleScoreReplyHandle ==
    /\ MysqlFront("select")
    /\ LET st == Head(stmts)
       IN \/ ~Known(st) /\ Send(st.sock, Failed(st))
          \/ /\ Known(st)
             /\ Send(st.sock, IF Len(rows[st.acct]) # 1 THEN [kind |-> "select", code |-> 2]
                              ELSE [kind |-> "select", code |-> 0, acct |-> st.acct,
                                    subjs |-> st.subjs])
    /\ UNCHANGED <<exist, cols, users, rows, faults>>

\* A user without a row is a success.
UpdateSingleScoreReplyHandle ==
    /\ MysqlFront("update")
    /\ LET st == Head(stmts)
       IN \/ ~Known(st) /\ Fails(st)
          \/ /\ Known(st)
             /\ rows' = [rows EXCEPT ![st.acct] = [i \in DOMAIN @ |-> Scored(st, @[i])]]
             /\ Succeeds(st)
             /\ UNCHANGED <<exist, cols, users>>
    /\ UNCHANGED faults

\* Mutant of Meant: the last user of the range is left out.
MeantButLast(st) ==
    IF st.lo = 0 THEN {st.acct}
    ELSE {users[i] : i \in {j \in DOMAIN users : st.lo <= j /\ j < st.hi}}

\* Whose rows a DELETE removes.
Meant(st) ==
    IF st.lo = 0 THEN {st.acct}
    ELSE {users[i] : i \in {j \in DOMAIN users : st.lo <= j /\ j <= st.hi}}

DeleteScoreReplyHandle ==
    /\ MysqlFront("delete")
    /\ LET st == Head(stmts)
       IN /\ rows' = [a \in Accts |-> IF a \in Meant(st) THEN <<>> ELSE rows[a]]
          /\ Succeeds(st)
    /\ UNCHANGED <<exist, cols, users, faults>>

------------------------------------------------------------------------------
\* ServerRun: the subjects are asked for before anybody can connect.
Init ==
    /\ exist = <<>> /\ cols = Range(InitCols)
    /\ users = InitUsers
    /\ rows = [a \in Accts |-> IF a \in Range(users) THEN <<NoScores>> ELSE <<>>]
    /\ oper = [s \in Socks |-> "idle"]
    /\ queue = <<>> /\ stmts = <<[kind |-> "boot"]>> /\ inbox = [s \in Socks |-> <<>>]
    /\ reqs = 0 /\ faults = 0

Answer(s) == GetSubjectsAnswer(s) \/ SelectAnswer(s) \/ ChangeAnswer(s)

Clients ==
    \E s \in Socks :
        (\E op \in Opers : Ask(s, op)) \/ DeleteScoreChooseHandle(s) \/ Leave(s) \/ Answer(s)

Recv ==
    \/ CheckCanAlterSubjectRecvHandle \/ AlterSubjectRecvHandle \/ AddSingleScoreRecvHandle
    \/ SelectSingleScoreRecvHandle \/ UpdateSingleScoreRecvHandle \/ DeleteScoreRecvHandle

Mysql ==
    \/ GetExistSubjectReplyHandle \/ AlterSubjectReplyHandle \/ AddSingleScoreReplyHandle
    \/ SelectSingleScoreReplyHandle \/ UpdateSingleScoreReplyHandle \/ DeleteScoreReplyHandle
    \/ ExecFault

Next == Clients \/ Recv \/ Mysql

Spec == Init /\ [][Next]_vars

\* The queue thread runs for ever; a client takes what arrives.
Fairness == WF_vars(Recv) /\ WF_vars(Mysql) /\ \A s \in Socks : WF_vars(Answer(s))

FairSpec == Spec /\ Fairness

------------------------------------------------------------------------------
(* Properties *)

\* Every variable holds values of its kind; lists name nothing twice.
TypeOK ==
    /\ exist \in Seq(Subjects) /\ IsInjective(exist) /\ cols \subseteq Subjects
    /\ users \in Seq(Accts) /\ IsInjective(users)
    /\ \A a \in Accts : \A i \in DOMAIN rows[a] : rows[a][i] \in [cols -> 0..100 \cup {Junk}]
    /\ oper \in [Socks -> States] /\ \A s \in Socks : Len(inbox[s]) <= 1

\* ScoreProc.cpp:477: what the clients are shown are the columns.  The list never
\* names a subject that is no column, and once it names all of them, which it does
\* unless the SELECT at the start fails, it does so for ever.
ListFollowsColumns ==
    [][/\ Range(exist') \subseteq cols'
       /\ Range(exist) = cols => Range(exist') = cols']_vars

\* Create_Procedure.sql:57: an account has one row of scores at most, whoever adds
\* scores to it how often, and only if it is registered.
OneRow ==
    \A a \in Accts : Len(rows[a]) <= 1 /\ (rows[a] # <<>> => a \in Range(users))

\* No row counts as scores of 0.
Score(a, c) == IF rows[a] = <<>> THEN 0 ELSE rows[a][1][c]

\* A score in a column that stays changes only by a statement that names its
\* account and its column, to what that statement says, or with a deletion that
\* names the account or a range its user is in.
ScoresStand ==
    [][\A a \in Accts, c \in cols \cap cols' :
          Score(a, c)' # Score(a, c) =>
              LET st == Head(stmts)
              IN \/ /\ st.kind \in {"add", "update"} /\ st.acct = a
                    /\ \E i \in DOMAIN st.subjs : st.subjs[i] = c /\ st.scores[i] = Score(a, c)'
                 \/ /\ st.kind = "delete" /\ rows'[a] = <<>>
                    /\ IF st.lo = 0 THEN a = st.acct
                       ELSE \E i \in st.lo..st.hi : i \in DOMAIN users /\ users[i] = a]_vars

\* ScoreProc.cpp:464 on: an answer tells what has been done.  A failure has left
\* the subjects and the scores alone; after a success the subject is there, or
\* gone, for the database and in the list alike, the scores sent are those of the
\* row, if an update found one, and nothing is left of what was to be deleted.
AnswersTellRows ==
    [][\A s \in Socks : Len(inbox'[s]) > Len(inbox[s]) =>
          LET ack == Last(inbox'[s])
              st == Head(stmts)
          IN ack.kind \in {"alter", "add", "update", "delete"} =>
              IF ~ack.ok THEN UNCHANGED <<exist, cols, rows>>
              ELSE /\ st.kind = ack.kind /\ st.sock = s
                   /\ st.kind = "alter" =>
                         /\ st.subj \in cols' <=> st.type = 1
                         /\ Range(exist) = cols => (st.subj \in Range(exist') <=> st.type = 1)
                   /\ st.kind \in {"add", "update"} =>
                         \/ st.kind = "update" /\ rows'[st.acct] = <<>>
                         \/ \A i \in DOMAIN st.subjs :
                               rows'[st.acct][1][st.subjs[i]] = st.scores[i]
                   /\ st.kind = "delete" =>
                         \A i \in DOMAIN users :
                             i \in st.lo..st.hi \/ (st.lo = 0 /\ users[i] = st.acct)
                             => rows'[users[i]] = <<>>]_vars

\* Every operation ends: its user gets an answer to each request, also to one the
\* server refuses, whatever has become of the subjects in the meantime.
OperationEnds ==
    \A s \in Socks : oper[s] \notin {"idle", "gone"} ~> oper[s] \in {"idle", "gone"}

\* AddScoreSysProc.cpp:233, "enter the scores in the order shown, from left to
\* right and from top to bottom": the scores the server has accepted for a user
\* are those typed for the same subjects.
AddedAsShown ==
    \A n \in DOMAIN stmts : stmts[n].kind = "add" =>
        LET st == stmts[n]
        IN \A i, j \in DOMAIN st.scores : st.subjs[i] = st.shown[j] => st.scores[i] = st.scores[j]
==============================================================================
