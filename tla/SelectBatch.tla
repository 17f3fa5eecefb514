----------------------------- MODULE SelectBatch -----------------------------
(***************************************************************************)
(* A selection of many users, or of many scores, from what the user types  *)
(* to the last row on his console.  One request is answered by as many     *)
(* messages as the rows need; the client puts the list together as they    *)
(* come.  Meanwhile the table changes, rights are given and taken, the     *)
(* client leaves and the number of its socket goes to another, and the     *)
(* stream cuts messages where it likes.                                    *)
(*                                                                         *)
(* One socket number.  The n-th connection that has it is the number conn; *)
(* where a message names a connection, that is a ghost: the code knows the *)
(* socket number only.                                                     *)
(***************************************************************************)
EXTENDS TextTools, FiniteSets

CONSTANTS Accts,
          Nobody,         \* no account
          Identity,       \* 1 student, 2 teacher, 3 administrator
          Ids,            \* the user ids
          Scores,         \* the scores of each account, subject by subject
          InitUsers,      \* userInfo at the start, in the order of the ids
          Inputs,         \* what users type
          PageSize,       \* MAXBATCHREQACKCOUNT
          PageWrap,       \* bDataRecord is a byte
          Merge,          \* messages that one recv may return
          MaxReq, MaxConn, MaxChange, MaxFaults \* bounds

ASSUME SelectAssumption ==
    /\ Nobody \notin Accts
    /\ Identity \in [Accts -> 1..3] /\ Ids \in [Accts -> Nat]
    /\ InitUsers \in Seq(Accts) /\ IsInjective(InitUsers)
    /\ \A t \in Inputs : t.kind \in {"users", "scores"}
    /\ PageSize \in Nat /\ PageSize > 1 /\ PageWrap \in Nat /\ PageWrap > 1
    /\ Merge \in 1..2 /\ MaxConn \in Nat

VARIABLES
    users,    \* userInfo: the accounts, in the order of their ids
    granted,  \* the students who hold the rights to select many
    live, conn,
    session,  \* m_mUserInfo: who is logged in
    queue,    \* m_RecvMsgQueue
    stmts,    \* m_MysqlMsgQueue
    work,     \* the reply handler at work on a result
    wire,     \* on its way to the client
    client,   \* the client at the other end
    list,     \* ghost: the result of the client's last selection
    cut,      \* ghost: a recv has returned more than one message
    counts    \* of what is bounded

server == <<session, queue, stmts, work>>
vars == <<users, granted, live, conn, session, queue, stmts, work, wire, client, list, cut, counts>>

Kinds == {"users", "scores"}
Ident(a) == IF a = Nobody THEN 1 ELSE Identity[a]
HasRight(a) == a \in granted

\* Bounded steps.
Count(what, max) == counts[what] < max /\ counts' = [counts EXCEPT ![what] = @ + 1]

------------------------------------------------------------------------------
(* What the user types *)

OneToFour == <<49, 124, 50, 124, 51, 124, 52>>

\* cCondition: the items, then zeros.
Conditions(text) ==
    LET items == Splite(text, Bar)
    IN [i \in 1..5 |-> IF i \in DOMAIN items THEN Byte(Atoi(items[i])) ELSE 0]

GoodConditions(text) ==
    /\ CheckStringLen(text, 7) /\ CheckStringVaildRemoveSpl(text, Bar, OneToFour)
    /\ Len(Splite(text, Bar)) < 5

\* FindOneInArray.
Asks(cond, c) == \E i \in DOMAIN cond : cond[i] = c

\* The condition that asks for a range: SELECT_USERINFO_RANGE, SELECT_SCORE_CONDITION_RANGE.
RangeCondition(kind) == IF kind = "users" THEN 1 ELSE 2
AsksOrder(kind, cond) == kind = "scores" /\ Asks(cond, 1)

\* An end of a range of user ids, or of scores: the latter is cast to a byte first.
Bound(kind, text) == IF kind = "users" THEN Atoi(text) ELSE Byte(Atoi(text))

GoodRange(kind, text) ==
    LET ends == Splite(text, Dash)
        low == IF kind = "users" THEN 100000 ELSE 0
        high == IF kind = "users" THEN 999999 ELSE 100
    IN /\ Len(ends) = 2
       /\ \A i \in 1..2 : /\ CheckStringLen(ends[i], IF kind = "users" THEN 6 ELSE 3)
                          /\ CheckStringByValid(ends[i], OtoNine)
                          /\ Bound(kind, ends[i]) \in low..high
       /\ Bound(kind, ends[1]) <= Bound(kind, ends[2])

\* OperInputErrorHandle otherwise.
Good(t) ==
    /\ GoodConditions(t.text)
    /\ Asks(Conditions(t.text), RangeCondition(t.kind)) => GoodRange(t.kind, t.range)

TypedRank(t) == IF AsksOrder(t.kind, Conditions(t.text)) THEN t.rank ELSE 0

\* fits stands for the class, the part of a name and the sex that are typed: the
\* accounts they fit.  subjects: those asked for, one or all.
Request(t) ==
    LET cond == Conditions(t.text)
        ends == Splite(t.range, Dash)
        ranged == Asks(cond, RangeCondition(t.kind))
    IN [kind |-> t.kind, conn |-> conn, acct |-> Nobody, cond |-> cond,
        rank |-> TypedRank(t),
        ranged |-> ranged,
        lo |-> IF ranged THEN Bound(t.kind, ends[1]) ELSE 0,
        hi |-> IF ranged THEN Bound(t.kind, ends[2]) ELSE 0,
        fits |-> t.fits, subjects |-> t.subjects]

LoginRequest(a) ==
    [kind |-> "login", conn |-> conn, acct |-> a, cond |-> <<>>, rank |-> 0,
     ranged |-> FALSE, lo |-> 0, hi |-> 0, fits |-> {}, subjects |-> 0]

------------------------------------------------------------------------------
(* Connections *)

\* What is asked for, as it goes with each page of scores.
NoFlags == [cond |-> <<0, 0, 0, 0, 0>>, rank |-> 0]

\* typed: the account that logs in; acct: the one that has; may: the rights that
\* came with the login let it select many.
NewClient == [typed |-> Nobody, acct |-> Nobody, may |-> FALSE, oper |-> "none",
              asked |-> NoFlags, shown |-> <<>>, heads |-> 0, total |-> 0, end |-> "none"]

\* The accept loop.  The number is not handed out while the answer to a login of
\* its last connection is to come: ServerSession has what follows from that.
Connect ==
    /\ ~live /\ conn < MaxConn
    /\ \A i \in DOMAIN queue : queue[i].kind # "login"
    /\ \A i \in DOMAIN stmts : stmts[i].req.kind # "login"
    /\ live' = TRUE /\ conn' = conn + 1
    /\ client' = NewClient
    /\ list' = <<>>
    /\ UNCHANGED <<users, granted, server, wire, cut, counts>>

\* RemoveInfoBySocketId: the record goes, what the connection queued stays.
Disconnect ==
    /\ live /\ live' = FALSE
    /\ session' = Nobody /\ wire' = <<>>
    /\ UNCHANGED <<users, granted, conn, queue, stmts, work, client, list, cut, counts>>

------------------------------------------------------------------------------
(* The client asks *)

Send(r) ==
    /\ Count("reqs", MaxReq)
    /\ queue' = Append(queue, r)
    /\ UNCHANGED <<users, granted, live, conn, session, stmts, work, wire, list, cut>>

LoginChooseHandle(a) ==
    /\ live /\ client.acct = Nobody /\ client.oper = "none" /\ client.typed = Nobody
    /\ client' = [client EXCEPT !.typed = a, !.oper = "login"]
    /\ Send(LoginRequest(a))

\* SelectBatchUserInfoChooseHandle, SelectBatchScoreByOneSubjectChooseHandle,
\* SelectBatchScoreBySubjectsChooseHandle.
SelectChooseHandle(t) ==
    /\ live /\ client.may /\ client.oper = "none"
    /\ Good(t)
    /\ LET r == Request(t)
       IN client' = [client EXCEPT !.oper = t.kind, !.asked = [cond |-> r.cond, rank |-> r.rank],
                                   !.shown = <<>>, !.heads = 0, !.total = 0, !.end = "none"]
    /\ Send(Request(t))

------------------------------------------------------------------------------
(* The server takes a request *)

\* SC_MSG_SELECT_BATCH_USERINFO_ACK, SC_MSG_SELECT_BATCH_SCORE_ACK: bResCode,
\* bDataRecord (count, number and end), the rows, and what was asked for.
Page(kind, c, code, rows, no, last, flags) ==
    [kind |-> kind, conn |-> c, code |-> code, rows |-> rows, no |-> no, last |-> last,
     flags |-> flags]

\* An answer that is no row.
Refusal(kind, c, code) == Page(kind, c, code, <<>>, 0, TRUE, NoFlags)

Deliver(m) == wire' = IF live THEN Append(wire, m) ELSE wire

RecvFront(kind) ==
    /\ queue # <<>> /\ Head(queue).kind = kind
    /\ queue' = Tail(queue)
    /\ UNCHANGED <<users, granted, live, conn, session, work, client, list, cut, counts>>

LoginRecvHandle ==
    /\ RecvFront("login")
    /\ stmts' = Append(stmts, [req |-> Head(queue), scope |-> {}, record |-> <<>>])
    /\ UNCHANGED wire

\* Whom a user may select: a student with the right all students, the others those
\* below themselves and themselves.
Scope(a) ==
    IF Ident(a) = 1 THEN {b \in Accts : Identity[b] = 1}
    ELSE {b \in Accts : Identity[b] < Ident(a) \/ b = a}

\* Nobody is logged in (m_mUserInfo has a blank record, or none), or a student
\* without the right: refused at once.
SelectBatchUserInfoRecvHandle ==
    /\ RecvFront("users")
    /\ LET r == Head(queue)
       IN IF HasRight(session) \/ Ident(session) > 1
          THEN /\ stmts' = Append(stmts, [req |-> r, scope |-> Scope(session),
                                          record |-> <<>>])
               /\ UNCHANGED wire
          ELSE Deliver(Refusal("users", r.conn, 4)) /\ UNCHANGED stmts

\* strRecord: what the reply handler is to know of the request.
Record(subjects, cond, rank) ==
    <<Tilde>> \o NumberToStr(IF subjects = 1 THEN 1 ELSE 2)
    \o <<Tilde>> \o CombArrayToStr(cond, Bar) \o <<Tilde>> \o NumberToStr(rank)

\* What a client sends is in range, so that a statement is always queued.
SelectBatchScoreRecvHandle ==
    /\ RecvFront("scores")
    /\ stmts' = Append(stmts, [req |-> Head(queue), scope |-> Accts,
                               record |-> Record(Head(queue).subjects, Head(queue).cond,
                                                Head(queue).rank)])
    /\ UNCHANGED wire

------------------------------------------------------------------------------
(* The server executes a statement *)

Idle == [kind |-> "none", conn |-> 0, rows |-> <<>>, n |-> 0, page |-> <<>>,
         flags |-> NoFlags, record |-> <<>>]

MysqlFront(kind) ==
    /\ work.kind = "none"
    /\ stmts # <<>> /\ Head(stmts).req.kind = kind
    /\ stmts' = Tail(stmts)
    /\ UNCHANGED <<users, granted, live, conn, queue, client, cut>>

LoginReplyHandle ==
    /\ MysqlFront("login")
    /\ LET r == Head(stmts).req
       IN \E ok \in BOOLEAN :
             /\ session' = IF ok /\ live THEN r.acct ELSE session
             /\ Deliver([kind |-> "login", conn |-> r.conn, code |-> IF ok THEN 0 ELSE 1,
                         may |-> Ident(r.acct) > 1 \/ HasRight(r.acct)])
    /\ UNCHANGED <<work, list, counts>>

\* SSum.
Total(a, n) ==
    LET sum[i \in 0..n] == IF i = 0 THEN 0 ELSE sum[i - 1] + Scores[a][i]
    IN sum[n]

\* The WHERE clause.
Selected(st, a) ==
    LET r == st.req
    IN /\ a \in st.scope
       /\ IF r.kind = "users"
          THEN /\ r.ranged => Ids[a] \in r.lo..r.hi
               /\ (\E c \in 2..4 : Asks(r.cond, c)) => a \in r.fits
          ELSE /\ a \in DOMAIN Scores /\ a \in r.fits
               /\ r.ranged => \A i \in 1..r.subjects : Scores[a][i] \in r.lo..r.hi

\* ORDER BY: by the ids, or by the total, where the database may put equal ones in
\* any order.
Ordered(rows, r) ==
    \A i, j \in DOMAIN rows : i < j =>
        CASE r.rank = 1 -> Total(rows[i], r.subjects) <= Total(rows[j], r.subjects)
          [] r.rank = 2 -> Total(rows[i], r.subjects) >= Total(rows[j], r.subjects)
          [] OTHER -> Ids[rows[i]] < Ids[rows[j]]

Results(st) ==
    {rows \in SetToSeqs({a \in Range(users) : Selected(st, a)}) : Ordered(rows, st.req)}

\* The part of the reply handlers before the first row.  list is a ghost.
SelectReplyBegins(kind) ==
    /\ MysqlFront(kind)
    /\ LET st == Head(stmts)
           mine(l) == list' = IF live /\ st.req.conn = conn THEN l ELSE list
       IN \/ /\ Count("faults", MaxFaults)
             /\ Deliver(Refusal(kind, st.req.conn, 1))
             /\ mine(<<>>) /\ UNCHANGED work
          \/ \E rows \in Results(st) :
                /\ mine(rows)
                /\ IF rows = <<>>
                   THEN Deliver(Refusal(kind, st.req.conn, 2)) /\ UNCHANGED work
                   ELSE /\ work' = [Idle EXCEPT !.kind = kind, !.conn = st.req.conn,
                                                !.rows = rows, !.record = st.record]
                        /\ UNCHANGED wire
                /\ UNCHANGED counts
    /\ UNCHANGED session

------------------------------------------------------------------------------
(* The reply handlers, row by row *)

\* Whether the session may see the row, as it is now.  0 is the identity of a
\* socket without a record.
MayShow(a) ==
    /\ live
    /\ \/ Ident(session) > Identity[a]
       \/ session = a
       \/ Ident(session) = 1 /\ HasRight(session)

\* A password is shown to the administrator, for identities below his.
Row(kind, a) ==
    [acct |-> a, conn |-> work.conn,
     pwd |-> kind = "users" /\ Ident(session) = 3 /\ Identity[a] < 3]

\* Mutant of PageNo: a full page counts as the beginning of the next.
PageNoNext(n) == (n \div PageSize + 1) % PageWrap

PageNo(n) == ((IF n > 0 THEN n - 1 ELSE 0) \div PageSize + 1) % PageWrap

\* Splite and StrSpliteToUcArray on the record, which MysqlMgr has put the result
\* of the statement in front of.
ReadRecord(record) ==
    LET items == Splite(NumberToStr(0) \o <<Bar>> \o record, Tilde)
    IN [cond |-> StrSpliteToUcArray(NoFlags.cond, items[3], Bar), rank |-> Byte(Atoi(items[4]))]

\* What comes out of a record is what went in: the conversions of TextTools do this
\* for what users can type.
ASSUME TextsReadBack ==
    \A t \in Inputs : t.kind = "scores" /\ Good(t) =>
        LET cond == Conditions(t.text)
            rank == TypedRank(t)
        IN /\ cond \in [1..5 -> 0..255]
           /\ ReadRecord(Record(t.subjects, cond, rank)) = [cond |-> cond, rank |-> rank]

\* ReadRecord of all the records there are.
RecordsRead ==
    {[record |-> record, flags |-> ReadRecord(record)] :
        record \in {Record(t.subjects, Conditions(t.text), TypedRank(t)) :
                      t \in {i \in Inputs : i.kind = "scores" /\ Good(i)}}}

FlagsOf(record) == (CHOOSE read \in RecordsRead : read.record = record).flags

\* Mutant of FlagsAfter: they are set once.
FlagsAfterFirst(kind, n, old, record) ==
    IF kind = "scores" /\ n = 1 THEN FlagsOf(record)
    ELSE IF n % PageSize = 0 THEN NoFlags ELSE old

\* bRankFlag and cCondition of the message after its n-th row: set with the first
\* row of all and after each message.
FlagsAfter(kind, n, old, record) ==
    IF kind = "scores" /\ (n = 1 \/ n % PageSize = 0) THEN FlagsOf(record)
    ELSE IF n % PageSize = 0 THEN NoFlags ELSE old

\* Mutant of Rest: the rows of the message before are sent again.
RestKept(page) == Tail(page)

\* memset.
Rest(page) == <<>>

ReplyRow ==
    /\ work.kind # "none" /\ work.rows # <<>>
    /\ LET a == Head(work.rows)
           page == Append(work.page, Row(work.kind, a))
           n == work.n + 1
           full == n % PageSize = 0
       IN IF work.kind = "users" /\ ~MayShow(a)
          THEN /\ Deliver(Page("users", work.conn, 3, page, 0, TRUE, NoFlags))
               /\ work' = Idle
          ELSE /\ IF full THEN Deliver(Page(work.kind, work.conn, 0, page, PageNo(n), FALSE,
                                            work.flags))
                  ELSE UNCHANGED wire
               /\ work' = [work EXCEPT !.rows = Tail(@), !.n = n,
                                       !.page = IF full THEN Rest(page) ELSE page,
                                       !.flags = FlagsAfter(work.kind, n, @, work.record)]
    /\ UNCHANGED <<users, granted, live, conn, session, queue, stmts, client, list, cut, counts>>

\* Mutant of LastPage: a message without rows is not sent.
LastPageWithRows ==
    IF work.page = <<>> THEN UNCHANGED wire
    ELSE Deliver(Page(work.kind, work.conn, 0, work.page, PageNo(work.n), TRUE, work.flags))

\* The last message, without rows when their number is a multiple of a page.
LastPage == Deliver(Page(work.kind, work.conn, 0, work.page, PageNo(work.n), TRUE, work.flags))

ReplyEnds ==
    /\ work.kind # "none" /\ work.rows = <<>>
    /\ LastPage
    /\ work' = Idle
    /\ UNCHANGED <<users, granted, live, conn, session, queue, stmts, client, list, cut, counts>>

------------------------------------------------------------------------------
(* The client takes a message *)

\* What is left of a message whose beginning was in the buffer of another.
Junk == Page("junk", 0, 0, <<>>, 0, TRUE, NoFlags)

\* recv: the first message is handled; with a second one in the buffer that is
\* lost, wholly, or its end comes with the next recv.
Received ==
    /\ live /\ wire # <<>>
    /\ \E n \in 1..Merge :
          /\ n <= Len(wire)
          /\ cut' = (cut \/ n > 1)
          /\ \/ wire' = SubSeq(wire, n + 1, Len(wire))
             \/ n > 1 /\ wire' = <<Junk>> \o SubSeq(wire, n + 1, Len(wire))
    /\ UNCHANGED <<users, granted, live, conn, server, list, counts>>

\* Mutant of Ours: the handler does not look at the operation.
OursAny(m) == m.kind \in Kinds

\* The handler of the screen for this message, and its GetCurOper.
Ours(m) == m.kind \in Kinds /\ client.oper = m.kind

Header(m) == m.rows # <<>> /\ m.no = 1

\* SelectBatchUserInfoRecvHandle, SelectBatchScoreRecvHandle of the client: the
\* rows, and at the end the number of all, which a message without rows spares.
TakePage ==
    /\ Received
    /\ LET m == Head(wire)
       IN /\ Ours(m) /\ m.code = 0
          /\ client' = [client EXCEPT
                !.shown = @ \o m.rows,
                !.heads = IF Header(m) THEN @ + 1 ELSE @,
                !.total = IF m.last /\ m.rows # <<>> THEN (m.no - 1) * PageSize + Len(m.rows)
                          ELSE @,
                !.oper = IF m.last THEN "none" ELSE @,
                !.end = IF m.last THEN "ok" ELSE @]

\* LoginRecvHandle of the client.
TakeLogin ==
    /\ Received
    /\ LET m == Head(wire)
       IN /\ m.kind = "login" /\ client.oper = "login"
          /\ client' = [client EXCEPT !.oper = "none",
                                      !.acct = IF m.code = 0 THEN client.typed ELSE @,
                                      !.may = m.code = 0 /\ m.may,
                                      !.typed = IF m.code = 0 THEN @ ELSE Nobody]

\* A failure, or an answer that is not for what the user is doing: the operation
\* ends.  Of something that is no message the head may say so, and it is skipped.
TakeOther ==
    /\ Received
    /\ LET m == Head(wire)
       IN /\ ~(Ours(m) /\ m.code = 0) /\ ~(m.kind = "login" /\ client.oper = "login")
          /\ \/ client' = [client EXCEPT !.oper = "none",
                                         !.end = IF client.oper \in Kinds THEN "failed" ELSE @]
             \/ m.kind = "junk" /\ UNCHANGED client

------------------------------------------------------------------------------
(* Other clients, whose requests the queue thread handles in between *)

Others ==
    /\ work.kind = "none" /\ Count("changes", MaxChange)
    /\ UNCHANGED <<live, conn, server, wire, client, list, cut>>

\* AuthorityProc changes the row and the session of the account at once.
EditAuthority(a) ==
    /\ Others
    /\ Identity[a] = 1
    /\ granted' = IF a \in granted THEN granted \ {a} ELSE granted \cup {a}
    /\ UNCHANGED users

AddUser(a) ==
    /\ Others
    /\ a \notin Range(users) /\ \A i \in DOMAIN users : Ids[users[i]] < Ids[a]
    /\ users' = Append(users, a)
    /\ UNCHANGED granted

DeleteUser(a) ==
    /\ Others
    /\ a \in Range(users)
    /\ users' = RemoveFirst(users, a)
    /\ UNCHANGED granted

------------------------------------------------------------------------------
Init ==
    /\ users = InitUsers /\ granted \in SUBSET {a \in Accts : Identity[a] = 1}
    /\ live = FALSE /\ conn = 0 /\ session = Nobody
    /\ queue = <<>> /\ stmts = <<>> /\ work = Idle /\ wire = <<>>
    /\ client = NewClient
    /\ list = <<>> /\ cut = FALSE
    /\ counts = [reqs |-> 0, changes |-> 0, faults |-> 0]

Recv == LoginRecvHandle \/ SelectBatchUserInfoRecvHandle \/ SelectBatchScoreRecvHandle
Mysql == LoginReplyHandle \/ (\E k \in Kinds : SelectReplyBegins(k)) \/ ReplyRow \/ ReplyEnds
RecvThread == TakePage \/ TakeLogin \/ TakeOther
User == (\E a \in Accts : LoginChooseHandle(a)) \/ (\E t \in Inputs : SelectChooseHandle(t))
Environment ==
    \/ Connect \/ Disconnect
    \/ \E a \in Accts : EditAuthority(a) \/ AddUser(a) \/ DeleteUser(a)

Next == Recv \/ Mysql \/ RecvThread \/ User \/ Environment

Spec == Init /\ [][Next]_vars

\* The queue thread runs for ever, and so does RecvThread.
FairSpec == Spec /\ WF_vars(Recv) /\ WF_vars(Mysql) /\ WF_vars(RecvThread)

------------------------------------------------------------------------------
(* Properties *)

\* Every variable holds values of its kind; a message holds at most a page, and
\* no byte more than 255.
TypeOK ==
    /\ users \in Seq(Accts) /\ IsInjective(users) /\ granted \subseteq Accts
    /\ live \in BOOLEAN /\ conn \in 0..MaxConn /\ session \in Accts \cup {Nobody}
    /\ \A i \in DOMAIN wire : wire[i].kind \in Kinds =>
          /\ Len(wire[i].rows) <= PageSize /\ wire[i].no \in 0..PageWrap - 1
          /\ \A c \in DOMAIN wire[i].flags.cond : wire[i].flags.cond[c] \in 0..255
    /\ Len(work.page) < PageSize
    /\ client.acct \in Accts \cup {Nobody} /\ client.oper \in Kinds \cup {"none", "login"}

\* The accounts of rows.
AcctsOf(rows) == [i \in DOMAIN rows |-> rows[i].acct]

\* UserInfoProc.cpp:957 and SelectUserInfoSysProc.cpp:415: a selection that ends
\* well has shown the result of its statement, every row once and in its order,
\* under one header, and the number of them, which it may leave out only if it is
\* a multiple of a page; one that has not ended, or badly, has shown the beginning.
ListShown ==
    /\ client.oper \in Kinds => IsPrefix(AcctsOf(client.shown), list)
    /\ client.end = "ok" =>
          /\ AcctsOf(client.shown) = list /\ client.heads = 1
          /\ client.total = Len(list) \/ (client.total = 0 /\ Len(list) % PageSize = 0)

\* ScoreProc.cpp:882: every message with rows tells what was asked for, as the user
\* has typed it, so that the client shows the same columns for all of them.
FlagsOnEveryPage ==
    client.oper = "scores" =>
        \A i \in DOMAIN wire :
            wire[i].kind = "scores" /\ wire[i].code = 0 /\ wire[i].rows # <<>> =>
                wire[i].flags = client.asked

\* As long as recv returns one message at a time, the list is shown as it should
\* be, and every message of it says what its rows are.
ListShownUncut == ~cut => ListShown /\ FlagsOnEveryPage

\* UserInfoProc.cpp:926: whoever has the socket number by the time of the reply is
\* shown rows of its own selection only, users below its own identity, itself, or,
\* for a student, students; and passwords only if it is the administrator, of
\* lower identities.  However the stream is cut.
OwnRows ==
    \A i \in DOMAIN client.shown :
        LET row == client.shown[i]
        IN /\ row.conn = conn
           /\ row.pwd => Identity[client.acct] = 3 /\ Identity[row.acct] < 3
           /\ client.oper = "users" =>
                 \/ Identity[row.acct] < Identity[client.acct]
                 \/ row.acct = client.acct
                 \/ Identity[row.acct] = 1 /\ Identity[client.acct] = 1

\* Every selection ends, whatever becomes of the table and of the rights.
SelectionEnds == client.oper \in Kinds ~> client.oper \notin Kinds \/ ~live \/ cut
==============================================================================
