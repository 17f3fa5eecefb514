------------------------------- MODULE BatchAdd -------------------------------
(***************************************************************************)
(* A client adds the rows of a file, users or scores, a part at a time: it *)
(* sends up to Chunk rows, the server queues a CALL for each, and the      *)
(* reply to the last one asks for the next part.  The two operations share *)
(* the client's side and differ in the server's handlers: for users the    *)
(* server counts successes in strTmpData and answers once per part; for    *)
(* scores every CALL that fails answers too.  The addition of one user     *)
(* that the client has typed is the same with one row, and without the     *)
(* counts.                                                                 *)
(***************************************************************************)
EXTENDS Ordering, SequencesExt

CONSTANTS Chunk,      \* MAXBATCHREQACKCOUNT
          NumberWrap, \* values of bRecordNO, a byte
          Files,      \* what the file may hold
          MaxPart,    \* bound: parts a file takes
          MaxBatch    \* bound: batches a client starts
VARIABLES
    oper,      \* the client adds users, "userInfo", one, "single", or scores, "score"
    state,     \* client: "menu", "wait" for a reply, or "gone"
    file,      \* m_vvAddBatch...FileData, the rows not sent yet
    sum,       \* m_uAddBatch...SumCount
    succ,      \* m_uAddBatchUserInfoSucceedCount
    sent,      \* ghost: the rows of the part waited for
    tag,       \* ghost: <<batch, part>> of that part
    ended,     \* ghost: how the last batch ended: "none", "done", "failed"
    recvQueue, \* the connection's messages in m_RecvMsgQueue
    mysqlQueue,\* its statements in m_MysqlMsgQueue
    tmp,       \* strTmpData: <<>>, or <<total, of this part>>
    out,       \* acknowledgements on their way
    added      \* ghost: the rows of each part the database took

clientVars == <<oper, state, file, sum, succ, sent, tag, ended>>
serverVars == <<recvQueue, mysqlQueue, tmp, out, added>>
vars == <<clientVars, serverVars>>

\* Rows: the CALL succeeds, as it does too for an account that is there already,
\* fails, or is not made because the identity of the new user is not the client's
\* to add; and a row the client cannot parse.
Rows == {"new", "fails", "forbidden", "unparsed"}

Tags == (0..MaxBatch) \X (0..MaxPart)

ASSUME BatchAssumption ==
    /\ Chunk \in Nat \ {0}
    /\ NumberWrap \in Nat \ {0, 1} /\ MaxBatch \in Nat \ {0} /\ MaxPart \in Nat \ {0}
    /\ \A f \in Files : f \in Seq(Rows) /\ Len(f) <= MaxPart * Chunk

Request == [recs : Seq(Rows), no : 0..NumberWrap - 1, end : BOOLEAN, tag : Tags]
Item == [fails : BOOLEAN, no : 0..NumberWrap - 1, end : BOOLEAN, last : BOOLEAN, tag : Tags]
Ack == [ok : BOOLEAN, n : 0..Chunk, tag : Tags]

------------------------------------------------------------------------------
(* The client *)

\* SendAddBatch...Data: the next rows of f, once n rows have been sent before.
\* Rows are taken off the file one by one; one that cannot be parsed ends the
\* operation and nothing is sent.
SendData(f, n, t) ==
    LET recs == SubSeq(f, 1, IF Len(f) < Chunk THEN Len(f) ELSE Chunk)
        total == n + Len(recs)
        rest == SubSeq(f, Len(recs) + 1, Len(f))
        number == (IF total > 0 THEN total - 1 ELSE 0) \div Chunk + 1
    IN IF \E i \in DOMAIN recs : recs[i] = "unparsed"
       THEN /\ state' = "menu" /\ ended' = "failed"
            /\ file' = <<>> /\ sum' = 0 /\ sent' = <<>>
            /\ UNCHANGED recvQueue
       ELSE /\ state' = "wait" /\ ended' = "none"
            /\ file' = rest /\ sum' = total /\ sent' = recs
            /\ recvQueue' = Append(recvQueue, [recs |-> recs, no |-> number % NumberWrap,
                                               end |-> rest = <<>>, tag |-> t])

\* AddBatch...ChooseHandle, AddSingleUserInfoChooseHandle.
Choose ==
    /\ state = "menu" /\ tag[1] < MaxBatch
    /\ tag' = <<tag[1] + 1, 1>>
    /\ succ' = 0
    /\ \E f \in Files :
          /\ oper = "score" => "forbidden" \notin Range(f)
          /\ oper = "single" => Len(f) = 1
          /\ SendData(f, 0, tag')
    /\ UNCHANGED <<oper, mysqlQueue, tmp, out, added>>

\* AddBatch...RecvHandle: success asks for the next part.
RecvSuccess ==
    /\ state = "wait" /\ out # <<>> /\ Head(out).ok
    /\ out' = Tail(out)
    /\ succ' = succ + Head(out).n
    /\ \/ /\ file = <<>>
          /\ state' = "menu" /\ ended' = "done" /\ sum' = 0 /\ sent' = <<>>
          /\ UNCHANGED <<file, tag, recvQueue>>
       \/ /\ file # <<>>
          /\ tag' = <<tag[1], tag[2] + 1>>
          /\ SendData(file, sum, tag')
    /\ UNCHANGED <<oper, mysqlQueue, tmp, added>>

RecvFailure ==
    /\ state = "wait" /\ out # <<>> /\ ~Head(out).ok
    /\ out' = Tail(out)
    /\ state' = "menu" /\ ended' = "failed" /\ file' = <<>> /\ sum' = 0 /\ sent' = <<>>
    /\ UNCHANGED <<oper, succ, tag, recvQueue, mysqlQueue, tmp, added>>

\* An acknowledgement of a batch that has ended is not delivered to a screen, or
\* makes the screen give up a choice the user has not made yet.
RecvStray ==
    /\ state = "menu" /\ out # <<>>
    /\ out' = Tail(out)
    /\ UNCHANGED <<clientVars, recvQueue, mysqlQueue, tmp, added>>

\* The client leaves, its record is removed, what it queued stays.
Disconnect ==
    /\ state \in {"menu", "wait"}
    /\ state' = "gone"
    /\ tmp' = <<>> /\ out' = <<>>
    /\ UNCHANGED <<oper, file, sum, succ, sent, tag, ended, recvQueue, mysqlQueue, added>>

------------------------------------------------------------------------------
(* The server *)

Connected == state # "gone"
SetTmp(v) == tmp' = IF Connected THEN v ELSE <<>>
Send(ok, n, t) ==
    out' = IF Connected THEN Append(out, [ok |-> ok, n |-> n, tag |-> t]) ELSE <<>>

\* MysqlMgr::InputMsgQueue refuses an empty statement.
Dropped(row) == row = "forbidden"

ItemsOf(req) ==
    LET item(i) == [fails |-> req.recs[i] # "new", no |-> req.no, end |-> req.end,
                    last |-> i = Len(req.recs), tag |-> req.tag]
        queued == InOrder({i \in 1..Len(req.recs) : ~Dropped(req.recs[i])})
    IN [k \in 1..Len(queued) |-> item(queued[k])]

RecvFront ==
    /\ recvQueue # <<>>
    /\ recvQueue' = Tail(recvQueue)
    /\ UNCHANGED <<clientVars, added>>

\* bRecordCount is zero: not a word to the client.
RecvEmpty ==
    /\ RecvFront /\ Head(recvQueue).recs = <<>>
    /\ UNCHANGED <<mysqlQueue, tmp, out>>

Queued == mysqlQueue' = mysqlQueue \o ItemsOf(Head(recvQueue))

\* Mutant of PartBegins: the count of the part before is kept.
PartBeginsWithOld(t) == t

\* Mutant of PartBegins: the total is reset as well.
PartBeginsAnew(t) == <<0, 0>>

\* strTmpData for a later part: the total stays, the part's count is reset.
PartBegins(t) == <<t[1], 0>>

AddBatchUserInfoRecvHandle ==
    /\ oper = "userInfo"
    /\ RecvFront /\ Head(recvQueue).recs # <<>>
    /\ \/ Head(recvQueue).no <= 1 /\ SetTmp(<<0, 0>>) /\ Queued /\ UNCHANGED out
       \/ Head(recvQueue).no > 1 /\ tmp # <<>> /\ SetTmp(PartBegins(tmp)) /\ Queued /\ UNCHANGED out
       \/ /\ Head(recvQueue).no > 1 /\ tmp = <<>>
          /\ Send(FALSE, 0, Head(recvQueue).tag)
          /\ UNCHANGED <<mysqlQueue, tmp>>

AddBatchScoreRecvHandle ==
    /\ oper = "score"
    /\ RecvFront /\ Head(recvQueue).recs # <<>>
    /\ Queued /\ UNCHANGED <<tmp, out>>

\* The identity is checked before anything is queued.
AddSingleUserInfoRecvHandle ==
    /\ oper = "single" /\ RecvFront
    /\ IF Dropped(Head(recvQueue).recs[1])
       THEN Send(FALSE, 0, Head(recvQueue).tag) /\ UNCHANGED mysqlQueue
       ELSE Queued /\ UNCHANGED out
    /\ UNCHANGED tmp

MysqlFront ==
    /\ mysqlQueue # <<>>
    /\ mysqlQueue' = Tail(mysqlQueue)
    /\ LET it == Head(mysqlQueue)
       IN added' = IF it.fails THEN added ELSE [added EXCEPT ![it.tag] = @ + 1]
    /\ UNCHANGED <<clientVars, recvQueue>>

\* Mutant of ReplyDue: every CALL that fails is answered.
ReplyDueOnFailure(it, lost) == it.last \/ it.fails \/ lost

\* Mutant of ReplyDue: only the last part is answered.
ReplyDueAtEnd(it, lost) == (it.last /\ it.end) \/ lost

\* A reply is due for the last row of a part, and when strTmpData was lost.
ReplyDue(it, lost) == it.last \/ lost

AddBatchUserInfoReplyHandle ==
    /\ oper = "userInfo" /\ MysqlFront
    /\ LET it == Head(mysqlQueue)
           lost == ~it.fails /\ tmp = <<>>
           counted == IF it.fails \/ lost THEN tmp ELSE <<tmp[1] + 1, tmp[2] + 1>>
           ok == ~lost /\ ~(counted # <<>> /\ counted[2] = 0)
       IN IF ReplyDue(it, lost)
          THEN /\ Send(ok, IF counted = <<>> THEN 0 ELSE counted[2], it.tag)
               /\ SetTmp(IF ~ok \/ it.end THEN <<>> ELSE counted)
          ELSE SetTmp(counted) /\ UNCHANGED out

\* A reply is due for the last row, and for every row that fails.
ScoreReplyDue(it) == it.fails \/ it.last

AddBatchScoreReplyHandle ==
    /\ oper = "score" /\ MysqlFront
    /\ LET it == Head(mysqlQueue)
       IN IF ScoreReplyDue(it) THEN Send(~it.fails, 0, it.tag) ELSE UNCHANGED out
    /\ UNCHANGED tmp

AddSingleUserInfoReplyHandle ==
    /\ oper = "single" /\ MysqlFront
    /\ Send(~Head(mysqlQueue).fails, 0, Head(mysqlQueue).tag)
    /\ UNCHANGED tmp

------------------------------------------------------------------------------
Init ==
    /\ oper \in {"userInfo", "single", "score"}
    /\ state = "menu" /\ file = <<>> /\ sum = 0 /\ succ = 0
    /\ sent = <<>> /\ tag = <<0, 0>> /\ ended = "none"
    /\ recvQueue = <<>> /\ mysqlQueue = <<>> /\ tmp = <<>> /\ out = <<>>
    /\ added = [t \in Tags |-> 0]

Client == Choose \/ RecvSuccess \/ RecvFailure \/ RecvStray

MsgQueueThread ==
    \/ RecvEmpty \/ AddBatchUserInfoRecvHandle \/ AddBatchScoreRecvHandle
    \/ AddSingleUserInfoRecvHandle
    \/ AddBatchUserInfoReplyHandle \/ AddBatchScoreReplyHandle \/ AddSingleUserInfoReplyHandle

Next == Client \/ Disconnect \/ MsgQueueThread

Spec == Init /\ [][Next]_vars

\* The queue thread runs for ever, the client's RecvThread takes what arrives.
FairSpec ==
    /\ Spec
    /\ WF_vars(MsgQueueThread)
    /\ WF_vars(RecvSuccess \/ RecvFailure \/ RecvStray)

------------------------------------------------------------------------------
(* Properties *)

\* Every variable holds values of its kind.
TypeOK ==
    /\ oper \in {"userInfo", "single", "score"}
    /\ state \in {"menu", "wait", "gone"} /\ file \in Seq(Rows)
    /\ sum \in Nat /\ succ \in Nat /\ sent \in Seq(Rows) /\ tag \in Tags
    /\ ended \in {"none", "done", "failed"}
    /\ recvQueue \in Seq(Request) /\ mysqlQueue \in Seq(Item) /\ out \in Seq(Ack)
    /\ tmp = <<>> \/ tmp \in Nat \X (0..Chunk)
    /\ added \in [Tags -> 0..Chunk]

\* The rows of batch b the database took, each by its part and its turn there.
TakenIn(b) == {r \in (1..MaxPart) \X (1..Chunk) : r[2] <= added[<<b, r[1]>>]}
AddedIn(b) == Cardinality(TakenIn(b))

\* The number of users the client reports at the end of a batch is the number
\* the database took, those that were there already included, over all parts,
\* although it was counted in strTmpData, sent as a byte per part and summed up
\* by the client.
CountsAgree ==
    oper = "userInfo" /\ ended = "done" /\ state = "menu" =>
        succ = AddedIn(tag[1])

\* UserInfoProc.cpp:87, "record the total number of successes and the number of
\* this part": while a part is worked on, strTmpData holds the number of rows
\* the database took of the batch so far and of the part.
TotalsKept ==
    mysqlQueue # <<>> /\ tmp # <<>> =>
        LET t == Head(mysqlQueue).tag
        IN tmp = <<AddedIn(t[1]), added[t]>>

\* The reply to a part is sent once, when all of its statements have been
\* executed, is the reply to the part the client waits for, and tells (ProtoDef.h:496,
\* "if the whole part failed, failure is returned, otherwise success", and :497)
\* whether the database took any row of that part, and how many.
ReplyEndsPart ==
    oper # "score" /\ out # <<>> =>
        LET a == Head(out)
        IN /\ mysqlQueue = <<>> /\ Len(out) = 1 /\ state = "wait" /\ a.tag = tag
           /\ a.ok <=> added[tag] > 0
           /\ oper = "userInfo" => a.n = added[tag]

\* A client waits for the reply to this part.
WaitsFor(t) == state = "wait" /\ tag = t

\* A part whose last row the server accepts is answered, whatever happens to
\* the rows before it.
AnsweredIfLastQueued ==
    \A t \in Tags :
        WaitsFor(t) /\ sent # <<>> /\ ~Dropped(Last(sent)) ~> ~WaitsFor(t)

\* ProtoDef.h:496: every part with rows is answered, with a failure when no row
\* of it could be added.
EveryPartAnswered == \A t \in Tags : WaitsFor(t) /\ sent # <<>> ~> ~WaitsFor(t)
==============================================================================
