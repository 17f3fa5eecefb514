---------------------------- MODULE ServerSession ----------------------------
(***************************************************************************)
(* The server's message pipeline with the requests that make, use and end  *)
(* a session: login, register, exit and the deletion of users.             *)
(*                                                                         *)
(* Worker threads push what the clients send on recvQueue.  One thread,    *)
(* MsgQueueThread, alternates: it handles one message of recvQueue, then   *)
(* executes one statement of mysqlQueue and handles its reply.  The        *)
(* handler of a request only queues statements, so between a request, its  *)
(* statements and its reply other requests are handled, connections close  *)
(* and their socket numbers are given to new connections.                  *)
(*                                                                         *)
(* A queue operation and a handler are single steps here, as the source    *)
(* means its critical sections to make them; module ConnTable is about the  *)
(* sections themselves.                                                    *)
(***************************************************************************)
EXTENDS UserTable, Integers, Sequences

CONSTANTS Socks,       \* socket numbers the operating system hands out
          InitTables,  \* tables the server may start from
          FirstId,     \* auto_increment of userInfo at the start
          Ranges,      \* the ranges <<lo, hi>> of a batch deletion
          MaxReq,      \* bound: requests sent in a behaviour
          MaxFaults    \* bound: statements that fail in a behaviour

ASSUME SessionAssumption ==
    /\ MaxReq \in Nat /\ MaxFaults \in Nat
    /\ Ranges \subseteq Nat \X Nat
    /\ InitTables \subseteq Table /\ FirstId \in Nat \ {0}
    /\ \A tab \in InitTables, a \in Accts : tab[a].id < FirstId

VARIABLES
    live,        \* sockets with a record in m_mUserInfo
    users,       \* m_mUserInfo, Blank where there is no record
    recvQueue,   \* m_RecvMsgQueue
    mysqlQueue,  \* m_MysqlMsgQueue
    turn,        \* the queue MsgQueueThread looks at next
    table,       \* the database
    nextId,      \* auto_increment of userInfo
    userVar,     \* @userid_by_scoket_N, 0 when unset
    resultVar,   \* @Result_by_scoket_N
    out,         \* messages sent on a connection and not received yet
    client,      \* per connection, what the client knows and waits for
    nextRid,     \* ghost: number of the next request
    faults,      \* ghost: statements that failed so far
    issued,      \* ghost: every <<account, id>> userInfo ever held
    effective,   \* ghost: requests the database granted or carried out
    ackLog,      \* ghost: the outcomes reported for each request, in order
    lost         \* ghost: requests that died with the server process

serverVars == <<live, users, recvQueue, mysqlQueue, turn>>
dbVars == <<table, nextId, userVar, resultVar>>
ghostVars == <<faults, issued, effective, ackLog, lost>>
vars == <<serverVars, dbVars, out, client, nextRid, ghostVars>>

------------------------------------------------------------------------------
(* Records *)

Kinds == {"login", "register", "exit", "delete", "deleteRange"}

\* CS_MSG_*_REQ.  rid is ghost: 0 for the exit message, which has no reply.
Request == [kind : Kinds, sock : Socks, rid : 0..MaxReq,
            acct : Accts \cup {NoAcct}, ident : Idents, pwdOk : BOOLEAN,
            lo : Nat, hi : Nat]

\* What a deletion request reads of the requester's session when it is handled.
Mine == [ident : Idents, acct : Accts \cup {NoAcct}, canDel : BOOLEAN]
Nobody == [ident |-> 0, acct |-> NoAcct, canDel |-> FALSE]

\* MysqlMsgData.  step is the last item of strRecord: 1 the CALL of a stored
\* procedure, 2 the SELECT of its result; the login's one SELECT has step 0.
Item == [req : Request, step : 0..2, my : Mine]

\* SC_MSG_*_ACK, and the notification to exit.
Ack == [kind : {"login", "register", "delete", "notify"}, ok : BOOLEAN,
        rid : 0..MaxReq, auth : Auths]

UserRec == [userId : Nat, acct : Accts \cup {NoAcct}, ident : Idents,
            auth : Auths, regNeed : {0, 1}]
Blank == [userId |-> 0, acct |-> NoAcct, ident |-> 1, auth |-> "none",
          regNeed |-> 0]

\* The client is past the enter screen when it holds an authority.
Client == [auth : Auths, wait : {"none", "login", "register", "delete"}]
Fresh == [auth |-> "none", wait |-> "none"]

\* Mutant of AckKind: a batch deletion is answered with an assist id of its own.
OwnAckKind(kind) == kind

\* The assist id of the reply to a request of this kind.
AckKind(kind) == IF kind = "deleteRange" THEN "delete" ELSE kind

\* GetDefaultAuthorityByIdent, as far as deletion is concerned.
DefaultAuthority(ident) == IF ident = 1 THEN "plain" ELSE "del"

------------------------------------------------------------------------------
(* UserInfoMgr and MsgPackageMgr as the handlers use them *)

\* GetRegNeedCountBySocketId.
RegNeed(s) == IF s \in live THEN users[s].regNeed ELSE -1

\* Mutant of NoNeed: the count is never reset.
NeedKept(u) == u

\* SetRegNeedCountBySocketId(0).
NoNeed(u) == [u EXCEPT !.regNeed = 0]

\* Every Set...BySocketId changes an existing record and nothing else.
SetUser(s, rec) == users' = IF s \in live THEN [users EXCEPT ![s] = rec] ELSE users

\* Sessions that FindAccount and GetSocketIdByAccount look for.
SessionsOf(a) == {s \in live : users[s].acct = a}

\* Send: a message to a closed socket is lost, one to a socket number that has
\* been handed out again reaches the new connection.
Sent(s, ack) == IF s \in live THEN [out EXCEPT ![s] = Append(@, ack)] ELSE out

Reply(it, ok, auth) ==
    /\ out' = Sent(it.req.sock, [kind |-> AckKind(it.req.kind), ok |-> ok,
                                 rid |-> it.req.rid, auth |-> auth])
    /\ ackLog' = [ackLog EXCEPT ![it.req.rid] = Append(@, ok)]

------------------------------------------------------------------------------
(* Connections and clients *)

\* The accept loop: the record of a new connection is blank.
Connect(s) ==
    /\ s \notin live
    /\ live' = live \cup {s}
    /\ users' = [users EXCEPT ![s] = Blank]
    /\ client' = [client EXCEPT ![s] = Fresh]
    /\ out' = [out EXCEPT ![s] = <<>>]
    /\ UNCHANGED <<recvQueue, mysqlQueue, turn, dbVars, nextRid, ghostVars>>

\* RemoveInfoBySocketId: the record goes, what the connection queued stays.
Removed(s) ==
    /\ live' = live \ {s}
    /\ users' = [users EXCEPT ![s] = Blank]
    /\ client' = [client EXCEPT ![s] = Fresh]
    /\ out' = [out EXCEPT ![s] = <<>>]

\* The client closes or the network fails, and a worker thread notices.
Disconnect(s) ==
    /\ s \in live
    /\ Removed(s)
    /\ UNCHANGED <<recvQueue, mysqlQueue, turn, dbVars, nextRid, ghostVars>>

\* What the screens let a client send: login and registration before it has an
\* authority, exit and, with the right to, deletion afterwards.
MaySend(s, kind) ==
    /\ s \in live
    /\ client[s].wait = "none"
    /\ CASE kind \in {"login", "register"} -> client[s].auth = "none"
         [] kind = "exit" -> client[s].auth # "none"
         [] OTHER -> client[s].auth = "del"

\* The client sends, a worker thread unpacks and calls InputMsgQueue.
Input(s, req) ==
    /\ MaySend(s, req.kind)
    /\ recvQueue' = Append(recvQueue, req)
    /\ nextRid' = IF req.kind = "exit" THEN nextRid ELSE nextRid + 1
    /\ nextRid' <= MaxReq + 1
    /\ client' = [client EXCEPT ![s] =
           IF req.kind = "exit" THEN Fresh ELSE [@ EXCEPT !.wait = AckKind(req.kind)]]
    /\ UNCHANGED <<live, users, mysqlQueue, turn, dbVars, out, ghostVars>>

Msg(s, kind, acct, ident, pwdOk, range) ==
    [kind |-> kind, sock |-> s, rid |-> IF kind = "exit" THEN 0 ELSE nextRid,
     acct |-> acct, ident |-> ident, pwdOk |-> pwdOk, lo |-> range[1], hi |-> range[2]]

SendLogin(s) == \E a \in Accts, p \in BOOLEAN :
                    Input(s, Msg(s, "login", a, 0, p, <<0, 0>>))
SendRegister(s) == \E a \in Accts, i \in {1, 2} :
                    Input(s, Msg(s, "register", a, i, TRUE, <<0, 0>>))
SendExit(s) == Input(s, Msg(s, "exit", NoAcct, 0, TRUE, <<0, 0>>))
SendDelete(s) == \E a \in Accts : Input(s, Msg(s, "delete", a, 0, TRUE, <<0, 0>>))
SendDeleteRange(s) == \E r \in Ranges : Input(s, Msg(s, "deleteRange", NoAcct, 0, TRUE, r))

\* The client's RecvThread takes an acknowledgement.  Any one ends the wait: of
\* another kind than the operation, it makes the client give the operation up.
Deliver(s) ==
    /\ s \in live /\ out[s] # <<>> /\ Head(out[s]).kind # "notify"
    /\ LET ack == Head(out[s])
           mine == ack.kind = client[s].wait
       IN client' = [client EXCEPT ![s] =
              [auth |-> IF mine /\ ack.ok /\ ack.kind # "delete" THEN ack.auth ELSE @.auth,
               wait |-> "none"]]
    /\ out' = [out EXCEPT ![s] = Tail(@)]
    /\ UNCHANGED <<serverVars, dbVars, nextRid, ghostVars>>

\* NotifyUserExitSysRecvHandle: the client process ends, the connection closes.
DeliverNotify(s) ==
    /\ s \in live /\ out[s] # <<>> /\ Head(out[s]).kind = "notify"
    /\ Removed(s)
    /\ UNCHANGED <<recvQueue, mysqlQueue, turn, dbVars, nextRid, ghostVars>>

------------------------------------------------------------------------------
(* MsgQueueThread, first half: MsgHandleMgr::MsgQueueHandle *)

RecvFront(kinds) ==
    /\ turn = "recv" /\ turn' = "mysql"
    /\ recvQueue # <<>> /\ Head(recvQueue).kind \in kinds
    /\ recvQueue' = Tail(recvQueue)
    /\ UNCHANGED <<live, client, dbVars, nextRid, faults, issued, effective, ackLog, lost>>

RecvIdle ==
    /\ turn = "recv" /\ turn' = "mysql"
    /\ recvQueue = <<>>
    /\ UNCHANGED <<live, users, recvQueue, mysqlQueue, dbVars, out, client, nextRid, ghostVars>>

\* Somebody logged in with this account is told to exit; then the row is asked
\* for.  Which of several sessions is told depends on the socket numbers.
LoginRecvHandle ==
    /\ RecvFront({"login"})
    /\ LET m == Head(recvQueue)
       IN /\ mysqlQueue' = Append(mysqlQueue, [req |-> m, step |-> 0, my |-> Nobody])
          /\ \/ SessionsOf(m.acct) = {} /\ UNCHANGED out
             \/ \E t \in SessionsOf(m.acct) :
                  out' = Sent(t, [kind |-> "notify", ok |-> TRUE, rid |-> m.rid,
                                  auth |-> "none"])
    /\ UNCHANGED users

\* Mutant of PushPair: the SELECT first.
PushPairSwapped(m, my) ==
    mysqlQueue' = mysqlQueue \o <<[req |-> m, step |-> 2, my |-> my],
                                  [req |-> m, step |-> 1, my |-> my]>>

\* A CALL and the SELECT of its result, queued back to back.
PushPair(m, my) ==
    mysqlQueue' = mysqlQueue \o <<[req |-> m, step |-> 1, my |-> my],
                                  [req |-> m, step |-> 2, my |-> my]>>

RegisterRecvHandle ==
    /\ RecvFront({"register"})
    /\ LET m == Head(recvQueue)
       IN /\ SetUser(m.sock, NoNeed(users[m.sock]))
          /\ PushPair(m, Nobody)
    /\ UNCHANGED out

ExitSysRecvHandle ==
    /\ RecvFront({"exit"})
    /\ SetUser(Head(recvQueue).sock, Blank)
    /\ UNCHANGED <<mysqlQueue, out>>

\* The requester's identity is read now and used when the CALL is executed.
DeleteUserInfoRecvHandle ==
    /\ RecvFront({"delete", "deleteRange"})
    /\ LET m == Head(recvQueue)
           u == users[m.sock]
       IN /\ SetUser(m.sock, NoNeed(u))
          /\ PushPair(m, IF m.sock \in live
                         THEN [ident |-> u.ident, acct |-> u.acct,
                               canDel |-> u.ident = 1 /\ u.auth = "del"]
                         ELSE Nobody)
    /\ UNCHANGED out

------------------------------------------------------------------------------
(* MsgQueueThread, second half: MysqlMgr::MsgQueueHandle *)

MysqlFront(kinds, step) ==
    /\ turn = "mysql" /\ turn' = "recv"
    /\ mysqlQueue # <<>>
    /\ Head(mysqlQueue).req.kind \in kinds /\ Head(mysqlQueue).step = step
    /\ mysqlQueue' = Tail(mysqlQueue)
    /\ UNCHANGED <<live, client, recvQueue, nextRid, lost>>

MysqlIdle ==
    /\ turn = "mysql" /\ turn' = "recv"
    /\ mysqlQueue = <<>>
    /\ UNCHANGED <<live, users, recvQueue, mysqlQueue, dbVars, out, client, nextRid, ghostVars>>

\* A statement fails for a reason of the database's own.
Fault == faults < MaxFaults /\ faults' = faults + 1

\* Mutants of SendFlag: the outcome of the CALL is not looked at; the SELECT
\* does not look at sRegNeedCount; a failure sends nothing.
SendFlagAnyCall(it, err, good) ==
    CASE RegNeed(it.req.sock) = 0 /\ it.step = 1 -> "more"
      [] ~err /\ RegNeed(it.req.sock) = 1 /\ it.step = 2 /\ good -> "succeed"
      [] OTHER -> "fail"
SendFlagNoNeed(it, err, good) ==
    CASE ~err /\ it.step = 1 -> "more"
      [] ~err /\ it.step = 2 /\ good -> "succeed"
      [] OTHER -> "fail"
SendFlagSilent(it, err, good) ==
    CASE ~err /\ RegNeed(it.req.sock) = 1 /\ it.step = 2 /\ good -> "succeed"
      [] OTHER -> "more"

\* bSendFlag of RegisterReplyHandle and DeleteUserInfoReplyHandle: "more" sends
\* nothing, sRegNeedCount tells the SELECT that its CALL succeeded.
SendFlag(it, err, good) ==
    CASE err -> "fail"
      [] ~err /\ RegNeed(it.req.sock) = 0 /\ it.step = 1 -> "more"
      [] ~err /\ RegNeed(it.req.sock) = 1 /\ it.step = 2 /\ good -> "succeed"
      [] OTHER -> "fail"

LoginReplyHandle(it) ==
    LET s == it.req.sock
        row == table[it.req.acct]
    IN IF LoginRow(table, it.req.acct, it.req.pwdOk)
       THEN /\ SetUser(s, [users[s] EXCEPT !.userId = row.id, !.acct = it.req.acct,
                                           !.ident = row.ident, !.auth = row.auth])
            /\ Reply(it, TRUE, row.auth)
       ELSE UNCHANGED users /\ Reply(it, FALSE, "none")

RegisterReplyHandle(it, err) ==
    LET s == it.req.sock
        flag == SendFlag(it, err, userVar[s] >= 1)
        auth == DefaultAuthority(it.req.ident)
    IN CASE flag = "more" ->
              SetUser(s, [users[s] EXCEPT !.regNeed = 1]) /\ UNCHANGED <<out, ackLog>>
         [] flag = "succeed" ->
              /\ SetUser(s, [userId |-> userVar[s], acct |-> it.req.acct,
                             ident |-> it.req.ident, auth |-> auth, regNeed |-> 0])
              /\ Reply(it, TRUE, auth)
         [] OTHER ->
              SetUser(s, NoNeed(users[s])) /\ Reply(it, FALSE, "none")

DeleteUserInfoReplyHandle(it, err) ==
    LET s == it.req.sock
        flag == SendFlag(it, err, resultVar[s] = "deleted")
    IN CASE flag = "more" ->
              SetUser(s, [users[s] EXCEPT !.regNeed = 1]) /\ UNCHANGED <<out, ackLog>>
         [] OTHER ->
              /\ SetUser(s, NoNeed(users[s]))
              /\ Reply(it, flag = "succeed", "none")

ExecLogin ==
    /\ MysqlFront({"login"}, 0)
    /\ LET it == Head(mysqlQueue)
       IN /\ LoginReplyHandle(it)
          /\ effective' = IF LoginRow(table, it.req.acct, it.req.pwdOk)
                          THEN effective \cup {it.req.rid} ELSE effective
    /\ UNCHANGED <<dbVars, faults, issued>>

\* The login select fails: LoginReplyHandle asks a null result for its number of
\* rows and the process dies.  A new one starts with the tables it left.
ExecLoginFault ==
    /\ turn = "mysql" /\ turn' = "recv"
    /\ mysqlQueue # <<>> /\ Head(mysqlQueue).step = 0
    /\ Fault
    /\ live' = {} /\ users' = [s \in Socks |-> Blank]
    /\ recvQueue' = <<>> /\ mysqlQueue' = <<>>
    /\ out' = [s \in Socks |-> <<>>] /\ client' = [s \in Socks |-> Fresh]
    /\ userVar' = [s \in Socks |-> 0] /\ resultVar' = [s \in Socks |-> "unset"]
    /\ lost' = {r \in 1..MaxReq : r < nextRid /\ ackLog[r] = <<>>}
    /\ UNCHANGED <<table, nextId, nextRid, issued, effective, ackLog>>

NewUser(it, auth) ==
    /\ ~Exists(table, it.req.acct)
    /\ table' = Inserted(table, it.req.acct, nextId, it.req.ident, auth)
    /\ issued' = issued \cup {<<it.req.acct, nextId>>}
    /\ nextId' = nextId + 1

\* Mutant of UserRegisterId: the user id is read before the insert.
UserRegisterEarlyId == nextId - 1

\* What UserRegister returns: the user id of the row it inserted.
UserRegisterId == nextId

\* UserRegister runs to its end.
ExecRegisterCall ==
    /\ MysqlFront({"register"}, 1)
    /\ LET it == Head(mysqlQueue)
       IN /\ NewUser(it, DefaultAuthority(it.req.ident))
          /\ userVar' = [userVar EXCEPT ![it.req.sock] = UserRegisterId]
          /\ effective' = effective \cup {it.req.rid}
          /\ RegisterReplyHandle(it, FALSE)
    /\ UNCHANGED <<resultVar, faults>>

\* The account is taken: the insert violates the unique key, the CALL fails.
ExecRegisterTaken ==
    /\ MysqlFront({"register"}, 1)
    /\ Exists(table, Head(mysqlQueue).req.acct)
    /\ RegisterReplyHandle(Head(mysqlQueue), TRUE)
    /\ UNCHANGED <<dbVars, faults, issued, effective>>

\* The CALL fails before its first insert, or between its two inserts: no
\* transaction takes the first one back.
ExecRegisterFault ==
    /\ MysqlFront({"register"}, 1)
    /\ Fault
    /\ \/ UNCHANGED <<table, nextId, issued>>
       \/ NewUser(Head(mysqlQueue), "none")
    /\ RegisterReplyHandle(Head(mysqlQueue), TRUE)
    /\ UNCHANGED <<userVar, resultVar, effective>>

DeleteTargets(it) ==
    IF it.req.kind = "delete" THEN SingleTargets(table, it.req.acct, it.my)
    ELSE BatchTargets(table, it.req.lo, it.req.hi, it.my)

\* The deletion procedure runs to its end.
ExecDeleteCall ==
    /\ MysqlFront({"delete", "deleteRange"}, 1)
    /\ LET it == Head(mysqlQueue)
           gone == DeleteTargets(it)
       IN /\ table' = Deleted(table, gone, {})
          /\ resultVar' = [resultVar EXCEPT ![it.req.sock] =
                              IF gone = {} THEN "nothing" ELSE "deleted"]
          /\ effective' = IF gone = {} THEN effective ELSE effective \cup {it.req.rid}
          /\ DeleteUserInfoReplyHandle(it, FALSE)
    /\ UNCHANGED <<nextId, userVar, faults, issued>>

\* It fails part of the way: some users are gone, one may be half gone.
ExecDeleteFault ==
    /\ MysqlFront({"delete", "deleteRange"}, 1)
    /\ Fault
    /\ LET it == Head(mysqlQueue)
       IN \E gone \in SUBSET DeleteTargets(it) :
            \E half \in {{}} \cup {{b} : b \in DeleteTargets(it) \ gone} :
               table' = Deleted(table, gone, half)
    /\ DeleteUserInfoReplyHandle(Head(mysqlQueue), TRUE)
    /\ UNCHANGED <<nextId, userVar, resultVar, issued, effective>>

\* The SELECT of the out parameter, which may fail too.
ExecRegisterSelect ==
    /\ MysqlFront({"register"}, 2)
    /\ \E err \in BOOLEAN :
         /\ IF err THEN Fault ELSE UNCHANGED faults
         /\ RegisterReplyHandle(Head(mysqlQueue), err)
    /\ UNCHANGED <<dbVars, issued, effective>>

ExecDeleteSelect ==
    /\ MysqlFront({"delete", "deleteRange"}, 2)
    /\ \E err \in BOOLEAN :
         /\ IF err THEN Fault ELSE UNCHANGED faults
         /\ DeleteUserInfoReplyHandle(Head(mysqlQueue), err)
    /\ UNCHANGED <<dbVars, issued, effective>>

------------------------------------------------------------------------------
Init ==
    /\ live = {} /\ users = [s \in Socks |-> Blank]
    /\ recvQueue = <<>> /\ mysqlQueue = <<>> /\ turn = "recv"
    /\ table \in InitTables
    /\ issued = {<<a, table[a].id>> : a \in {b \in Accts : Exists(table, b)}}
    /\ nextId = FirstId
    /\ userVar = [s \in Socks |-> 0] /\ resultVar = [s \in Socks |-> "unset"]
    /\ out = [s \in Socks |-> <<>>] /\ client = [s \in Socks |-> Fresh]
    /\ nextRid = 1 /\ faults = 0
    /\ effective = {} /\ ackLog = [r \in 1..MaxReq |-> <<>>] /\ lost = {}

Clients == \E s \in Socks :
    \/ Connect(s) \/ Disconnect(s)
    \/ SendLogin(s) \/ SendRegister(s) \/ SendExit(s)
    \/ SendDelete(s) \/ SendDeleteRange(s)
    \/ Deliver(s) \/ DeliverNotify(s)

RecvMsgQueueHandle ==
    \/ RecvIdle \/ LoginRecvHandle \/ RegisterRecvHandle
    \/ ExitSysRecvHandle \/ DeleteUserInfoRecvHandle

MysqlMsgQueueHandle ==
    \/ MysqlIdle \/ ExecLogin \/ ExecLoginFault
    \/ ExecRegisterCall \/ ExecRegisterTaken \/ ExecRegisterFault \/ ExecRegisterSelect
    \/ ExecDeleteCall \/ ExecDeleteFault \/ ExecDeleteSelect

MsgQueueThread == RecvMsgQueueHandle \/ MysqlMsgQueueHandle

Next == Clients \/ MsgQueueThread

Spec == Init /\ [][Next]_vars

------------------------------------------------------------------------------
(* Properties *)

\* Every variable holds values of its kind.
TypeOK ==
    /\ live \subseteq Socks /\ users \in [Socks -> UserRec]
    /\ recvQueue \in Seq(Request) /\ mysqlQueue \in Seq(Item)
    /\ turn \in {"recv", "mysql"}
    /\ table \in Table /\ nextId \in Nat \ {0}
    /\ userVar \in [Socks -> Nat]
    /\ resultVar \in [Socks -> {"unset", "nothing", "deleted"}]
    /\ out \in [Socks -> Seq(Ack)] /\ client \in [Socks -> Client]
    /\ nextRid \in 1..MaxReq + 1 /\ faults \in 0..MaxFaults
    /\ issued \subseteq Accts \X (Nat \ {0})
    /\ effective \subseteq 1..MaxReq /\ lost \subseteq 1..MaxReq
    /\ ackLog \in [1..MaxReq -> Seq(BOOLEAN)]

\* A CALL in the queue is followed by the SELECT of the same request, and a
\* SELECT that is not at the head is preceded by its CALL: nothing is queued
\* between the two halves.
PairsAdjacent ==
    \A i \in 1..Len(mysqlQueue) :
        /\ mysqlQueue[i].step = 1 =>
              /\ i < Len(mysqlQueue)
              /\ mysqlQueue[i + 1] = [mysqlQueue[i] EXCEPT !.step = 2]
        /\ mysqlQueue[i].step = 2 /\ i > 1 =>
              mysqlQueue[i - 1] = [mysqlQueue[i] EXCEPT !.step = 1]

\* sRegNeedCount, which registration and deletion share, is 1 only while the
\* SELECT of a CALL that succeeded for the same socket is next in the queue, so
\* that no reply handler takes the step of another request for its own.
RegNeedMeansSelectNext ==
    \A s \in live : users[s].regNeed = 1 =>
        /\ mysqlQueue # <<>>
        /\ Head(mysqlQueue).step = 2 /\ Head(mysqlQueue).req.sock = s

\* And then the variable that SELECT will read is the one this CALL assigned:
\* never a null, never the user id of an earlier registration on the socket.
ResultIsOwn ==
    \A s \in live : users[s].regNeed = 1 =>
        LET req == Head(mysqlQueue).req
        IN IF req.kind = "register" THEN <<req.acct, userVar[s]>> \in issued
           ELSE resultVar[s] = IF req.rid \in effective THEN "deleted" ELSE "nothing"

\* The user id and the account the server keeps for a connection have been one
\* row of userInfo, whatever was registered, deleted or failed, and whichever
\* connections had the socket number before.
SessionIsARow ==
    \A s \in live : users[s].userId # 0 => <<users[s].acct, users[s].userId>> \in issued

\* A request reported as successful is one the database carried out: the reply
\* to a registration or a deletion, sent by the SELECT, never reports more than
\* its CALL did.
SuccessIsReal ==
    \A r \in 1..MaxReq : (\E k \in DOMAIN ackLog[r] : ackLog[r][k]) => r \in effective

\* A request is reported on at most twice, and only as failed when it is twice.
AckLogShape ==
    \A r \in 1..MaxReq : ackLog[r] \in {<<>>, <<TRUE>>, <<FALSE>>, <<FALSE, FALSE>>}

\* A request the server took in is queued, reported on, or died with the
\* process: none is dropped between its two queues and its two steps.
NothingDropped ==
    \A r \in 1..MaxReq : r < nextRid =>
        \/ \E i \in DOMAIN recvQueue : recvQueue[i].rid = r
        \/ \E i \in DOMAIN mysqlQueue : mysqlQueue[i].req.rid = r
        \/ ackLog[r] # <<>>
        \/ r \in lost

\* The thread of the queues runs for ever, a client reads what it is sent.
FairSpec ==
    /\ Spec
    /\ WF_vars(MsgQueueThread)
    /\ \A s \in Socks : WF_vars(Deliver(s) \/ DeliverNotify(s))

\* Every wait of a client ends.
WaitEnds == \A s \in Socks : client[s].wait # "none" ~> client[s].wait = "none"

\* EnterSysProc.cpp:33: before an account logs in, whoever is logged in with it
\* is forced off.  So of two connections logged in with one account, one has
\* been sent the notification to exit.
OneSessionPerAccount ==
    \A s, t \in live : s # t /\ users[s].acct = users[t].acct /\ users[s].acct # NoAcct =>
        \E u \in {s, t} : \E i \in DOMAIN out[u] : out[u][i].kind = "notify"

------------------------------------------------------------------------------
(* What the handlers amount to: a book of the accounts ever opened and of the  *)
(* one each connection is bound to.                                            *)

BoundTo(s) == IF s \in live /\ users[s].userId # 0
              THEN <<users[s].acct, users[s].userId>> ELSE <<>>

Book == INSTANCE SessionBook WITH opened <- issued, bound <- [s \in Socks |-> BoundTo(s)]

\* The server implements that book.
ImplementsBook == Book!Spec
==============================================================================
