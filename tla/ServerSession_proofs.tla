------------------------ MODULE ServerSession_proofs ------------------------
(***************************************************************************)
(* Proofs about ServerSession, for any accounts, sockets, tables and       *)
(* bounds: the invariants the runs check on a small instance, that the     *)
(* server implements SessionBook, and what a request is answered, how      *)
(* often, and that none is dropped.                                        *)
(***************************************************************************)
EXTENDS ServerSession, SequenceTheorems, TLAPS

------------------------------------------------------------------------------
(* The inductive invariant *)

\* Only the exit message goes without a reply, and it queues no statement; the
\* requests about an account name one.
RequestOK(r) ==
    /\ r.kind # "exit" => r.rid # 0
    /\ r.kind \in {"login", "register", "delete"} => r.acct \in Accts
ItemOK(it) == it.req.kind # "exit" /\ RequestOK(it.req)

QueuesOK ==
    /\ \A i \in 1..Len(recvQueue) : RequestOK(recvQueue[i])
    /\ \A i \in 1..Len(mysqlQueue) : ItemOK(mysqlQueue[i])

\* Every row of userInfo has been issued, with an id below auto_increment.
RowsIssued == \A a \in Accts : Exists(table, a) => <<a, table[a].id>> \in issued
IdsBelowNext == \A p \in issued : p[2] < nextId

\* What ResultIsOwn says of a registration.
UserVarIsOwn ==
    \A s \in live : users[s].regNeed = 1 /\ Head(mysqlQueue).req.kind = "register" =>
        <<Head(mysqlQueue).req.acct, userVar[s]>> \in issued

Typed == TypeOK /\ QueuesOK

------------------------------------------------------------------------------
(* Types *)

\* SetUser keeps a session record a session record and touches one of them.
LEMMA SetUserType ==
    ASSUME NEW s \in Socks, NEW rec \in UserRec, users \in [Socks -> UserRec],
           SetUser(s, rec)
    PROVE  /\ users' \in [Socks -> UserRec]
           /\ \A t \in Socks : t # s \/ s \notin live => users'[t] = users[t]
           /\ s \in live => users'[s] = rec
  BY DEF SetUser

\* Reply appends one acknowledgement and one outcome.
LEMMA ReplyType ==
    ASSUME TypeOK, NEW it \in Item, ItemOK(it),
           NEW ok \in BOOLEAN, NEW auth \in Auths, Reply(it, ok, auth)
    PROVE  /\ out' \in [Socks -> Seq(Ack)]
           /\ ackLog' \in [1..MaxReq -> Seq(BOOLEAN)]
  <1>1. [kind |-> AckKind(it.req.kind), ok |-> ok, rid |-> it.req.rid, auth |-> auth] \in Ack
    BY DEF Item, ItemOK, Request, Kinds, Ack, AckKind
  <1>2. it.req.sock \in Socks
    BY DEF Item, Request
  <1>3. \A a \in Ack, s \in Socks : Sent(s, a) \in [Socks -> Seq(Ack)]
    BY DEF Sent, TypeOK
  <1>4. out' \in [Socks -> Seq(Ack)]
    BY <1>1, <1>2, <1>3 DEF Reply
  <1>5. \A r \in 1..MaxReq : Append(ackLog[r], ok) \in Seq(BOOLEAN)
    BY AppendProperties, Zenon DEF TypeOK
  <1>6. ackLog' = [ackLog EXCEPT ![it.req.rid] = Append(ackLog[it.req.rid], ok)]
    BY DEF Reply
  <1>7. ackLog' \in [1..MaxReq -> Seq(BOOLEAN)]
    BY <1>5, <1>6 DEF TypeOK
  <1> QED
    BY <1>4, <1>7

\* What a reply handler changes: the record of its socket, out and ackLog.
HandlerTyped ==
    /\ users' \in [Socks -> UserRec]
    /\ out' \in [Socks -> Seq(Ack)]
    /\ ackLog' \in [1..MaxReq -> Seq(BOOLEAN)]

LEMMA LoginReplyType ==
    ASSUME TypeOK, NEW it \in Item, ItemOK(it), it.req.kind = "login",
           LoginReplyHandle(it)
    PROVE  HandlerTyped
  <1> DEFINE s == it.req.sock
             row == table[it.req.acct]
             rec == [users[s] EXCEPT !.userId = row.id, !.acct = it.req.acct,
                                     !.ident = row.ident, !.auth = row.auth]
  <1>1. s \in Socks /\ it.req.acct \in Accts
    BY DEF Item, Request, ItemOK, RequestOK
  <1>2. CASE LoginRow(table, it.req.acct, it.req.pwdOk)
    <2>1. SetUser(s, rec) /\ Reply(it, TRUE, row.auth)
      BY <1>2 DEF LoginReplyHandle
    <2>2. row \in Row
      BY <1>1 DEF TypeOK, Table
    <2>3. users[s] \in UserRec /\ row.id \in Nat /\ row.ident \in Idents /\ row.auth \in Auths
      BY <1>1, <2>2 DEF TypeOK, Row
    <2>4. rec \in UserRec
      BY <1>1, <2>3 DEF UserRec
    <2>5. users' \in [Socks -> UserRec]
      BY <1>1, <2>1, <2>4, SetUserType DEF TypeOK
    <2> QED
      BY <2>1, <2>3, <2>5, ReplyType DEF HandlerTyped
  <1>3. CASE ~LoginRow(table, it.req.acct, it.req.pwdOk)
    BY <1>3, ReplyType DEF LoginReplyHandle, HandlerTyped, TypeOK, Auths
  <1> QED
    BY <1>2, <1>3

LEMMA RegisterReplyType ==
    ASSUME TypeOK, NEW it \in Item, ItemOK(it), it.req.kind = "register",
           NEW err \in BOOLEAN, RegisterReplyHandle(it, err)
    PROVE  HandlerTyped
  <1> DEFINE s == it.req.sock
             auth == DefaultAuthority(it.req.ident)
             rec == [userId |-> userVar[s], acct |-> it.req.acct,
                     ident |-> it.req.ident, auth |-> auth, regNeed |-> 0]
  <1>1. s \in Socks /\ users[s] \in UserRec /\ auth \in Auths
    BY DEF Item, Request, TypeOK, DefaultAuthority, Auths
  <1>2. CASE SendFlag(it, err, userVar[s] >= 1) = "more"
    <2>1. /\ SetUser(s, [users[s] EXCEPT !.regNeed = 1])
          /\ UNCHANGED <<out, ackLog>>
      BY <1>2 DEF RegisterReplyHandle
    <2>2. [users[s] EXCEPT !.regNeed = 1] \in UserRec
      BY <1>1 DEF UserRec
    <2> QED
      BY <1>1, <2>1, <2>2, SetUserType DEF HandlerTyped, TypeOK
  <1>3. CASE SendFlag(it, err, userVar[s] >= 1) = "succeed"
    <2>1. SetUser(s, rec) /\ Reply(it, TRUE, auth)
      BY <1>3 DEF RegisterReplyHandle
    <2>2. rec \in UserRec
      BY <1>1 DEF UserRec, Item, Request, TypeOK
    <2>3. users' \in [Socks -> UserRec]
      BY <1>1, <2>1, <2>2, SetUserType DEF TypeOK
    <2> QED
      BY <1>1, <2>1, <2>3, ReplyType DEF HandlerTyped
  <1>4. CASE SendFlag(it, err, userVar[s] >= 1) \notin {"more", "succeed"}
    <2>1. SetUser(s, NoNeed(users[s])) /\ Reply(it, FALSE, "none")
      BY <1>4 DEF RegisterReplyHandle
    <2>2. NoNeed(users[s]) \in UserRec
      BY <1>1 DEF UserRec, NoNeed
    <2>3. users' \in [Socks -> UserRec]
      BY <1>1, <2>1, <2>2, SetUserType DEF TypeOK
    <2> QED
      BY <2>1, <2>3, ReplyType DEF HandlerTyped, Auths
  <1> QED
    BY <1>2, <1>3, <1>4

LEMMA DeleteReplyType ==
    ASSUME TypeOK, NEW it \in Item, ItemOK(it),
           NEW err \in BOOLEAN, DeleteUserInfoReplyHandle(it, err)
    PROVE  HandlerTyped
  <1> DEFINE s == it.req.sock
             flag == SendFlag(it, err, resultVar[s] = "deleted")
  <1>1. s \in Socks /\ users[s] \in UserRec
    BY DEF Item, Request, TypeOK
  <1>2. CASE flag = "more"
    <2>1. /\ SetUser(s, [users[s] EXCEPT !.regNeed = 1])
          /\ UNCHANGED <<out, ackLog>>
      BY <1>2 DEF DeleteUserInfoReplyHandle
    <2>2. [users[s] EXCEPT !.regNeed = 1] \in UserRec
      BY <1>1 DEF UserRec
    <2> QED
      BY <1>1, <2>1, <2>2, SetUserType DEF HandlerTyped, TypeOK
  <1>3. CASE flag # "more"
    <2>1. SetUser(s, NoNeed(users[s])) /\ Reply(it, flag = "succeed", "none")
      BY <1>3 DEF DeleteUserInfoReplyHandle
    <2>2. NoNeed(users[s]) \in UserRec
      BY <1>1 DEF UserRec, NoNeed
    <2>3. users' \in [Socks -> UserRec]
      BY <1>1, <2>1, <2>2, SetUserType DEF TypeOK
    <2>4. (flag = "succeed") \in BOOLEAN /\ "none" \in Auths
      BY DEF Auths
    <2> QED
      BY <2>1, <2>3, <2>4, ReplyType DEF HandlerTyped
  <1> QED
    BY <1>2, <1>3

\* A client's message is well formed and joins the end of recvQueue.
LEMMA InputTyped ==
    ASSUME Typed, NEW s \in Socks, NEW req \in Request, RequestOK(req), Input(s, req)
    PROVE  Typed'
  <1>1. recvQueue' \in Seq(Request) /\ \A i \in 1..Len(recvQueue') : RequestOK(recvQueue'[i])
    BY AppendProperties DEF Input, Typed, TypeOK, QueuesOK
  <1>2. client' \in [Socks -> Client]
    <2> DEFINE c == IF req.kind = "exit" THEN Fresh ELSE [client[s] EXCEPT !.wait = AckKind(req.kind)]
    <2>1. client \in [Socks -> Client] /\ client' = [client EXCEPT ![s] = c]
      BY DEF Input, Typed, TypeOK
    <2>2. client[s] \in Client /\ req.kind \in Kinds
      BY <2>1 DEF Request
    <2>3. CASE req.kind = "exit"
      <3>1. c = Fresh /\ Fresh \in Client
        BY <2>3 DEF Fresh, Client, Auths
      <3> QED BY <2>1, <3>1
    <2>4. CASE req.kind # "exit"
      <3>1. AckKind(req.kind) \in {"none", "login", "register", "delete"}
        BY <2>2, <2>4 DEF AckKind, Kinds
      <3>2. c \in Client
        BY <2>2, <2>4, <3>1 DEF Client
      <3> QED BY <2>1, <3>2
    <2> QED BY <2>3, <2>4
  <1>3. nextRid' \in 1..MaxReq + 1
    BY SessionAssumption DEF Input, Typed, TypeOK
  <1> QED
    BY <1>1, <1>2, <1>3 DEF Input, Typed, TypeOK, QueuesOK, dbVars, ghostVars

LEMMA SendTyped ==
    ASSUME Typed, NEW s \in Socks, NEW kind \in Kinds, NEW acct \in Accts \cup {NoAcct},
           NEW ident \in Idents, NEW p \in BOOLEAN, NEW range \in Nat \X Nat,
           kind \in {"login", "register", "delete"} => acct \in Accts,
           Input(s, Msg(s, kind, acct, ident, p, range))
    PROVE  Typed'
  <1> DEFINE rid == IF kind = "exit" THEN 0 ELSE nextRid
  <1>1. kind = "exit" \/ nextRid + 1 <= MaxReq + 1
    BY DEF Input, Msg
  <1>2. rid \in 0..MaxReq /\ (kind # "exit" => rid # 0)
    BY <1>1, SessionAssumption DEF Typed, TypeOK
  <1>3. Msg(s, kind, acct, ident, p, range) \in Request
    BY <1>2 DEF Msg, Request
  <1>4. RequestOK(Msg(s, kind, acct, ident, p, range))
    BY <1>2 DEF Msg, RequestOK
  <1> QED
    BY <1>3, <1>4, InputTyped

LEMMA RecvFrontTyped ==
    ASSUME Typed, NEW kinds, RecvFront(kinds)
    PROVE  /\ Head(recvQueue) \in Request /\ RequestOK(Head(recvQueue))
           /\ recvQueue' \in Seq(Request)
           /\ \A i \in 1..Len(recvQueue') : RequestOK(recvQueue'[i])
  <1>1. recvQueue \in Seq(Request) /\ recvQueue # <<>> /\ recvQueue' = Tail(recvQueue)
    BY DEF RecvFront, Typed, TypeOK
  <1>2. 1 \in 1..Len(recvQueue) /\ Head(recvQueue) = recvQueue[1]
    BY <1>1
  <1>3. \A i \in 1..Len(recvQueue') : i + 1 \in 1..Len(recvQueue) /\ recvQueue'[i] = recvQueue[i + 1]
    BY <1>1, HeadTailProperties
  <1> QED
    BY <1>1, <1>2, <1>3, HeadTailProperties DEF Typed, QueuesOK

LEMMA MysqlFrontTyped ==
    ASSUME Typed, mysqlQueue # <<>>
    PROVE  /\ Head(mysqlQueue) \in Item /\ ItemOK(Head(mysqlQueue))
           /\ Tail(mysqlQueue) \in Seq(Item)
           /\ \A i \in 1..Len(Tail(mysqlQueue)) : ItemOK(Tail(mysqlQueue)[i])
  <1>1. mysqlQueue \in Seq(Item)
    BY DEF Typed, TypeOK
  <1>2. 1 \in 1..Len(mysqlQueue) /\ Head(mysqlQueue) = mysqlQueue[1]
    BY <1>1
  <1>3. \A i \in 1..Len(Tail(mysqlQueue)) :
           i + 1 \in 1..Len(mysqlQueue) /\ Tail(mysqlQueue)[i] = mysqlQueue[i + 1]
    BY <1>1, HeadTailProperties
  <1> QED
    BY <1>1, <1>2, <1>3, HeadTailProperties DEF Typed, QueuesOK

\* Statements queued at the end of mysqlQueue.
LEMMA PushTyped ==
    ASSUME Typed, NEW q \in Seq(Item), \A i \in 1..Len(q) : ItemOK(q[i])
    PROVE  /\ mysqlQueue \o q \in Seq(Item)
           /\ \A i \in 1..Len(mysqlQueue \o q) : ItemOK((mysqlQueue \o q)[i])
  <1>1. mysqlQueue \in Seq(Item) /\ Len(mysqlQueue) \in Nat /\ Len(q) \in Nat
    BY DEF Typed, TypeOK
  <1>2. \A i \in 1..Len(mysqlQueue) + Len(q) :
           (mysqlQueue \o q)[i] = IF i <= Len(mysqlQueue) THEN mysqlQueue[i]
                                  ELSE q[i - Len(mysqlQueue)]
    BY <1>1, ConcatProperties
  <1>3. \A i \in 1..Len(mysqlQueue) + Len(q) : i > Len(mysqlQueue) => i - Len(mysqlQueue) \in 1..Len(q)
    BY <1>1
  <1> QED
    BY <1>1, <1>2, <1>3, ConcatProperties DEF Typed, QueuesOK

\* What the clients, the network and the accept loop do keeps the types.
LEMMA ClientsTyped ==
    ASSUME Typed, Clients
    PROVE  Typed'
  <1>1. ASSUME NEW s \in Socks, Connect(s) PROVE Typed'
    BY <1>1, EmptySeq DEF Typed, TypeOK, QueuesOK, Connect, Blank, Fresh, UserRec, Client, Idents, Auths, dbVars, ghostVars
  <1>2. ASSUME NEW s \in Socks, Removed(s) PROVE
              /\ live' \subseteq Socks /\ users' \in [Socks -> UserRec]
              /\ out' \in [Socks -> Seq(Ack)] /\ client' \in [Socks -> Client]
    BY <1>2, EmptySeq DEF Typed, TypeOK, Removed, Blank, Fresh, UserRec, Client, Idents, Auths
  <1>3. ASSUME NEW s \in Socks, Disconnect(s) PROVE Typed'
    BY <1>2, <1>3 DEF Typed, TypeOK, QueuesOK, Disconnect, dbVars, ghostVars
  <1>4. ASSUME NEW s \in Socks, DeliverNotify(s) PROVE Typed'
    BY <1>2, <1>4 DEF Typed, TypeOK, QueuesOK, DeliverNotify, dbVars, ghostVars
  <1>5. ASSUME NEW s \in Socks, Deliver(s) PROVE Typed'
    <2>1. out[s] \in Seq(Ack) /\ Head(out[s]) \in Ack /\ Tail(out[s]) \in Seq(Ack)
      BY <1>5, HeadTailProperties DEF Typed, TypeOK, Deliver
    <2>2. out' \in [Socks -> Seq(Ack)]
      BY <1>5, <2>1 DEF Typed, TypeOK, Deliver
    <2>3. client' \in [Socks -> Client]
      BY <1>5, <2>1 DEF Typed, TypeOK, Deliver, Client, Ack
    <2> QED
      BY <1>5, <2>2, <2>3 DEF Typed, TypeOK, QueuesOK, Deliver, serverVars, dbVars, ghostVars
  <1>6. /\ 0 \in Idents /\ 1 \in Idents /\ 2 \in Idents /\ <<0, 0>> \in Nat \X Nat
        /\ Ranges \subseteq Nat \X Nat /\ TRUE \in BOOLEAN
        /\ Kinds = {"login", "register", "exit", "delete", "deleteRange"}
    BY SessionAssumption DEF Idents, Kinds
  <1>7. ASSUME NEW s \in Socks, SendLogin(s) PROVE Typed'
    BY <1>6, <1>7, SendTyped, Zenon DEF SendLogin
  <1>8. ASSUME NEW s \in Socks, SendRegister(s) PROVE Typed'
    BY <1>6, <1>8, SendTyped, Zenon DEF SendRegister
  <1>9. ASSUME NEW s \in Socks, SendExit(s) PROVE Typed'
    BY <1>6, <1>9, SendTyped, Zenon DEF SendExit
  <1>10. ASSUME NEW s \in Socks, SendDelete(s) PROVE Typed'
    BY <1>6, <1>10, SendTyped, Zenon DEF SendDelete
  <1>11. ASSUME NEW s \in Socks, SendDeleteRange(s) PROVE Typed'
    BY <1>6, <1>11, SendTyped, Zenon DEF SendDeleteRange
  <1> QED
    BY <1>1, <1>3, <1>4, <1>5, <1>7, <1>8, <1>9, <1>10, <1>11 DEF Clients

\* So does the first half of the queue thread: a handler queues statements,
\* sends at most one notification and touches at most its own record.
LEMMA RecvTyped ==
    ASSUME Typed, RecvMsgQueueHandle
    PROVE  Typed'
  <1> DEFINE m == Head(recvQueue)
  <1>1. CASE RecvIdle
    BY <1>1 DEF RecvIdle, Typed, TypeOK, QueuesOK, dbVars, ghostVars
  <1>2. CASE LoginRecvHandle
    <2> DEFINE it == [req |-> m, step |-> 0, my |-> Nobody]
    <2>1. RecvFront({"login"}) /\ m.kind = "login" /\ mysqlQueue' = Append(mysqlQueue, it)
      BY <1>2 DEF LoginRecvHandle, RecvFront
    <2>2. m \in Request /\ RequestOK(m) /\ recvQueue' \in Seq(Request)
          /\ \A i \in 1..Len(recvQueue') : RequestOK(recvQueue'[i])
      BY <2>1, RecvFrontTyped
    <2>3. it \in Item /\ ItemOK(it)
      BY <2>1, <2>2 DEF Item, ItemOK, Mine, Nobody, Idents
    <2>4. mysqlQueue' \in Seq(Item) /\ \A i \in 1..Len(mysqlQueue') : ItemOK(mysqlQueue'[i])
      BY <2>1, <2>3, AppendProperties DEF Typed, TypeOK, QueuesOK
    <2>5. [kind |-> "notify", ok |-> TRUE, rid |-> m.rid, auth |-> "none"] \in Ack
      BY <2>2 DEF Ack, Request, Auths
    <2>6. out' \in [Socks -> Seq(Ack)]
      <3>1. out \in [Socks -> Seq(Ack)] /\ live \subseteq Socks
        BY DEF Typed, TypeOK
      <3>2. ASSUME NEW t \in Socks, NEW a \in Ack PROVE Sent(t, a) \in [Socks -> Seq(Ack)]
        BY <3>1, AppendProperties DEF Sent
      <3> QED
        BY <1>2, <2>5, <3>1, <3>2 DEF LoginRecvHandle, SessionsOf
    <2> QED
      BY <1>2, <2>1, <2>2, <2>4, <2>6
      DEF LoginRecvHandle, RecvFront, Typed, TypeOK, QueuesOK, dbVars
  <1>3. ASSUME NEW kinds, NEW my \in Mine, "exit" \notin kinds,
               RecvFront(kinds), PushPair(m, my), SetUser(m.sock, NoNeed(users[m.sock])),
               UNCHANGED out
        PROVE  Typed'
    <2> DEFINE q == <<[req |-> m, step |-> 1, my |-> my], [req |-> m, step |-> 2, my |-> my]>>
    <2>1. m \in Request /\ RequestOK(m) /\ recvQueue' \in Seq(Request)
          /\ \A i \in 1..Len(recvQueue') : RequestOK(recvQueue'[i])
      BY <1>3, RecvFrontTyped
    <2>2. m.kind # "exit" /\ m.sock \in Socks
      BY <1>3, <2>1 DEF RecvFront, Request
    <2>3. q \in Seq(Item) /\ \A i \in 1..Len(q) : ItemOK(q[i])
      <3>1. q[1] \in Item /\ q[2] \in Item /\ ItemOK(q[1]) /\ ItemOK(q[2])
        BY <1>3, <2>1, <2>2 DEF Item, ItemOK
      <3> QED
        BY <3>1
    <2>4. mysqlQueue' \in Seq(Item) /\ \A i \in 1..Len(mysqlQueue') : ItemOK(mysqlQueue'[i])
      BY <1>3, <2>3, PushTyped DEF PushPair
    <2>5. NoNeed(users[m.sock]) \in UserRec
      <3>1. users[m.sock] \in UserRec
        BY <2>2 DEF Typed, TypeOK
      <3> QED
        BY <3>1 DEF NoNeed, UserRec
    <2>6. users' \in [Socks -> UserRec]
      BY <1>3, <2>2, <2>5, SetUserType DEF Typed, TypeOK
    <2> QED
      BY <1>3, <2>1, <2>4, <2>6 DEF RecvFront, Typed, TypeOK, QueuesOK, dbVars
  <1>4. CASE RegisterRecvHandle
    <2>1. Nobody \in Mine
      BY DEF Mine, Nobody, Idents
    <2> QED
      BY <1>3, <1>4, <2>1 DEF RegisterRecvHandle
  <1>5. CASE DeleteUserInfoRecvHandle
    <2> DEFINE u == users[m.sock]
               my == IF m.sock \in live
                     THEN [ident |-> u.ident, acct |-> u.acct,
                           canDel |-> u.ident = 1 /\ u.auth = "del"]
                     ELSE Nobody
    <2>1. RecvFront({"delete", "deleteRange"}) /\ PushPair(m, my)
          /\ SetUser(m.sock, NoNeed(users[m.sock])) /\ UNCHANGED out
      BY <1>5 DEF DeleteUserInfoRecvHandle
    <2>2. m \in Request
      BY <2>1, RecvFrontTyped
    <2>3. u \in UserRec
      BY <2>2 DEF Request, Typed, TypeOK
    <2>4. my \in Mine
      BY <2>3 DEF Mine, Nobody, Idents, UserRec
    <2> QED
      BY <1>3, <2>1, <2>4
  <1>6. CASE ExitSysRecvHandle
    <2>1. RecvFront({"exit"}) /\ SetUser(m.sock, Blank)
      BY <1>6 DEF ExitSysRecvHandle
    <2>2. m \in Request /\ recvQueue' \in Seq(Request)
          /\ \A i \in 1..Len(recvQueue') : RequestOK(recvQueue'[i])
      BY <2>1, RecvFrontTyped
    <2>3. Blank \in UserRec /\ m.sock \in Socks
      BY <2>2 DEF Blank, UserRec, Idents, Auths, Request
    <2>4. users' \in [Socks -> UserRec]
      BY <2>1, <2>3, SetUserType DEF Typed, TypeOK
    <2> QED
      BY <1>6, <2>1, <2>2, <2>4 DEF ExitSysRecvHandle, RecvFront, Typed, TypeOK, QueuesOK, dbVars
  <1> QED
    BY <1>1, <1>2, <1>4, <1>5, <1>6 DEF RecvMsgQueueHandle

\* So does the second half: a statement changes the tables and the variables of
\* its socket, its reply handler the rest.
LEMMA MysqlTyped ==
    ASSUME Typed, MysqlMsgQueueHandle
    PROVE  Typed'
  <1> DEFINE it == Head(mysqlQueue)
             DatabaseTyped ==
               /\ table' \in Table /\ nextId' \in Nat \ {0}
               /\ userVar' \in [Socks -> Nat]
               /\ resultVar' \in [Socks -> {"unset", "nothing", "deleted"}]
               /\ faults' \in 0..MaxFaults
               /\ issued' \subseteq Accts \X (Nat \ {0})
               /\ effective' \subseteq 1..MaxReq
  <1>1. CASE MysqlIdle
    BY <1>1 DEF MysqlIdle, Typed, TypeOK, QueuesOK, dbVars, ghostVars
  <1>2. CASE ExecLoginFault
    BY <1>2, EmptySeq, SessionAssumption
    DEF ExecLoginFault, Fault, Blank, Fresh, UserRec, Client, Idents, Auths, Typed, TypeOK, QueuesOK
  <1>3. ASSUME NEW kinds, NEW step, MysqlFront(kinds, step), HandlerTyped, DatabaseTyped
        PROVE  Typed'
    BY <1>3, MysqlFrontTyped DEF MysqlFront, HandlerTyped, Typed, TypeOK, QueuesOK
  <1>4. ASSUME mysqlQueue # <<>>
        PROVE  /\ it \in Item /\ ItemOK(it) /\ it.req.sock \in Socks /\ it.req.ident \in Idents
               /\ it.req.rid \in 1..MaxReq /\ it.req.kind # "exit"
               /\ it.req.kind \in {"login", "register", "delete"} => it.req.acct \in Accts
    BY <1>4, MysqlFrontTyped, SessionAssumption DEF Item, ItemOK, Request, RequestOK
  <1>5. ASSUME NEW auth \in Auths, mysqlQueue # <<>>, it.req.kind = "register", NewUser(it, auth)
        PROVE  /\ table' \in Table /\ nextId' \in Nat \ {0}
               /\ issued' \subseteq Accts \X (Nat \ {0})
    <2>1. it.req.acct \in Accts /\ it.req.ident \in Idents
      BY <1>4, <1>5
    <2>2. [id |-> nextId, ident |-> it.req.ident, auth |-> auth] \in Row
      BY <2>1 DEF Row, Typed, TypeOK
    <2>3. table' \in Table
      BY <1>5, <2>1, <2>2 DEF NewUser, Inserted, Table, Typed, TypeOK
    <2> QED
      BY <1>5, <2>1, <2>3 DEF NewUser, Typed, TypeOK
  <1>6. \A gone, half : Deleted(table, gone, half) \in Table
    <2> SUFFICES ASSUME NEW gone, NEW half, NEW b \in Accts
                 PROVE  (IF b \in gone THEN NoRow
                         ELSE IF b \in half THEN [table[b] EXCEPT !.auth = "none"]
                         ELSE table[b]) \in Row
      BY DEF Deleted, Table
    <2>1. table[b] \in Row /\ NoRow \in Row
      BY DEF Typed, TypeOK, Table, NoRow, Row, Idents, Auths
    <2> QED
      BY <2>1 DEF Row, Auths
  <1>7. CASE ExecLogin
    <2>1. MysqlFront({"login"}, 0) /\ it.req.kind = "login" /\ mysqlQueue # <<>>
          /\ LoginReplyHandle(it) /\ UNCHANGED <<dbVars, faults, issued>>
          /\ effective' \in {effective, effective \cup {it.req.rid}}
      BY <1>7 DEF ExecLogin, MysqlFront
    <2>2. HandlerTyped
      BY <1>4, <2>1, LoginReplyType DEF Typed
    <2>3. DatabaseTyped
      BY <1>4, <2>1 DEF dbVars, Typed, TypeOK
    <2> QED
      BY <1>3, <2>1, <2>2, <2>3
  <1>8. CASE ExecRegisterCall
    <2>1. MysqlFront({"register"}, 1) /\ it.req.kind = "register" /\ mysqlQueue # <<>>
          /\ RegisterReplyHandle(it, FALSE) /\ NewUser(it, DefaultAuthority(it.req.ident))
          /\ UNCHANGED <<resultVar, faults>> /\ effective' = effective \cup {it.req.rid}
          /\ userVar' = [userVar EXCEPT ![it.req.sock] = nextId]
      BY <1>8 DEF ExecRegisterCall, MysqlFront, UserRegisterId
    <2>2. HandlerTyped
      BY <1>4, <2>1, RegisterReplyType DEF Typed
    <2>3. DefaultAuthority(it.req.ident) \in Auths
      BY DEF DefaultAuthority, Auths
    <2>4. DatabaseTyped
      BY <1>4, <1>5, <2>1, <2>3 DEF Typed, TypeOK
    <2> QED
      BY <1>3, <2>1, <2>2, <2>4
  <1>9. CASE ExecRegisterTaken
    <2>1. MysqlFront({"register"}, 1) /\ it.req.kind = "register" /\ mysqlQueue # <<>>
          /\ RegisterReplyHandle(it, TRUE) /\ UNCHANGED <<dbVars, faults, issued, effective>>
      BY <1>9 DEF ExecRegisterTaken, MysqlFront
    <2>2. HandlerTyped
      BY <1>4, <2>1, RegisterReplyType DEF Typed
    <2>3. DatabaseTyped
      BY <2>1 DEF dbVars, Typed, TypeOK
    <2> QED
      BY <1>3, <2>1, <2>2, <2>3
  <1>10. CASE ExecRegisterFault
    <2>1. MysqlFront({"register"}, 1) /\ it.req.kind = "register" /\ mysqlQueue # <<>>
          /\ RegisterReplyHandle(it, TRUE) /\ Fault
          /\ UNCHANGED <<userVar, resultVar, effective>>
          /\ (UNCHANGED <<table, nextId, issued>> \/ NewUser(it, "none"))
      BY <1>10 DEF ExecRegisterFault, MysqlFront
    <2>2. HandlerTyped
      BY <1>4, <2>1, RegisterReplyType DEF Typed
    <2>3. DatabaseTyped
      BY <1>5, <2>1, SessionAssumption DEF Fault, Auths, Typed, TypeOK
    <2> QED
      BY <1>3, <2>1, <2>2, <2>3
  <1>11. CASE ExecDeleteCall
    <2>1. MysqlFront({"delete", "deleteRange"}, 1) /\ mysqlQueue # <<>>
          /\ DeleteUserInfoReplyHandle(it, FALSE) /\ UNCHANGED <<nextId, userVar, faults, issued>>
          /\ table' = Deleted(table, DeleteTargets(it), {})
          /\ effective' \in {effective, effective \cup {it.req.rid}}
          /\ \E r \in {"nothing", "deleted"} : resultVar' = [resultVar EXCEPT ![it.req.sock] = r]
      BY <1>11 DEF ExecDeleteCall, MysqlFront
    <2>2. HandlerTyped
      BY <1>4, <2>1, DeleteReplyType DEF Typed
    <2>3. table' \in Table
      BY <1>6, <2>1
    <2>4. DatabaseTyped
      BY <1>4, <2>1, <2>3 DEF Typed, TypeOK
    <2> QED
      BY <1>3, <2>1, <2>2, <2>4
  <1>12. CASE ExecDeleteFault
    <2>1. MysqlFront({"delete", "deleteRange"}, 1) /\ mysqlQueue # <<>> /\ Fault
          /\ DeleteUserInfoReplyHandle(it, TRUE)
          /\ UNCHANGED <<nextId, userVar, resultVar, issued, effective>>
          /\ \E gone, half : table' = Deleted(table, gone, half)
      BY <1>12 DEF ExecDeleteFault, MysqlFront
    <2>2. HandlerTyped
      BY <1>4, <2>1, DeleteReplyType DEF Typed
    <2>3. DatabaseTyped
      BY <1>6, <2>1, SessionAssumption DEF Fault, Typed, TypeOK
    <2> QED
      BY <1>3, <2>1, <2>2, <2>3
  <1>13. CASE ExecRegisterSelect
    <2>1. PICK err \in BOOLEAN :
             /\ MysqlFront({"register"}, 2) /\ it.req.kind = "register" /\ mysqlQueue # <<>>
             /\ IF err THEN Fault ELSE UNCHANGED faults
             /\ RegisterReplyHandle(it, err) /\ UNCHANGED <<dbVars, issued, effective>>
      BY <1>13 DEF ExecRegisterSelect, MysqlFront
    <2>2. HandlerTyped
      BY <1>4, <2>1, RegisterReplyType DEF Typed
    <2>3. DatabaseTyped
      BY <2>1, SessionAssumption DEF Fault, dbVars, Typed, TypeOK
    <2> QED
      BY <1>3, <2>1, <2>2, <2>3
  <1>14. CASE ExecDeleteSelect
    <2>1. PICK err \in BOOLEAN :
             /\ MysqlFront({"delete", "deleteRange"}, 2) /\ mysqlQueue # <<>>
             /\ IF err THEN Fault ELSE UNCHANGED faults
             /\ DeleteUserInfoReplyHandle(it, err) /\ UNCHANGED <<dbVars, issued, effective>>
      BY <1>14 DEF ExecDeleteSelect, MysqlFront
    <2>2. HandlerTyped
      BY <1>4, <2>1, DeleteReplyType DEF Typed
    <2>3. DatabaseTyped
      BY <2>1, SessionAssumption DEF Fault, dbVars, Typed, TypeOK
    <2> QED
      BY <1>3, <2>1, <2>2, <2>3
  <1> QED
    BY <1>1, <1>2, <1>7, <1>8, <1>9, <1>10, <1>11, <1>12, <1>13, <1>14 DEF MysqlMsgQueueHandle

LEMMA InitTyped ==
    ASSUME Init
    PROVE  Typed
  <1>1. table \in Table
    BY SessionAssumption DEF Init
  <1>2. issued \subseteq Accts \X (Nat \ {0})
    <2>1. \A a \in Accts : table[a].id \in Nat
      BY <1>1 DEF Table, Row
    <2> QED
      BY <2>1 DEF Init, Exists
  <1>3. Blank \in UserRec /\ Fresh \in Client
    BY DEF Blank, Fresh, UserRec, Client, Idents, Auths
  <1>4. /\ recvQueue \in Seq(Request) /\ mysqlQueue \in Seq(Item)
        /\ out \in [Socks -> Seq(Ack)] /\ ackLog \in [1..MaxReq -> Seq(BOOLEAN)]
    BY EmptySeq DEF Init
  <1>5. nextRid \in 1..MaxReq + 1 /\ faults \in 0..MaxFaults /\ nextId \in Nat \ {0}
    BY SessionAssumption DEF Init
  <1>6. QueuesOK
    BY EmptySeq DEF Init, QueuesOK
  <1> QED
    BY <1>1, <1>2, <1>3, <1>4, <1>5, <1>6 DEF Init, Typed, TypeOK

LEMMA NextTyped ==
    ASSUME Typed, [Next]_vars
    PROVE  Typed'
  <1>1. CASE Clients
    BY <1>1, ClientsTyped
  <1>2. CASE RecvMsgQueueHandle
    BY <1>2, RecvTyped
  <1>3. CASE MysqlMsgQueueHandle
    BY <1>3, MysqlTyped
  <1>4. CASE UNCHANGED vars
    BY <1>4 DEF Typed, TypeOK, QueuesOK, vars, serverVars, dbVars, ghostVars
  <1> QED
    BY <1>1, <1>2, <1>3, <1>4 DEF Next, MsgQueueThread

\* The types hold, for any number of sockets, accounts, requests and faults.
THEOREM TypeCorrect == Spec => []TypeOK
  <1>1. Spec => []Typed
    BY InitTyped, NextTyped, PTL DEF Spec
  <1> QED
    BY <1>1, PTL DEF Typed

------------------------------------------------------------------------------
(* The two steps of a request, and what a session is *)

Safe ==
    /\ PairsAdjacent /\ RegNeedMeansSelectNext /\ UserVarIsOwn
    /\ SessionIsARow /\ RowsIssued /\ IdsBelowNext

\* A CALL is followed by its SELECT, also once the head of the queue is gone.
LEMMA PairsTail ==
    ASSUME Typed, PairsAdjacent, mysqlQueue # <<>>, mysqlQueue' = Tail(mysqlQueue)
    PROVE  PairsAdjacent'
  <1>1. /\ mysqlQueue \in Seq(Item) /\ Len(mysqlQueue) \in Nat
        /\ Len(mysqlQueue') = Len(mysqlQueue) - 1
        /\ \A i \in 1..Len(mysqlQueue') : mysqlQueue'[i] = mysqlQueue[i + 1]
    BY HeadTailProperties DEF Typed, TypeOK
  <1> SUFFICES ASSUME NEW i \in 1..Len(mysqlQueue')
               PROVE  /\ mysqlQueue'[i].step = 1 =>
                            /\ i < Len(mysqlQueue')
                            /\ mysqlQueue'[i + 1] = [mysqlQueue'[i] EXCEPT !.step = 2]
                      /\ mysqlQueue'[i].step = 2 /\ i > 1 =>
                            mysqlQueue'[i - 1] = [mysqlQueue'[i] EXCEPT !.step = 1]
    BY DEF PairsAdjacent
  <1>2. PICK j \in 1..Len(mysqlQueue) : j = i + 1 /\ j > 1 /\ mysqlQueue'[i] = mysqlQueue[j]
    BY <1>1
  <1>3. ASSUME mysqlQueue'[i].step = 1
        PROVE  /\ i < Len(mysqlQueue')
               /\ mysqlQueue'[i + 1] = [mysqlQueue'[i] EXCEPT !.step = 2]
    <2>1. j < Len(mysqlQueue) /\ mysqlQueue[j + 1] = [mysqlQueue[j] EXCEPT !.step = 2]
      BY <1>2, <1>3 DEF PairsAdjacent
    <2>2. i + 1 \in 1..Len(mysqlQueue') /\ mysqlQueue'[i + 1] = mysqlQueue[j + 1]
      BY <1>1, <1>2, <2>1
    <2> QED
      BY <1>1, <1>2, <2>1, <2>2
  <1>4. ASSUME mysqlQueue'[i].step = 2, i > 1
        PROVE  mysqlQueue'[i - 1] = [mysqlQueue'[i] EXCEPT !.step = 1]
    <2>1. mysqlQueue[j - 1] = [mysqlQueue[j] EXCEPT !.step = 1]
      BY <1>2, <1>4 DEF PairsAdjacent
    <2>2. mysqlQueue'[i - 1] = mysqlQueue[j - 1]
      BY <1>1, <1>2, <1>4
    <2> QED
      BY <1>2, <2>1, <2>2
  <1> QED
    BY <1>3, <1>4

\* Appending the login's statement, or a pair, keeps them so and keeps the head.
LEMMA PairsPush ==
    ASSUME Typed, PairsAdjacent, NEW m, NEW my,
           \/ mysqlQueue' = Append(mysqlQueue, [req |-> m, step |-> 0, my |-> my])
           \/ PushPair(m, my)
    PROVE  /\ PairsAdjacent'
           /\ mysqlQueue # <<>> => mysqlQueue' # <<>> /\ Head(mysqlQueue') = Head(mysqlQueue)
  <1> DEFINE n == Len(mysqlQueue)
             call == [req |-> m, step |-> 1, my |-> my]
             select == [req |-> m, step |-> 2, my |-> my]
             login == [req |-> m, step |-> 0, my |-> my]
  <1>1. mysqlQueue \in Seq(Item) /\ n \in Nat
    BY DEF Typed, TypeOK
  <1>2. CASE mysqlQueue' = Append(mysqlQueue, login)
    <2>1. /\ Len(mysqlQueue') = n + 1 /\ mysqlQueue'[n + 1].step = 0
          /\ \A i \in 1..n : mysqlQueue'[i] = mysqlQueue[i]
      BY <1>1, <1>2
    <2> QED
      BY <1>1, <1>2, <2>1 DEF PairsAdjacent
  <1>3. CASE PushPair(m, my)
    <2>1. /\ Len(mysqlQueue') = n + 2
          /\ mysqlQueue'[n + 1] = call /\ mysqlQueue'[n + 2] = select
          /\ \A i \in 1..n : mysqlQueue'[i] = mysqlQueue[i]
      BY <1>1, <1>3 DEF PushPair
    <2>2. select = [call EXCEPT !.step = 2] /\ call = [select EXCEPT !.step = 1]
      OBVIOUS
    <2>3. PairsAdjacent'
      <3> SUFFICES ASSUME NEW i \in 1..n + 2
                   PROVE  /\ mysqlQueue'[i].step = 1 =>
                                i < n + 2 /\ mysqlQueue'[i + 1] = [mysqlQueue'[i] EXCEPT !.step = 2]
                          /\ mysqlQueue'[i].step = 2 /\ i > 1 =>
                                mysqlQueue'[i - 1] = [mysqlQueue'[i] EXCEPT !.step = 1]
        BY <2>1 DEF PairsAdjacent
      <3>1. CASE i \in 1..n
        <4>1. mysqlQueue[i].step = 1 =>
                 i < n /\ mysqlQueue[i + 1] = [mysqlQueue[i] EXCEPT !.step = 2]
          BY <3>1 DEF PairsAdjacent
        <4>2. mysqlQueue[i].step = 2 /\ i > 1 =>
                 mysqlQueue[i - 1] = [mysqlQueue[i] EXCEPT !.step = 1]
          BY <3>1 DEF PairsAdjacent
        <4>3. mysqlQueue'[i] = mysqlQueue[i]
          BY <2>1, <3>1
        <4>4. i < n => i + 1 \in 1..n /\ i < n + 2 /\ mysqlQueue'[i + 1] = mysqlQueue[i + 1]
          BY <1>1, <2>1, <3>1
        <4>5. i > 1 => i - 1 \in 1..n /\ mysqlQueue'[i - 1] = mysqlQueue[i - 1]
          BY <1>1, <2>1, <3>1
        <4> QED
          BY <4>1, <4>2, <4>3, <4>4, <4>5
      <3>2. CASE i = n + 1
        BY <1>1, <2>1, <2>2, <3>2
      <3>3. CASE i = n + 2
        BY <1>1, <2>1, <2>2, <3>3
      <3> QED
        BY <1>1, <3>1, <3>2, <3>3
    <2> QED
      BY <1>1, <2>1, <2>3
  <1> QED
    BY <1>2, <1>3

\* A step that executes no statement: it ends sessions, resets counts and
\* queues statements behind those there are.
Quiet ==
    /\ PairsAdjacent' /\ live' \subseteq Socks
    /\ UNCHANGED <<table, nextId, userVar, issued>>
    /\ \A t \in live' : \/ users'[t] = Blank
                        \/ t \in live /\ users'[t] \in {users[t], NoNeed(users[t])}
    /\ mysqlQueue # <<>> => mysqlQueue' # <<>> /\ Head(mysqlQueue') = Head(mysqlQueue)

LEMMA QuietSafe ==
    ASSUME Typed, Safe, Quiet
    PROVE  Safe'
  <1>1. RowsIssued' /\ IdsBelowNext'
    BY DEF Quiet, Safe, RowsIssued, IdsBelowNext
  <1>2. \A t \in live' : users'[t].regNeed = 1 =>
           t \in live /\ users[t].regNeed = 1 /\ users'[t] = users[t]
    <2> SUFFICES ASSUME NEW t \in live', users'[t].regNeed = 1
                 PROVE  t \in live /\ users'[t] = users[t]
      OBVIOUS
    <2>1. users'[t] # Blank
      BY DEF Blank
    <2>2. t \in live /\ users[t] \in UserRec
      BY <2>1 DEF Quiet, Typed, TypeOK
    <2>3. users'[t] # NoNeed(users[t])
      BY <2>2 DEF NoNeed, UserRec
    <2> QED
      BY <2>1, <2>2, <2>3 DEF Quiet
  <1>3. RegNeedMeansSelectNext'
    BY <1>2 DEF Quiet, Safe, RegNeedMeansSelectNext
  <1>4. UserVarIsOwn'
    BY <1>2 DEF Quiet, Safe, RegNeedMeansSelectNext, UserVarIsOwn
  <1>5. SessionIsARow'
    <2> SUFFICES ASSUME NEW t \in live', users'[t].userId # 0
                 PROVE  <<users'[t].acct, users'[t].userId>> \in issued
      BY DEF Quiet, SessionIsARow
    <2>1. users'[t] # Blank
      BY DEF Blank
    <2>2. t \in live /\ users[t] \in UserRec
      BY <2>1 DEF Quiet, Typed, TypeOK
    <2>3. users'[t].userId = users[t].userId /\ users'[t].acct = users[t].acct
      BY <2>1, <2>2 DEF Quiet, NoNeed, UserRec
    <2> QED
      BY <2>2, <2>3 DEF Safe, SessionIsARow
  <1> QED
    BY <1>1, <1>3, <1>4, <1>5 DEF Quiet, Safe

LEMMA ClientsQuiet ==
    ASSUME Typed, Safe, Clients
    PROVE  Quiet
  <1>1. UNCHANGED <<mysqlQueue, table, nextId, userVar, issued>>
    BY DEF Clients, Connect, Disconnect, SendLogin, SendRegister, SendExit, SendDelete,
           SendDeleteRange, Input, Deliver, DeliverNotify, Removed, serverVars, dbVars, ghostVars
  <1>2. PairsAdjacent'
    BY <1>1 DEF Safe, PairsAdjacent
  <1>3. live' \subseteq Socks /\ \A t \in live' : users'[t] = Blank \/ (t \in live /\ users'[t] = users[t])
    BY DEF Clients, Connect, Disconnect, SendLogin, SendRegister, SendExit, SendDelete,
           SendDeleteRange, Input, Deliver, DeliverNotify, Removed, serverVars, Typed, TypeOK
  <1> QED
    BY <1>1, <1>2, <1>3 DEF Quiet

LEMMA RecvQuiet ==
    ASSUME Typed, Safe, RecvMsgQueueHandle
    PROVE  Quiet
  <1> DEFINE m == Head(recvQueue)
             Kept == mysqlQueue # <<>> => mysqlQueue' # <<>> /\ Head(mysqlQueue') = Head(mysqlQueue)
  <1>1. UNCHANGED <<live, table, nextId, userVar, issued>>
    BY DEF RecvMsgQueueHandle, RecvIdle, LoginRecvHandle, RegisterRecvHandle, ExitSysRecvHandle,
           DeleteUserInfoRecvHandle, RecvFront, dbVars, ghostVars
  <1>2. live \subseteq Socks /\ users \in [Socks -> UserRec]
    BY DEF Typed, TypeOK
  <1>3. ASSUME NEW rec, SetUser(m.sock, rec) PROVE \A t \in live : users'[t] \in {users[t], rec}
    BY <1>2, <1>3 DEF SetUser
  <1>4. ASSUME NEW rec, SetUser(m.sock, rec), rec = NoNeed(users[m.sock])
        PROVE  \A t \in live : users'[t] \in {users[t], NoNeed(users[t])}
    BY <1>2, <1>4 DEF SetUser
  <1>5. PairsAdjacent' /\ Kept
    <2>1. CASE mysqlQueue' = mysqlQueue
      BY <2>1 DEF Safe, PairsAdjacent
    <2>2. CASE LoginRecvHandle
      BY <2>2, PairsPush DEF LoginRecvHandle, Safe
    <2>3. CASE RegisterRecvHandle
      BY <2>3, PairsPush DEF RegisterRecvHandle, Safe
    <2>4. CASE DeleteUserInfoRecvHandle
      BY <2>4, PairsPush DEF DeleteUserInfoRecvHandle, Safe
    <2> QED
      BY <2>1, <2>2, <2>3, <2>4 DEF RecvMsgQueueHandle, RecvIdle, ExitSysRecvHandle
  <1>6. \A t \in live : users'[t] = Blank \/ users'[t] \in {users[t], NoNeed(users[t])}
    <2>1. CASE UNCHANGED users
      BY <2>1
    <2>2. CASE RegisterRecvHandle
      BY <1>4, <2>2 DEF RegisterRecvHandle
    <2>3. CASE DeleteUserInfoRecvHandle
      BY <1>4, <2>3 DEF DeleteUserInfoRecvHandle
    <2>4. CASE ExitSysRecvHandle
      BY <1>3, <2>4 DEF ExitSysRecvHandle
    <2> QED
      BY <2>1, <2>2, <2>3, <2>4 DEF RecvMsgQueueHandle, RecvIdle, LoginRecvHandle
  <1> QED
    BY <1>1, <1>2, <1>5, <1>6 DEF Quiet

\* What a reply handler makes of the sessions: only that of its socket changes,
\* and only a SELECT that finds the count at 1 gives it a user.
Registered(it) ==
    [userId |-> userVar[it.req.sock], acct |-> it.req.acct, ident |-> it.req.ident,
     auth |-> DefaultAuthority(it.req.ident), regNeed |-> 0]

Counted(u) == [u EXCEPT !.regNeed = 1]

EffectOn(t, it, err) ==
    \/ t # it.req.sock /\ users'[t] = users[t]
    \/ t = it.req.sock /\ users'[t] = NoNeed(users[t])
    \/ t = it.req.sock /\ users'[t] = Counted(users[t]) /\ ~err /\ it.step = 1
    \/ /\ t = it.req.sock /\ users'[t] = Registered(it)
       /\ it.req.kind = "register" /\ it.step = 2 /\ users[t].regNeed = 1

HandlerEffect(it, err) == \A t \in live : EffectOn(t, it, err)

\* The records a handler writes differ from the old one in the count only.
LEMMA CountOnly ==
    ASSUME NEW u \in UserRec
    PROVE  /\ NoNeed(u).regNeed = 0 /\ Counted(u).regNeed = 1
           /\ NoNeed(u).userId = u.userId /\ Counted(u).userId = u.userId
           /\ NoNeed(u).acct = u.acct /\ Counted(u).acct = u.acct
  BY DEF NoNeed, Counted, UserRec

LEMMA SendFlagMeans ==
    ASSUME NEW it, NEW err \in BOOLEAN, NEW good \in BOOLEAN, it.req.sock \in live
    PROVE  /\ SendFlag(it, err, good) = "more" => ~err /\ it.step = 1
           /\ SendFlag(it, err, good) = "succeed" =>
                 it.step = 2 /\ users[it.req.sock].regNeed = 1
  BY DEF SendFlag, RegNeed

LEMMA RegisterEffect ==
    ASSUME Typed, NEW it \in Item, it.req.kind = "register", NEW err \in BOOLEAN,
           RegisterReplyHandle(it, err)
    PROVE  HandlerEffect(it, err)
  <1> DEFINE s == it.req.sock
             good == userVar[s] >= 1
             flag == SendFlag(it, err, good)
  <1>1. s \in Socks /\ users \in [Socks -> UserRec] /\ live \subseteq Socks /\ good \in BOOLEAN
    BY DEF Item, Request, Typed, TypeOK
  <1>2. ASSUME NEW rec, SetUser(s, rec)
        PROVE  \A t \in live : IF t = s THEN users'[t] = rec ELSE users'[t] = users[t]
    BY <1>1, <1>2 DEF SetUser
  <1>3. CASE flag = "more"
    <2>1. SetUser(s, [users[s] EXCEPT !.regNeed = 1])
      BY <1>3 DEF RegisterReplyHandle
    <2>2. \A t \in live : IF t = s THEN users'[t] = [users[s] EXCEPT !.regNeed = 1]
                          ELSE users'[t] = users[t]
      BY <1>2, <2>1
    <2>3. s \in live => ~err /\ it.step = 1
      BY <1>1, <1>3, SendFlagMeans
    <2> QED
      BY <2>2, <2>3 DEF HandlerEffect, EffectOn, Counted
  <1>4. CASE flag = "succeed"
    <2>1. SetUser(s, Registered(it))
      BY <1>4 DEF RegisterReplyHandle, Registered
    <2>2. \A t \in live : IF t = s THEN users'[t] = Registered(it) ELSE users'[t] = users[t]
      BY <1>2, <2>1
    <2>3. s \in live => it.step = 2 /\ users[s].regNeed = 1
      BY <1>1, <1>4, SendFlagMeans
    <2> QED
      BY <2>2, <2>3 DEF HandlerEffect, EffectOn
  <1>5. CASE flag \notin {"more", "succeed"}
    BY <1>1, <1>2, <1>5 DEF RegisterReplyHandle, HandlerEffect, EffectOn
  <1> QED
    BY <1>3, <1>4, <1>5

LEMMA DeleteEffect ==
    ASSUME Typed, NEW it \in Item, NEW err \in BOOLEAN, DeleteUserInfoReplyHandle(it, err)
    PROVE  HandlerEffect(it, err)
  <1> DEFINE s == it.req.sock
             good == resultVar[s] = "deleted"
             flag == SendFlag(it, err, good)
  <1>1. s \in Socks /\ users \in [Socks -> UserRec] /\ live \subseteq Socks /\ good \in BOOLEAN
    BY DEF Item, Request, Typed, TypeOK
  <1>2. ASSUME NEW rec, SetUser(s, rec)
        PROVE  \A t \in live : IF t = s THEN users'[t] = rec ELSE users'[t] = users[t]
    BY <1>1, <1>2 DEF SetUser
  <1>3. CASE flag = "more"
    BY <1>1, <1>2, <1>3, SendFlagMeans DEF DeleteUserInfoReplyHandle, HandlerEffect, EffectOn, Counted
  <1>4. CASE flag # "more"
    BY <1>1, <1>2, <1>4 DEF DeleteUserInfoReplyHandle, HandlerEffect, EffectOn
  <1> QED
    BY <1>3, <1>4

\* Before a statement that is not a SELECT is executed, no count is 1.
LEMMA NoCount ==
    ASSUME Typed, Safe, mysqlQueue # <<>>, Head(mysqlQueue).step # 2
    PROVE  \A t \in live : users[t].regNeed = 0
  BY DEF Typed, TypeOK, Safe, RegNeedMeansSelectNext, UserRec

\* A CALL: the only count that becomes 1 is its socket's, and its SELECT is next.
LEMMA CallSafe ==
    ASSUME Typed, Safe, NEW kinds, MysqlFront(kinds, 1),
           NEW err \in BOOLEAN, HandlerEffect(Head(mysqlQueue), err),
           RowsIssued', IdsBelowNext', issued \subseteq issued',
           ~err /\ Head(mysqlQueue).req.kind = "register" =>
              <<Head(mysqlQueue).req.acct, userVar'[Head(mysqlQueue).req.sock]>> \in issued'
    PROVE  Safe'
  <1> DEFINE it == Head(mysqlQueue)
             s == it.req.sock
  <1>1. /\ mysqlQueue # <<>> /\ mysqlQueue \in Seq(Item) /\ it.step = 1 /\ it \in Item
        /\ mysqlQueue' = Tail(mysqlQueue) /\ live' = live
        /\ \A t \in live : users[t] \in UserRec
    BY DEF MysqlFront, Typed, TypeOK
  <1>2. PairsAdjacent'
    BY <1>1, PairsTail DEF Safe
  <1>3. mysqlQueue' # <<>> /\ Head(mysqlQueue').step = 2 /\ Head(mysqlQueue').req = it.req
    <2>1. it = mysqlQueue[1] /\ 1 \in 1..Len(mysqlQueue) /\ Len(mysqlQueue) \in Nat
      BY <1>1
    <2>2. 1 < Len(mysqlQueue) /\ mysqlQueue[1 + 1] = [it EXCEPT !.step = 2]
      BY <1>1, <2>1 DEF Safe, PairsAdjacent
    <2>3. Len(mysqlQueue') = Len(mysqlQueue) - 1
          /\ \A i \in 1..Len(mysqlQueue') : mysqlQueue'[i] = mysqlQueue[i + 1]
      BY <1>1, HeadTailProperties
    <2>4. mysqlQueue' # <<>> /\ Head(mysqlQueue') = mysqlQueue[1 + 1]
      <3>1. mysqlQueue' \in Seq(Item) /\ 1 \in 1..Len(mysqlQueue')
        BY <1>1, <2>1, <2>2, <2>3, HeadTailProperties
      <3> QED
        BY <2>3, <3>1
    <2> QED
      BY <1>1, <2>2, <2>4 DEF Item
  <1>4. \A t \in live : users'[t].regNeed = 1 => t = s /\ ~err
    <2> SUFFICES ASSUME NEW t \in live, users'[t].regNeed = 1 PROVE t = s /\ ~err
      OBVIOUS
    <2>1. EffectOn(t, it, err)
      BY Zenon DEF HandlerEffect
    <2>2. users[t].regNeed = 0 /\ NoNeed(users[t]).regNeed = 0
      BY <1>1, NoCount, CountOnly
    <2> QED
      BY <1>1, <2>1, <2>2 DEF EffectOn
  <1>5. RegNeedMeansSelectNext'
    BY <1>1, <1>3, <1>4 DEF RegNeedMeansSelectNext
  <1>6. UserVarIsOwn'
    BY <1>1, <1>3, <1>4 DEF UserVarIsOwn
  <1>7. SessionIsARow'
    <2> SUFFICES ASSUME NEW t \in live, users'[t].userId # 0
                 PROVE  <<users'[t].acct, users'[t].userId>> \in issued'
      BY <1>1 DEF SessionIsARow
    <2>1. EffectOn(t, it, err)
      BY <1>1, Zenon DEF HandlerEffect
    <2>2. users'[t].userId = users[t].userId /\ users'[t].acct = users[t].acct
      BY <1>1, <2>1, CountOnly DEF EffectOn
    <2> QED
      BY <2>2 DEF Safe, SessionIsARow
  <1> QED
    BY <1>2, <1>5, <1>6, <1>7 DEF Safe

\* A SELECT: no count is 1 after it.
LEMMA SelectSafe ==
    ASSUME Typed, Safe, NEW kinds, MysqlFront(kinds, 2),
           NEW err \in BOOLEAN, HandlerEffect(Head(mysqlQueue), err),
           UNCHANGED <<dbVars, issued>>
    PROVE  Safe'
  <1> DEFINE it == Head(mysqlQueue)
             s == it.req.sock
  <1>1. /\ mysqlQueue # <<>> /\ it.step = 2
        /\ mysqlQueue' = Tail(mysqlQueue) /\ live' = live
        /\ \A t \in live : users[t] \in UserRec
    BY DEF MysqlFront, Typed, TypeOK
  <1>2. PairsAdjacent'
    BY <1>1, PairsTail DEF Safe
  <1>3. \A t \in live : users'[t].regNeed # 1
    <2> SUFFICES ASSUME NEW t \in live PROVE users'[t].regNeed # 1
      OBVIOUS
    <2>0. EffectOn(t, it, err)
      BY Zenon DEF HandlerEffect
    <2>1. CASE t # s
      BY <1>1, <2>0, <2>1 DEF EffectOn, Safe, RegNeedMeansSelectNext
    <2>2. CASE t = s
      BY <1>1, <2>0, <2>2, CountOnly DEF EffectOn, Registered
    <2> QED
      BY <2>1, <2>2
  <1>4. RegNeedMeansSelectNext' /\ UserVarIsOwn'
    BY <1>1, <1>3 DEF RegNeedMeansSelectNext, UserVarIsOwn
  <1>5. RowsIssued' /\ IdsBelowNext'
    BY DEF Safe, RowsIssued, IdsBelowNext, dbVars
  <1>6. SessionIsARow'
    <2> SUFFICES ASSUME NEW t \in live, users'[t].userId # 0
                 PROVE  <<users'[t].acct, users'[t].userId>> \in issued
      BY <1>1 DEF SessionIsARow
    <2>1. EffectOn(t, it, err)
      BY <1>1, Zenon DEF HandlerEffect
    <2>2. CASE users'[t] = users[t] \/ users'[t] = NoNeed(users[t])
      <3>1. users'[t].userId = users[t].userId /\ users'[t].acct = users[t].acct
        BY <1>1, <2>2, CountOnly
      <3> QED
        BY <3>1 DEF Safe, SessionIsARow
    <2>3. CASE t = s /\ users'[t] = Registered(it) /\ it.req.kind = "register" /\ users[t].regNeed = 1
      BY <2>3 DEF Safe, UserVarIsOwn, Registered
    <2> QED
      BY <1>1, <2>1, <2>2, <2>3 DEF EffectOn
  <1> QED
    BY <1>2, <1>4, <1>5, <1>6 DEF Safe

\* The tables only ever hold rows that were issued with an id of their own.
LEMMA NewUserIssued ==
    ASSUME Typed, Safe, NEW it \in Item, it.req.acct \in Accts, NEW auth \in Auths, NewUser(it, auth)
    PROVE  /\ RowsIssued' /\ IdsBelowNext' /\ issued \subseteq issued'
           /\ <<it.req.acct, nextId>> \in issued'
  <1>1. nextId \in Nat /\ issued \subseteq Accts \X Nat /\ table \in Table
    BY DEF Typed, TypeOK
  <1>2. issued' = issued \cup {<<it.req.acct, nextId>>} /\ nextId' = nextId + 1
    BY DEF NewUser
  <1>3. \A a \in Accts : table'[a].id = IF a = it.req.acct THEN nextId ELSE table[a].id
    BY <1>1 DEF NewUser, Inserted, Table
  <1>4. RowsIssued'
    BY <1>2, <1>3 DEF RowsIssued, Exists, Safe
  <1>5. IdsBelowNext'
    BY <1>1, <1>2 DEF IdsBelowNext, Safe
  <1> QED
    BY <1>2, <1>4, <1>5

LEMMA DeletedIssued ==
    ASSUME Typed, Safe, NEW gone, NEW half, table' = Deleted(table, gone, half),
           UNCHANGED <<nextId, issued>>
    PROVE  RowsIssued' /\ IdsBelowNext'
  <1>1. \A b \in Accts : table[b] \in Row
    BY DEF Typed, TypeOK, Table
  <1>2. \A b \in Accts : table'[b].id \in {0, table[b].id}
    BY <1>1 DEF Deleted, NoRow, Row
  <1> QED
    BY <1>2 DEF RowsIssued, IdsBelowNext, Exists, Safe

LEMMA MysqlSafe ==
    ASSUME Typed, Safe, MysqlMsgQueueHandle
    PROVE  Safe'
  <1> DEFINE it == Head(mysqlQueue)
             s == it.req.sock
  <1>1. live \subseteq Socks /\ users \in [Socks -> UserRec] /\ userVar \in [Socks -> Nat]
    BY DEF Typed, TypeOK
  <1>2. ASSUME mysqlQueue # <<>>
        PROVE  /\ it \in Item /\ s \in Socks
               /\ it.req.kind \in {"login", "register", "delete"} => it.req.acct \in Accts
    BY <1>2, MysqlFrontTyped DEF Item, ItemOK, Request, RequestOK
  <1>3. CASE MysqlIdle
    <2>1. PairsAdjacent'
      BY <1>3 DEF MysqlIdle, Safe, PairsAdjacent
    <2> QED
      BY <1>1, <1>3, <2>1, QuietSafe DEF MysqlIdle, Quiet, dbVars, ghostVars
  <1>4. CASE ExecLoginFault
    BY <1>4, EmptySeq DEF ExecLoginFault, Safe, PairsAdjacent, RegNeedMeansSelectNext,
                          UserVarIsOwn, SessionIsARow, RowsIssued, IdsBelowNext
  <1>5. CASE ExecLogin
    <2> DEFINE row == table[it.req.acct]
               rec == [users[s] EXCEPT !.userId = row.id, !.acct = it.req.acct,
                                       !.ident = row.ident, !.auth = row.auth]
    <2>1. /\ mysqlQueue # <<>> /\ it.step = 0 /\ it.req.kind = "login" /\ mysqlQueue' = Tail(mysqlQueue)
          /\ LoginReplyHandle(it) /\ live' = live /\ UNCHANGED <<table, nextId, issued>>
      BY <1>5 DEF ExecLogin, MysqlFront, dbVars
    <2>2. it.req.acct \in Accts /\ s \in Socks
      BY <1>2, <2>1
    <2>3. PairsAdjacent'
      BY <2>1, PairsTail DEF Safe
    <2>4. \A t \in live :
             \/ users'[t] = users[t]
             \/ users'[t] = rec /\ t = s /\ Exists(table, it.req.acct)
      BY <1>1, <2>1, <2>2 DEF LoginReplyHandle, SetUser, LoginRow
    <2>5. rec.regNeed = users[s].regNeed /\ rec.acct = it.req.acct /\ rec.userId = row.id
      BY <1>1, <2>2 DEF UserRec
    <2>6. \A t \in live : users'[t].regNeed = 0
      <3>1. it.step # 2
        BY <2>1
      <3>2. \A t \in live : users[t].regNeed = 0
        BY <2>1, <3>1, NoCount
      <3> QED
        BY <2>4, <2>5, <3>2
    <2>7. SessionIsARow'
      BY <2>1, <2>2, <2>4, <2>5 DEF SessionIsARow, RowsIssued, Safe
    <2> QED
      BY <2>1, <2>3, <2>6, <2>7
      DEF Safe, RegNeedMeansSelectNext, UserVarIsOwn, RowsIssued, IdsBelowNext
  <1>6. CASE ExecRegisterCall
    <2>1. /\ MysqlFront({"register"}, 1) /\ it.req.kind = "register" /\ mysqlQueue # <<>>
          /\ RegisterReplyHandle(it, FALSE) /\ NewUser(it, DefaultAuthority(it.req.ident))
          /\ userVar' = [userVar EXCEPT ![s] = nextId]
      BY <1>6 DEF ExecRegisterCall, MysqlFront, UserRegisterId
    <2>2. DefaultAuthority(it.req.ident) \in Auths
      BY DEF DefaultAuthority, Auths
    <2>3. userVar'[s] = nextId
      BY <1>1, <1>2, <2>1
    <2> QED
      BY <1>2, <2>1, <2>2, <2>3, NewUserIssued, RegisterEffect, CallSafe
  <1>7. CASE ExecRegisterTaken
    <2>1. /\ MysqlFront({"register"}, 1) /\ it.req.kind = "register" /\ mysqlQueue # <<>>
          /\ RegisterReplyHandle(it, TRUE) /\ UNCHANGED <<dbVars, issued>>
      BY <1>7 DEF ExecRegisterTaken, MysqlFront
    <2>2. RowsIssued' /\ IdsBelowNext'
      BY <2>1 DEF Safe, RowsIssued, IdsBelowNext, dbVars
    <2> QED
      BY <1>2, <2>1, <2>2, RegisterEffect, CallSafe
  <1>8. CASE ExecRegisterFault
    <2>1. /\ MysqlFront({"register"}, 1) /\ it.req.kind = "register" /\ mysqlQueue # <<>>
          /\ RegisterReplyHandle(it, TRUE)
          /\ UNCHANGED <<table, nextId, issued>> \/ NewUser(it, "none")
      BY <1>8 DEF ExecRegisterFault, MysqlFront
    <2>2. RowsIssued' /\ IdsBelowNext' /\ issued \subseteq issued'
      BY <1>2, <2>1, NewUserIssued DEF Auths, Safe, RowsIssued, IdsBelowNext
    <2> QED
      BY <1>2, <2>1, <2>2, RegisterEffect, CallSafe
  <1>9. CASE ExecDeleteCall
    <2> DEFINE gone == DeleteTargets(it)
    <2>1. /\ MysqlFront({"delete", "deleteRange"}, 1) /\ mysqlQueue # <<>>
          /\ it.req.kind \in {"delete", "deleteRange"}
          /\ DeleteUserInfoReplyHandle(it, FALSE) /\ UNCHANGED <<nextId, userVar, issued>>
          /\ table' = Deleted(table, gone, {})
      BY <1>9 DEF ExecDeleteCall, MysqlFront
    <2>2. RowsIssued' /\ IdsBelowNext'
      BY <2>1, DeletedIssued
    <2> QED
      BY <1>2, <2>1, <2>2, DeleteEffect, CallSafe
  <1>9f. CASE ExecDeleteFault
    <2>1. /\ MysqlFront({"delete", "deleteRange"}, 1) /\ mysqlQueue # <<>>
          /\ it.req.kind \in {"delete", "deleteRange"}
          /\ DeleteUserInfoReplyHandle(it, TRUE) /\ UNCHANGED <<nextId, userVar, issued>>
      BY <1>9f DEF ExecDeleteFault, MysqlFront
    <2>2. PICK gone \in SUBSET DeleteTargets(it) :
            \E half \in {{}} \cup {{b} : b \in DeleteTargets(it) \ gone} :
               table' = Deleted(table, gone, half)
      BY <1>9f DEF ExecDeleteFault
    <2>3. PICK half \in {{}} \cup {{b} : b \in DeleteTargets(it) \ gone} :
               table' = Deleted(table, gone, half)
      BY <2>2
    <2>4. RowsIssued' /\ IdsBelowNext'
      BY <2>1, <2>3, DeletedIssued
    <2> QED
      BY <1>2, <2>1, <2>4, DeleteEffect, CallSafe
  <1>10. CASE ExecRegisterSelect
    <2>1. PICK err \in BOOLEAN :
             /\ MysqlFront({"register"}, 2) /\ it.req.kind = "register" /\ mysqlQueue # <<>>
             /\ RegisterReplyHandle(it, err) /\ UNCHANGED <<dbVars, issued>>
      BY <1>10 DEF ExecRegisterSelect, MysqlFront
    <2> QED
      BY <1>2, <2>1, RegisterEffect, SelectSafe
  <1>11. CASE ExecDeleteSelect
    <2>1. PICK err \in BOOLEAN :
             /\ MysqlFront({"delete", "deleteRange"}, 2) /\ mysqlQueue # <<>>
             /\ DeleteUserInfoReplyHandle(it, err) /\ UNCHANGED <<dbVars, issued>>
      BY <1>11 DEF ExecDeleteSelect, MysqlFront
    <2> QED
      BY <1>2, <2>1, DeleteEffect, SelectSafe
  <1> QED
    BY <1>3, <1>4, <1>5, <1>6, <1>7, <1>8, <1>9, <1>9f, <1>10, <1>11 DEF MysqlMsgQueueHandle

LEMMA InitSafe ==
    ASSUME Init
    PROVE  Safe
  <1>1. \A a \in Accts : table[a].id < FirstId
    BY SessionAssumption DEF Init
  <1>2. \A t \in live : FALSE
    BY DEF Init
  <1>3. PairsAdjacent
    BY EmptySeq DEF Init, PairsAdjacent
  <1>4. RowsIssued
    BY DEF Init, RowsIssued
  <1>5. IdsBelowNext
    <2>1. \A p \in issued : \E a \in Accts : p = <<a, table[a].id>>
      BY DEF Init
    <2>2. nextId = FirstId
      BY DEF Init
    <2> QED
      BY <1>1, <2>1, <2>2 DEF IdsBelowNext
  <1> QED
    BY <1>2, <1>3, <1>4, <1>5 DEF Safe, RegNeedMeansSelectNext, UserVarIsOwn, SessionIsARow

LEMMA NextSafe ==
    ASSUME Typed, Safe, [Next]_vars
    PROVE  Safe'
  <1>1. CASE Clients
    BY <1>1, ClientsQuiet, QuietSafe
  <1>2. CASE RecvMsgQueueHandle
    BY <1>2, RecvQuiet, QuietSafe
  <1>3. CASE MysqlMsgQueueHandle
    BY <1>3, MysqlSafe
  <1>4. CASE UNCHANGED vars
    BY <1>4 DEF vars, serverVars, dbVars, ghostVars, Safe, PairsAdjacent, RegNeedMeansSelectNext,
                UserVarIsOwn, SessionIsARow, RowsIssued, IdsBelowNext
  <1> QED
    BY <1>1, <1>2, <1>3, <1>4 DEF Next, MsgQueueThread

LEMMA Invariant == Spec => [](Typed /\ Safe)
  BY InitTyped, InitSafe, NextTyped, NextSafe, PTL DEF Spec

\* Every CALL has its SELECT right behind it.
THEOREM CallAndSelectAdjacent == Spec => []PairsAdjacent
  BY Invariant, PTL DEF Safe

\* sRegNeedCount is 1 only between a CALL and its own SELECT, although two kinds
\* of requests share it and any number of clients are served.
THEOREM CountIsOwn == Spec => []RegNeedMeansSelectNext
  BY Invariant, PTL DEF Safe

\* A session's user id and account always were one row of userInfo.
THEOREM SessionsAreRows == Spec => []SessionIsARow
  BY Invariant, PTL DEF Safe

------------------------------------------------------------------------------
(* The server implements SessionBook *)

\* Connections that lose their user and others that keep it: Unbind.
LEMMA UnbindStep ==
    ASSUME UNCHANGED issued, \A t \in Socks : BoundTo(t)' \in {<<>>, BoundTo(t)}
    PROVE  Book!Unbind
  <1> DEFINE S == {t \in Socks : BoundTo(t)' = <<>>}
  <1>1. S \in SUBSET Socks
    OBVIOUS
  <1>2. \A t \in Socks : BoundTo(t)' = IF t \in S THEN <<>> ELSE [u \in Socks |-> BoundTo(u)][t]
    OBVIOUS
  <1>3. [t \in Socks |-> BoundTo(t)'] =
           [t \in Socks |-> IF t \in S THEN <<>> ELSE [u \in Socks |-> BoundTo(u)][t]]
    BY <1>2, Zenon
  <1> QED
    BY <1>1, <1>3, Zenon DEF Book!Unbind

\* One connection that becomes the user of an issued row: Bind.
LEMMA BindStep ==
    ASSUME UNCHANGED issued, NEW s \in Socks, BoundTo(s)' \in issued,
           \A t \in Socks : t # s => BoundTo(t)' = BoundTo(t)
    PROVE  Book!Bind
  <1>1. [t \in Socks |-> BoundTo(t)'] = [[t \in Socks |-> BoundTo(t)] EXCEPT ![s] = BoundTo(s)']
    OBVIOUS
  <1> QED
    BY <1>1, Zenon DEF Book!Bind

\* A new row: Open.
LEMMA OpenStep ==
    ASSUME Typed, Safe, NEW acct \in Accts, issued' = issued \cup {<<acct, nextId>>},
           \A t \in Socks : BoundTo(t)' = BoundTo(t)
    PROVE  Book!Open
  <1>1. <<acct, nextId>> \in Accts \X (Nat \ {0}) /\ <<acct, nextId>> \in issued'
    BY DEF Typed, TypeOK
  <1>2. \A p \in issued : p[2] < <<acct, nextId>>[2]
    BY DEF Safe, IdsBelowNext
  <1>3. [t \in Socks |-> BoundTo(t)'] = [t \in Socks |-> BoundTo(t)]
    OBVIOUS
  <1> QED
    BY <1>1, <1>2, <1>3, Zenon DEF Book!Open

LEMMA QuietBook ==
    ASSUME Typed, Safe, Quiet
    PROVE  Book!Unbind
  <1> SUFFICES ASSUME NEW t \in Socks PROVE BoundTo(t)' \in {<<>>, BoundTo(t)}
    BY UnbindStep DEF Quiet
  <1>1. CASE t \notin live' \/ users'[t] = Blank
    BY <1>1 DEF BoundTo, Blank
  <1>2. CASE t \in live /\ users'[t] \in {users[t], NoNeed(users[t])}
    <2>1. users[t] \in UserRec
      BY DEF Typed, TypeOK
    <2>2. users'[t].userId = users[t].userId /\ users'[t].acct = users[t].acct
      BY <1>2, <2>1, CountOnly
    <2> QED
      BY <1>2, <2>2 DEF BoundTo
  <1> QED
    BY <1>1, <1>2 DEF Quiet

\* A statement that is not a SELECT binds nobody.
LEMMA CallBound ==
    ASSUME Typed, Safe, NEW kinds, MysqlFront(kinds, 1),
           NEW err \in BOOLEAN, HandlerEffect(Head(mysqlQueue), err)
    PROVE  \A t \in Socks : BoundTo(t)' = BoundTo(t)
  <1> DEFINE it == Head(mysqlQueue)
  <1>1. live' = live /\ it.step = 1 /\ \A t \in live : users[t] \in UserRec
    BY DEF MysqlFront, Typed, TypeOK
  <1>2. ASSUME NEW t \in live
        PROVE  users'[t].userId = users[t].userId /\ users'[t].acct = users[t].acct
    <2>1. EffectOn(t, it, err)
      BY Zenon DEF HandlerEffect
    <2> QED
      BY <1>1, <2>1, CountOnly DEF EffectOn
  <1> QED
    BY <1>1, <1>2 DEF BoundTo

LEMMA SelectBook ==
    ASSUME Typed, Safe, NEW kinds, MysqlFront(kinds, 2), Head(mysqlQueue).req.sock \in Socks,
           NEW err \in BOOLEAN, HandlerEffect(Head(mysqlQueue), err), UNCHANGED <<dbVars, issued>>
    PROVE  Book!BookNext
  <1> DEFINE it == Head(mysqlQueue)
             s == it.req.sock
  <1>1. live' = live /\ it.step = 2 /\ \A t \in live : users[t] \in UserRec
    BY DEF MysqlFront, Typed, TypeOK
  <1>2. ASSUME NEW t \in Socks, t \notin live \/ t # s \/ users'[t] = NoNeed(users[t])
        PROVE  BoundTo(t)' = BoundTo(t)
    <2>1. CASE t \notin live
      BY <1>1, <2>1 DEF BoundTo
    <2>2. CASE t \in live
      <3>1. EffectOn(t, it, err)
        BY <2>2, Zenon DEF HandlerEffect
      <3>2. users'[t].userId = users[t].userId /\ users'[t].acct = users[t].acct
        BY <1>1, <1>2, <2>2, <3>1, CountOnly DEF EffectOn
      <3> QED
        BY <1>1, <3>2 DEF BoundTo
    <2> QED
      BY <2>1, <2>2
  <1>3. CASE s \notin live \/ users'[s] = NoNeed(users[s])
    <2>1. \A t \in Socks : BoundTo(t)' = BoundTo(t)
      BY <1>2, <1>3
    <2> QED
      BY <2>1, UnbindStep DEF Book!BookNext
  <1>4. CASE s \in live /\ users'[s] # NoNeed(users[s])
    <2>1. EffectOn(s, it, err)
      BY <1>4, Zenon DEF HandlerEffect
    <2>2. users'[s] = Registered(it) /\ it.req.kind = "register" /\ users[s].regNeed = 1
      BY <1>1, <1>4, <2>1 DEF EffectOn
    <2>3. <<it.req.acct, userVar[s]>> \in issued
      BY <1>4, <2>2 DEF Safe, UserVarIsOwn
    <2>4. userVar[s] # 0
      BY <2>3 DEF Typed, TypeOK
    <2>5. users'[s].userId = userVar[s] /\ users'[s].acct = it.req.acct
      BY <2>2 DEF Registered
    <2>6. PICK c \in Socks : c = s
      OBVIOUS
    <2>7. BoundTo(c)' = <<it.req.acct, userVar[s]>>
      BY <1>1, <1>4, <2>4, <2>5, <2>6 DEF BoundTo
    <2>8. \A t \in Socks : t # c => BoundTo(t)' = BoundTo(t)
      BY <1>2, <2>6
    <2>9. Book!Bind
      BY <2>3, <2>7, <2>8, BindStep
    <2> QED
      BY <2>9 DEF Book!BookNext
  <1> QED
    BY <1>3, <1>4

LEMMA MysqlBook ==
    ASSUME Typed, Safe, MysqlMsgQueueHandle
    PROVE  Book!BookNext
  <1> DEFINE it == Head(mysqlQueue)
             s == it.req.sock
  <1>1. live \subseteq Socks /\ users \in [Socks -> UserRec]
    BY DEF Typed, TypeOK
  <1>2. ASSUME mysqlQueue # <<>>
        PROVE  /\ it \in Item /\ s \in Socks
               /\ it.req.kind \in {"login", "register", "delete"} => it.req.acct \in Accts
    BY <1>2, MysqlFrontTyped DEF Item, ItemOK, Request, RequestOK
  <1>3. CASE MysqlIdle
    <2>1. \A t \in Socks : BoundTo(t)' = BoundTo(t)
      BY <1>3 DEF MysqlIdle, BoundTo
    <2> QED
      BY <1>3, <2>1, UnbindStep DEF MysqlIdle, ghostVars, Book!BookNext
  <1>4. CASE ExecLoginFault
    <2>1. \A t \in Socks : BoundTo(t)' = <<>>
      BY <1>4 DEF ExecLoginFault, BoundTo
    <2> QED
      BY <1>4, <2>1, UnbindStep DEF ExecLoginFault, Book!BookNext
  <1>5. CASE ExecLogin
    <2> DEFINE acct == it.req.acct
               row == table[acct]
               rec == [users[s] EXCEPT !.userId = row.id, !.acct = acct,
                                       !.ident = row.ident, !.auth = row.auth]
    <2>1. /\ mysqlQueue # <<>> /\ it.req.kind = "login" /\ LoginReplyHandle(it)
          /\ live' = live /\ UNCHANGED issued
      BY <1>5 DEF ExecLogin, MysqlFront
    <2>2. acct \in Accts /\ s \in Socks
      BY <1>2, <2>1
    <2>3. \A t \in Socks : t # s => BoundTo(t)' = BoundTo(t)
      BY <1>1, <2>1, <2>2 DEF LoginReplyHandle, SetUser, BoundTo
    <2>4. CASE s \in live /\ LoginRow(table, acct, it.req.pwdOk)
      <3>1. users'[s] = rec
        BY <1>1, <2>1, <2>4 DEF LoginReplyHandle, SetUser
      <3>2. rec.acct = acct /\ rec.userId = row.id
        BY <1>1, <2>2 DEF UserRec
      <3>3. <<acct, row.id>> \in issued /\ row.id # 0
        BY <2>2, <2>4 DEF LoginRow, Exists, Safe, RowsIssued
      <3>4. PICK c \in Socks : c = s
        BY <2>2
      <3>5. BoundTo(c)' = <<acct, row.id>>
        BY <2>1, <2>4, <3>1, <3>2, <3>3, <3>4 DEF BoundTo
      <3>6. Book!Bind
        BY <2>1, <2>3, <3>3, <3>4, <3>5, BindStep
      <3> QED
        BY <3>6 DEF Book!BookNext
    <2>5. CASE ~(s \in live /\ LoginRow(table, acct, it.req.pwdOk))
      <3>1. \A t \in Socks : t = s => BoundTo(t)' = BoundTo(t)
        BY <1>1, <2>1, <2>2, <2>5 DEF LoginReplyHandle, SetUser, BoundTo
      <3> QED
        BY <2>1, <2>3, <3>1, UnbindStep DEF Book!BookNext
    <2> QED
      BY <2>4, <2>5
  <1>6. ASSUME NEW kinds, NEW err \in BOOLEAN, MysqlFront(kinds, 1), HandlerEffect(it, err)
        PROVE  /\ \A t \in Socks : BoundTo(t)' = BoundTo(t)
               /\ UNCHANGED issued => Book!BookNext
               /\ \A auth : it.req.kind = "register" /\ NewUser(it, auth) => Book!BookNext
    <2>1. \A t \in Socks : BoundTo(t)' = BoundTo(t)
      BY <1>6, CallBound
    <2>2. UNCHANGED issued => Book!BookNext
      BY <2>1, UnbindStep DEF Book!BookNext
    <2>3. ASSUME NEW auth, it.req.kind = "register", NewUser(it, auth) PROVE Book!BookNext
      <3>1. it.req.acct \in Accts
        BY <1>2, <1>6, <2>3 DEF MysqlFront
      <3>2. issued' = issued \cup {<<it.req.acct, nextId>>}
        BY <2>3 DEF NewUser
      <3>3. Book!Open
        BY <2>1, <3>1, <3>2, OpenStep
      <3> QED
        BY <3>3 DEF Book!BookNext
    <2> QED
      BY <2>1, <2>2, <2>3
  <1>7. CASE ExecRegisterCall
    BY <1>2, <1>6, <1>7, RegisterEffect DEF ExecRegisterCall, MysqlFront
  <1>8. CASE ExecRegisterTaken
    BY <1>2, <1>6, <1>8, RegisterEffect DEF ExecRegisterTaken, MysqlFront
  <1>9. CASE ExecRegisterFault
    BY <1>2, <1>6, <1>9, RegisterEffect DEF ExecRegisterFault, MysqlFront
  <1>10. CASE ExecDeleteCall
    BY <1>2, <1>6, <1>10, DeleteEffect DEF ExecDeleteCall, MysqlFront
  <1>11. CASE ExecDeleteFault
    BY <1>2, <1>6, <1>11, DeleteEffect DEF ExecDeleteFault, MysqlFront
  <1>12. CASE ExecRegisterSelect
    <2>1. PICK err \in BOOLEAN :
             /\ MysqlFront({"register"}, 2) /\ it.req.kind = "register" /\ mysqlQueue # <<>>
             /\ RegisterReplyHandle(it, err) /\ UNCHANGED <<dbVars, issued>>
      BY <1>12 DEF ExecRegisterSelect, MysqlFront
    <2> QED
      BY <1>2, <2>1, RegisterEffect, SelectBook
  <1>13. CASE ExecDeleteSelect
    <2>1. PICK err \in BOOLEAN :
             /\ MysqlFront({"delete", "deleteRange"}, 2) /\ mysqlQueue # <<>>
             /\ DeleteUserInfoReplyHandle(it, err) /\ UNCHANGED <<dbVars, issued>>
      BY <1>13 DEF ExecDeleteSelect, MysqlFront
    <2> QED
      BY <1>2, <2>1, DeleteEffect, SelectBook
  <1> QED
    BY <1>3, <1>4, <1>5, <1>7, <1>8, <1>9, <1>10, <1>11, <1>12, <1>13 DEF MysqlMsgQueueHandle

\* Every behaviour of the server is one of SessionBook: whatever is queued,
\* interleaved, disconnected or failing, an account gets a new user id each time
\* it is opened, and connections are bound to what was opened and nothing else.
THEOREM ServerImplementsBook == Spec => ImplementsBook
  <1>1. Init => Book!BookInit
    <2> SUFFICES ASSUME Init PROVE Book!BookInit
      OBVIOUS
    <2>1. issued \subseteq Accts \X (Nat \ {0})
      BY InitTyped DEF Typed, TypeOK
    <2>2. \A t \in Socks : BoundTo(t) = <<>>
      BY DEF Init, BoundTo
    <2> QED
      BY <2>1, <2>2 DEF Book!BookInit
  <1>2. Typed /\ Safe /\ [Next]_vars => [Book!BookNext]_(Book!bookVars)
    <2> SUFFICES ASSUME Typed, Safe, [Next]_vars PROVE [Book!BookNext]_(Book!bookVars)
      OBVIOUS
    <2>1. CASE Clients
      BY <2>1, ClientsQuiet, QuietBook DEF Book!BookNext
    <2>2. CASE RecvMsgQueueHandle
      BY <2>2, RecvQuiet, QuietBook DEF Book!BookNext
    <2>3. CASE MysqlMsgQueueHandle
      BY <2>3, MysqlBook
    <2>4. CASE UNCHANGED vars
      BY <2>4 DEF vars, serverVars, ghostVars, BoundTo, Book!bookVars
    <2> QED
      BY <2>1, <2>2, <2>3, <2>4 DEF Next, MsgQueueThread
  <1> QED
    BY <1>1, <1>2, Invariant, PTL DEF Spec, ImplementsBook, Book!Spec

------------------------------------------------------------------------------
(* What a request is answered: the inductive invariant *)

\* It is untouched, neither reported on nor carried out, until its first statement
\* is executed; between its CALL and its SELECT sRegNeedCount says that nothing has
\* been reported.
\*
\* A request with a number is in one place: one message, or one CALL with its
\* SELECT, or one SELECT, or one login statement.  Exit messages have no number.
Once ==
    /\ \A i, j \in 1..Len(recvQueue) :
          i # j => recvQueue[i].rid # recvQueue[j].rid \/ recvQueue[i].rid = 0
    /\ \A i \in 1..Len(recvQueue), j \in 1..Len(mysqlQueue) :
          recvQueue[i].rid # mysqlQueue[j].req.rid
    /\ \A i, j \in 1..Len(mysqlQueue) :
          i < j /\ mysqlQueue[i].req.rid = mysqlQueue[j].req.rid =>
             j = i + 1 /\ mysqlQueue[i].step = 1
    /\ \A i \in 1..Len(recvQueue) : recvQueue[i].rid < nextRid
    /\ \A i \in 1..Len(recvQueue) : recvQueue[i].kind = "exit" => recvQueue[i].rid = 0
    /\ \A i \in 1..Len(mysqlQueue) : mysqlQueue[i].req.rid < nextRid

\* Nothing has been reported or done for a request.
Untouched(r) == ackLog[r] = <<>> /\ r \notin effective

\* A request that has not been sent, taken in or called is untouched.
Waiting ==
    /\ \A r \in 1..MaxReq : r >= nextRid => Untouched(r)
    /\ \A i \in 1..Len(recvQueue) : recvQueue[i].rid # 0 => Untouched(recvQueue[i].rid)
    /\ \A i \in 1..Len(mysqlQueue) : mysqlQueue[i].step # 2 => Untouched(mysqlQueue[i].req.rid)

\* Between the CALL and the SELECT: the CALL has reported its failure or
\* nothing, and nothing when the count says that it succeeded.
Called ==
    mysqlQueue # <<>> /\ Head(mysqlQueue).step = 2 =>
        LET it == Head(mysqlQueue)
        IN /\ ackLog[it.req.rid] \in {<<>>, <<FALSE>>}
           /\ \A s \in live : users[s].regNeed = 1 =>
                 /\ ackLog[it.req.rid] = <<>>
                 /\ it.req.kind = "register" => it.req.rid \in effective

Replies == Once /\ Waiting /\ Called /\ ResultIsOwn /\ SuccessIsReal /\ AckLogShape /\ NothingDropped

------------------------------------------------------------------------------
(* What a request is answered: queues *)

LEMMA TailItems ==
    ASSUME NEW S, NEW q \in Seq(S), q # <<>>
    PROVE  /\ Len(q) \in Nat /\ 1 \in 1..Len(q) /\ Head(q) = q[1]
           /\ Tail(q) \in Seq(S) /\ Len(Tail(q)) = Len(q) - 1
           /\ \A i \in 1..Len(Tail(q)) : i + 1 \in 1..Len(q) /\ Tail(q)[i] = q[i + 1]
           /\ \A j \in 1..Len(q) : j # 1 => j - 1 \in 1..Len(Tail(q)) /\ Tail(q)[j - 1] = q[j]
  <1>1. Len(q) \in Nat /\ 1 \in 1..Len(q) /\ Head(q) = q[1]
    OBVIOUS
  <1>2. Tail(q) \in Seq(S) /\ Len(Tail(q)) = Len(q) - 1
        /\ \A i \in 1..Len(Tail(q)) : Tail(q)[i] = q[i + 1]
    BY HeadTailProperties
  <1> QED BY <1>1, <1>2

\* The requests and statements of the queues have the numbers of their kind.
LEMMA Rids ==
    ASSUME Typed
    PROVE  /\ \A i \in 1..Len(recvQueue) : recvQueue[i].rid \in 0..MaxReq
           /\ \A i \in 1..Len(mysqlQueue) : mysqlQueue[i] \in Item /\ mysqlQueue[i].req.rid \in 1..MaxReq
  <1>1. \A i \in 1..Len(recvQueue) : recvQueue[i] \in Request
    BY DEF Typed, TypeOK
  <1>2. \A i \in 1..Len(mysqlQueue) :
            /\ mysqlQueue[i] \in Item /\ mysqlQueue[i].req \in Request
            /\ mysqlQueue[i].req.rid # 0
    <2>1. \A i \in 1..Len(mysqlQueue) : mysqlQueue[i] \in Item /\ ItemOK(mysqlQueue[i])
      BY DEF Typed, TypeOK, QueuesOK
    <2> QED BY <2>1 DEF Item, ItemOK, RequestOK
  <1>3. \A m \in Request : m.rid \in 0..MaxReq
    BY DEF Request
  <1> QED BY <1>1, <1>2, <1>3, SessionAssumption

\* Behind a CALL is its SELECT; behind anything else is no SELECT.
LEMMA HeadAfter ==
    ASSUME Typed, Safe, mysqlQueue # <<>>, mysqlQueue' = Tail(mysqlQueue)
    PROVE  /\ Head(mysqlQueue).step = 1 =>
                 /\ 1 \in 1..Len(mysqlQueue') /\ mysqlQueue' # <<>>
                 /\ Head(mysqlQueue') = mysqlQueue'[1]
                 /\ mysqlQueue'[1].step = 2 /\ mysqlQueue'[1].req = Head(mysqlQueue).req
           /\ mysqlQueue' # <<>> /\ Head(mysqlQueue').step = 2 => Head(mysqlQueue).step = 1
  <1> DEFINE q == mysqlQueue  it == Head(mysqlQueue)
  <1>1. q \in Seq(Item) /\ it \in Item
    BY MysqlFrontTyped DEF Typed, TypeOK
  <1>2. /\ Len(q) \in Nat /\ 1 \in 1..Len(q) /\ it = q[1]
        /\ q' \in Seq(Item) /\ Len(q') = Len(q) - 1
        /\ \A i \in 1..Len(q') : i + 1 \in 1..Len(q) /\ q'[i] = q[i + 1]
    BY <1>1, TailItems
  <1>3. ASSUME it.step = 1
        PROVE  /\ 1 \in 1..Len(q') /\ q' # <<>> /\ Head(q') = q'[1]
               /\ q'[1].step = 2 /\ q'[1].req = it.req
    <2>1. 1 < Len(q) /\ q[1 + 1] = [it EXCEPT !.step = 2]
      BY <1>2, <1>3 DEF Safe, PairsAdjacent
    <2>2. 1 \in 1..Len(q') /\ q'[1] = [it EXCEPT !.step = 2]
      BY <1>2, <2>1
    <2>3. q' # <<>>
      <3>1. Len(q') # 0 /\ Len(<<>>) = 0
        BY <1>2, <2>2
      <3> QED BY <3>1
    <2>4. Head(q') = q'[1]
      BY <1>2, <2>3, TailItems
    <2> QED BY <2>2, <2>3, <2>4, <1>1 DEF Item
  <1>4. ASSUME q' # <<>>, Head(q').step = 2 PROVE it.step = 1
    <2>1. 1 \in 1..Len(q') /\ Head(q') = q'[1]
      BY <1>2, <1>4
    <2>2. PICK j \in 1..Len(q) : j = 1 + 1 /\ j > 1 /\ q[j] = Head(q')
      BY <1>2, <2>1
    <2>3. q[j - 1] = [q[j] EXCEPT !.step = 1] /\ j - 1 = 1
      <3>1. q[j].step = 2 /\ j > 1 /\ j - 1 = 1
        BY <2>2, <1>4
      <3>2. q[j - 1] = [q[j] EXCEPT !.step = 1]
        BY <3>1 DEF Safe, PairsAdjacent
      <3> QED BY <3>1, <3>2
    <2>4. q[j] \in Item
      BY <2>2, <1>1
    <2> QED BY <1>2, <2>3, <2>4 DEF Item
  <1> QED BY <1>3, <1>4

------------------------------------------------------------------------------
(* What a request is answered: steps that report nothing *)

\* A message is sent: it has a number of its own, or none.
LEMMA InputReplies ==
    ASSUME Typed, Safe, Replies, NEW s \in Socks, NEW req, Input(s, req),
           req.rid = IF req.kind = "exit" THEN 0 ELSE nextRid
    PROVE  Once' /\ Waiting' /\ NothingDropped'
  <1> DEFINE n == Len(recvQueue)
  <1>1. /\ recvQueue \in Seq(Request) /\ n \in Nat /\ nextRid \in 1..MaxReq + 1
        /\ recvQueue' = Append(recvQueue, req)
        /\ UNCHANGED <<mysqlQueue, ackLog, effective, lost>>
        /\ nextRid' = IF req.kind = "exit" THEN nextRid ELSE nextRid + 1
        /\ nextRid' <= MaxReq + 1
    BY DEF Input, Typed, TypeOK, ghostVars
  <1>2. Len(recvQueue') = n + 1 /\ recvQueue'[n + 1] = req
        /\ \A i \in 1..n : recvQueue'[i] = recvQueue[i]
    BY <1>1
  <1>3. \/ req.rid = 0 /\ nextRid' = nextRid
        \/ req.rid = nextRid /\ nextRid' = nextRid + 1 /\ nextRid \in 1..MaxReq
    BY <1>1, SessionAssumption
  <1>4. /\ \A i \in 1..n : recvQueue[i].rid \in 0..MaxReq /\ recvQueue[i].rid < nextRid
        /\ \A i \in 1..Len(mysqlQueue) :
              mysqlQueue[i].req.rid \in 1..MaxReq /\ mysqlQueue[i].req.rid < nextRid
    BY Rids DEF Replies, Once
  <1>5. \A i \in 1..n + 1 : i \in 1..n \/ i = n + 1
    BY <1>1
  <1> HIDE DEF n
  <1>6. Once'
    <2>1. \A i, j \in 1..n + 1 :
             i # j => recvQueue'[i].rid # recvQueue'[j].rid \/ recvQueue'[i].rid = 0
      <3> SUFFICES ASSUME NEW i \in 1..n + 1, NEW j \in 1..n + 1, i # j
                   PROVE  recvQueue'[i].rid # recvQueue'[j].rid \/ recvQueue'[i].rid = 0
        OBVIOUS
      <3>1. CASE i \in 1..n /\ j \in 1..n
        BY <1>2, <3>1 DEF Replies, Once, n
      <3>2. CASE i \in 1..n /\ j = n + 1
        BY <1>2, <1>3, <1>4, <3>2, SessionAssumption
      <3>3. CASE i = n + 1 /\ j \in 1..n
        BY <1>2, <1>3, <1>4, <3>3, SessionAssumption
      <3> QED BY <1>5, <3>1, <3>2, <3>3
    <2>2. \A i \in 1..n + 1, j \in 1..Len(mysqlQueue) : recvQueue'[i].rid # mysqlQueue[j].req.rid
      <3> SUFFICES ASSUME NEW i \in 1..n + 1, NEW j \in 1..Len(mysqlQueue)
                   PROVE  recvQueue'[i].rid # mysqlQueue[j].req.rid
        OBVIOUS
      <3>1. CASE i \in 1..n
        BY <1>2, <3>1 DEF Replies, Once, n
      <3>2. CASE i = n + 1
        BY <1>2, <1>3, <1>4, <3>2, SessionAssumption
      <3> QED BY <1>5, <3>1, <3>2
    <2>3. \A i \in 1..n + 1 : recvQueue'[i].rid < nextRid'
      <3> SUFFICES ASSUME NEW i \in 1..n + 1 PROVE recvQueue'[i].rid < nextRid'
        OBVIOUS
      <3>1. nextRid \in Nat /\ nextRid >= 1 /\ nextRid' \in {nextRid, nextRid + 1}
        BY <1>1, <1>3, SessionAssumption
      <3>2. CASE i \in 1..n
        BY <1>2, <1>4, <3>1, <3>2, SessionAssumption
      <3>3. CASE i = n + 1
        BY <1>2, <1>3, <3>1, <3>3
      <3> QED BY <1>5, <3>2, <3>3
    <2>4. \A i \in 1..Len(mysqlQueue) : mysqlQueue[i].req.rid < nextRid'
      BY <1>1, <1>3, <1>4, SessionAssumption
    <2>5. \A i \in 1..n + 1 : recvQueue'[i].kind = "exit" => recvQueue'[i].rid = 0
      BY <1>2, <1>5 DEF Replies, Once, n
    <2> QED BY <1>1, <1>2, <2>1, <2>2, <2>3, <2>4, <2>5 DEF Replies, Once
  <1>7. Waiting'
    <2>1. \A r \in 1..MaxReq : r >= nextRid' => Untouched(r)
      BY <1>1, <1>3, SessionAssumption DEF Replies, Waiting
    <2>2. \A i \in 1..n + 1 : recvQueue'[i].rid # 0 => Untouched(recvQueue'[i].rid)
      BY <1>1, <1>2, <1>3, <1>5 DEF Replies, Waiting, n
    <2> QED BY <1>1, <1>2, <2>1, <2>2 DEF Replies, Waiting, Untouched
  <1>8. NothingDropped'
    <2> SUFFICES ASSUME NEW r \in 1..MaxReq, r < nextRid'
                 PROVE  \/ \E i \in DOMAIN recvQueue' : recvQueue'[i].rid = r
                        \/ \E i \in DOMAIN mysqlQueue : mysqlQueue[i].req.rid = r
                        \/ ackLog[r] # <<>>
                        \/ r \in lost
      BY <1>1 DEF NothingDropped
    <2>1. DOMAIN recvQueue' = 1..n + 1 /\ DOMAIN recvQueue = 1..n
      BY <1>1, <1>2 DEF n
    <2>2. CASE r = nextRid
      BY <1>1, <1>2, <1>3, <1>5, <2>1, <2>2 DEF n
    <2>3. CASE r < nextRid
      BY <1>2, <2>1, <2>3 DEF Replies, NothingDropped, n
    <2> QED BY <1>1, <1>3, <2>2, <2>3
  <1> QED BY <1>6, <1>7, <1>8

\* The queue thread takes a message and queues its statements.
LEMMA RecvReplies ==
    ASSUME Typed, Safe, Replies, RecvMsgQueueHandle
    PROVE  Once' /\ Waiting' /\ NothingDropped'
  <1>1. UNCHANGED <<ackLog, effective, lost, nextRid>>
    BY DEF RecvMsgQueueHandle, RecvIdle, LoginRecvHandle, RegisterRecvHandle, ExitSysRecvHandle,
           DeleteUserInfoRecvHandle, RecvFront, ghostVars
  <1>2. CASE RecvIdle
    <2>1. UNCHANGED <<recvQueue, mysqlQueue>>
      BY <1>2 DEF RecvIdle
    <2> QED BY <1>1, <2>1 DEF Replies, Once, Waiting, Untouched, NothingDropped
  <1>3. CASE ~RecvIdle
    <2> DEFINE m == Head(recvQueue)  n == Len(mysqlQueue)  k == Len(mysqlQueue')
    <2>1. recvQueue # <<>> /\ recvQueue' = Tail(recvQueue)
      BY <1>3 DEF RecvMsgQueueHandle, LoginRecvHandle, RegisterRecvHandle, ExitSysRecvHandle,
                  DeleteUserInfoRecvHandle, RecvFront
    <2>2. /\ Len(recvQueue) \in Nat /\ 1 \in 1..Len(recvQueue) /\ m = recvQueue[1]
          /\ recvQueue' \in Seq(Request) /\ Len(recvQueue') = Len(recvQueue) - 1
          /\ \A i \in 1..Len(recvQueue') : i + 1 \in 1..Len(recvQueue) /\ recvQueue'[i] = recvQueue[i + 1]
          /\ \A j \in 1..Len(recvQueue) :
                j # 1 => j - 1 \in 1..Len(recvQueue') /\ recvQueue'[j - 1] = recvQueue[j]
      BY <2>1, TailItems DEF Typed, TypeOK
    <2>3. mysqlQueue \in Seq(Item) /\ n \in Nat
      BY DEF Typed, TypeOK
    <2>4. m \in Request /\ RequestOK(m) /\ m.rid \in 0..MaxReq
      BY <2>2, Rids DEF Typed, TypeOK, QueuesOK
    <2>5. /\ k \in Nat /\ k >= n /\ \A i \in 1..n : mysqlQueue'[i] = mysqlQueue[i]
          /\ \/ k = n /\ m.kind = "exit"
             \/ k = n + 1 /\ m.kind # "exit" /\ mysqlQueue'[n + 1].req = m
             \/ /\ k = n + 2 /\ m.kind # "exit"
                /\ mysqlQueue'[n + 1].req = m /\ mysqlQueue'[n + 1].step = 1
                /\ mysqlQueue'[n + 2].req = m /\ mysqlQueue'[n + 2].step = 2
      <3>1. CASE LoginRecvHandle
        <4>1. m.kind = "login"
              /\ mysqlQueue' = Append(mysqlQueue, [req |-> m, step |-> 0, my |-> Nobody])
          BY <3>1 DEF LoginRecvHandle, RecvFront
        <4> QED BY <2>3, <4>1
      <3>2. ASSUME NEW my, PushPair(m, my), m.kind # "exit"
            PROVE  /\ k = n + 2 /\ \A i \in 1..n : mysqlQueue'[i] = mysqlQueue[i]
                   /\ mysqlQueue'[n + 1].req = m /\ mysqlQueue'[n + 1].step = 1
                   /\ mysqlQueue'[n + 2].req = m /\ mysqlQueue'[n + 2].step = 2
        BY <2>3, <3>2 DEF PushPair
      <3>3. CASE RegisterRecvHandle
        <4>1. m.kind # "exit" /\ PushPair(m, Nobody)
          BY <3>3 DEF RegisterRecvHandle, RecvFront
        <4> QED BY <2>3, <3>2, <4>1
      <3>4. CASE DeleteUserInfoRecvHandle
        <4>1. m.kind # "exit" /\ \E my : PushPair(m, my)
          BY <3>4 DEF DeleteUserInfoRecvHandle, RecvFront
        <4> QED BY <2>3, <3>2, <4>1
      <3>5. CASE ExitSysRecvHandle
        <4>1. m.kind = "exit" /\ mysqlQueue' = mysqlQueue
          BY <3>5 DEF ExitSysRecvHandle, RecvFront
        <4> QED BY <2>3, <4>1
      <3> QED BY <1>3, <3>1, <3>3, <3>4, <3>5 DEF RecvMsgQueueHandle
    <2>6. m.kind # "exit" => m.rid # 0
      BY <2>4 DEF RequestOK
    <2>7. m.kind = "exit" => m.rid = 0
      BY <2>2 DEF Replies, Once
    <2>8. \A i \in 1..k : \/ i \in 1..n
                          \/ i = n + 1 /\ mysqlQueue'[i].req = m /\ m.rid # 0
                          \/ i = n + 2 /\ k = n + 2 /\ mysqlQueue'[i].req = m /\ m.rid # 0
      BY <2>3, <2>5, <2>6
    <2>9. /\ \A i \in 1..Len(recvQueue') : recvQueue'[i].rid # m.rid \/ m.rid = 0
          /\ \A i \in 1..n : mysqlQueue[i].req.rid # m.rid
          /\ m.rid < nextRid
      <3>1. \A j \in 1..Len(recvQueue) : j # 1 => recvQueue[j].rid # m.rid \/ m.rid = 0
        BY <2>2 DEF Replies, Once
      <3>2. \A i \in 1..Len(recvQueue') : i + 1 # 1
        BY <2>2
      <3> QED BY <2>2, <3>1, <3>2 DEF Replies, Once
    <2> HIDE DEF m, n, k
    <2>10. Once'
      <3>1. ASSUME NEW i \in 1..Len(recvQueue'), NEW j \in 1..Len(recvQueue'), i # j
            PROVE  recvQueue'[i].rid # recvQueue'[j].rid \/ recvQueue'[i].rid = 0
        <4>1. PICK u \in 1..Len(recvQueue) : u = i + 1 /\ recvQueue'[i] = recvQueue[u]
          BY <2>2
        <4>2. PICK v \in 1..Len(recvQueue) : v = j + 1 /\ recvQueue'[j] = recvQueue[v]
          BY <2>2
        <4>3. u # v
          BY <3>1, <4>1, <4>2
        <4> QED BY <4>1, <4>2, <4>3 DEF Replies, Once
      <3>2. ASSUME NEW i \in 1..Len(recvQueue'), NEW j \in 1..k
            PROVE  recvQueue'[i].rid # mysqlQueue'[j].req.rid
        <4>1. PICK u \in 1..Len(recvQueue) : recvQueue'[i] = recvQueue[u]
          BY <2>2
        <4>2. CASE j \in 1..n
          BY <2>5, <4>1, <4>2 DEF Replies, Once, n
        <4>3. CASE j \notin 1..n
          BY <2>8, <2>9, <4>3
        <4> QED BY <4>2, <4>3
      <3>3. \A i, j \in 1..k :
               i < j /\ mysqlQueue'[i].req.rid = mysqlQueue'[j].req.rid =>
                  j = i + 1 /\ mysqlQueue'[i].step = 1
        <4> SUFFICES ASSUME NEW i \in 1..k, NEW j \in 1..k, i < j,
                            mysqlQueue'[i].req.rid = mysqlQueue'[j].req.rid
                     PROVE  j = i + 1 /\ mysqlQueue'[i].step = 1
          OBVIOUS
        <4>1. CASE j \in 1..n
          BY <2>3, <2>5, <4>1 DEF Replies, Once, n
        <4>2. CASE i \in 1..n /\ j \notin 1..n
          BY <2>5, <2>8, <2>9, <4>2
        <4>3. CASE i \notin 1..n
          BY <2>3, <2>5, <2>8, <4>3
        <4> QED BY <4>1, <4>2, <4>3
      <3>4. \A i \in 1..Len(recvQueue') : recvQueue'[i].rid < nextRid
        BY <2>2 DEF Replies, Once
      <3>5. \A i \in 1..k : mysqlQueue'[i].req.rid < nextRid
        BY <2>5, <2>8, <2>9 DEF Replies, Once, n
      <3>6. \A i \in 1..Len(recvQueue') : recvQueue'[i].kind = "exit" => recvQueue'[i].rid = 0
        <4>1. \A j \in 1..Len(recvQueue) : recvQueue[j].kind = "exit" => recvQueue[j].rid = 0
          BY DEF Replies, Once
        <4> QED BY <2>2, <4>1
      <3> QED BY <1>1, <3>1, <3>2, <3>3, <3>4, <3>5, <3>6 DEF Once, k
    <2>11. Waiting'
      <3>1. m.rid # 0 => Untouched(m.rid)
        BY <2>2 DEF Replies, Waiting
      <3>2. \A i \in 1..k : mysqlQueue'[i].step # 2 => Untouched(mysqlQueue'[i].req.rid)
        BY <2>5, <2>8, <3>1 DEF Replies, Waiting, n
      <3>3. \A i \in 1..Len(recvQueue') : recvQueue'[i].rid # 0 => Untouched(recvQueue'[i].rid)
        BY <2>2 DEF Replies, Waiting
      <3> QED BY <1>1, <3>2, <3>3 DEF Replies, Waiting, Untouched, k
    <2>12. NothingDropped'
      <3> SUFFICES ASSUME NEW r \in 1..MaxReq, r < nextRid, ackLog[r] = <<>>, r \notin lost
                   PROVE  \/ \E i \in DOMAIN recvQueue' : recvQueue'[i].rid = r
                          \/ \E i \in DOMAIN mysqlQueue' : mysqlQueue'[i].req.rid = r
        BY <1>1 DEF NothingDropped
      <3>1. /\ DOMAIN recvQueue' = 1..Len(recvQueue') /\ DOMAIN recvQueue = 1..Len(recvQueue)
            /\ DOMAIN mysqlQueue = 1..n
        BY <2>2, <2>3 DEF n, Typed, TypeOK
      <3>2. DOMAIN mysqlQueue' = 1..k
        <4>1. mysqlQueue' \in Seq(Item)
          BY NextTyped DEF Next, MsgQueueThread, Typed, TypeOK
        <4> QED BY <4>1 DEF k
      <3>3. CASE \E j \in 1..Len(recvQueue) : recvQueue[j].rid = r /\ j # 1
        BY <2>2, <3>1, <3>3
      <3>4. CASE r = m.rid
        <4>1. n + 1 \in 1..k /\ mysqlQueue'[n + 1].req = m
          <5>1. r # 0
            BY SessionAssumption
          <5>2. m.kind # "exit"
            BY <5>1, <3>4, <2>7
          <5> QED BY <2>3, <2>5, <5>2
        <4> QED BY <3>2, <3>4, <4>1
      <3>5. CASE \E j \in 1..n : mysqlQueue[j].req.rid = r
        <4>1. PICK j \in 1..n : mysqlQueue[j].req.rid = r
          BY <3>5
        <4>2. j \in 1..k /\ mysqlQueue'[j] = mysqlQueue[j]
          BY <2>3, <2>5
        <4> QED BY <3>2, <4>1, <4>2
      <3> QED BY <2>2, <3>1, <3>3, <3>4, <3>5 DEF Replies, NothingDropped
    <2> QED BY <2>10, <2>11, <2>12
  <1> QED BY <1>2, <1>3

\* The counts that a quiet step leaves at 1 were 1, and the head of the queue is
\* the same: what holds between a CALL and its SELECT still does.
LEMMA QuietReplies ==
    ASSUME Typed, Safe, Replies, Quiet, UNCHANGED <<ackLog, effective, resultVar>>,
           mysqlQueue = <<>> /\ mysqlQueue' # <<>> => Head(mysqlQueue').step # 2
    PROVE  Called' /\ ResultIsOwn' /\ SuccessIsReal' /\ AckLogShape'
  <1>1. SuccessIsReal' /\ AckLogShape'
    BY DEF Replies, SuccessIsReal, AckLogShape
  <1>2. ASSUME NEW t \in live', users'[t].regNeed = 1
        PROVE  /\ t \in live /\ users[t].regNeed = 1 /\ users'[t] = users[t]
               /\ mysqlQueue # <<>> /\ Head(mysqlQueue') = Head(mysqlQueue)
    <2>1. users'[t] # Blank
      BY <1>2 DEF Blank
    <2>2. t \in live /\ users[t] \in UserRec
      BY <2>1 DEF Quiet, Typed, TypeOK
    <2>3. users'[t] # NoNeed(users[t])
      BY <1>2, <2>2 DEF NoNeed, UserRec
    <2>4. users'[t] = users[t] /\ users[t].regNeed = 1
      BY <1>2, <2>1, <2>3 DEF Quiet
    <2> QED BY <2>2, <2>4 DEF Quiet, Safe, RegNeedMeansSelectNext
  <1>3. ResultIsOwn'
    BY <1>2 DEF Replies, ResultIsOwn, Quiet
  <1>4. Called'
    <2> SUFFICES ASSUME mysqlQueue' # <<>>, Head(mysqlQueue').step = 2
                 PROVE  /\ ackLog[Head(mysqlQueue').req.rid] \in {<<>>, <<FALSE>>}
                        /\ \A s \in live' : users'[s].regNeed = 1 =>
                              /\ ackLog[Head(mysqlQueue').req.rid] = <<>>
                              /\ Head(mysqlQueue').req.kind = "register" =>
                                    Head(mysqlQueue').req.rid \in effective
      BY DEF Called
    <2>1. mysqlQueue # <<>> /\ Head(mysqlQueue') = Head(mysqlQueue)
      BY DEF Quiet
    <2> QED BY <1>2, <2>1 DEF Replies, Called
  <1> QED BY <1>1, <1>3, <1>4

------------------------------------------------------------------------------
(* What a request is answered: statements *)

\* A statement touches its own request only; a login statement and a SELECT
\* report on it.
LEMMA TookReplies ==
    ASSUME Typed, Safe, Replies, mysqlQueue # <<>>, mysqlQueue' = Tail(mysqlQueue),
           UNCHANGED <<recvQueue, nextRid, lost>>, effective \subseteq effective',
           \A r \in 1..MaxReq : r # Head(mysqlQueue).req.rid =>
              ackLog'[r] = ackLog[r] /\ (r \in effective' => r \in effective),
           Head(mysqlQueue).step # 1 => ackLog'[Head(mysqlQueue).req.rid] # <<>>
    PROVE  Once' /\ Waiting' /\ NothingDropped'
  <1> DEFINE q == mysqlQueue  it == Head(mysqlQueue)  d == it.req.rid
  <1>1. /\ q \in Seq(Item) /\ Len(q) \in Nat /\ 1 \in 1..Len(q) /\ it = q[1]
        /\ q' \in Seq(Item) /\ Len(q') = Len(q) - 1
        /\ \A i \in 1..Len(q') : i + 1 \in 1..Len(q) /\ q'[i] = q[i + 1]
        /\ \A j \in 1..Len(q) : j # 1 => j - 1 \in 1..Len(q') /\ q'[j - 1] = q[j]
    BY TailItems DEF Typed, TypeOK
  <1>2. /\ \A i \in 1..Len(q) : q[i].req.rid \in 1..MaxReq
        /\ \A i \in 1..Len(recvQueue) : recvQueue[i].rid \in 0..MaxReq
        /\ d \in 1..MaxReq /\ d < nextRid
    BY <1>1, Rids DEF Replies, Once
  <1>3. it.step = 1 => 1 \in 1..Len(q') /\ q'[1].step = 2 /\ q'[1].req = it.req
    BY HeadAfter
  <1>4. ASSUME NEW i \in 1..Len(q'), q'[i].req.rid = d PROVE q'[i].step = 2
    <2>1. PICK j \in 1..Len(q) : j = i + 1 /\ 1 < j /\ q'[i] = q[j]
      BY <1>1
    <2>2. j = 1 + 1 /\ it.step = 1
      BY <1>1, <1>4, <2>1 DEF Replies, Once
    <2>3. i = 1
      BY <2>1, <2>2
    <2> QED BY <1>3, <2>2, <2>3
  <1>5. \A i \in 1..Len(recvQueue) : recvQueue[i].rid # d
    BY <1>1 DEF Replies, Once
  <1>6. Once'
    <2>1. ASSUME NEW i \in 1..Len(q'), NEW j \in 1..Len(q'), i < j, q'[i].req.rid = q'[j].req.rid
          PROVE  j = i + 1 /\ q'[i].step = 1
      <3>1. PICK u \in 1..Len(q) : u = i + 1 /\ q'[i] = q[u]
        BY <1>1
      <3>2. PICK v \in 1..Len(q) : v = j + 1 /\ q'[j] = q[v]
        BY <1>1
      <3>3. v = u + 1 /\ q[u].step = 1
        <4>1. u < v
          BY <2>1, <3>1, <3>2
        <4> QED BY <2>1, <3>1, <3>2, <4>1 DEF Replies, Once
      <3> QED BY <3>1, <3>2, <3>3
    <2>2. ASSUME NEW i \in 1..Len(recvQueue), NEW j \in 1..Len(q')
          PROVE  recvQueue[i].rid # q'[j].req.rid
      BY <1>1 DEF Replies, Once
    <2>3. \A i \in 1..Len(q') : q'[i].req.rid < nextRid
      BY <1>1 DEF Replies, Once
    <2> QED BY <2>1, <2>2, <2>3 DEF Replies, Once
  <1>7. Waiting'
    <2> DEFINE Un(r) == ackLog'[r] = <<>> /\ r \notin effective'
    <2>1. ASSUME NEW r \in 1..MaxReq, r # d, Untouched(r) PROVE Un(r)
      BY <2>1 DEF Untouched
    <2>2. \A r \in 1..MaxReq : r >= nextRid => Un(r)
      <3> SUFFICES ASSUME NEW r \in 1..MaxReq, r >= nextRid PROVE Un(r)
        OBVIOUS
      <3>1. r # d
        BY <1>2, SessionAssumption DEF Typed, TypeOK
      <3> QED BY <2>1, <3>1 DEF Replies, Waiting
    <2>3. \A i \in 1..Len(recvQueue) : recvQueue[i].rid # 0 => Un(recvQueue[i].rid)
      <3> SUFFICES ASSUME NEW i \in 1..Len(recvQueue), recvQueue[i].rid # 0
                   PROVE  Un(recvQueue[i].rid)
        OBVIOUS
      <3>1. recvQueue[i].rid \in 1..MaxReq
        BY <1>2, SessionAssumption
      <3> QED BY <1>5, <2>1, <3>1 DEF Replies, Waiting
    <2>4. \A i \in 1..Len(q') : q'[i].step # 2 => Un(q'[i].req.rid)
      <3> SUFFICES ASSUME NEW i \in 1..Len(q'), q'[i].step # 2
                   PROVE  Un(q'[i].req.rid)
        OBVIOUS
      <3>1. PICK j \in 1..Len(q) : q'[i] = q[j]
        BY <1>1
      <3>2. Untouched(q[j].req.rid) /\ q[j].req.rid # d
        BY <1>4, <3>1 DEF Replies, Waiting
      <3>3. q[j].req.rid \in 1..MaxReq
        BY <1>2
      <3>4. Un(q[j].req.rid)
        BY <2>1, <3>2, <3>3
      <3> QED BY <3>1, <3>4
    <2> QED BY <2>2, <2>3, <2>4 DEF Waiting, Untouched
  <1>8. NothingDropped'
    <2> SUFFICES ASSUME NEW r \in 1..MaxReq, r < nextRid, ackLog'[r] = <<>>, r \notin lost,
                        ~\E i \in DOMAIN recvQueue : recvQueue[i].rid = r
                 PROVE  \E i \in DOMAIN q' : q'[i].req.rid = r
      BY DEF NothingDropped
    <2>1. DOMAIN q = 1..Len(q) /\ DOMAIN q' = 1..Len(q')
      BY <1>1
    <2>2. CASE r = d
      BY <1>3, <2>1, <2>2
    <2>3. CASE r # d
      <3>1. ackLog[r] = <<>>
        BY <2>3
      <3>2. PICK j \in 1..Len(q) : q[j].req.rid = r
        BY <2>1, <3>1 DEF Replies, NothingDropped
      <3>3. j # 1
        BY <1>1, <2>3, <3>2
      <3> QED BY <1>1, <2>1, <3>2, <3>3
    <2> QED BY <2>2, <2>3
  <1> QED BY <1>6, <1>7, <1>8

\* What Reply makes of the outcomes reported.
Reported(it, ok) == ackLog' = [ackLog EXCEPT ![it.req.rid] = Append(ackLog[it.req.rid], ok)]

LEMMA AppendTwo ==
    ASSUME NEW S, NEW a \in S, NEW b \in S PROVE Append(<<a>>, b) = <<a, b>>
  <1>1. <<a>> \in Seq(S) /\ <<a, b>> \in Seq(S)
    OBVIOUS
  <1>2. /\ Append(<<a>>, b) \in Seq(S) /\ Len(Append(<<a>>, b)) = 2
        /\ Append(<<a>>, b)[1] = a /\ Append(<<a>>, b)[2] = b
    BY <1>1, AppendProperties
  <1>3. Len(<<a, b>>) = 2 /\ <<a, b>>[1] = a /\ <<a, b>>[2] = b
    OBVIOUS
  <1>4. \A i \in 1..2 : i = 1 \/ i = 2
    OBVIOUS
  <1> QED BY <1>1, <1>2, <1>3, <1>4, SeqEqual

LEMMA ReportedLog ==
    ASSUME Typed, NEW d \in 1..MaxReq, NEW it, it.req.rid = d, NEW ok \in BOOLEAN, Reported(it, ok)
    PROVE  /\ \A r \in 1..MaxReq : r # d => ackLog'[r] = ackLog[r]
           /\ ackLog'[d] # <<>>
           /\ ackLog[d] = <<>> => ackLog'[d] = <<ok>>
           /\ ackLog[d] = <<FALSE>> => ackLog'[d] = <<FALSE, ok>>
  <1>1. ackLog \in [1..MaxReq -> Seq(BOOLEAN)]
    BY DEF Typed, TypeOK
  <1>2. ackLog'[d] = Append(ackLog[d], ok) /\ \A r \in 1..MaxReq : r # d => ackLog'[r] = ackLog[r]
    BY <1>1 DEF Reported
  <1>3. ackLog'[d] # <<>>
    <2>1. Len(Append(ackLog[d], ok)) # 0 /\ Len(<<>>) = 0
      BY <1>1
    <2> QED BY <1>2, <2>1
  <1>4. Append(<<>>, ok) = <<ok>>
    OBVIOUS
  <1>5. Append(<<FALSE>>, ok) = <<FALSE, ok>>
    BY AppendTwo
  <1> QED BY <1>2, <1>3, <1>4, <1>5

\* The outcomes reported for a request: only <<TRUE>> has a success in it.
LEMMA Outcomes ==
    /\ \A k \in DOMAIN <<>> : FALSE
    /\ \A k \in DOMAIN <<FALSE>> : ~<<FALSE>>[k]
    /\ \A k \in DOMAIN <<FALSE, FALSE>> : ~<<FALSE, FALSE>>[k]
    /\ <<TRUE>> # <<FALSE>> /\ <<TRUE>> # <<FALSE, FALSE>>
  <1>1. <<TRUE>> # <<FALSE>> /\ <<TRUE>> # <<FALSE, FALSE>>
    <2>1. <<TRUE>>[1] = TRUE /\ <<FALSE>>[1] = FALSE /\ <<FALSE, FALSE>>[1] = FALSE
      OBVIOUS
    <2> QED BY <2>1
  <1>2. \A a, b : \A k \in DOMAIN <<a, b>> : <<a, b>>[k] \in {a, b}
    OBVIOUS
  <1>3. \A a : \A k \in DOMAIN <<a>> : <<a>>[k] = a
    OBVIOUS
  <1>4. \A k \in DOMAIN <<>> : FALSE
    OBVIOUS
  <1> QED BY <1>1, <1>2, <1>3, <1>4, Zenon

\* How a reply handler of a registration or a deletion ends.
Outcome(it, err) ==
    LET s == it.req.sock
    IN \/ ackLog' = ackLog /\ it.step = 1 /\ ~err
       \/ Reported(it, FALSE) /\ (s \in live => users'[s].regNeed = 0)
       \/ /\ Reported(it, TRUE) /\ it.step = 2 /\ s \in live /\ users[s].regNeed = 1
          /\ it.req.kind # "register" => resultVar[s] = "deleted"

LEMMA SendFlagOf ==
    ASSUME NEW it, NEW err \in BOOLEAN, NEW good \in BOOLEAN
    PROVE  /\ SendFlag(it, err, good) \in {"more", "succeed", "fail"}
           /\ SendFlag(it, err, good) = "more" => ~err /\ it.step = 1
           /\ SendFlag(it, err, good) = "succeed" =>
                 ~err /\ it.step = 2 /\ good /\ it.req.sock \in live /\ users[it.req.sock].regNeed = 1
  BY DEF SendFlag, RegNeed

LEMMA RegisterOutcome ==
    ASSUME Typed, NEW it \in Item, it.req.kind = "register", NEW err \in BOOLEAN,
           RegisterReplyHandle(it, err)
    PROVE  Outcome(it, err)
  <1> DEFINE s == it.req.sock
             good == userVar[s] >= 1
             flag == SendFlag(it, err, good)
  <1>1. s \in Socks /\ users \in [Socks -> UserRec] /\ good \in BOOLEAN
    BY DEF Item, Request, Typed, TypeOK
  <1>2. CASE flag = "more"
    BY <1>1, <1>2, SendFlagOf DEF RegisterReplyHandle, Outcome
  <1>3. CASE flag = "succeed"
    <2>1. Reported(it, TRUE)
      BY <1>3 DEF RegisterReplyHandle, Reply, Reported
    <2> QED BY <1>1, <1>3, <2>1, SendFlagOf DEF Outcome
  <1>4. CASE flag = "fail"
    <2>1. Reported(it, FALSE) /\ SetUser(s, NoNeed(users[s]))
      BY <1>4 DEF RegisterReplyHandle, Reply, Reported
    <2>2. s \in live => users'[s].regNeed = 0
      BY <1>1, <2>1, CountOnly DEF SetUser
    <2> QED BY <2>1, <2>2 DEF Outcome
  <1> QED BY <1>1, <1>2, <1>3, <1>4, SendFlagOf

LEMMA DeleteOutcome ==
    ASSUME Typed, NEW it \in Item, NEW err \in BOOLEAN, DeleteUserInfoReplyHandle(it, err)
    PROVE  Outcome(it, err)
  <1> DEFINE s == it.req.sock
             good == resultVar[s] = "deleted"
             flag == SendFlag(it, err, good)
  <1>1. s \in Socks /\ users \in [Socks -> UserRec] /\ good \in BOOLEAN
    BY DEF Item, Request, Typed, TypeOK
  <1>2. CASE flag = "more"
    BY <1>1, <1>2, SendFlagOf DEF DeleteUserInfoReplyHandle, Outcome
  <1>3. CASE flag = "succeed"
    <2>1. Reported(it, TRUE)
      BY <1>3 DEF DeleteUserInfoReplyHandle, Reply, Reported
    <2> QED BY <1>1, <1>3, <2>1, SendFlagOf DEF Outcome
  <1>4. CASE flag = "fail"
    <2>1. Reported(it, FALSE) /\ SetUser(s, NoNeed(users[s]))
      BY <1>4 DEF DeleteUserInfoReplyHandle, Reply, Reported
    <2>2. s \in live => users'[s].regNeed = 0
      BY <1>1, <2>1, CountOnly DEF SetUser
    <2> QED BY <2>1, <2>2 DEF Outcome
  <1> QED BY <1>1, <1>2, <1>3, <1>4, SendFlagOf

\* A CALL that succeeds for a registration is effective, for a deletion when its
\* result says so; one that fails is not.
CallEffect(it, err) ==
    LET d == it.req.rid
        s == it.req.sock
    IN /\ effective \subseteq effective' /\ effective' \subseteq effective \cup {d}
       /\ ~err /\ it.req.kind = "register" => d \in effective'
       /\ ~err /\ it.req.kind # "register" =>
             resultVar'[s] = IF d \in effective' THEN "deleted" ELSE "nothing"

LEMMA CallReplies ==
    ASSUME Typed, Safe, Safe', Replies, NEW kinds, MysqlFront(kinds, 1), NEW err \in BOOLEAN,
           HandlerEffect(Head(mysqlQueue), err),
           Outcome(Head(mysqlQueue), err), CallEffect(Head(mysqlQueue), err)
    PROVE  Replies'
  <1> DEFINE it == Head(mysqlQueue)  d == it.req.rid  s == it.req.sock
  <1>1. /\ mysqlQueue # <<>> /\ mysqlQueue' = Tail(mysqlQueue) /\ it.step = 1 /\ live' = live
        /\ UNCHANGED <<recvQueue, nextRid, lost>>
    BY DEF MysqlFront
  <1>2. it \in Item /\ d \in 1..MaxReq
    <2>1. 1 \in 1..Len(mysqlQueue) /\ it = mysqlQueue[1]
      BY <1>1, TailItems DEF Typed, TypeOK
    <2> QED BY <2>1, Rids
  <1>3. ackLog[d] = <<>> /\ d \notin effective
    <2>1. 1 \in 1..Len(mysqlQueue) /\ it = mysqlQueue[1]
      BY <1>1, TailItems DEF Typed, TypeOK
    <2> QED BY <1>1, <2>1 DEF Replies, Waiting, Untouched
  <1>4. ackLog' = ackLog \/ Reported(it, FALSE)
    <2>1. it.step # 2
      BY <1>1
    <2> QED BY <2>1, Zenon DEF Outcome
  <1>5. \A r \in 1..MaxReq : r # d => ackLog'[r] = ackLog[r]
    BY <1>2, <1>4, ReportedLog
  <1>6. ackLog'[d] \in {<<>>, <<FALSE>>}
    BY <1>2, <1>3, <1>4, ReportedLog
  <1>7. effective \subseteq effective' /\ \A r \in 1..MaxReq : r # d => (r \in effective' => r \in effective)
    BY DEF CallEffect
  <1>8. Once' /\ Waiting' /\ NothingDropped'
    BY <1>1, <1>5, <1>7, TookReplies
  <1>9. /\ mysqlQueue' # <<>> /\ Head(mysqlQueue').step = 2 /\ Head(mysqlQueue').req = it.req
    BY <1>1, HeadAfter
  <1>10. ASSUME NEW t \in live', users'[t].regNeed = 1
         PROVE  t = s /\ ~err /\ ackLog' = ackLog
    <2>1. t = s
      BY <1>9, <1>10 DEF Safe, RegNeedMeansSelectNext
    <2>2. s \in live /\ users'[s].regNeed = 1
      BY <1>1, <1>10, <2>1
    <2>3. it.step # 2 /\ ~(users'[s].regNeed = 0)
      BY <1>1, <2>2
    <2> QED BY <2>1, <2>2, <2>3, Zenon DEF Outcome
  <1>11. Called'
    BY <1>3, <1>6, <1>9, <1>10 DEF Called, CallEffect
  <1>12. ResultIsOwn'
    <2> SUFFICES ASSUME NEW t \in live', users'[t].regNeed = 1
                 PROVE  IF it.req.kind = "register" THEN <<it.req.acct, userVar'[t]>> \in issued'
                        ELSE resultVar'[t] = IF d \in effective' THEN "deleted" ELSE "nothing"
      BY <1>9 DEF ResultIsOwn
    <2>1. t = s /\ ~err
      BY <1>10
    <2>2. CASE it.req.kind = "register"
      BY <1>9, <2>2 DEF Safe, UserVarIsOwn
    <2>3. CASE it.req.kind # "register"
      BY <2>1, <2>3 DEF CallEffect
    <2> QED BY <2>2, <2>3
  <1>13. AckLogShape'
    BY <1>5, <1>6 DEF Replies, AckLogShape
  <1>14. SuccessIsReal'
    <2> SUFFICES ASSUME NEW r \in 1..MaxReq, NEW k \in DOMAIN ackLog'[r], ackLog'[r][k]
                 PROVE  r \in effective'
      BY DEF SuccessIsReal
    <2>1. CASE r = d
      <3>1. ackLog'[d] = <<>> \/ ackLog'[d] = <<FALSE>>
        BY <1>6
      <3> QED BY <2>1, <3>1, Outcomes
    <2>2. CASE r # d
      BY <1>5, <1>7, <2>2 DEF Replies, SuccessIsReal
    <2> QED BY <2>1, <2>2
  <1> QED BY <1>8, <1>11, <1>12, <1>13, <1>14 DEF Replies

\* A login statement and a SELECT end their request.
LEMMA LastReplies ==
    ASSUME Typed, Safe, Safe', Replies, mysqlQueue # <<>>, mysqlQueue' = Tail(mysqlQueue),
           UNCHANGED <<recvQueue, nextRid, lost>>, effective \subseteq effective',
           effective' \subseteq effective \cup {Head(mysqlQueue).req.rid},
           Head(mysqlQueue).step # 1, NEW ok \in BOOLEAN, Reported(Head(mysqlQueue), ok),
           ok => /\ Head(mysqlQueue).req.rid \in effective'
                 /\ ackLog[Head(mysqlQueue).req.rid] = <<>>,
           ackLog[Head(mysqlQueue).req.rid] \in {<<>>, <<FALSE>>}
    PROVE  Replies'
  <1> DEFINE it == Head(mysqlQueue)  d == it.req.rid
  <1>1. it \in Item /\ d \in 1..MaxReq
    <2>1. 1 \in 1..Len(mysqlQueue) /\ it = mysqlQueue[1]
      BY TailItems DEF Typed, TypeOK
    <2> QED BY <2>1, Rids
  <1>2. /\ \A r \in 1..MaxReq : r # d => ackLog'[r] = ackLog[r]
        /\ ackLog'[d] # <<>>
        /\ ackLog'[d] \in {<<TRUE>>, <<FALSE>>, <<FALSE, FALSE>>}
        /\ ackLog'[d] = <<TRUE>> => ok
    <2>1. CASE ok
      <3>1. ackLog'[d] = <<TRUE>>
        BY <1>1, <2>1, ReportedLog
      <3> QED BY <1>1, <2>1, <3>1, ReportedLog
    <2>2. CASE ~ok
      <3>1. ackLog'[d] = <<FALSE>> \/ ackLog'[d] = <<FALSE, FALSE>>
        BY <1>1, <2>2, ReportedLog
      <3>2. ackLog'[d] # <<TRUE>>
        BY <3>1, Outcomes
      <3> QED BY <1>1, <3>1, <3>2, ReportedLog
    <2> QED BY <2>1, <2>2
  <1>3. Once' /\ Waiting' /\ NothingDropped'
    BY <1>1, <1>2, TookReplies
  <1>4. mysqlQueue' # <<>> => Head(mysqlQueue').step # 2
    BY HeadAfter
  <1>5. Called' /\ ResultIsOwn'
    <2>1. \A t \in live' : users'[t].regNeed # 1
      BY <1>4 DEF Safe, RegNeedMeansSelectNext
    <2> QED BY <1>4, <2>1 DEF Called, ResultIsOwn
  <1>6. AckLogShape'
    BY <1>2 DEF Replies, AckLogShape
  <1>7. SuccessIsReal'
    <2> SUFFICES ASSUME NEW r \in 1..MaxReq, NEW k \in DOMAIN ackLog'[r], ackLog'[r][k]
                 PROVE  r \in effective'
      BY DEF SuccessIsReal
    <2>1. CASE r = d
      <3>1. ackLog'[d] = <<TRUE>> \/ ackLog'[d] = <<FALSE>> \/ ackLog'[d] = <<FALSE, FALSE>>
        BY <1>2
      <3>2. ackLog'[d] = <<TRUE>>
        BY <2>1, <3>1, Outcomes
      <3> QED BY <1>2, <2>1, <3>2
    <2>2. CASE r # d
      BY <1>2, <2>2 DEF Replies, SuccessIsReal
    <2> QED BY <2>1, <2>2
  <1> QED BY <1>3, <1>5, <1>6, <1>7 DEF Replies

------------------------------------------------------------------------------
(* What a request is answered: every step *)

LEMMA MysqlReplies ==
    ASSUME Typed, Safe, Replies, MysqlMsgQueueHandle
    PROVE  Replies'
  <1> DEFINE it == Head(mysqlQueue)  s == it.req.sock  d == it.req.rid
  <1>1. Safe'
    BY MysqlSafe
  <1>2. ASSUME mysqlQueue # <<>>
        PROVE  /\ it \in Item /\ s \in Socks /\ d \in 1..MaxReq /\ it = mysqlQueue[1]
               /\ 1 \in 1..Len(mysqlQueue)
               /\ it.req.kind \in {"login", "register", "delete"} => it.req.acct \in Accts
    <2>1. 1 \in 1..Len(mysqlQueue) /\ it = mysqlQueue[1]
      BY <1>2, TailItems DEF Typed, TypeOK
    <2> QED BY <1>2, <2>1, Rids, MysqlFrontTyped DEF Item, ItemOK, Request, RequestOK
  <1>3. ASSUME mysqlQueue # <<>>, it.step # 2
        PROVE  ackLog[d] = <<>> /\ d \notin effective
    BY <1>2, <1>3 DEF Replies, Waiting, Untouched
  <1>4. CASE MysqlIdle
    <2>1. /\ UNCHANGED <<live, users, recvQueue, mysqlQueue, dbVars, nextRid, ghostVars>>
          /\ mysqlQueue = <<>>
      BY <1>4 DEF MysqlIdle
    <2>2. UNCHANGED <<ackLog, effective, lost, resultVar, userVar, issued>>
      BY <2>1 DEF dbVars, ghostVars
    <2>3. Once' /\ Waiting' /\ NothingDropped'
      BY <2>1, <2>2 DEF Replies, Once, Waiting, Untouched, NothingDropped
    <2>4. Called' /\ ResultIsOwn'
      BY <1>1, <2>1 DEF Safe, RegNeedMeansSelectNext, Called, ResultIsOwn
    <2>5. SuccessIsReal' /\ AckLogShape'
      BY <2>2 DEF Replies, SuccessIsReal, AckLogShape
    <2> QED BY <2>3, <2>4, <2>5 DEF Replies
  <1>5. CASE ExecLoginFault
    <2>1. /\ recvQueue' = <<>> /\ mysqlQueue' = <<>> /\ live' = {}
          /\ UNCHANGED <<ackLog, effective, nextRid>>
          /\ lost' = {r \in 1..MaxReq : r < nextRid /\ ackLog[r] = <<>>}
      BY <1>5 DEF ExecLoginFault
    <2>2. Once' /\ Waiting'
      BY <2>1, EmptySeq DEF Replies, Once, Waiting, Untouched
    <2>3. Called' /\ ResultIsOwn' /\ SuccessIsReal' /\ AckLogShape' /\ NothingDropped'
      BY <2>1 DEF Replies, Called, ResultIsOwn, SuccessIsReal, AckLogShape, NothingDropped
    <2> QED BY <2>2, <2>3 DEF Replies
  <1>6. CASE ExecLogin
    <2>1. /\ mysqlQueue # <<>> /\ it.step = 0 /\ mysqlQueue' = Tail(mysqlQueue)
          /\ LoginReplyHandle(it) /\ UNCHANGED <<recvQueue, nextRid, lost>>
          /\ effective' = IF LoginRow(table, it.req.acct, it.req.pwdOk)
                          THEN effective \cup {d} ELSE effective
      BY <1>6 DEF ExecLogin, MysqlFront
    <2>2. CASE LoginRow(table, it.req.acct, it.req.pwdOk)
      <3>1. Reported(it, TRUE)
        BY <2>1, <2>2 DEF LoginReplyHandle, Reply, Reported
      <3>2. it.step # 1 /\ it.step # 2
        BY <2>1
      <3>3. ackLog[d] = <<>>
        BY <1>3, <2>1, <3>2
      <3>4. effective \subseteq effective' /\ effective' \subseteq effective \cup {d} /\ d \in effective'
        BY <2>1, <2>2
      <3> QED BY <1>1, <2>1, <3>1, <3>2, <3>3, <3>4, LastReplies
    <2>3. CASE ~LoginRow(table, it.req.acct, it.req.pwdOk)
      <3>1. Reported(it, FALSE)
        BY <2>1, <2>3 DEF LoginReplyHandle, Reply, Reported
      <3>2. it.step # 1 /\ it.step # 2
        BY <2>1
      <3>3. ackLog[d] = <<>>
        BY <1>3, <2>1, <3>2
      <3>4. effective \subseteq effective' /\ effective' \subseteq effective \cup {d}
        BY <2>1, <2>3
      <3> QED BY <1>1, <2>1, <3>1, <3>2, <3>3, <3>4, LastReplies
    <2> QED BY <2>2, <2>3
  <1>7. ASSUME NEW err \in BOOLEAN, NEW kinds, MysqlFront(kinds, 2), UNCHANGED effective,
               Outcome(it, err)
        PROVE  Replies'
    <2>1. /\ mysqlQueue # <<>> /\ it.step = 2 /\ it.step # 1 /\ mysqlQueue' = Tail(mysqlQueue)
          /\ UNCHANGED <<recvQueue, nextRid, lost>>
      BY <1>7 DEF MysqlFront
    <2>2. ackLog[d] \in {<<>>, <<FALSE>>}
      BY <2>1 DEF Replies, Called
    <2>3. CASE Reported(it, FALSE)
      BY <1>1, <1>7, <2>1, <2>2, <2>3, LastReplies
    <2>4. CASE /\ Reported(it, TRUE) /\ s \in live /\ users[s].regNeed = 1
               /\ it.req.kind # "register" => resultVar[s] = "deleted"
      <3>1. ackLog[d] = <<>> /\ (it.req.kind = "register" => d \in effective)
        BY <2>1, <2>4 DEF Replies, Called
      <3>2. it.req.kind # "register" =>
               resultVar[s] = IF d \in effective THEN "deleted" ELSE "nothing"
        BY <2>4 DEF Replies, ResultIsOwn
      <3>3. d \in effective
        BY <2>4, <3>1, <3>2
      <3> QED BY <1>1, <1>7, <2>1, <2>2, <2>4, <3>1, <3>3, LastReplies
    <2> QED BY <1>7, <2>1, <2>3, <2>4, Zenon DEF Outcome
  <1>8. CASE ExecRegisterSelect
    <2>1. PICK err \in BOOLEAN :
             /\ MysqlFront({"register"}, 2) /\ it.req.kind = "register" /\ mysqlQueue # <<>>
             /\ RegisterReplyHandle(it, err) /\ UNCHANGED effective
      BY <1>8 DEF ExecRegisterSelect, MysqlFront
    <2> QED BY <1>2, <1>7, <2>1, RegisterOutcome
  <1>9. CASE ExecDeleteSelect
    <2>1. PICK err \in BOOLEAN :
             /\ MysqlFront({"delete", "deleteRange"}, 2) /\ mysqlQueue # <<>>
             /\ DeleteUserInfoReplyHandle(it, err) /\ UNCHANGED effective
      BY <1>9 DEF ExecDeleteSelect, MysqlFront
    <2> QED BY <1>2, <1>7, <2>1, DeleteOutcome
  <1>10. CASE ExecRegisterCall
    <2>1. /\ MysqlFront({"register"}, 1) /\ it.req.kind = "register" /\ mysqlQueue # <<>>
          /\ RegisterReplyHandle(it, FALSE) /\ effective' = effective \cup {d}
      BY <1>10 DEF ExecRegisterCall, MysqlFront
    <2>2. CallEffect(it, FALSE)
      BY <2>1 DEF CallEffect
    <2> QED BY <1>1, <1>2, <2>1, <2>2, RegisterEffect, RegisterOutcome, CallReplies
  <1>11. CASE ExecRegisterTaken \/ ExecRegisterFault
    <2>1. /\ MysqlFront({"register"}, 1) /\ it.req.kind = "register" /\ mysqlQueue # <<>>
          /\ RegisterReplyHandle(it, TRUE) /\ UNCHANGED effective
      BY <1>11 DEF ExecRegisterTaken, ExecRegisterFault, MysqlFront
    <2>2. CallEffect(it, TRUE)
      BY <2>1 DEF CallEffect
    <2> QED BY <1>1, <1>2, <2>1, <2>2, RegisterEffect, RegisterOutcome, CallReplies
  <1>12. CASE ExecDeleteCall
    <2> DEFINE gone == DeleteTargets(it)
    <2>1. /\ MysqlFront({"delete", "deleteRange"}, 1) /\ mysqlQueue # <<>> /\ it.step = 1
          /\ it.req.kind \in {"delete", "deleteRange"}
          /\ DeleteUserInfoReplyHandle(it, FALSE)
          /\ resultVar' = [resultVar EXCEPT ![s] = IF gone = {} THEN "nothing" ELSE "deleted"]
          /\ effective' = IF gone = {} THEN effective ELSE effective \cup {d}
      BY <1>12 DEF ExecDeleteCall, MysqlFront
    <2>2. d \notin effective /\ resultVar'[s] = IF gone = {} THEN "nothing" ELSE "deleted"
      BY <1>2, <1>3, <2>1 DEF Typed, TypeOK
    <2>3. CallEffect(it, FALSE)
      BY <2>1, <2>2 DEF CallEffect
    <2> QED BY <1>1, <1>2, <2>1, <2>3, DeleteEffect, DeleteOutcome, CallReplies
  <1>13. CASE ExecDeleteFault
    <2>1. /\ MysqlFront({"delete", "deleteRange"}, 1) /\ mysqlQueue # <<>>
          /\ DeleteUserInfoReplyHandle(it, TRUE) /\ UNCHANGED effective
      BY <1>13 DEF ExecDeleteFault, MysqlFront
    <2>2. CallEffect(it, TRUE)
      BY <2>1 DEF CallEffect
    <2> QED BY <1>1, <1>2, <2>1, <2>2, DeleteEffect, DeleteOutcome, CallReplies
  <1> QED
    BY <1>4, <1>5, <1>6, <1>8, <1>9, <1>10, <1>11, <1>12, <1>13 DEF MysqlMsgQueueHandle

LEMMA ClientsReplies ==
    ASSUME Typed, Safe, Replies, Clients
    PROVE  Replies'
  <1>1. Quiet /\ UNCHANGED <<mysqlQueue, ackLog, effective, resultVar, lost>>
    BY ClientsQuiet
    DEF Clients, Connect, Disconnect, SendLogin, SendRegister, SendExit, SendDelete,
        SendDeleteRange, Input, Deliver, DeliverNotify, Removed, serverVars, dbVars, ghostVars
  <1>2. Called' /\ ResultIsOwn' /\ SuccessIsReal' /\ AckLogShape'
    BY <1>1, QuietReplies
  <1>3. CASE UNCHANGED <<recvQueue, nextRid>>
    <2>1. Once' /\ Waiting' /\ NothingDropped'
      BY <1>1, <1>3 DEF Replies, Once, Waiting, Untouched, NothingDropped
    <2> QED BY <1>2, <2>1 DEF Replies
  <1>4. ASSUME NEW s \in Socks, NEW kind, NEW acct, NEW ident, NEW p, NEW range,
               Input(s, Msg(s, kind, acct, ident, p, range))
        PROVE  Replies'
    <2>1. Msg(s, kind, acct, ident, p, range).kind = kind
          /\ Msg(s, kind, acct, ident, p, range).rid = IF kind = "exit" THEN 0 ELSE nextRid
      BY DEF Msg
    <2> QED BY <1>2, <1>4, <2>1, InputReplies DEF Replies
  <1>5. ASSUME NEW s \in Socks, Connect(s) \/ Disconnect(s) \/ Deliver(s) \/ DeliverNotify(s)
        PROVE  UNCHANGED <<recvQueue, nextRid>>
    BY <1>5 DEF Connect, Disconnect, Deliver, DeliverNotify, serverVars
  <1>6. ASSUME NEW s \in Socks,
               SendLogin(s) \/ SendRegister(s) \/ SendExit(s) \/ SendDelete(s) \/ SendDeleteRange(s)
        PROVE  \E kind, acct, ident, p, range : Input(s, Msg(s, kind, acct, ident, p, range))
    BY <1>6, Zenon DEF SendLogin, SendRegister, SendExit, SendDelete, SendDeleteRange
  <1> QED BY <1>3, <1>4, <1>5, <1>6 DEF Clients

LEMMA RecvAll ==
    ASSUME Typed, Safe, Replies, RecvMsgQueueHandle
    PROVE  Replies'
  <1>1. Quiet /\ UNCHANGED <<ackLog, effective, resultVar>>
    BY RecvQuiet
    DEF RecvMsgQueueHandle, RecvIdle, LoginRecvHandle, RegisterRecvHandle, ExitSysRecvHandle,
        DeleteUserInfoRecvHandle, RecvFront, dbVars, ghostVars
  <1>2. ASSUME mysqlQueue = <<>>, mysqlQueue' # <<>> PROVE Head(mysqlQueue').step # 2
    <2>1. CASE LoginRecvHandle
      BY <1>2, <2>1 DEF LoginRecvHandle
    <2>2. ASSUME NEW m, NEW my, PushPair(m, my) PROVE Head(mysqlQueue').step # 2
      BY <1>2, <2>2 DEF PushPair
    <2>3. CASE RegisterRecvHandle
      BY <2>2, <2>3 DEF RegisterRecvHandle
    <2>4. CASE DeleteUserInfoRecvHandle
      BY <2>2, <2>4 DEF DeleteUserInfoRecvHandle
    <2> QED BY <1>2, <2>1, <2>3, <2>4 DEF RecvMsgQueueHandle, RecvIdle, ExitSysRecvHandle
  <1> QED BY <1>1, <1>2, QuietReplies, RecvReplies DEF Replies

LEMMA InitReplies == Init => Replies
  <1> SUFFICES ASSUME Init PROVE Replies
    OBVIOUS
  <1>1. /\ Len(recvQueue) = 0 /\ Len(mysqlQueue) = 0 /\ live = {} /\ nextRid = 1 /\ effective = {}
        /\ mysqlQueue = <<>> /\ \A r \in 1..MaxReq : ackLog[r] = <<>>
    BY DEF Init
  <1>2. Once /\ Waiting /\ Called /\ ResultIsOwn
    BY <1>1 DEF Once, Waiting, Untouched, Called, ResultIsOwn
  <1>3. SuccessIsReal /\ AckLogShape /\ NothingDropped
    <2>1. NothingDropped
      BY <1>1 DEF NothingDropped
    <2>2. AckLogShape
      BY <1>1 DEF AckLogShape
    <2>3. SuccessIsReal
      <3>1. \A k \in DOMAIN <<>> : FALSE
        BY Outcomes
      <3> QED BY <1>1, <3>1, Zenon DEF SuccessIsReal
    <2> QED BY <2>1, <2>2, <2>3
  <1> QED BY <1>2, <1>3 DEF Replies

LEMMA NextReplies ==
    ASSUME Typed, Safe, Replies, [Next]_vars
    PROVE  Replies'
  <1>1. CASE UNCHANGED vars
    BY <1>1 DEF vars, serverVars, dbVars, ghostVars, Replies, Once, Waiting, Untouched, Called,
                ResultIsOwn, SuccessIsReal, AckLogShape, NothingDropped
  <1> QED
    BY <1>1, ClientsReplies, RecvAll, MysqlReplies DEF Next, MsgQueueThread

LEMMA RepliesInvariant == Spec => [](Typed /\ Safe /\ Replies)
  <1>1. Init => Typed /\ Safe /\ Replies
    BY InitTyped, InitSafe, InitReplies
  <1>2. (Typed /\ Safe /\ Replies) /\ [Next]_vars => (Typed /\ Safe /\ Replies)'
    BY NextTyped, NextSafe, NextReplies
  <1> QED
    BY <1>1, <1>2, PTL DEF Spec

\* The user variable a SELECT reads is the one its own CALL set, whatever other
\* requests, closed connections and reused socket numbers came between.
THEOREM ResultsAreOwn == Spec => []ResultIsOwn
  BY RepliesInvariant, PTL DEF Replies

\* RegisterReplyHandle, DeleteUserInfoReplyHandle and LoginReplyHandle never
\* report a success that the database did not have.
THEOREM SuccessesAreReal == Spec => []SuccessIsReal
  BY RepliesInvariant, PTL DEF Replies

\* A request is reported on at most twice; twice only as a failure, when its CALL
\* fails and its SELECT is executed all the same.
THEOREM OneOutcome == Spec => []AckLogShape
  BY RepliesInvariant, PTL DEF Replies

\* Between InputMsgQueue and its reply a request is never dropped, unless the
\* server process dies.
THEOREM NoneDropped == Spec => []NothingDropped
  BY RepliesInvariant, PTL DEF Replies
==============================================================================
