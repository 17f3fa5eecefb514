----------------------------- MODULE UserRights -----------------------------
(***************************************************************************)
(* Reading and changing users and their rights.  Each change is two        *)
(* requests of a client: the first reads a user or his rights and leaves   *)
(* what it read in strTmpData of the connection, the second is judged by   *)
(* what is there.  A user is in three places: his row, the record of his   *)
(* connection (m_mUserInfo), and his client.                               *)
(***************************************************************************)
EXTENDS Integers, FiniteSets, SequencesExt

CONSTANTS Users, Accts, NoAcct, NoUser,
          Socks,         \* socket numbers, in the order of m_mUserInfo
          Rights, Grant, \* OperPermission; Grant is the right to change rights
          DefaultRights, \* of each identity
          InitTable,     \* userInfo and userAuthority at the start
          MaxAsk,        \* bound: rights asked for in one request
          MaxReq, MaxFaults \* bounds: requests sent, statements that fail

VARIABLES
    table,   \* the rows: account, identity, rights in the order they are stored
    sess,    \* m_mUserInfo: what the server remembers of a connection
    client,  \* what the client at its other end knows, and where it is
    queue,   \* m_RecvMsgQueue
    stmts,   \* m_MysqlMsgQueue
    inbox,   \* for each client, the answers on their way
    reqs, faults,
    touched, \* ghost: users whose row another user changed since they logged in
    renamed  \* ghost: somebody has changed the account of somebody else

vars == <<table, sess, client, queue, stmts, inbox, reqs, faults, touched, renamed>>

Row == [acct : Accts, ident : 1..3, rights : Seq(Rights)]

\* The installation has one administrator.
ASSUME RightsAssumption ==
    /\ Socks \subseteq Nat /\ Grant \in Rights /\ NoAcct \notin Accts /\ NoUser \notin Users
    /\ DefaultRights \in [1..3 -> Seq(Rights)]
    /\ \A i \in 1..2 : Grant \notin Range(DefaultRights[i])
    /\ InitTable \in [Users -> Row]
    /\ \A u, v \in Users : InitTable[u].acct = InitTable[v].acct => u = v
    /\ \A u, v \in Users : InitTable[u].ident = 3 /\ InitTable[v].ident = 3 => u = v
    /\ \A u \in Users : Grant \in Range(InitTable[u].rights) => InitTable[u].ident = 3
    /\ MaxReq \in Nat /\ MaxFaults \in Nat

\* strTmpData: empty, the rights of a user, or a user's identity and account.
\* user and, for rights, acct are ghosts: whose they are.
Tmp == [kind : {"none", "rights", "user"}, rights : Seq(Rights), ident : 0..3,
        acct : Accts \cup {NoAcct}, user : Users \cup {NoUser}]

NoTmp == [kind |-> "none", rights |-> <<>>, ident |-> 0, acct |-> NoAcct, user |-> NoUser]

\* A change of a user: a new account, a new identity (0 for none), or another field.
NoChange == [acct |-> NoAcct, ident |-> 0]
Change == [acct : Accts \cup {NoAcct}, ident : 0..3]

Kinds == {"get", "edit", "select", "update"}

\* A request and the statement it becomes.  by, the user who sent it, and user,
\* whose row it was judged by, are ghosts.
Message == [kind : Kinds, sock : Socks, by : Users, acct : Accts, type : 1..2, keep : BOOLEAN,
            asked : Seq(Rights), change : Change,
            rights : Seq(Rights), own : BOOLEAN, user : Users \cup {NoUser}]

Ack == [kind : Kinds, ok : BOOLEAN, acct : Accts, type : 1..2, keep : BOOLEAN,
        list : SUBSET Rights, ident : 0..3]

Session == [user : Users \cup {NoUser}, acct : Accts \cup {NoAcct}, ident : 0..3,
            rights : Seq(Rights), tmp : Tmp]

Client == [state : {"off", "idle", "wait"}, acct : Accts \cup {NoAcct}, ident : 0..3,
           rights : Seq(Rights), change : Change]

Nobody == [user |-> NoUser, acct |-> NoAcct, ident |-> 0, rights |-> <<>>, tmp |-> NoTmp]
Off == [state |-> "off", acct |-> NoAcct, ident |-> 0, rights |-> <<>>, change |-> NoChange]

\* The row of an account, if there is one.
Holders(a) == {u \in Users : table[u].acct = a}

\* The first record with this account, if there is one: SetAuthorityByAccount and
\* SetNewAccountByAccount stop there.
FirstWith(a) ==
    {s \in Socks : sess[s].acct = a /\ \A t \in Socks : sess[t].acct = a => s <= t}

LoggedIn(s) == sess[s].user # NoUser
SetTmp(s, v) == sess' = IF LoggedIn(s) THEN [sess EXCEPT ![s].tmp = v] ELSE sess
Send(s, ack) ==
    inbox' = IF LoggedIn(s) THEN [inbox EXCEPT ![s] = Append(@, ack)] ELSE inbox

------------------------------------------------------------------------------
(* Rights *)

\* Mutant of Listed: the right to change rights can be added as well.
ListedWithGrant(rights, type) ==
    IF rights = <<>> THEN {}
    ELSE IF type = 1 THEN Range(rights) ELSE Rights \ Range(rights)

\* GetAuthorityByStrAuthority: what can be deleted (type 1) or added (type 2).
Listed(rights, type) ==
    IF rights = <<>> THEN {}
    ELSE IF type = 1 THEN Range(rights)
    ELSE Rights \ (Range(rights) \cup {Grant})

\* Mutant of Edited: a deletion takes all of its kind.
EditedAll(rights, type, asked) ==
    IF type = 1 THEN SelectSeq(rights, LAMBDA x : x \notin Range(asked)) ELSE rights \o asked

\* The rights after an edit: each deletion takes the first of its kind.
Edited(rights, type, asked) ==
    LET left[n \in 0..Len(asked)] == IF n = 0 THEN rights ELSE RemoveFirst(left[n - 1], asked[n])
    IN IF type = 1 THEN left[Len(asked)] ELSE rights \o asked

Asked == UNION {[1..n -> Rights] : n \in 1..MaxAsk}

\* Mutant of MayChange: any identity can be given.
MayChangeToAdmin(ident, own, of, change) ==
    /\ own \/ ident > of
    /\ change.ident # 0 => ident = 3 /\ ~own

\* GetCanUpdateField, for the fields that matter here.
MayChange(ident, own, of, change) ==
    /\ own \/ ident > of
    /\ change.ident # 0 => ident = 3 /\ ~own /\ change.ident # 3

------------------------------------------------------------------------------
(* The clients *)

\* LoginReplyHandle and LoginRecvHandle of the client, in one: the row is read
\* when all that connections that have ended had queued is done, by an account
\* nobody is logged in with; ServerSession has the rest.  A client whose user has no
\* rights goes back to its first screen.
Login(s, u) ==
    /\ client[s].state = "off"
    /\ \A q \in {queue, stmts} : \A i \in DOMAIN q : LoggedIn(q[i].sock)
    /\ \A t \in Socks : sess[t].acct # table[u].acct /\ sess[t].user # u
    /\ table[u].rights # <<>>
    /\ sess' = [sess EXCEPT ![s] = [user |-> u, acct |-> table[u].acct, ident |-> table[u].ident,
                                    rights |-> table[u].rights, tmp |-> NoTmp]]
    /\ client' = [client EXCEPT ![s] = [state |-> "idle", acct |-> table[u].acct,
                                        ident |-> table[u].ident, rights |-> table[u].rights,
                                        change |-> NoChange]]
    /\ touched' = touched \ {u}
    /\ UNCHANGED <<table, queue, stmts, inbox, reqs, faults, renamed>>

Leave(s) ==
    /\ client[s].state # "off"
    /\ client' = [client EXCEPT ![s] = Off]
    /\ sess' = [sess EXCEPT ![s] = Nobody]
    /\ inbox' = [inbox EXCEPT ![s] = <<>>]
    /\ UNCHANGED <<table, queue, stmts, reqs, faults, touched, renamed>>

\* The fields a request does not use have these values.
NewMessage(s, kind, a) ==
    [kind |-> kind, sock |-> s, by |-> sess[s].user, acct |-> a, type |-> 1, keep |-> FALSE,
     asked |-> <<>>, change |-> NoChange, rights |-> <<>>, own |-> FALSE, user |-> NoUser]

Request(r) ==
    /\ reqs < MaxReq /\ reqs' = reqs + 1
    /\ queue' = Append(queue, r)

Begin(s, r) ==
    /\ client[s].state = "idle"
    /\ Request(r)
    /\ client' = [client EXCEPT ![s].state = "wait"]
    /\ UNCHANGED <<table, sess, stmts, inbox, faults, touched, renamed>>

\* GetAuthoritbyAfterEditAuthoritbyChooseHandle, for whoever has the right.
AskRights(s) ==
    /\ Grant \in Range(client[s].rights)
    /\ \E a \in Accts, type \in 1..2 : Begin(s, [NewMessage(s, "get", a) EXCEPT !.type = type])

\* GetUserInfoAfterUpdateSingleUserInfoChooseHandle (keep), or the same request
\* from the screen that only shows users: a student asks for himself.
AskUser(s) ==
    \E a \in Accts, keep \in BOOLEAN :
        /\ client[s].ident = 1 => a = client[s].acct
        /\ Begin(s, [NewMessage(s, "select", a) EXCEPT !.keep = keep])

Take(s, kind) ==
    /\ inbox[s] # <<>> /\ Head(inbox[s]).kind = kind
    /\ inbox' = [inbox EXCEPT ![s] = Tail(@)]
    /\ UNCHANGED <<table, sess, stmts, faults, touched, renamed>>

GiveUp(s) ==
    /\ client' = [client EXCEPT ![s].state = "idle", ![s].change = NoChange]
    /\ UNCHANGED <<queue, reqs>>

\* EditAuthoritChooseHandle: the user types any rights, or nothing valid.
EditAuthoritChoose(s) ==
    /\ Take(s, "get")
    /\ LET ack == Head(inbox[s])
       IN \/ GiveUp(s)
          \/ /\ ack.ok /\ ack.list # {}
             /\ \E asked \in Asked :
                   Request([NewMessage(s, "edit", ack.acct) EXCEPT !.type = ack.type,
                                                                   !.asked = asked])
             /\ UNCHANGED client

EditAuthoritAnswer(s) == Take(s, "edit") /\ GiveUp(s)

\* UpdateSingleUserInfoByOneFieldChooseHandle: one field the user picks.
OneField(identToo) ==
    {NoChange} \cup [acct : Accts, ident : {0}]
               \cup [acct : {NoAcct}, ident : IF identToo THEN 1..3 ELSE {}]

\* UpdateSingleUserInfoByFixedFieldChooseHandle: all fields he may change.
FixedFields(identToo) == [acct : Accts, ident : IF identToo THEN 1..3 ELSE {0}]

UpdateChoose(s) ==
    /\ Take(s, "select")
    /\ LET ack == Head(inbox[s])
           me == client[s]
           own == ack.ident = me.ident /\ ack.acct = me.acct
           identToo == me.ident = 3 /\ ~own
       IN \/ GiveUp(s)
          \/ /\ ack.ok /\ ack.keep
             /\ own \/ me.ident > ack.ident
             /\ \E change \in OneField(identToo) \cup FixedFields(identToo) :
                   /\ Request([NewMessage(s, "update", ack.acct) EXCEPT !.change = change])
                   /\ client' = [client EXCEPT ![s].change = change]

\* UpdateSingleUserInfoRecvHandle of the client: its own new account.
UpdateAnswer(s) ==
    /\ Take(s, "update")
    /\ LET ack == Head(inbox[s])
           new == client[s].change.acct
       IN client' = [client EXCEPT
              ![s].state = "idle", ![s].change = NoChange,
              ![s].acct = IF ack.ok /\ @ = ack.acct /\ new # NoAcct THEN new ELSE @]
    /\ UNCHANGED <<queue, reqs>>

------------------------------------------------------------------------------
(* The server: requests *)

\* The answer to a request or statement.
Answer(r, ok) == [kind |-> r.kind, ok |-> ok, acct |-> r.acct, type |-> r.type, keep |-> r.keep,
                  list |-> {}, ident |-> 0]

RecvFront(kind) ==
    /\ queue # <<>> /\ Head(queue).kind = kind
    /\ queue' = Tail(queue)
    /\ UNCHANGED <<table, client, reqs, faults, touched, renamed>>

GetAuthoritRecvHandle ==
    /\ RecvFront("get")
    /\ stmts' = Append(stmts, Head(queue))
    /\ UNCHANGED <<sess, inbox>>

EditAuthoritRecvHandle ==
    /\ RecvFront("edit")
    /\ LET r == Head(queue)
           tmp == sess[r.sock].tmp
       IN /\ SetTmp(r.sock, NoTmp)
          /\ \/ /\ Range(r.asked) \subseteq Listed(tmp.rights, r.type)
                /\ stmts' = Append(stmts, [r EXCEPT !.rights = Edited(tmp.rights, r.type, r.asked),
                                                    !.user = tmp.user])
                /\ UNCHANGED inbox
             \/ /\ ~(Range(r.asked) \subseteq Listed(tmp.rights, r.type))
                /\ Send(r.sock, Answer(r, FALSE))
                /\ UNCHANGED stmts

SelectSingleUserInfoRecvHandle ==
    /\ RecvFront("select")
    /\ stmts' = Append(stmts, Head(queue))
    /\ LET r == Head(queue)
       IN IF r.keep THEN SetTmp(r.sock, NoTmp) ELSE UNCHANGED sess
    /\ UNCHANGED inbox

UpdateSingleUserInfoRecvHandle ==
    /\ RecvFront("update")
    /\ LET r == Head(queue)
           me == sess[r.sock]
           own == me.ident = me.tmp.ident /\ me.acct = me.tmp.acct
           may == me.tmp.kind = "user" /\ MayChange(me.ident, own, me.tmp.ident, r.change)
       IN /\ SetTmp(r.sock, NoTmp)
          /\ \/ /\ may
                /\ stmts' = Append(stmts, [r EXCEPT !.own = own])
                /\ UNCHANGED inbox
             \/ /\ ~may
                /\ Send(r.sock, Answer(r, FALSE))
                /\ UNCHANGED stmts

------------------------------------------------------------------------------
(* The server: statements and their replies *)

MysqlFront(kind) ==
    /\ stmts # <<>> /\ Head(stmts).kind = kind
    /\ stmts' = Tail(stmts)
    /\ UNCHANGED <<client, queue, reqs>>

\* Every reply handler looks at bExecute first.
ExecFault ==
    /\ faults < MaxFaults /\ faults' = faults + 1
    /\ \E kind \in Kinds : MysqlFront(kind)
    /\ Send(Head(stmts).sock, Answer(Head(stmts), FALSE))
    /\ UNCHANGED <<table, sess, touched, renamed>>

\* Mutant of Kept: only a deletion keeps the rights it has read.
KeptToDelete(st, u) ==
    IF table[u].rights = <<>> THEN NoTmp
    ELSE IF st.type = 1 THEN [NoTmp EXCEPT !.kind = "rights", !.rights = table[u].rights,
                                           !.acct = st.acct, !.user = u]
    ELSE sess[st.sock].tmp

\* What GetAuthoritReplyHandle leaves in strTmpData; no rights are an empty string.
Kept(st, u) ==
    IF table[u].rights = <<>> THEN NoTmp
    ELSE [NoTmp EXCEPT !.kind = "rights", !.rights = table[u].rights,
                       !.acct = st.acct, !.user = u]

GetAuthoritReplyHandle ==
    /\ MysqlFront("get")
    /\ LET st == Head(stmts)
       IN \/ /\ Holders(st.acct) = {}
             /\ Send(st.sock, Answer(st, FALSE))
             /\ UNCHANGED sess
          \/ \E u \in Holders(st.acct) :
                /\ SetTmp(st.sock, Kept(st, u))
                /\ Send(st.sock, [Answer(st, TRUE) EXCEPT !.list = Listed(table[u].rights, st.type)])
    /\ UNCHANGED <<table, faults, touched, renamed>>

\* No rights leave the record of the statement one item short, which the handler
\* takes for an error although the row has been changed.
EditAuthoritReplyHandle ==
    /\ MysqlFront("edit")
    /\ LET st == Head(stmts)
       IN /\ table' = [u \in Users |-> IF u \in Holders(st.acct)
                                       THEN [table[u] EXCEPT !.rights = st.rights] ELSE table[u]]
          /\ sess' = [s \in Socks |-> IF st.rights # <<>> /\ s \in FirstWith(st.acct)
                                      THEN [sess[s] EXCEPT !.rights = st.rights] ELSE sess[s]]
          /\ Send(st.sock, Answer(st, st.rights # <<>>))
    /\ UNCHANGED <<faults, touched, renamed>>

SelectSingleUserInfoReplyHandle ==
    /\ MysqlFront("select")
    /\ LET st == Head(stmts)
           me == sess[st.sock]
           Seen(u) == me.ident > table[u].ident \/ (me.ident = table[u].ident /\ me.acct = st.acct)
       IN \/ /\ \A u \in Holders(st.acct) : ~Seen(u)
             /\ Send(st.sock, Answer(st, FALSE))
             /\ UNCHANGED sess
          \/ \E u \in Holders(st.acct) :
                /\ Seen(u)
                /\ IF st.keep
                   THEN SetTmp(st.sock, [NoTmp EXCEPT !.kind = "user", !.ident = table[u].ident,
                                                      !.acct = st.acct, !.user = u])
                   ELSE UNCHANGED sess
                /\ Send(st.sock, [Answer(st, TRUE) EXCEPT !.ident = table[u].ident])
    /\ UNCHANGED <<table, faults, touched, renamed>>

\* UpdateSingleUserInfoByAccount.
Changed(row, change) ==
    [acct |-> IF change.acct = NoAcct THEN row.acct ELSE change.acct,
     ident |-> IF change.ident = 0 THEN row.ident ELSE change.ident,
     rights |-> IF change.ident = 0 THEN row.rights ELSE DefaultRights[change.ident]]

\* Mutant of Renamed: the record keeps the old account.
RenamedNot(st) == FALSE

\* SetNewAccountByAccount is called for one's own new account.
Renamed(st) == st.own /\ st.change.acct # NoAcct

\* Mutant of Taken: accounts need not be unique.
TakenNever(st) == FALSE

\* The new account belongs to another row: the key of userInfo refuses it.
Taken(st) ==
    st.change.acct # NoAcct /\ Holders(st.acct) # {}
    /\ ~(Holders(st.change.acct) \subseteq Holders(st.acct))

\* A row that is not there any more is a success.
UpdateSingleUserInfoReplyHandle ==
    /\ MysqlFront("update")
    /\ LET st == Head(stmts)
           of == Holders(st.acct)
       IN \/ /\ Taken(st)
             /\ Send(st.sock, Answer(st, FALSE))
             /\ UNCHANGED <<table, sess, touched, renamed>>
          \/ /\ ~Taken(st)
             /\ table' = [u \in Users |-> IF u \in of THEN Changed(table[u], st.change)
                                          ELSE table[u]]
             /\ touched' = IF st.own \/ st.change = NoChange THEN touched ELSE touched \cup of
             /\ renamed' = (renamed \/ (~st.own /\ of # {} /\ st.change.acct \notin {NoAcct, st.acct}))
             /\ sess' = [s \in Socks |-> IF Renamed(st) /\ s \in FirstWith(st.acct)
                                         THEN [sess[s] EXCEPT !.acct = st.change.acct]
                                         ELSE sess[s]]
             /\ Send(st.sock, Answer(st, TRUE))
    /\ UNCHANGED faults

------------------------------------------------------------------------------
Init ==
    /\ table = InitTable
    /\ sess = [s \in Socks |-> Nobody] /\ client = [s \in Socks |-> Off]
    /\ queue = <<>> /\ stmts = <<>> /\ inbox = [s \in Socks |-> <<>>]
    /\ reqs = 0 /\ faults = 0 /\ touched = {} /\ renamed = FALSE

Clients ==
    \E s \in Socks :
        \/ \E u \in Users : Login(s, u)
        \/ Leave(s) \/ AskRights(s) \/ AskUser(s)
        \/ EditAuthoritChoose(s) \/ EditAuthoritAnswer(s) \/ UpdateChoose(s) \/ UpdateAnswer(s)

MsgQueueThread ==
    \/ GetAuthoritRecvHandle \/ EditAuthoritRecvHandle
    \/ SelectSingleUserInfoRecvHandle \/ UpdateSingleUserInfoRecvHandle
    \/ GetAuthoritReplyHandle \/ EditAuthoritReplyHandle
    \/ SelectSingleUserInfoReplyHandle \/ UpdateSingleUserInfoReplyHandle \/ ExecFault

Next == Clients \/ MsgQueueThread

Spec == Init /\ [][Next]_vars

------------------------------------------------------------------------------
(* Properties *)

\* Every variable holds values of its kind, and accounts are unique.
TypeOK ==
    /\ table \in [Users -> Row]
    /\ \A u, v \in Users : table[u].acct = table[v].acct => u = v
    /\ sess \in [Socks -> Session] /\ client \in [Socks -> Client]
    /\ \A s \in Socks : client[s].state = "off" <=> sess[s].user = NoUser
    /\ queue \in Seq(Message) /\ stmts \in Seq(Message)
    /\ inbox \in [Socks -> Seq(Ack)] /\ \A s \in Socks : Len(inbox[s]) <= 1
    /\ reqs \in 0..MaxReq /\ faults \in 0..MaxFaults
    /\ touched \subseteq Users /\ renamed \in BOOLEAN

\* AuthorityProc.cpp:68 and UserInfoProc.cpp:308: strTmpData serves both
\* operations, and neither takes from it what the other, or an earlier operation
\* on another user, has left there.
SnapshotIsOwn ==
    queue # <<>> =>
        LET r == Head(queue)
            tmp == sess[r.sock].tmp
        IN /\ r.kind = "edit" => tmp = NoTmp \/ (tmp.kind = "rights" /\ tmp.acct = r.acct)
           /\ r.kind = "update" => tmp = NoTmp \/ (tmp.kind = "user" /\ tmp.acct = r.acct)

\* How often a right is stored.
Times(rights, x) == Cardinality({i \in DOMAIN rights : rights[i] = x})

\* AuthorityProc.cpp:126 writes back all the rights of a user, computed from what
\* an earlier request read.  As long as the account still names that user, the
\* row changes by what was asked for and nothing else: a right is stored as often
\* as before, and once more, or once less, for each time it was asked for.  This
\* needs a single user who may change rights, so it is said until somebody's
\* account is changed by somebody else.
EditKeepsOthers ==
    [][\A u \in Users :
          /\ ~renamed /\ table'[u].rights # table[u].rights
          /\ stmts # <<>> /\ Head(stmts).kind = "edit" /\ Head(stmts).user = u
          => \A x \in Rights :
                LET n == Times(table[u].rights, x)
                    k == Times(Head(stmts).asked, x)
                IN Times(table'[u].rights, x) =
                      IF Head(stmts).type = 2 THEN n + k ELSE IF k < n THEN n - k ELSE 0]_vars

\* UserInfoMgr.cpp:637, and UpdateUserInfoSysProc.cpp:253, "there is only one
\* administrator": whatever rights are edited and identities changed, only an
\* administrator has the right to change rights, and no sequence of changes makes
\* another administrator, or the one something else.  Until somebody's account is
\* changed by somebody else: from then on a session and a request may go by an
\* account that has become another user's.
OnlyAdminGrants ==
    ~renamed =>
        /\ \A u \in Users : table[u].ident = 3 <=> InitTable[u].ident = 3
        /\ \A u \in Users : Grant \in Range(table[u].rights) => table[u].ident = 3
        /\ \A s \in Socks : Grant \in Range(sess[s].rights) => sess[s].ident = 3

\* UserInfoMgr.cpp:254 finds a record by the account that was in the statement.
\* Until somebody's account is changed by somebody else, a record goes by the
\* account of its user's row, and so does, once it has the answer, his client.
\* Unless somebody else has changed the row, it has the row's identity and rights as
\* well, except that rights that have all been deleted stay in the record.
SessionFollows ==
    ~renamed =>
        \A s \in Socks : LoggedIn(s) =>
            LET row == table[sess[s].user]
            IN /\ sess[s].acct = row.acct
               /\ inbox[s] = <<>> => client[s].acct = row.acct
               /\ sess[s].user \notin touched =>
                     /\ sess[s].ident = row.ident
                     /\ row.rights # <<>> => sess[s].rights = row.rights
==============================================================================
