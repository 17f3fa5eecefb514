# A verification development for StudentManageSysSerClient

The repository holds a student management system in C++ for Windows: a server
(`src/StudMangeSysServer`) that keeps users and scores in a MySQL database
(`src/msyql文件`), and a console client (`src/StudMangeSysClient`). This directory
holds TLA+ models of the parts that are concurrent or keep state over several
messages, TLC configurations that check them on small instances, and proofs,
checked by TLAPS, of most of what those runs check.

Paths below are relative to `src/StudMangeSysServer/StudMangeSysServer` (server,
S), `src/StudMangeSysClient/StudMangeSysClient` (client, C) and `src/msyql文件` (Q).

## 1. The system

### How a request runs

    client user -> screen -> TCP -> IOCP worker -> m_RecvMsgQueue
       ^                                              | MsgQueueThread: ...RecvHandle
       |                                              v
    RecvThread <- TCP <- ...ReplyHandle <- statement <- m_MysqlMsgQueue

A worker thread of the completion port unpacks a message and pushes it on
`m_RecvMsgQueue`. One thread, `MsgQueueThread`, alternates: it takes one message
and runs its `...RecvHandle`, which only queues SQL statements; then it takes
one statement, executes it and runs its `...ReplyHandle`, which sends the answer.
So a request is at least two steps, and a registration or a deletion, which is a
CALL and a SELECT of its out parameter, three. Between the steps other requests
run, connections close, and their socket numbers are handed out again. What a
handler needs later travels with the statement (`strRecord`) or stays in the
record of the connection in `m_mUserInfo`, found by socket number.

### Components

**Pipeline of the server** (`MsgHandle/`, `MysqlSys/`). State: the two queues.
Operations: `InputMsgQueue` and `MsgQueueHandle` of each. An empty statement is
refused by `MysqlMgr::InputMsgQueue`. Correct when every request that is taken
in is executed in order, both halves of a pair, and answered.

**Sessions** (`ProcManager/EnterSysProc`, `UserInfo/UserInfoMgr`,
`Common/NetDef.h`). State: `m_mUserInfo`, per socket the account, user id,
identity, rights, `sRegNeedCount` (did the CALL before this SELECT succeed) and
`strTmpData` (what one request leaves for the next). Operations: login,
registration, exit, forced exit. Correct when a session is a row of the database,
and each request takes from the record only what is its own.

**Users** (`ProcManager/UserInfoProc`). Selection, update, addition, deletion, one
or many at a time. A client selects first, the server remembers in
`strTmpData` what it has shown, and judges the update by it. A selection of many
is answered in pages. Correct when counts and answers tell what the database did,
a list is shown whole and in order to whoever asked for it, and nobody raises
himself.

**Rights** (`ProcManager/AuthorityProc`). The same two steps for the rights of a
user. Correct when an edit changes what was asked for, and the right to change
rights stays with the administrator.

**Subjects and scores** (`UserInfo/SubjectsMgr`, `ProcManager/ScoreProc`). A
subject is a column of `studScore`, listed in `m_vExistSubjects`. Operations:
list, add and drop subjects; add, select, update, delete scores. Correct when the
list is the columns, an account has one row, and a score changes only by who
names it.

**Database** (Q). `userInfo`, `userAuthority`, `studScore` and stored procedures
without transactions, so that a failing one leaves part of its work.

**Connections and locks** (`NetSys/NetSysMgr`, `Tools/LockTools.h`). The accept
loop makes records, the workers remove them, the queue thread writes to them;
`BaseLock` is meant to exclude them from one another. Correct when every
connection has its record until it is closed and no buffer is used after it is
freed.

**Client screens** (`ProcHandle/BaseProc`, `ProcMgr` and the fourteen `...SysProc`
classes, `ProcRun/APPRun`). Two threads: `Notify` starts the screen to be shown,
which asks the user and sends; `RecvThread` gives an answer to whichever screen has
`m_IsRunning`. An operation is one to three requests. Correct when one screen runs,
each answer reaches the one that asked, a user gets the choices of his own rights
only, and is always asked again.

**Client batches** (`AddUserInfoSysProc`, `AddScoreSysProc`). A file is sent a part
at a time; the answer to a part asks for the next. Correct when every part is
answered and the client's count is the database's.

**The stream** (C `NetSys/TCPHandle`). `RecvThread` reads a message off each `recv`.
Correct when every message is handled once, in order.

**Text tools** (`Tools/StringTool`, `Tools/CheckTool`, in S and C). Lists of numbers
travel as text: the record of a statement, rights, subjects, conditions. Correct
when a list that is written and read again is the same.

**Not modelled.** Wire packing as bytes (messages are records here), headers and
bodies that are cut in two, and the stream of requests; the conversions and
checks of text that no selection uses; file reading; creation of threads and
listening sockets; `InitMoniter`'s registration of handlers; the getters and
setters of `UserInfoMgr` that no handler calls; `str_spilt` (Q); the `@curRank`
order that MySQL gives a list of equal totals; everything printed. The rest of the
repository, most of its lines, is MySQL's headers (`MysqlLib/`) and project files.
`PROJECT.json` says this per component.

### What is hard here

Interleaving of requests of several connections between a handler and its
reply; state of a socket number that outlives its connection; three shared
fields (`sRegNeedCount`, `strTmpData`, `@userid_by_scoket_N`) with several users;
stale lists at the clients; procedures that fail half way; a process that dies
on a failed login statement; a lock that excludes nobody; two client threads
that hand a flag back and forth; an answer of several messages on a stream that
keeps no boundaries, judged row by row by a session that may change; part and
page numbers in a byte. `PROJECT.json` `hazards` lists them at their lines, with
the properties that are about them.

## 2. Modules

| module | models | extends / uses |
|---|---|---|
| `UserTable` | `userInfo`, `userAuthority`, who may delete whom | |
| `SessionBook` | abstract: accounts opened, connections bound | |
| `ServerSession` | queues, sessions, login, registration, exit, deletion | `UserTable`, refines `SessionBook` |
| `ServerSession_proofs` | theorems about sessions, the book and the replies | `ServerSession`, `TLAPS` |
| `UserRights` | selection and update of a user, reading and editing rights | |
| `UserRights_proofs` | theorems about it | `UserRights`, `Ordering_proofs` |
| `ConnTable` | `m_mUserInfo` and its threads, access by access | |
| `ConnTable_proofs` | theorems about it | `ConnTable`, `TLAPS` |
| `BatchAdd` | the batch of users and of scores, and one user, client and server | `Ordering` |
| `BatchAdd_proofs` | theorems about it | `BatchAdd`, `Ordering_proofs` |
| `ScreenTable` | the fourteen screens: what each offers and sends, where it leads | |
| `ClientScreens` | the client's two threads on these screens | `ScreenTable` |
| `ClientScreens_proofs` | theorems about it | `ClientScreens`, `Ordering_proofs` |
| `ScoreTable` | subjects and scores of one account | `Ordering` |
| `ScoreTable_proofs` | theorems about it | `ScoreTable`, `Ordering_proofs` |
| `TextTools` | splitting, joining, converting and checking of text | |
| `SelectBatch` | the selection of many users and of many scores, its pages and the stream | `TextTools` |
| `SelectBatch_proofs` | theorems about it | `SelectBatch`, `Ordering_proofs` |
| `Ordering` | a set of numbers in order, as a `std::map` is iterated over | |
| `Ordering_proofs` | lemmas about it, about least elements, queues and sets | `Ordering`, `TLAPS` |
| `MC*` | small instances | the module they name |

Each definition's source lines are in `PROJECT.json` `map`.

### ServerSession

`live` and `users` are `m_mUserInfo`; `recvQueue`, `mysqlQueue` the queues; `turn`
the half of its loop `MsgQueueThread` is in. `table`, `nextId`, `userVar` (the
variable `@userid_by_scoket_N`) and `resultVar` are the database and its
connection. `out` and `client` are what has been sent and what each client waits
for. The ghosts `issued`, `effective`, `ackLog`, `lost`, `faults` record history for
the properties. Each `...RecvHandle` is an action; each statement with its
`...ReplyHandle` is an action, with one more for each way it can fail:
`ExecRegisterTaken`, `ExecRegisterFault` (before the first or between the two
inserts), `ExecDeleteFault` (some users gone, one half gone), and
`ExecLoginFault`, where `LoginReplyHandle` passes a null result to
`mysql_num_rows` (EnterSysProc.cpp:124), the process dies and a new one starts
with the tables it finds. `SendFlag` is `bSendFlag`. `Sent` loses a message to a
closed socket and gives one to a number handed out again to its new owner, as
`send` does. Rights are abstracted to "has a row", "may delete".

A number is handed out again in any state of the queues. `SelectBatch` and
`UserRights`, which are about other things, are narrower: in `SelectBatch` a new
connection comes when no login of the number's last one is on its way, in
`UserRights` a user logs in when nothing of connections that have ended is.

`SessionBook` says the same without queues: a book of `<<account, user id>>` ever
opened, ids growing, and what each connection is bound to. `ImplementsBook` maps
`issued` and `BoundTo` to it.

### ConnTable

One action per access of the code between which another thread may run: find,
lock, insert, assign, close, free, erase. `phd` and `pio` are the buffers, `table` and
`mem` the map: the node of a number, and what is at the node's address; `iter` is the
iterator a worker found, `io` the outstanding receive. `Lock` does what `BaseLock`
does: it enters a copy of `_critical`, so it never waits; `section` and `copies`
record both. `Put` is `m_mUserInfo[socketId]`, which makes a record that is not there.

A number is free once it is closed (`NumberFree`): `RemoveInfoBySocketId` closes it
(UserInfoMgr.cpp:116) before it frees and erases the record (to 122), and nothing
keeps the system from handing it out in between. The ghost `lapped` becomes true
when that has happened. From then on two workers may remove records of one number,
and free, erase or close through an iterator whose node is gone. The model follows
the program there as long as memory keeps what it held: an erased node until the
allocator makes another at its address, a freed buffer for ever; a receive posted
on a number that is no longer the connection's counts as failed.

### BatchAdd

One client that adds a file in parts, `oper` fixed for a behaviour: users or
scores, which share the client's code and differ in the handlers, or one user that
is typed (`single`), which is a part of one row without the counts. Rows are of
four kinds by what will become of them; an account that is there already is one the
database takes, as `AddSingleUserInfo` reports it. `tmp` is `strTmpData` of the
connection (total, this part), `added` a ghost that counts per part what the
database took, and `AddedIn` sums it over a batch of up to `MaxPart` parts.
`NumberWrap` is the range of `bRecordNO`.

### ScreenTable and ClientScreens

`ScreenTable` is `initMapChoose` of each class and the requests its operations are
made of: an operation is a sequence of kinds of requests, of which `StartRecv` asks
for the next when the answer to one has come (`NextKind`). `ClientScreens` is
`BaseProc`, `ProcMgr` and `APPRun` on that table. `proc` holds the data members
`m_IsShow`, `m_IsRunning`, `m_iEndFlag`, the error count, the operation and the
choice of each screen; `pc` and `at` the place of each thread; `rights` is
`m_vOperPer`. `EndRecv` is a check, two writes and a switch, each an action: the
other thread may run between them. Both threads may ask the user
(`SwitchToOper`), and a second bad input ends the screen in either. The server
answers each request with a failure, a success or pages (`Answer`), keeps a
`session`, and may tell the client to exit (`Kick`, if `Kicks`). `granted`, the
rights it sent for the session, and the operation in a message are ghosts.

`StartRecv` shows the next screen (`ProcSwitch` sets `m_IsShow`) before it ends the
present one (`EndRecv` clears `m_IsRunning`), and the two may be the same.
`ProcMgr::Notify` (ProcMgr.cpp:71-86) spins on `m_IsShow` and may start the screen in
between, which the model lets it do; the comments at EnterSysProc.cpp:75 and
SelectUserInfoSysProc.cpp:64 suspect a problem there. The ghost `early` is about one
order only. A second bad input in `RecvThread` ends the screen and shows it
(BaseProc.cpp:310-311), and returns to `StartRecv`, which shows and ends it once more;
`early` becomes true when `Notify` starts the screen between those two shows
(`Undecided`). The model goes on after that, but of the safety properties only `TypeOK`
is claimed.

### UserRights

A user is in three places: `table`, the record `sess`, and his `client`. `get` and
`edit`, `select` and `update` are the two pairs of requests; `sess[s].tmp` is
`strTmpData`, which both pairs and the batch of users share. A request becomes a
statement, and `Message` is the record of both. Rights are sequences, since the
code adds to and searches a string. `touched` (users another user has changed since
they logged in) and `renamed` (somebody has changed somebody else's account) are
ghosts, as are `by` and `user` of a message. A login is one step here, taken when
what ended connections had queued is done and for an account nobody is logged in
with; `ServerSession` has the rest of it.

### ScoreTable

`cols` is `studScore`'s columns, `exist` the server's list, `rows` for each account
a sequence of rows (`studScore` has no key, Create_Procedure.sql:65). Clients ask
for the list, choose, and send; `shown` is a ghost with the order in which the
subjects were on the screen. `Junk` is a byte of `bScore` nobody wrote: an update
of all subjects sends as many scores as subjects even if fewer were typed
(UpdateScoreSysProc.cpp:264). TLC reaches rows that hold it; `TypeOK` allows it.
`AddSingleScore` registers an unknown account first, and leaves it registered
when the row cannot be inserted. Users are never deleted and those present at
the start have a row; deletion is in `ServerSession`.

### TextTools and SelectBatch

`TextTools` has the functions of `StringTool` and `CheckTool` that a selection
uses, on sequences of character codes: the end of `Splite`, an `atoi` that stops at
the first other character, a byte that wraps, and the valid characters as ranges.

`SelectBatch` follows one list from what is typed to the last row shown. The user
types a text of conditions and a range (`Good`, with its casts: "300" as a score is
44); the server writes its `strRecord` and reads it again for every page
(`Record`, `ReadRecord`). The reply handler is at `work` row by row, since
what a row shows depends on the session that has the socket number then;
everything of other clients that could come in between comes before or after it
(`Others`), as the queue thread does one thing at a time. A page goes out when the
number of rows so far is a multiple of `PageSize`, and a last one always,
without rows if need be. `Received` is one `recv`: with `Merge` 2 it may return two
messages, of which the first is handled and the second lost, or handled from its
middle. `list` is a ghost, the result of the client's statement; `cut` is one too.

## 3. Runs

| run | distinct states, time | result |
|---|---|---|
| `Sessions` | 125 k, 40 s | passes |
| `SessionTwoLogins` | 190 k until found, 15 s | violated, finding 1 |
| `ConnThreads` | 1.8 M after symmetry, 50 s | passes |
| `ConnFreed` | 470 until found | violated, finding 2 |
| `Batches` | 97 k, 45 s | passes |
| `BatchForbidden` | 174 | violated, finding 3 |
| `ClientTurns` | 1.1 M, 2 min | passes |
| `UserRights` | 1.6 M, 70 s | passes |
| `Scores` | 500 k, 2 min | passes |
| `ScoresShown` | 5.8 k until found | violated, finding 5 |
| `Selections` | 466 k, 90 s | passes |
| `SelectStream` | 13 k until found | violated, finding 4 |

**Sessions.** Two sockets, two accounts, two requests, every interleaving with the
queue thread and with connections that end and whose numbers come back, and two
statements that fail, in any way the procedures can; the start is the
installation's table or one where a student may delete users. Two requests are the
least in which one overlaps its half-done predecessor, on the same socket number
or the other, and two faults let both halves of a pair fail. No pair of
statements is split (`PairsAdjacent`), the shared count is only ever read by the
SELECT it is meant for (`RegNeedMeansSelectNext`), a session is a row
(`SessionIsARow`), a request is reported on at most twice (`AckLogShape`: both
halves of a pair may report a failure), a SELECT reads what its own CALL assigned
(`ResultIsOwn`), success is only reported for what was done (`SuccessIsReal`; the
converse is false: a deletion that fails part of the way has deleted), nothing is
dropped (`NothingDropped`), the server implements the book (`ImplementsBook`), and
every wait ends (`WaitEnds`), by an answer or because the connection does. What
holds for any number of requests is proved (section 5).

**ConnThreads.** The accept loop, two workers, the queue thread, three connections
on two numbers, which come back as soon as they are closed: enough for a number that
is reused while the other is removed, and for a record that is made again, found by
the next connection, and found or removed by a third. Until a number comes back
before its record is erased (`lapped`), no buffer is used after it is freed, or freed
twice (`FreedAfterUse`), and a worker closes only its own connection
(`ClosesItsOwn`); and a connection that is past `InsertInfo` has its own record, with
its `PerHandleData`, or one that a setter's `operator[]` made after the erase
(UserInfoMgr.cpp:184), never that of another connection (`SavedUnlessRevived`). So
the lock that excludes nobody does no other harm to the map in the order the threads
are meant to come in. What happens outside of it is not assumed away: the run goes on
after `lapped`, with `TypeOK`, and finding 2 is the unconditional claim, violated. That
every connection is saved, as NetSysMgr.cpp:218 has it, is false without the condition
in the same window, also with a lock that excludes, and false under it when a record
has been made again; `SavedUnlessRevived` says what is left of it.

**Batches.** Parts of two rows, files of up to five (up to three parts, the last full
or partial, and the empty file), two batches, of users, single users or scores. The
client's final count is the number of rows added (`CountsAgree`), `strTmpData`
holds the totals while a part is worked on (`TotalsKept`), an answer closes its part
and tells what became of it (`ReplyEndsPart`), and a part whose last row reaches
the queue is answered (`AnsweredIfLastQueued`). `NumberWrap` is 256, so no part
number wraps; with `NumberWrap = 3`, `TotalsKept` is violated in the third part, as
it would be in the 256th of a real file.

**ClientTurns.** Four requests: log in, an edit (two requests), and one more from
whatever that leaves; or log in, out, and in again. The threads run in any order, and
`Notify` may start a screen while `RecvThread` is still ending it. The only screen
that takes an answer is the one that sent its request, still at that operation
(`AnswerToAsker`); at most one request is open (`OneRequest`); an operation is one the
server gave the present user a right to, also when another was logged in before
(`OwnRights`); and back on the first screen the server has no session any more
(`SignedOut`, but for a user without rights, whom the server logs in and the client
does not). Whatever is answered, chosen or mistyped, the user is asked again
(`AskedOrDeserted`), with one exception that the property names: when `Notify` starts
the screen again before `EndRecv` has cleared its `m_IsRunning`, the screen asks
once more, nobody takes the answer, and nothing is shown any more (`Deserted`).

The four safety properties end when a screen is started between the two shows of
BaseProc.cpp:310-311 (`early`). The condition is needed: without it TLC finds
`AnswerToAsker` and `OneRequest` violated with four requests, and `OwnRights` with
five. After that the run goes on up to two requests in all (`MaxEarly`);
`AskedOrDeserted` then ends with the bound only, and also holds up to three requests
(1.5 M states, without notifications to exit; not kept as a run). The users' rights
are none, or such that an operation of one, two and three requests, a batch and a
list in pages occur; `MCVisited` leaves out screens that differ from another only in
name. A notification to exit that comes while no screen runs is dropped, and no
property claims otherwise.

**UserRights.** An administrator, a teacher and a student on two connections,
four requests (two pairs), one failing statement. `SnapshotIsOwn`: `strTmpData`
never passes from one operation to another. `EditKeepsOthers`: an edit changes a
row by what was asked for, as long as the account still names the user and
nobody has changed an account that is not his own. `OnlyAdminGrants`: no
sequence of edits and changes makes a second administrator, or gives another
user the right to change rights, until somebody changes an account that is not
his own. The condition is needed: with three connections and six requests TLC
finds a teacher who changes the account of a logged-in student from x to y,
after which the administrator takes the account x and edits his own rights;
`SetAuthorityByAccount` (UserInfoMgr.cpp:637) writes them to the first record
that still says x, the student's. `SessionFollows`, under the same condition: a
record, and a client that has its answers, go by the account of the row, and
identity and rights agree unless somebody else has changed the row, but for
rights that have all been deleted (AuthorityProc.cpp:202-204: the handler takes
the short record for an error and leaves the record as it was). That nobody else
has changed the user since he logged in is not enough: a record that goes by an
account which has become another user's is given that user's rights.

**Scores.** Two clients, two subjects, two accounts of which one is registered,
five requests, one failing statement. The list never names a column that is not
there and, once complete, stays so (`ListFollowsColumns`); one row per account
(`OneRow`); a score changes only by a statement that names it (`ScoresStand`); an
answer tells what was done (`AnswersTellRows`, which exempts an update that finds
no row: the code reports success); every operation ends (`OperationEnds`). Five
requests let one client finish an operation of three while the other drops, or
adds, a subject that it has listed.

**Selections.** Two connections with one number, four requests (two logins and two
selections), pages of two rows of three or four users, one user added or deleted or
one right taken or given in between, one failing statement. A list has no row, one,
a page, a page and one, or two pages; conditions are of both kinds, in and out of
order, with a range and with one that is cast. As long as `recv` returns one
message at a time the client has shown the result of its statement, every row once,
in order, under one header, with its number (or none, for an exact multiple of a
page), and every page carries what was asked for (`ListShownUncut`). However the
stream is cut, it shows rows of its own connection's selection only, and no more of
a user than its identity may see (`OwnRows`). Every selection ends
(`SelectionEnds`).

**The violations.**

1. `SessionTwoLogins`: EnterSysProc.cpp:33 says whoever is logged in with the
   account is forced off first. The check is made when the request is taken from
   the queue, the session is set by the reply: requests of two connections
   overlap and both stay.
2. `ConnFreed`: UserInfoMgr.h:18 and 84 say the interfaces about users and `m_mUserInfo`
   are synchronized. `BaseLock` keeps a copy of the `CRITICAL_SECTION` (LockTools.h:33)
   and enters that, so the sections exclude nobody. A number comes back between the
   `closesocket` and the `erase` of `RemoveInfoBySocketId`; `InsertInfo` is refused, the
   new buffer is put in the old record, and the worker frees it in use. With a lock
   that excludes, TLC finds no such behaviour.
3. `BatchForbidden`: ProtoDef.h:496 says every part is answered. A part whose last
   row has an identity the user may not add ends in an empty statement, which is
   refused together with the mark that it is last.
4. `SelectStream`: TCPHandle.cpp:8-11 says that what fits the buffers is received
   normally. `recv` may return two messages of a list at once; one header is read
   (line 92), one message handled and the buffer cleared, and the list ends as if
   it were complete with rows missing.
5. `ScoresShown`: AddScoreSysProc.cpp:233 says to enter scores in the order shown.
   Subjects are shown by id and sent in the order of the server's list, which
   differs once one was dropped and added again.
Every property of a passing run has a mutant in `PROJECT.json`: a plausible bug
in one definition, under which TLC finds that property violated.

## 4. Bounds, assumptions and fairness

| constant | meaning |
|---|---|
| `MaxReq`, `MaxSent`, `MaxConn`, `MaxBatch` | requests, connections or batches in a behaviour |
| `MaxEarly` (in `ClientScreens`) | requests in a behaviour, once a screen has been started early |
| `Nodes` (in `ConnTable`) | addresses of nodes, as many as there are numbers |
| `MaxFaults` | statements that fail for a reason of the database's own |
| `MaxChange` | changes of the table by other clients during the selections |
| `MaxRows` (in `MCBatchAdd`), `MaxPart` | rows and parts of a file |
| `MaxAsk` | rights named in one edit |
| `FirstId`, `Ranges`, `InitTables`, `InitCols`, `InitUsers`, `InitTable` | the database at the start and the ranges asked for |
| `Chunk`, `PageSize` | rows of a part or a page (`MAXBATCHREQACKCOUNT`, 10 in the code, 2 in the runs) |
| `NumberWrap`, `PageWrap` | the range of a part's and a page's number, 256 as in the code |
| `Merge` | messages one `recv` may return |
| `Rights`, `Visited` (in `ClientScreens`) | the sets of rights users may have, and the screens they go to |
| `Inputs` | what users type for a selection |

No list of the runs is long enough for the number of a page to wrap, which it does
after 255 pages; with `PageWrap = 2` the run `Selections` finds `ListShownUncut`
violated, and its theorem (section 5) is for lists of at most `PageWrap - 1` pages.

The queues are not bounded by themselves; `MaxReq` bounds what enters them.
Socket numbers, workers and accounts are only compared for equality; symmetry is
used for sockets and workers, and never in a run with a liveness property. A queue
operation is one step in all modules but `ConnTable`, as its guarded section is
meant to be; what a torn `std::queue` does is not a small set of outcomes, and is
listed as a hazard without a property. Messages keep their order on a connection
(TCP). Failures of statements have no effect, or that of a prefix of the
procedure; a connection to the database that is lost after it has executed a
statement is not modelled.

Deadlock is checked in the `Session` runs. Elsewhere the system may
really stop, when no request, connection or batch is left or the program exits,
and the cfg says so.

Fairness is weak and only of threads that loop for ever:

- `MsgQueueThread` (MsgHandle.cpp:7, an endless loop), in `ServerSession`, `BatchAdd`,
  and per half, `Recv` and `Mysql`, in `ScoreTable` and `SelectBatch`, where the two
  alternate;
- the client's `RecvThread`, which takes whatever arrives: `Deliver`, `RecvSuccess`
  and the others, `Answer(s)`, `RecvSteps`, `RecvThread`;
- the steps of the client's main thread that do not wait for the user;
- in `ClientScreens`, the server, which answers a request (`ServerSteps`).

No user, connection, disconnection or fault is fair.

One assumption of `ClientScreens` is about time: a user types no faster than
`RecvThread` gets through a message it has (`UserReady`). The program's own threads run
at any speed relative to one another.

## 5. Proofs

### ServerSession

`ServerSession_proofs` proves, for any sets of accounts and sockets, any initial
tables and any bounds (assumptions `AcctsAssumption` and `SessionAssumption`: the
empty account is no account, the bounds are numbers, and the ids of the initial
rows are below `FirstId`):

- `TypeCorrect`: `Spec => []TypeOK`;
- `CallAndSelectAdjacent`: `Spec => []PairsAdjacent`;
- `CountIsOwn`: `Spec => []RegNeedMeansSelectNext`;
- `SessionsAreRows`: `Spec => []SessionIsARow`;
- `ServerImplementsBook`: `Spec => ImplementsBook`.

The argument. `Typed` is `TypeOK` with `QueuesOK`: the exit message, which alone has
no request number, queues no statement, so that `ackLog[rid]` is only ever written
where it is defined. `Safe` is inductive relative to `Typed`. `PairsAdjacent` is
inductive alone, but the others are not: that a session is a row needs that
`userVar` is an issued id when the SELECT of a registration reads it
(`UserVarIsOwn`); that needs that `sRegNeedCount = 1` means that this SELECT is at
the head, with nothing between it and its CALL (`RegNeedMeansSelectNext`,
`PairsAdjacent`), since a later registration on the same socket would overwrite
the variable; and a login binds the row of a table, so that every row of a table
must have been issued (`RowsIssued`), with an id below the next one
(`IdsBelowNext`), which is also why the ids of the book grow.

The steps fall in three classes, each with a lemma. `Quiet` steps (clients, the
network, the handlers of requests) leave the database alone, append whole pairs
behind the head, and only blank records or reset counts. A CALL makes at most its
own socket's count 1, with its SELECT next (`CallSafe`). A SELECT leaves no count
at 1 (`SelectSafe`). `ServerImplementsBook` uses the same classes: a quiet step
unbinds or stutters, a CALL opens or stutters, a SELECT or a login binds, unbinds
or stutters.

### UserRights

`UserRights_proofs` proves, for any users, accounts, rights, socket numbers, initial
table and bounds (assumption `RightsAssumption`: at the start accounts are unique,
there is at most one administrator, he alone may have the right to change rights,
and the default rights of the others do not include it):

- `RightsTypeCorrect`: `Spec => []TypeOK`;
- `SnapshotCorrect`: `Spec => []SnapshotIsOwn`;
- `GrantStays`: `Spec => []OnlyAdminGrants`;
- `RecordsFollow`: `Spec => []SessionFollows`;
- `EditsKeepOthers`: `Spec => EditKeepsOthers`.

The argument. `RightsInv` has five parts, each needed by the next.

- `Typed` is `TypeOK` with the uniqueness of accounts, but for the bound on `inbox`.
- `Pipeline`: a connection has at most one request, statement or answer on its way,
  for which its client waits, and a user at most one connection. So nothing of a
  connection happens between a request and its answer, and what `strTmpData` holds
  when the second request of a pair is taken is what the first one left. The
  bound on `inbox` is here.
- `Snapshot` says what that is, while the request for a change, or the answer that
  leads to one, is on its way: nothing, or what was read for this operation and
  account. `SnapshotIsOwn` is this at the head of the queue.
- `Safe` holds while `~renamed`. The administrator's row alone has identity 3 and may
  have `Grant`; a record has its user's account, and identity 3 only if it is his,
  and neither the rights in it, nor those its client was sent, nor what
  `strTmpData` holds have `Grant` for another; only he asks for rights; a statement
  that writes `Grant` is about his own account, and one that changes an identity is
  his, about another's, to 1 or 2. It needs `Snapshot`, since an edit writes back
  what `strTmpData` held for an account, and `Pipeline`, since what was true of a
  user when he asked must be so when the statement is executed.
- `Follows` holds while `~renamed`, too: `SessionFollows` with the moment between the
  change of one's own account and the answer that tells the client (`Renames`); the
  rights in `strTmpData` are those of the row (`RightsFresh`); and what an edit that
  waits will write is `Edited` of what the row still is (`EditFresh`). The last
  two need that there is one administrator, who asks for rights and is the only one
  to change identities, and that he has one connection: they are what `Safe` and
  `Pipeline` say.

`EditsKeepOthers` follows from `EditFresh` and `EditedCounts`: an edit adds what was
asked for, or takes it away as far as it is there, counted right by right.

Each action has a step for each part it can disturb. That a deletion leaves no right
that was not there, although `Edited` is a recursive function, is proved by a
smallest counterexample (`Smallest`, `EditedKeeps`), which needs no induction
theorem. The five parts were checked with TLC as an invariant before the proof.

### The replies of ServerSession

`ServerSession_proofs` proves, too, on top of its invariants above and from the same
assumptions:

- `ResultsAreOwn`: `Spec => []ResultIsOwn`;
- `SuccessesAreReal`: `Spec => []SuccessIsReal`;
- `OneOutcome`: `Spec => []AckLogShape`;
- `NoneDropped`: `Spec => []NothingDropped`.

The argument. A request is in one place (`Once`): a message, a CALL with its SELECT
behind it, a SELECT, or a login. Until its first statement is executed it is
untouched, neither reported on nor carried out (`Waiting`). What remains is the
moment between CALL and SELECT (`Called`): the CALL has reported a failure or
nothing, and when `sRegNeedCount` is 1 it has reported nothing and has been
carried out. Without `Called` neither bound on the reports is inductive: the SELECT
reports whatever the CALL did.

### ConnTable

`ConnTable_proofs` proves, for any workers, socket numbers, addresses and number of
connections (`ConnAssumption`: the names of the threads differ):

- `ConnTypeCorrect`: `Spec => []TypeOK`;
- `OwnConnectionClosed`: `Spec => []ClosesItsOwn`;
- `NothingUsedAfterFree`: `Spec => []FreedAfterUse`;
- `ConnectionSaved`: `Spec => []SavedUnlessRevived`.

No theorem assumes anything of the operating system or of the allocator. The last
three are about the time before a number comes back too early (`lapped`), which the
property says and the ghost records; `ConnFreed` shows that the second ends there.

The argument is a token. A connection has one outstanding receive, or one worker
with its completion, or the accept loop, which has not posted the first receive
yet, or is finished with (`Tokens`). Who has the token knows that the number is
still the connection's, which is why a worker closes its own. `Map` says that a
worker in `RemoveInfoBySocketId` has the node of its own number in its iterator, and
that no two numbers share a node; `Heap`, that a buffer in a record is that of the connection
that has the number or whose record is being removed, and that a connection's
buffers live until its worker has freed them; `Recorded`, that a number past
`InsertInfo` has a record, which by `Heap` is nobody else's, one that was made again
included. The invariant is
`Typed /\ (lapped \/ Sound)`. The only step that ends `Sound` is `Accept` of a number
that a worker is removing, and it makes `lapped` true. The proof does not use the lock
anywhere: as written it excludes nobody.

### ScoreTable

`ScoreTable_proofs` proves, for any finite set of subjects, any accounts, clients and
bounds (`ScoreAssumption`: subjects are numbers, the columns and users of the start
are each there once, and `Junk` is no score):

- `ScoresTypeCorrect`: `Spec => []TypeOK`;
- `OneRowEach`: `Spec => []OneRow`;
- `ListOfColumns`: `Spec => ListFollowsColumns`;
- `OthersScoresStand`: `Spec => ScoresStand`;
- `AnswersAreTrue`: `Spec => AnswersTellRows`.

The argument. A client that waits has one request or one answer (`Once`), which
bounds the inboxes and says whose statement an answer is about. No request
names a subject twice, because the list it was chosen from does not (`Lists`);
without that a row could be made whose columns are written twice. `Tables` relates
the three: the list names columns, an account with a row is a user, a row has
exactly the columns. `Start` says that the SELECT of the start finds the columns
as they were, which the list's completeness needs. The three action properties
follow from `IInv` by one case per statement.

### BatchAdd

`BatchAdd_proofs` proves, for any files, part sizes and numbers of batches
(`BatchAssumption`: no file has more than `MaxPart` parts):

- `AdditionsTypeCorrect`: `Spec => []TypeOK`;
- `RepliesEndParts`: `Spec => []ReplyEndsPart`;
- `BatchCountsAgree`: `Spec => []CountsAgree`;
- `TotalsAreKept`: `MaxPart < NumberWrap => (Spec => []TotalsKept)`.

The argument. Users, one or many, have one part on its way (`OnePlace`): a request,
statements of which only the last may carry the mark, or a reply, which is true
(`Reply`). Scores can have several parts on their way, since each row that fails is
answered; their counts are bounded because no two parts have one tag (`Fresh`) and
what has been added of a part and what is queued of it is no more than a part
(`Room`). The client's sum lacks exactly the part it waits for (`Counts`). The
condition of `TotalsAreKept` is needed: a part whose number wraps to 1 begins a new
total (`NumberWrap = 3` shows it), and `Totals` carries the total from the reply to
one part to the request for the next. `BatchCountsAgree` needs no such condition,
since the client adds up the parts' own counts.

### ClientScreens

`ClientScreens_proofs` proves, for users with any rights, any screens visited, any
number of requests, with and without notifications to exit:

- `ScreensTypeCorrect`: `Spec => []TypeOK`;
- `OneRequestAtATime`: `Spec => []OneRequest`;
- `AnswersGoToAskers`: `Spec => []AnswerToAsker`;
- `OnlyOwnRights`: `Spec => []OwnRights`;
- `SignedOutAgain`: `Spec => []SignedOut`.

The first is about all behaviours: `Typed` and `Directed` are inductive whichever
thread overtakes the other. The others are about the time before a screen is started
between the two shows of a second bad input in `RecvThread` (`early`), as the
properties say; the order EnterSysProc.cpp:75 worries about is in them. The invariant is
`Typed /\ Directed /\ (early \/ IInv)`, and the one step that may end `IInv` is a
`Notify` that makes `early` true.

The argument. One thing happens at a time (`Stage`): the main thread is busy with a
screen (`MainTurn`), one screen is to be shown while `RecvThread` may still have to
end another or the same one (`Ready`), the main thread has started that screen
already (`Overlap`), one screen waits for its answer or `RecvThread` is busy with
it (`Waiting`), a screen is shown again after bad input in `RecvThread` (`Again`), or
the program has ended. In each of them only one screen runs or is at an
operation, but for the one `RecvThread` has yet to end; in `Overlap` they may be the
same, and then nothing is known of its `m_IsRunning`, and nothing need be: a screen
that does not run takes no answer, and its user has sent no request yet. What is on its way is a request and nothing else but exits, or its
answer, pages before the last one (`Await`), or nothing but exits (`NoFlight`). And
the rights the client goes by are those of the session (`LoggedIn`), or there is no
session of anybody with rights once the exit on its way has arrived (`LoggedOut`);
while the answer to a login is on its way it tells which (`LoginTold`). Each action
keeps the stage or moves to another; `TakeMessage` and `Scan` are the long ones,
since an answer passes the fourteen screens one by one. The lemmas about
`ScreenTable` (`OperationsAre`, `PagedAre`, `NextKindIs`) are where the fourteen
classes are gone through: an operation belongs to one screen, what is answered in
pages is its last request. All of `IInv` was checked with TLC before the proof.

### SelectBatch

`SelectBatch_proofs` proves, for any users and scores, any inputs, any size of a page
and range of its number, any connections, requests, changes and failures, whether
one `recv` returns one message or two:

- `SelectionsTypeCorrect`: `Spec => []TypeOK`;
- `RowsAreOwn`: `Spec => []OwnRows`;
- `ListsAreShown`: `PagesFit => (Spec => []ListShownUncut)`.

The assumptions. `SelectAssumption`: users and ids are what they are, a page has more
than one row, its number more than one value. `TextsReadBack`: what comes out of a
`strRecord` is what was put in, for the inputs that pass the checks. That is a fact
about the conversions of `TextTools`, folds over text that the provers cannot
evaluate; TLC evaluates it for the inputs of the runs. `PagesFit` says that the users
fill at most `PageWrap - 1` pages (2550 users in the code). Nothing in the code keeps
their number below that; beyond it the property is false, as section 4 says, so the
theorem names the limit.

The argument. `Typed` says what every value is; in it, a page at work has
`n % PageSize` rows, from which the size of a message follows, and a record is one
of an input that passed the checks. `Placed` says how things of one socket number
stand: nothing behind the login of the present connection is of an earlier one, at
most one login is on its way, and the session, once the client is told, is its
account. So a row made for this connection was made under its session, and with
`Owned`, which says of every statement, row, message and shown row of a connection
what its user may see, `RowsAreOwn` holds, whichever messages `recv` loses. Its
scope was computed when the request was taken, its password when the row was
made; identities do not change here, rights do.

For `ListsAreShown`, `Listed` says where each part of `list` is while nothing has been
lost: in the queue (`InQueue`), in a statement (`InStmts`), or with the first `p` pages
on the console (`Filled`), the next on the wire, numbered from `p + 1` (`FullPage`),
and the rest with the reply handler (`Working`) or on a last page (`EndPage`,
`Sent`). The handler's `n` and the client's `p` are counted apart: that the number of
the `k`-th page is `k`, so that one header is shown and the total is the length, is
arithmetic about `PageNo` (`PageNumber`), and needs `PagesFit`. An exact multiple of a
page is the case where `EndPage` has no rows and the total stays 0. `Listed` needs
`Placed`: that nothing of an earlier connection stands between the client's request
and its answer. It does not need `Owned`. `Typed`, `Placed`, `Owned` and `Listed` were
checked with TLC as invariants before the proof.

### What is only model-checked

The invariants and the action properties of all passing runs are proved. Out of the
prover's reach: liveness under fairness (`WaitEnds`, `AnsweredIfLastQueued`,
`AskedOrDeserted`, `OperationEnds`, `SelectionEnds`), `ENABLED`, and what a fold over all
rows of a file computes, since the library's induction theorems have an operator
for a parameter, which no installed prover can instantiate. The violated properties
of section 3 have no theorem, and no safety property but the types is claimed of
`ConnTable` after `lapped` or of `ClientScreens` after `early`.

## 6. Plan

What is left, in this order:

1. The two client threads inside `BatchAdd`: counts that are not cleared when a
   screen ends (AddUserInfoSysProc.cpp:69).
2. An abstract specification of a selection, "the client sees the rows of one table,
   once each", that `SelectBatch` implements; `ListShownUncut` says as much of states.
3. Headers and bodies cut in two by `recv`, and the stream of requests at the
   workers (NetSysMgr.cpp), under `ConnTable`.
