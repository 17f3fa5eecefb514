------------------------------ MODULE ConnTable ------------------------------
(***************************************************************************)
(* m_mUserInfo and the threads that share it, one access at a time: the    *)
(* accept loop makes a record for a new connection, the worker threads of  *)
(* the completion port remove the record of a connection that failed, and  *)
(* the queue thread sets what its handlers learn about a session.          *)
(*                                                                         *)
(* Every interface of UserInfoMgr finds the record first and takes a lock  *)
(* afterwards.  ServerSession treats each as one step; here is what the    *)
(* threads really do.  RemoveInfoBySocketId closes the number before it    *)
(* frees and erases the record, through an iterator it found earlier, and  *)
(* the system may hand the number out at once; an iterator may designate a *)
(* node of the map that another worker has erased.  Such a node keeps what *)
(* it held until the allocator makes another one at its address, and a     *)
(* freed buffer keeps what it held.                                        *)
(***************************************************************************)
EXTENDS Integers

CONSTANTS Socks,        \* socket numbers the operating system hands out
          NoSock,       \* what sock holds before a connection is accepted
          Nodes,        \* addresses of nodes of the map
          NoNode,       \* what a number without a node has
          Workers,      \* threads that run ServerWorkThread
          MaxConn       \* bound: connections accepted in a behaviour

ASSUME ConnAssumption ==
    /\ MaxConn \in Nat \ {0} /\ NoSock \notin Socks /\ NoNode \notin Nodes
    /\ "accept" \notin Workers /\ "queue" \notin Workers

Conns == 1..MaxConn

VARIABLES
    open,     \* the operating system: the connection on a number, or 0
    sock,     \* PerHandleData->socket of a connection
    phd, pio, \* the buffers PerHandleData and PerIoData of a connection
    io,       \* whether a WSARecv of the connection is outstanding
    table,    \* m_mUserInfo: the node of a number
    mem,      \* what is held at an address
    iter,     \* the iterator of a worker in RemoveInfoBySocketId
    asked,    \* connections that have sent requests, which handlers work on
    pc, arg,  \* where each thread is, and the connection it is busy with
    section,  \* the thread that owns _critical
    copies,   \* the threads that have entered the copy in their UserInfoLock
    next,     \* number of the next connection
    lapped    \* a number has been handed out between its close and its erase

memory == <<phd, pio, table, mem, iter>>
vars == <<open, sock, memory, io, asked, pc, arg, section, copies, next, lapped>>

Threads == {"accept", "queue"} \cup Workers

\* A node: its number, and of UserInfo the two pointers and the connection whose
\* account, user id, identity and authority it holds (0 is NULL, or blank).
Record == [key : Socks, phd : 0..MaxConn, pio : 0..MaxConn, user : 0..MaxConn]
NoRec == [key |-> NoSock, phd |-> -1, pio |-> -1, user |-> -1]
Present(s) == table[s] # NoNode

\* Mutant of NewRecord: the constructor leaves PerIoData uninitialized.
NewRecordUninitialized(s, c) == [key |-> s, phd |-> c, pio |-> -1, user |-> 0]

NewRecord(s, c) == [key |-> s, phd |-> c, pio |-> 0, user |-> 0]

\* A node for number s, at an address the allocator has free.
Make(s, r) ==
    \E n \in Nodes :
        /\ \A t \in Socks : table[t] # n
        /\ table' = [table EXCEPT ![s] = n] /\ mem' = [mem EXCEPT ![n] = r]

\* m_mUserInfo[socketId] makes the record when it is not there.
At(s) == IF Present(s) THEN mem[table[s]] ELSE NewRecord(s, 0)
Put(s, r) ==
    \/ Present(s) /\ mem' = [mem EXCEPT ![table[s]] = r] /\ UNCHANGED table
    \/ ~Present(s) /\ Make(s, r)

Goto(t, label) == pc' = [pc EXCEPT ![t] = label]

------------------------------------------------------------------------------
(* UserInfoLock *)

\* BaseLock holds a CRITICAL_SECTION by value: the constructor copies _critical
\* and enters the copy, which is free because nobody ever enters _critical.
Lock(t) == section = "nobody" /\ copies' = copies \cup {t} /\ UNCHANGED section
Unlock(t) == copies' = copies \ {t} /\ UNCHANGED section
NoLock == UNCHANGED <<section, copies>>

------------------------------------------------------------------------------
(* The accept loop *)

\* Workers that have closed a number and not erased its record yet.
Closing(s) == \E w \in Workers : pc[w] \in {"free", "erase"} /\ sock[arg[w]] = s

\* A number the operating system may hand out.
NumberFree(s) == open[s] = 0

Accept(s) ==
    /\ pc["accept"] = "accept" /\ next \in Conns
    /\ NumberFree(s)
    /\ open' = [open EXCEPT ![s] = next]
    /\ sock' = [sock EXCEPT ![next] = s]
    /\ phd' = [phd EXCEPT ![next] = "live"]
    /\ arg' = [arg EXCEPT !["accept"] = next]
    /\ next' = next + 1
    /\ lapped' = (lapped \/ Closing(s))
    /\ Goto("accept", "insertFind")
    /\ UNCHANGED <<pio, io, table, mem, iter, asked>> /\ NoLock

\* Mutant of Refused: the test is turned round.
RefusedAbsent(s) == ~Present(s)

\* InsertInfo returns at once when the number has a record.
Refused(s) == Present(s)

\* InsertInfo.  Nobody looks at what it returns.
InsertFind ==
    /\ pc["accept"] = "insertFind"
    /\ \/ /\ Refused(sock[arg["accept"]])
          /\ Goto("accept", "setFind") /\ NoLock
       \/ /\ ~Refused(sock[arg["accept"]])
          /\ Goto("accept", "insert") /\ Lock("accept")
    /\ UNCHANGED <<open, sock, memory, io, asked, arg, next, lapped>>

\* map::insert keeps a record that is there.
Insert ==
    /\ pc["accept"] = "insert"
    /\ LET c == arg["accept"]
           s == sock[c]
       IN \/ Present(s) /\ UNCHANGED <<table, mem>>
          \/ ~Present(s) /\ Make(s, NewRecord(s, c))
    /\ Goto("accept", "setFind") /\ Unlock("accept")
    /\ UNCHANGED <<open, sock, phd, pio, io, iter, asked, arg, next, lapped>>

\* SetPerIoDataBySocketId with a PerIoData just allocated.
SetFind ==
    /\ pc["accept"] = "setFind"
    /\ pio' = [pio EXCEPT ![arg["accept"]] = "live"]
    /\ \/ /\ Present(sock[arg["accept"]])
          /\ Goto("accept", "set") /\ Lock("accept")
       \/ /\ ~Present(sock[arg["accept"]])
          /\ Goto("accept", "post") /\ NoLock
    /\ UNCHANGED <<open, sock, phd, io, table, mem, iter, asked, arg, next, lapped>>

Set ==
    /\ pc["accept"] = "set"
    /\ LET s == sock[arg["accept"]]
       IN Put(s, [At(s) EXCEPT !.pio = arg["accept"]])
    /\ Goto("accept", "post") /\ Unlock("accept")
    /\ UNCHANGED <<open, sock, phd, pio, io, iter, asked, arg, next, lapped>>

\* WSARecv.  When it fails at once nothing will complete, and nobody notices.
PostRecv(c) ==
    \/ open[sock[c]] = c /\ io' = [io EXCEPT ![c] = "posted"]
    \/ UNCHANGED io

Post ==
    /\ pc["accept"] = "post"
    /\ PostRecv(arg["accept"])
    /\ Goto("accept", "accept")
    /\ UNCHANGED <<open, sock, memory, asked, arg, next, lapped>> /\ NoLock

------------------------------------------------------------------------------
(* ServerWorkThread *)

\* Mutant of Taken: the completion stays in the port.
TakenTwice(c) == io

\* A completion is given to one thread.
Taken(c) == [io EXCEPT ![c] = "idle"]

\* GetQueuedCompletionStatus: data, or an error or zero bytes.
Complete(w, c) ==
    /\ pc[w] = "wait" /\ io[c] = "posted"
    /\ io' = Taken(c)
    /\ arg' = [arg EXCEPT ![w] = c]
    /\ \/ open[sock[c]] = c /\ Goto(w, "data")
       \/ Goto(w, "removeFind")
    /\ UNCHANGED <<open, sock, memory, asked, next, lapped>> /\ NoLock

\* InputMsgQueue, and the next WSARecv.
Data(w) ==
    /\ pc[w] = "data"
    /\ asked' = asked \cup {arg[w]}
    /\ PostRecv(arg[w])
    /\ Goto(w, "wait")
    /\ UNCHANGED <<open, sock, memory, arg, next, lapped>> /\ NoLock

\* RemoveInfoBySocketId.
RemoveFind(w) ==
    /\ pc[w] = "removeFind"
    /\ \/ /\ Present(sock[arg[w]])
          /\ iter' = [iter EXCEPT ![w] = table[sock[arg[w]]]]
          /\ Goto(w, "close") /\ Lock(w)
       \/ /\ ~Present(sock[arg[w]])
          /\ Goto(w, "wait") /\ NoLock /\ UNCHANGED iter
    /\ UNCHANGED <<open, sock, phd, pio, io, table, mem, asked, arg, next, lapped>>

\* closesocket(iter->first).
Close(w) ==
    /\ pc[w] = "close"
    /\ open' = [open EXCEPT ![mem[iter[w]].key] = 0]
    /\ Goto(w, "free")
    /\ UNCHANGED <<sock, memory, io, asked, arg, next, lapped>> /\ NoLock

\* GlobalFree of a pointer that is not NULL.
Freed(buffers, c) ==
    IF c \notin Conns THEN buffers
    ELSE [buffers EXCEPT ![c] = IF @ = "live" THEN "freed" ELSE "twice"]

Free(w) ==
    /\ pc[w] = "free"
    /\ LET r == mem[iter[w]]
       IN phd' = Freed(phd, r.phd) /\ pio' = Freed(pio, r.pio)
    /\ Goto(w, "erase")
    /\ UNCHANGED <<open, sock, io, table, mem, iter, asked, arg, next, lapped>> /\ NoLock

\* Mutant of Erased: the record stays.
ErasedNot(n) == table

\* m_mUserInfo.erase(iter).
Erased(n) == [s \in Socks |-> IF table[s] = n THEN NoNode ELSE table[s]]

Erase(w) ==
    /\ pc[w] = "erase"
    /\ table' = Erased(iter[w])
    /\ Goto(w, "wait") /\ Unlock(w)
    /\ UNCHANGED <<open, sock, phd, pio, io, mem, iter, asked, arg, next, lapped>>

------------------------------------------------------------------------------
(* The queue thread *)

\* A handler calls one of the Set...BySocketId for a connection that asked.
SetterFind(c) ==
    /\ pc["queue"] = "wait" /\ c \in asked
    /\ Present(sock[c])
    /\ arg' = [arg EXCEPT !["queue"] = c]
    /\ Goto("queue", "assign") /\ Lock("queue")
    /\ UNCHANGED <<open, sock, memory, io, asked, next, lapped>>

Assign ==
    /\ pc["queue"] = "assign"
    /\ LET s == sock[arg["queue"]]
       IN Put(s, [At(s) EXCEPT !.user = arg["queue"]])
    /\ Goto("queue", "wait") /\ Unlock("queue")
    /\ UNCHANGED <<open, sock, phd, pio, io, iter, asked, arg, next, lapped>>

------------------------------------------------------------------------------
Init ==
    /\ open = [s \in Socks |-> 0] /\ sock = [c \in Conns |-> NoSock]
    /\ phd = [c \in Conns |-> "none"] /\ pio = [c \in Conns |-> "none"]
    /\ table = [s \in Socks |-> NoNode] /\ mem = [n \in Nodes |-> NoRec]
    /\ iter = [w \in Workers |-> NoNode]
    /\ io = [c \in Conns |-> "idle"] /\ asked = {}
    /\ pc = [t \in Threads |-> IF t = "accept" THEN "accept" ELSE "wait"]
    /\ arg = [t \in Threads |-> 0]
    /\ section = "nobody" /\ copies = {} /\ next = 1 /\ lapped = FALSE

AcceptLoop ==
    \/ \E s \in Socks : Accept(s)
    \/ InsertFind \/ Insert \/ SetFind \/ Set \/ Post

ServerWorkThread(w) ==
    \/ \E c \in Conns : Complete(w, c)
    \/ Data(w) \/ RemoveFind(w) \/ Close(w) \/ Free(w) \/ Erase(w)

QueueThread == (\E c \in Conns : SetterFind(c)) \/ Assign

Next == AcceptLoop \/ (\E w \in Workers : ServerWorkThread(w)) \/ QueueThread

Spec == Init /\ [][Next]_vars

------------------------------------------------------------------------------
(* Properties *)

\* Every variable holds values of its kind; a record's pointers are NULL or
\* buffers that were allocated, and an iterator designates a node or what was
\* one.
TypeOK ==
    /\ open \in [Socks -> 0..MaxConn] /\ sock \in [Conns -> Socks \cup {NoSock}]
    /\ phd \in [Conns -> {"none", "live", "freed", "twice"}]
    /\ pio \in [Conns -> {"none", "live", "freed", "twice"}]
    /\ io \in [Conns -> {"idle", "posted"}]
    /\ table \in [Socks -> Nodes \cup {NoNode}] /\ mem \in [Nodes -> Record \cup {NoRec}]
    /\ \A s \in Socks : Present(s) => mem[table[s]] \in Record
    /\ iter \in [Workers -> Nodes \cup {NoNode}]
    /\ \A w \in Workers :
          pc[w] \in {"close", "free", "erase"} => iter[w] \in Nodes /\ mem[iter[w]] \in Record
    /\ asked \subseteq Conns /\ lapped \in BOOLEAN
    /\ pc["accept"] \in {"accept", "insertFind", "insert", "setFind", "set", "post"}
    /\ pc["queue"] \in {"wait", "assign"}
    /\ \A w \in Workers : pc[w] \in {"wait", "data", "removeFind", "close", "free", "erase"}
    /\ arg \in [Threads -> 0..MaxConn]
    /\ section = "nobody" /\ copies \subseteq Threads
    /\ next \in 1..MaxConn + 1

\* The connection's buffers are read or written: by an outstanding receive, by
\* the worker that has its completion, or by the accept loop.
InUse(c) ==
    \/ io[c] = "posted"
    \/ \E w \in Workers : arg[w] = c /\ pc[w] \in {"data", "removeFind"}
    \/ arg["accept"] = c /\ pc["accept"] # "accept"

\* UserInfoMgr.h:18, "interfaces about users, synchronized": no thread, and no
\* receive the system still has to complete, uses a buffer that
\* RemoveInfoBySocketId has freed, and it frees none twice.
NoUseAfterFree ==
    \A c \in Conns :
        /\ InUse(c) => phd[c] = "live" /\ pio[c] # "freed"
        /\ phd[c] # "twice" /\ pio[c] # "twice"

\* As long as no number has been handed out between its close and the erase of
\* its record (UserInfoMgr.cpp:116-122), buffers are freed after their last use.
FreedAfterUse == ~lapped => NoUseAfterFree

\* As long as that has not happened either, a worker about to close a number
\* closes the connection that failed, never a later one that has its number.
ClosesItsOwn ==
    ~lapped => \A w \in Workers : pc[w] = "close" => open[mem[iter[w]].key] = arg[w]

\* The connection on a number, and the accept loop is past its InsertInfo.
PastInsertInfo(s) ==
    open[s] # 0 /\ ~(arg["accept"] = open[s] /\ pc["accept"] \in {"insertFind", "insert"})

\* NetSysMgr.cpp:218, "save the information of the connected user": as long as no
\* number has been handed out before its record was erased, the record of a number
\* is the connection's, with its PerHandleData, once the accept loop is past
\* InsertInfo and until a worker closes it; or it has none, because a setter's
\* operator[] made it (UserInfoMgr.cpp:184).  It is never another connection's.
SavedUnlessRevived ==
    ~lapped => \A s \in Socks :
        PastInsertInfo(s) => Present(s) /\ mem[table[s]].phd \in {open[s], 0}
==============================================================================
