-------------------------- MODULE ConnTable_proofs --------------------------
(***************************************************************************)
(* Proofs about ConnTable, for any numbers of workers, socket numbers and  *)
(* connections: its types and, as long as no number has been handed out    *)
(* between its close and the erase of its record, that a worker closes     *)
(* only its own connection, that no buffer is used after it is freed, and  *)
(* that every connection has its record or one that a setter revived.      *)
(*                                                                         *)
(* The argument is about a token: of a connection there is one outstanding *)
(* receive, or one worker that has its completion, or the accept loop that *)
(* has not posted the first one yet, or none of them any more.  Whoever    *)
(* has the token knows that the number is still the connection's, and a    *)
(* worker's iterator designates the node of its number.  The first number  *)
(* that comes back too early ends all of this, and that is when lapped     *)
(* becomes TRUE: the invariant is Typed /\ (lapped \/ Sound).              *)
(***************************************************************************)
EXTENDS ConnTable, TLAPS

------------------------------------------------------------------------------
(* The inductive invariant *)

Accepted == {c \in Conns : c < next}

Labels == {"accept", "insertFind", "insert", "setFind", "set", "post", "wait", "assign",
           "data", "removeFind", "close", "free", "erase"}

\* A thread is busy with a connection that has been accepted.
Numbered ==
    /\ pc \in [Threads -> Labels]
    /\ \A c \in Accepted : sock[c] \in Socks
    /\ \A c \in Conns \ Accepted : io[c] = "idle"
    /\ \A s \in Socks : open[s] # 0 => open[s] \in Accepted /\ sock[open[s]] = s
    /\ asked \subseteq Accepted
    /\ pc["accept"] # "accept" => arg["accept"] \in Accepted
    /\ pc["queue"] # "wait" => arg["queue"] \in Accepted
    /\ \A w \in Workers : pc[w] # "wait" => arg[w] \in Accepted

Typed == TypeOK /\ Numbered

\* A worker has an iterator.
Holding(w) == pc[w] \in {"close", "free", "erase"}

\* What of Typed is about m_mUserInfo, and what is about the threads and the
\* connections: most steps are about one of the two.
Recs ==
    /\ table \in [Socks -> Nodes \cup {NoNode}] /\ mem \in [Nodes -> Record \cup {NoRec}]
    /\ \A s \in Socks : Present(s) => mem[table[s]] \in Record
    /\ iter \in [Workers -> Nodes \cup {NoNode}]
    /\ \A w \in Workers : Holding(w) => iter[w] \in Nodes /\ mem[iter[w]] \in Record
Places ==
    /\ open \in [Socks -> 0..MaxConn] /\ sock \in [Conns -> Socks \cup {NoSock}]
    /\ phd \in [Conns -> {"none", "live", "freed", "twice"}]
    /\ pio \in [Conns -> {"none", "live", "freed", "twice"}]
    /\ io \in [Conns -> {"idle", "posted"}]
    /\ pc["accept"] \in {"accept", "insertFind", "insert", "setFind", "set", "post"}
    /\ pc["queue"] \in {"wait", "assign"}
    /\ \A w \in Workers : pc[w] \in {"wait", "data", "removeFind", "close", "free", "erase"}
    /\ arg \in [Threads -> 0..MaxConn]
    /\ section = "nobody" /\ copies \subseteq Threads
    /\ next \in 1..MaxConn + 1 /\ lapped \in BOOLEAN
    /\ Numbered

\* The records of m_mUserInfo, and what the map guarantees: a node for each
\* number it has, which the iterators of the workers designate.
rec == [s \in Socks |-> IF Present(s) THEN mem[table[s]] ELSE NoRec]
Map ==
    /\ \A s, t \in Socks : Present(s) /\ table[s] = table[t] => s = t
    /\ \A s \in Socks : Present(s) => mem[table[s]].key = s
    /\ \A w \in Workers : Holding(w) => iter[w] = table[sock[arg[w]]]

\* Nobody but the accept loop is busy with the connection.
Unshared(c) == \A w \in Workers : pc[w] # "wait" => arg[w] # c

Tokens ==
    /\ \A c \in Conns : io[c] = "posted" => open[sock[c]] = c /\ Unshared(c)
    /\ pc["accept"] # "accept" =>
          LET c == arg["accept"] IN open[sock[c]] = c /\ io[c] = "idle" /\ Unshared(c)
    /\ \A w \in Workers : pc[w] \in {"data", "removeFind", "close"} => open[sock[arg[w]]] = arg[w]
    /\ \A w, v \in Workers : pc[w] # "wait" /\ pc[v] # "wait" /\ arg[w] = arg[v] => w = v

------------------------------------------------------------------------------
(* Types *)

LEMMA TypedInit == ConnAssumption /\ Init => Typed
  <1> SUFFICES ASSUME ConnAssumption, Init PROVE Typed
    OBVIOUS
  <1>1. \A w \in Workers : pc[w] = "wait"
    BY DEF ConnAssumption, Init, Threads
  <1>2. Numbered
    BY <1>1 DEF ConnAssumption, Init, Numbered, Accepted, Conns, Threads, Labels
  <1>3. \A s \in Socks : ~Present(s)
    BY DEF Init, Present
  <1>4. /\ table \in [Socks -> Nodes \cup {NoNode}] /\ mem \in [Nodes -> Record \cup {NoRec}]
        /\ iter \in [Workers -> Nodes \cup {NoNode}]
    BY DEF Init
  <1>5. /\ open \in [Socks -> 0..MaxConn] /\ sock \in [Conns -> Socks \cup {NoSock}]
        /\ phd \in [Conns -> {"none", "live", "freed", "twice"}]
        /\ pio \in [Conns -> {"none", "live", "freed", "twice"}]
        /\ io \in [Conns -> {"idle", "posted"}]
        /\ arg \in [Threads -> 0..MaxConn] /\ next \in 1..MaxConn + 1
    BY DEF ConnAssumption, Init
  <1>6. pc["accept"] = "accept" /\ pc["queue"] = "wait"
    BY DEF Init, Threads
  <1>7. section = "nobody" /\ copies = {} /\ asked = {} /\ lapped = FALSE
    BY DEF Init
  <1>8. TypeOK
    BY <1>1, <1>3, <1>4, <1>5, <1>6, <1>7 DEF TypeOK
  <1> QED BY <1>2, <1>8 DEF Typed

LEMMA TypedParts == Typed <=> Places /\ Recs
  BY DEF Typed, TypeOK, Places, Recs, Holding, Numbered, Accepted, Conns

\* The lookups of InsertInfo, SetPerIoDataBySocketId and RemoveInfoBySocketId
\* only move their thread, to one of two places, whatever they find.
LEMMA Lookups ==
    /\ InsertFind => /\ pc["accept"] = "insertFind"
                     /\ Goto("accept", "setFind") \/ Goto("accept", "insert")
                     /\ section' = section /\ copies' \subseteq copies \cup {"accept"}
                     /\ UNCHANGED <<open, sock, memory, io, asked, arg, next, lapped>>
    /\ SetFind => /\ pc["accept"] = "setFind"
                  /\ pio' = [pio EXCEPT ![arg["accept"]] = "live"]
                  /\ Goto("accept", "set") \/ Goto("accept", "post")
                  /\ section' = section /\ copies' \subseteq copies \cup {"accept"}
                  /\ UNCHANGED <<open, sock, phd, io, table, mem, iter, asked, arg, next, lapped>>
    /\ \A w : RemoveFind(w) =>
          /\ pc[w] = "removeFind"
          /\ Goto(w, "close") \/ Goto(w, "wait")
          /\ section' = section /\ copies' \subseteq copies \cup {w}
          /\ UNCHANGED <<open, sock, phd, pio, io, table, mem, asked, arg, next, lapped>>
  BY DEF InsertFind, SetFind, RemoveFind, Lock, NoLock

LEMMA ClosedNumbers ==
    ASSUME NEW f \in [Socks -> 0..MaxConn], NEW k
    PROVE  LET g == [f EXCEPT ![k] = 0]
           IN  g \in [Socks -> 0..MaxConn] /\ \A s \in Socks : g[s] # 0 => g[s] = f[s]
  <1> DEFINE g == [f EXCEPT ![k] = 0]
  <1>1. 0 \in 0..MaxConn
    BY ConnAssumption DEF ConnAssumption
  <1>2. \A s \in Socks : g[s] = 0 \/ g[s] = f[s]
    OBVIOUS
  <1>3. g \in [Socks -> 0..MaxConn]
    BY <1>1
  <1> QED BY <1>2, <1>3

LEMMA PlacesNext ==
    ASSUME ConnAssumption, Places, [Next]_vars PROVE Places'
  <1> USE DEF Places, Numbered, Accepted, Conns, Threads, Goto, NoLock, Lock, Unlock, Labels, memory
  <1>1. ASSUME NEW s \in Socks, Accept(s) PROVE Places'
    BY <1>1 DEF Accept, ConnAssumption
  <1>2. CASE InsertFind
    <2>1. /\ pc["accept"] = "insertFind" /\ section' = section /\ copies' \subseteq copies \cup {"accept"}
          /\ UNCHANGED <<open, sock, phd, pio, io, arg, next, asked, lapped>>
      BY <1>2, Lookups
    <2>2. CASE Goto("accept", "setFind")
      BY <2>1, <2>2 DEF ConnAssumption
    <2>3. CASE Goto("accept", "insert")
      BY <2>1, <2>3 DEF ConnAssumption
    <2> QED BY <1>2, <2>2, <2>3, Lookups
  <1>3. CASE Insert
    BY <1>3 DEF Insert, ConnAssumption
  <1>4. CASE SetFind
    <2>1. /\ pc["accept"] = "setFind" /\ section' = section /\ copies' \subseteq copies \cup {"accept"}
          /\ UNCHANGED <<open, sock, phd, io, arg, next, asked, lapped>>
          /\ pio' = [pio EXCEPT ![arg["accept"]] = "live"]
      BY <1>4, Lookups
    <2>2. CASE Goto("accept", "set")
      BY <2>1, <2>2 DEF ConnAssumption
    <2>3. CASE Goto("accept", "post")
      BY <2>1, <2>3 DEF ConnAssumption
    <2> QED BY <1>4, <2>2, <2>3, Lookups
  <1>5. CASE Set
    BY <1>5 DEF Set, ConnAssumption
  <1>6. CASE Post
    BY <1>6 DEF Post, PostRecv
  <1>7. ASSUME NEW w \in Workers, NEW c \in Conns, Complete(w, c) PROVE Places'
    <2>1. CASE Goto(w, "data") /\ open[sock[c]] = c
      BY <1>7, <2>1 DEF Complete, Taken, ConnAssumption
    <2>2. CASE Goto(w, "removeFind")
      BY <1>7, <2>2 DEF Complete, Taken, ConnAssumption
    <2> QED BY <1>7, <2>1, <2>2 DEF Complete
  <1>8. ASSUME NEW w \in Workers, Data(w) PROVE Places'
    <2>1. /\ pc[w] = "data" /\ Goto(w, "wait")
          /\ UNCHANGED <<open, sock, phd, pio, arg, next, section, copies, lapped>>
      BY <1>8 DEF Data
    <2>2. asked' = asked \cup {arg[w]} /\ arg[w] \in Conns
      BY <1>8 DEF Data
    <2>3. asked' \subseteq Accepted
      BY <1>8, <2>2 DEF Data
    <2>4. io' \in [Conns -> {"idle", "posted"}] /\ \A c \in Conns : c >= next => io'[c] = "idle"
      <3>1. io' = io \/ io' = [io EXCEPT ![arg[w]] = "posted"]
        BY <1>8 DEF Data, PostRecv
      <3>2. ~(arg[w] >= next)
        BY <2>1 DEF Data
      <3> QED BY <3>1, <3>2, <2>2
    <2> QED BY <2>1, <2>3, <2>4 DEF ConnAssumption
  <1>9. ASSUME NEW w \in Workers, RemoveFind(w) PROVE Places'
    <2>1. /\ pc[w] = "removeFind" /\ section' = section /\ copies' \subseteq copies \cup {w}
          /\ UNCHANGED <<open, sock, phd, pio, io, arg, next, asked, lapped>>
      BY <1>9, Lookups
    <2>2. CASE Goto(w, "close")
      BY <2>1, <2>2 DEF ConnAssumption
    <2>3. CASE Goto(w, "wait")
      BY <2>1, <2>3 DEF ConnAssumption
    <2> QED BY <1>9, <2>2, <2>3, Lookups
  <1>10. ASSUME NEW w \in Workers, Close(w) PROVE Places'
    <2>1. PICK k : open' = [open EXCEPT ![k] = 0]
      BY <1>10 DEF Close
    <2>2. open' \in [Socks -> 0..MaxConn] /\ \A s \in Socks : open'[s] # 0 => open'[s] = open[s]
      <3>1. open \in [Socks -> 0..MaxConn]
        OBVIOUS
      <3> QED BY ONLY <2>1, <3>1, ClosedNumbers
    <2> QED BY <1>10, <2>2 DEF Close, ConnAssumption
  <1>11. ASSUME NEW w \in Workers, Free(w) PROVE Places'
    <2>1. phd' \in [Conns -> {"none", "live", "freed", "twice"}]
      BY <1>11 DEF Free, Freed
    <2>2. pio' \in [Conns -> {"none", "live", "freed", "twice"}]
      BY <1>11 DEF Free, Freed
    <2> QED BY <1>11, <2>1, <2>2 DEF Free, ConnAssumption
  <1>12. ASSUME NEW w \in Workers, Erase(w) PROVE Places'
    BY <1>12 DEF Erase, ConnAssumption
  <1>13. ASSUME NEW c \in Conns, SetterFind(c) PROVE Places'
    BY <1>13 DEF SetterFind, ConnAssumption
  <1>14. CASE Assign
    BY <1>14 DEF Assign, ConnAssumption
  <1>15. CASE UNCHANGED vars
    BY <1>15 DEF vars
  <1> QED
    BY <1>1, <1>2, <1>3, <1>4, <1>5, <1>6, <1>7, <1>8, <1>9, <1>10, <1>11, <1>12, <1>13,
       <1>14, <1>15 DEF Next, AcceptLoop, ServerWorkThread, QueueThread

\* The accept loop and the queue thread move no worker, and a worker no other.
LEMMA OthersStay ==
    ASSUME ConnAssumption, Places, AcceptLoop \/ QueueThread \/ UNCHANGED vars
    PROVE  \A v \in Workers : pc'[v] = pc[v] /\ arg'[v] = arg[v]
  <1> USE DEF ConnAssumption
  <1>1. ASSUME NEW t \in {"accept", "queue"}, NEW l, pc' = [pc EXCEPT ![t] = l],
               arg' = arg \/ \E c : arg' = [arg EXCEPT ![t] = c]
        PROVE  \A v \in Workers : pc'[v] = pc[v] /\ arg'[v] = arg[v]
    <2> TAKE v \in Workers
    <2>1. v # t /\ v \in Threads
      BY <1>1 DEF Threads
    <2>2. pc'[v] = pc[v]
      BY <1>1, <2>1 DEF Places, Numbered
    <2>3. arg'[v] = arg[v]
      <3>1. CASE arg' = arg
        BY <3>1
      <3>2. CASE \E c : arg' = [arg EXCEPT ![t] = c]
        <4>1. DOMAIN arg = Threads
          BY DEF Places, Numbered
        <4> QED BY ONLY <3>2, <4>1, <2>1
      <3> QED BY <1>1, <3>1, <3>2
    <2> QED BY <2>2, <2>3
  <1>2. CASE AcceptLoop
    <2>1. /\ \E l : pc' = [pc EXCEPT !["accept"] = l]
          /\ arg' = arg \/ \E c : arg' = [arg EXCEPT !["accept"] = c]
      BY <1>2, Lookups DEF AcceptLoop, Accept, Insert, Set, Post, Goto
    <2> QED BY <2>1, <1>1
  <1>3. CASE QueueThread
    <2>1. /\ \E l : pc' = [pc EXCEPT !["queue"] = l]
          /\ arg' = arg \/ \E c : arg' = [arg EXCEPT !["queue"] = c]
      BY <1>3 DEF QueueThread, SetterFind, Assign, Goto
    <2> QED BY <2>1, <1>1
  <1>4. CASE UNCHANGED vars
    BY <1>4 DEF vars
  <1> QED BY <1>2, <1>3, <1>4

LEMMA WorkersStay ==
    ASSUME ConnAssumption, Places, NEW w \in Workers, ServerWorkThread(w)
    PROVE  /\ \A v \in Workers : v # w => pc'[v] = pc[v] /\ arg'[v] = arg[v]
           /\ ~(\E c \in Conns : Complete(w, c)) => arg' = arg
           /\ (\E c \in Conns : Complete(w, c)) \/ Data(w) \/ Erase(w) => ~Holding(w)'
           /\ Close(w) \/ Free(w) \/ Erase(w) => Holding(w)
  <1>1. PICK l : /\ pc' = [pc EXCEPT ![w] = l]
                 /\ arg' = arg \/ \E c \in Conns : Complete(w, c) /\ arg' = [arg EXCEPT ![w] = c]
                 /\ (\E c \in Conns : Complete(w, c)) \/ Data(w) \/ Erase(w)
                        => l \in {"data", "removeFind", "wait"}
    <2>1. CASE \E c \in Conns : Complete(w, c)
      BY <2>1 DEF Complete, Data, Erase, Goto
    <2>2. CASE Data(w)
      BY <2>2 DEF Data, Goto
    <2>3. CASE RemoveFind(w)
      BY <2>3, Lookups DEF Complete, Data, Erase, Goto
    <2>4. CASE Close(w)
      BY <2>4 DEF Close, Complete, Data, Erase, Goto
    <2>5. CASE Free(w)
      BY <2>5 DEF Free, Complete, Data, Erase, Goto
    <2>6. CASE Erase(w)
      BY <2>6 DEF Erase, Goto
    <2> QED BY <2>1, <2>2, <2>3, <2>4, <2>5, <2>6 DEF ServerWorkThread
  <1>2. pc'[w] = l
    BY <1>1, ConnAssumption DEF Places, Numbered, Threads, ConnAssumption
  <1>3. (\E c \in Conns : Complete(w, c)) \/ Data(w) \/ Erase(w) => ~Holding(w)'
    BY <1>1, <1>2 DEF Holding
  <1>4. Close(w) \/ Free(w) \/ Erase(w) => Holding(w)
    BY DEF Close, Free, Erase, Holding
  <1>5. \A v \in Workers : v # w => pc'[v] = pc[v] /\ arg'[v] = arg[v]
    BY <1>1 DEF Places, Numbered, Threads
  <1> QED BY <1>1, <1>3, <1>4, <1>5

\* The steps that write m_mUserInfo write records into it.
LEMMA Kinds ==
    ASSUME Recs, NEW s \in Socks
    PROVE  /\ At(s) \in Record
           /\ \A c \in Conns : [At(s) EXCEPT !.pio = c] \in Record /\ [At(s) EXCEPT !.user = c] \in Record
           /\ \A c \in Conns : NewRecord(s, c) \in Record
  <1>1. \A c \in 0..MaxConn : NewRecord(s, c) \in Record
    BY ConnAssumption DEF Record, NewRecord, ConnAssumption
  <1>2. At(s) \in Record
    BY <1>1, ConnAssumption DEF At, Recs, ConnAssumption
  <1>3. ASSUME NEW c \in Conns
        PROVE  [At(s) EXCEPT !.pio = c] \in Record /\ [At(s) EXCEPT !.user = c] \in Record
    <2> DEFINE r == At(s)
    <2>1. r \in Record
      BY <1>2
    <2> HIDE DEF r
    <2>2. [r EXCEPT !.pio = c] \in Record /\ [r EXCEPT !.user = c] \in Record
      BY <2>1, ConnAssumption DEF Record, Conns, ConnAssumption
    <2> QED BY <2>2 DEF r
  <1> QED BY <1>1, <1>2, <1>3 DEF Conns

\* A record is put into the node of its number, or into a new one.
LEMMA Puts ==
    ASSUME Recs, NEW s \in Socks, NEW r, Put(s, r)
    PROVE  \E n \in Nodes : /\ table' = [table EXCEPT ![s] = n] /\ mem' = [mem EXCEPT ![n] = r]
                            /\ \/ Present(s) /\ n = table[s]
                               \/ ~Present(s) /\ \A t \in Socks : table[t] # n
  <1>1. CASE Present(s) /\ mem' = [mem EXCEPT ![table[s]] = r] /\ UNCHANGED table
    <2>1. table[s] \in Nodes /\ table' = [table EXCEPT ![s] = table[s]]
      BY <1>1 DEF Recs, Present
    <2> QED BY <1>1, <2>1
  <1>2. CASE ~Present(s) /\ Make(s, r)
    BY <1>2 DEF Make
  <1> QED BY <1>1, <1>2 DEF Put

\* Insert puts a record, or nothing changes.
LEMMA Inserts ==
    ASSUME Insert
    PROVE  \/ Present(sock[arg["accept"]]) /\ UNCHANGED <<table, mem>>
           \/ /\ ~Present(sock[arg["accept"]])
              /\ Put(sock[arg["accept"]], NewRecord(sock[arg["accept"]], arg["accept"]))
  BY DEF Insert, Put

LEMMA PutRecs ==
    ASSUME Recs, NEW s \in Socks, NEW r \in Record, Put(s, r), UNCHANGED iter,
           \A w \in Workers : Holding(w)' => Holding(w)
    PROVE  Recs'
  <1>1. PICK n \in Nodes : table' = [table EXCEPT ![s] = n] /\ mem' = [mem EXCEPT ![n] = r]
    BY Puts
  <1>2. /\ table' \in [Socks -> Nodes \cup {NoNode}] /\ mem' \in [Nodes -> Record \cup {NoRec}]
        /\ iter' \in [Workers -> Nodes \cup {NoNode}]
    BY <1>1 DEF Recs
  <1>3. \A m \in Nodes : mem[m] \in Record \/ m = n => mem'[m] \in Record
    BY <1>1 DEF Recs
  <1>4. \A t \in Socks : Present(t)' => mem'[table'[t]] \in Record
    <2> SUFFICES ASSUME NEW t \in Socks, Present(t)' PROVE mem'[table'[t]] \in Record
      OBVIOUS
    <2>1. CASE t = s
      BY <2>1, <1>1, <1>3 DEF Recs
    <2>2. CASE t # s
      BY <2>2, <1>1, <1>2, <1>3 DEF Recs, Present
    <2> QED BY <2>1, <2>2
  <1>5. \A w \in Workers : Holding(w)' => iter'[w] \in Nodes /\ mem'[iter'[w]] \in Record
    BY <1>3 DEF Recs
  <1> QED BY <1>2, <1>4, <1>5 DEF Recs

\* A step that leaves the map alone and gives nobody an iterator.
LEMMA RecsQuiet ==
    ASSUME Recs, UNCHANGED <<table, mem, iter>>, \A w \in Workers : Holding(w)' => Holding(w)
    PROVE  Recs'
  BY DEF Recs, Present

LEMMA RecsNext ==
    ASSUME ConnAssumption, Places, Recs, [Next]_vars PROVE Recs'
  <1> USE DEF ConnAssumption
  <1>1. CASE Insert
    <2> DEFINE a == arg["accept"]
    <2>1. sock[a] \in Socks /\ a \in Conns /\ UNCHANGED iter
      BY <1>1 DEF Insert, Places, Numbered, Accepted
    <2>2. \A w \in Workers : Holding(w)' => Holding(w)
      BY <1>1, OthersStay DEF AcceptLoop, Holding
    <2>3. UNCHANGED <<table, mem>> \/ Put(sock[a], NewRecord(sock[a], a))
      BY <1>1, Inserts
    <2> QED BY <2>1, <2>2, <2>3, Kinds, PutRecs, RecsQuiet
  <1>2. CASE Set
    <2> DEFINE a == arg["accept"]
    <2>1. sock[a] \in Socks /\ a \in Conns /\ UNCHANGED iter
      BY <1>2 DEF Set, Places, Numbered, Accepted
    <2>2. \A w \in Workers : Holding(w)' => Holding(w)
      BY <1>2, OthersStay DEF AcceptLoop, Holding
    <2>3. Put(sock[a], [At(sock[a]) EXCEPT !.pio = a])
      BY <1>2 DEF Set
    <2> QED BY <2>1, <2>2, <2>3, Kinds, PutRecs
  <1>3. CASE Assign
    <2> DEFINE a == arg["queue"]
    <2>1. sock[a] \in Socks /\ a \in Conns /\ UNCHANGED iter
      BY <1>3 DEF Assign, Places, Numbered, Accepted
    <2>2. \A w \in Workers : Holding(w)' => Holding(w)
      BY <1>3, OthersStay DEF QueueThread, Holding
    <2>3. Put(sock[a], [At(sock[a]) EXCEPT !.user = a])
      BY <1>3 DEF Assign
    <2> QED BY <2>1, <2>2, <2>3, Kinds, PutRecs
  <1>4. ASSUME NEW w \in Workers, RemoveFind(w) PROVE Recs'
    <2>1. CASE Present(sock[arg[w]]) /\ iter' = [iter EXCEPT ![w] = table[sock[arg[w]]]]
      <3>1. sock[arg[w]] \in Socks /\ UNCHANGED <<table, mem>>
        BY <1>4 DEF RemoveFind, Places, Numbered
      <3>2. table[sock[arg[w]]] \in Nodes /\ mem[table[sock[arg[w]]]] \in Record
        BY <3>1, <2>1 DEF Recs, Present
      <3>3. \A v \in Workers : v # w /\ Holding(v)' => Holding(v)
        BY <1>4, WorkersStay DEF ServerWorkThread, Holding
      <3> QED BY <2>1, <3>1, <3>2, <3>3 DEF Recs, Present
    <2>2. CASE UNCHANGED iter /\ Goto(w, "wait")
      <3>1. UNCHANGED <<table, mem>>
        BY <1>4, Lookups
      <3>2. \A v \in Workers : Holding(v)' => Holding(v)
        BY <2>2 DEF Goto, Places, Numbered, Threads, Holding
      <3> QED BY <2>2, <3>1, <3>2, RecsQuiet
    <2> QED BY <1>4, <2>1, <2>2 DEF RemoveFind
  <1>5. ASSUME NEW w \in Workers, Erase(w) PROVE Recs'
    <2>1. /\ table' = [s \in Socks |-> IF table[s] = iter[w] THEN NoNode ELSE table[s]]
          /\ UNCHANGED <<mem, iter>>
      BY <1>5 DEF Erase, Erased
    <2>2. \A v \in Workers : Holding(v)' => Holding(v)
      BY <1>5, WorkersStay DEF ServerWorkThread, Holding
    <2>3. table' \in [Socks -> Nodes \cup {NoNode}]
      BY <2>1 DEF Recs
    <2>4. \A s \in Socks : Present(s)' => Present(s) /\ table'[s] = table[s]
      BY <2>1 DEF Present
    <2> QED BY <2>1, <2>2, <2>3, <2>4 DEF Recs
  <1>6. ASSUME NEW w \in Workers, Close(w) \/ Free(w) \/ Data(w) PROVE Recs'
    <2>1. UNCHANGED <<table, mem, iter>>
      BY <1>6 DEF Close, Free, Data, memory
    <2>2. \A v \in Workers : Holding(v)' => Holding(v)
      BY <1>6, WorkersStay DEF ServerWorkThread, Holding
    <2> QED BY <2>1, <2>2, RecsQuiet
  <1>7. ASSUME NEW w \in Workers, NEW c \in Conns, Complete(w, c) PROVE Recs'
    <2>1. UNCHANGED <<table, mem, iter>>
      BY <1>7 DEF Complete, memory
    <2>2. \A v \in Workers : Holding(v)' => Holding(v)
      BY <1>7, WorkersStay DEF ServerWorkThread, Holding
    <2> QED BY <2>1, <2>2, RecsQuiet
  <1>8. CASE \/ \E s \in Socks : Accept(s)
             \/ InsertFind \/ SetFind \/ Post
             \/ \E c \in Conns : SetterFind(c)
             \/ UNCHANGED vars
    <2>1. UNCHANGED <<table, mem, iter>>
      BY <1>8, Lookups DEF Accept, Post, SetterFind, vars, memory
    <2>2. \A v \in Workers : pc'[v] = pc[v]
      BY <1>8, OthersStay DEF AcceptLoop, QueueThread
    <2> QED BY <2>1, <2>2, RecsQuiet DEF Holding
  <1> QED
    BY <1>1, <1>2, <1>3, <1>4, <1>5, <1>6, <1>7, <1>8
    DEF Next, AcceptLoop, ServerWorkThread, QueueThread

LEMMA TypedNext ==
    ASSUME Typed, [Next]_vars PROVE Typed'
  <1>1. (Typed <=> Places /\ Recs)'
    BY DEF Typed, TypeOK, Places, Recs, Holding, Numbered, Accepted, Conns
  <1> QED BY <1>1, ConnAssumption, TypedParts, PlacesNext, RecsNext

\* Every variable holds values of its kind, for any number of threads, socket
\* numbers, addresses and connections, also after a number has come back too
\* early: the pointers of a record are NULL or numbers of connections, and what
\* an iterator designates is or was a node of m_mUserInfo.
THEOREM ConnTypeCorrect == Spec => []TypeOK
  <1>1. Init => Typed
    BY ConnAssumption, TypedInit
  <1>2. Typed /\ [Next]_vars => Typed'
    BY ConnAssumption, TypedNext
  <1>3. Typed => TypeOK
    BY DEF Typed
  <1> QED
    BY <1>1, <1>2, <1>3, PTL DEF Spec

------------------------------------------------------------------------------
(* The token of a connection *)

LEMMA TokensInit == Init => Tokens
  BY DEF Init, Tokens, Unshared, Threads

LEMMA TokensNext ==
    ASSUME ConnAssumption, Places, Recs, Map, Tokens, [Next]_vars PROVE Tokens'
  <1> USE DEF Tokens, Unshared, Places, Numbered, Accepted, Conns, Threads, Goto,
              NoLock, Lock, Unlock, Labels, memory
  <1>1. ASSUME NEW s \in Socks, Accept(s) PROVE Tokens'
    BY <1>1 DEF Accept, ConnAssumption, NumberFree
  <1>2. CASE InsertFind
    <2>1. /\ pc["accept"] = "insertFind" /\ section' = section /\ copies' \subseteq copies \cup {"accept"}
          /\ UNCHANGED <<open, sock, phd, pio, io, arg, next, asked, lapped>>
      BY <1>2, Lookups
    <2>2. CASE Goto("accept", "setFind")
      BY <2>1, <2>2 DEF ConnAssumption
    <2>3. CASE Goto("accept", "insert")
      BY <2>1, <2>3 DEF ConnAssumption
    <2> QED BY <1>2, <2>2, <2>3, Lookups
  <1>3. CASE Insert
    BY <1>3 DEF Insert, ConnAssumption
  <1>4. CASE SetFind
    <2>1. /\ pc["accept"] = "setFind" /\ section' = section /\ copies' \subseteq copies \cup {"accept"}
          /\ UNCHANGED <<open, sock, phd, io, arg, next, asked, lapped>>
          /\ pio' = [pio EXCEPT ![arg["accept"]] = "live"]
      BY <1>4, Lookups
    <2>2. CASE Goto("accept", "set")
      BY <2>1, <2>2 DEF ConnAssumption
    <2>3. CASE Goto("accept", "post")
      BY <2>1, <2>3 DEF ConnAssumption
    <2> QED BY <1>4, <2>2, <2>3, Lookups
  <1>5. CASE Set
    BY <1>5 DEF Set, ConnAssumption
  <1>6. CASE Post
    <2> DEFINE a == arg["accept"]
    <2>1. CASE UNCHANGED io
      BY <1>6, <2>1 DEF Post, ConnAssumption
    <2>2. CASE io' = [io EXCEPT ![a] = "posted"]
      BY <1>6, <2>2 DEF Post, ConnAssumption
    <2> QED BY <1>6, <2>1, <2>2 DEF Post, PostRecv
  <1>7. ASSUME NEW w \in Workers, NEW c \in Conns, Complete(w, c) PROVE Tokens'
    <2>1. CASE Goto(w, "data") /\ open[sock[c]] = c
      BY <1>7, <2>1 DEF Complete, Taken, ConnAssumption
    <2>2. CASE Goto(w, "removeFind")
      BY <1>7, <2>2 DEF Complete, Taken, ConnAssumption
    <2> QED BY <1>7, <2>1, <2>2 DEF Complete
  <1>8. ASSUME NEW w \in Workers, Data(w) PROVE Tokens'
    <2>1. CASE UNCHANGED io
      BY <1>8, <2>1 DEF Data, ConnAssumption
    <2>2. CASE open[sock[arg[w]]] = arg[w] /\ io' = [io EXCEPT ![arg[w]] = "posted"]
      BY <1>8, <2>2 DEF Data, ConnAssumption
    <2> QED BY <1>8, <2>1, <2>2 DEF Data, PostRecv
  <1>9. ASSUME NEW w \in Workers, RemoveFind(w) PROVE Tokens'
    <2>1. /\ pc[w] = "removeFind" /\ section' = section /\ copies' \subseteq copies \cup {w}
          /\ UNCHANGED <<open, sock, phd, pio, io, arg, next, asked, lapped>>
      BY <1>9, Lookups
    <2>2. CASE Goto(w, "close")
      BY <2>1, <2>2 DEF ConnAssumption
    <2>3. CASE Goto(w, "wait")
      BY <2>1, <2>3 DEF ConnAssumption
    <2> QED BY <1>9, <2>2, <2>3, Lookups
  <1>10. ASSUME NEW w \in Workers, Close(w) PROVE Tokens'
    <2>1. mem[iter[w]].key = sock[arg[w]]
      <3>1. Holding(w) /\ sock[arg[w]] \in Socks
        BY <1>10 DEF Close, Holding
      <3> QED BY <3>1, ConnAssumption DEF Map, Recs, Present, ConnAssumption
    <2>2. open' = [open EXCEPT ![sock[arg[w]]] = 0]
      BY <1>10, <2>1 DEF Close
    <2> QED BY <1>10, <2>2 DEF Close, ConnAssumption
  <1>11. ASSUME NEW w \in Workers, Free(w) PROVE Tokens'
    BY <1>11 DEF Free, ConnAssumption
  <1>12. ASSUME NEW w \in Workers, Erase(w) PROVE Tokens'
    BY <1>12 DEF Erase, ConnAssumption
  <1>13. ASSUME NEW c \in Conns, SetterFind(c) PROVE Tokens'
    BY <1>13 DEF SetterFind, ConnAssumption
  <1>14. CASE Assign
    BY <1>14 DEF Assign, ConnAssumption
  <1>15. CASE UNCHANGED vars
    BY <1>15 DEF vars
  <1> QED
    BY <1>1, <1>2, <1>3, <1>4, <1>5, <1>6, <1>7, <1>8, <1>9, <1>10, <1>11, <1>12, <1>13,
       <1>14, <1>15 DEF Next, AcceptLoop, ServerWorkThread, QueueThread

------------------------------------------------------------------------------
(* The buffers *)

\* A worker has closed the number and frees the buffers or erases the record.
Removing(w) == pc[w] \in {"free", "erase"}

\* One worker at most removes the record of a number, and the number is not
\* handed out meanwhile.
Removals ==
    /\ \A w \in Workers : Removing(w) => open[sock[arg[w]]] = 0
    /\ \A w, v \in Workers : Removing(w) /\ Removing(v) /\ sock[arg[w]] = sock[arg[v]] => w = v

\* A step that leaves the map alone leaves the records.
LEMMA SameRec == UNCHANGED <<table, mem>> => rec' = rec
  BY DEF rec, Present

LEMMA MapInit == ConnAssumption /\ Init => Map
  BY DEF Init, Map, Present, Holding, Threads, ConnAssumption

\* An iterator designates the node of its worker's number.
LEMMA OwnNode ==
    ASSUME ConnAssumption, Places, Recs, Map, NEW w \in Workers, Holding(w)
    PROVE  /\ sock[arg[w]] \in Socks /\ Present(sock[arg[w]]) /\ iter[w] = table[sock[arg[w]]]
           /\ mem[iter[w]].key = sock[arg[w]] /\ mem[iter[w]] = rec[sock[arg[w]]]
  <1>1. sock[arg[w]] \in Socks
    BY DEF Places, Numbered, Holding
  <1>2. Present(sock[arg[w]]) /\ iter[w] = table[sock[arg[w]]]
    BY <1>1 DEF Map, Recs, Present, ConnAssumption
  <1> QED BY <1>1, <1>2 DEF Map, rec

\* What a put does to the records: it writes one.
LEMMA PutEffect ==
    ASSUME ConnAssumption, Recs, Map, NEW s \in Socks, NEW r, Put(s, r)
    PROVE  \A t \in Socks : rec'[t] = rec[t] \/ (t = s /\ rec'[t] = r)
  <1>1. PICK n \in Nodes : /\ table' = [table EXCEPT ![s] = n] /\ mem' = [mem EXCEPT ![n] = r]
                           /\ \/ Present(s) /\ n = table[s]
                              \/ ~Present(s) /\ \A t \in Socks : table[t] # n
    BY Puts
  <1>2. table'[s] = n /\ mem'[n] = r /\ n # NoNode
    BY <1>1 DEF Recs, ConnAssumption
  <1>3. rec'[s] = r
    BY <1>2 DEF rec, Present
  <1>4. ASSUME NEW t \in Socks, t # s PROVE rec'[t] = rec[t]
    <2>1. table'[t] = table[t] /\ (Present(t) => table[t] # n)
      BY <1>1, <1>4 DEF Recs, Map
    <2>2. Present(t) => mem'[table[t]] = mem[table[t]]
      BY <2>1, <1>1 DEF Recs, Present
    <2> QED BY <2>1, <2>2 DEF rec, Present
  <1> QED BY <1>3, <1>4

LEMMA InsertEffect ==
    ASSUME ConnAssumption, Recs, Map, Insert, sock[arg["accept"]] \in Socks
    PROVE  LET a == arg["accept"]  s == sock[a]
           IN  \A t \in Socks : rec'[t] = rec[t] \/ (t = s /\ rec'[t] = NewRecord(s, a))
  BY Inserts, PutEffect, SameRec

LEMMA EraseEffect ==
    ASSUME ConnAssumption, Places, Recs, Map, NEW w \in Workers, Erase(w)
    PROVE  rec' = [rec EXCEPT ![sock[arg[w]]] = NoRec]
  <1> DEFINE s == sock[arg[w]]
  <1>1. s \in Socks /\ Present(s) /\ iter[w] = table[s]
    BY OwnNode DEF Erase, Holding
  <1>2. table' = [t \in Socks |-> IF table[t] = table[s] THEN NoNode ELSE table[t]] /\ mem' = mem
    BY <1>1 DEF Erase, Erased
  <1>3. \A t \in Socks : table'[t] = IF t = s THEN NoNode ELSE table[t]
    BY <1>1, <1>2 DEF Map
  <1> HIDE DEF s
  <1>4. \A t \in Socks : rec'[t] = IF t = s THEN NoRec ELSE rec[t]
    BY <1>1, <1>2, <1>3 DEF rec, Present
  <1>5. rec' = [t \in Socks |-> rec'[t]] /\ rec = [t \in Socks |-> rec[t]]
    BY DEF rec
  <1>6. rec' = [t \in Socks |-> IF t = s THEN NoRec ELSE rec[t]]
    BY <1>4, <1>5
  <1> QED BY <1>5, <1>6 DEF s

\* A put keeps the map a map and every iterator good.
LEMMA MapPut ==
    ASSUME ConnAssumption, Places, Recs, Map, NEW s \in Socks, NEW r, r.key = s, Put(s, r),
           UNCHANGED <<iter, sock, arg>>, \A w \in Workers : Holding(w)' => Holding(w)
    PROVE  Map'
  <1>1. PICK n \in Nodes : /\ table' = [table EXCEPT ![s] = n] /\ mem' = [mem EXCEPT ![n] = r]
                           /\ \/ Present(s) /\ n = table[s]
                              \/ ~Present(s) /\ \A t \in Socks : table[t] # n
    BY Puts
  <1>2. table'[s] = n /\ mem'[n] = r
    BY <1>1 DEF Recs
  <1>3. \A t \in Socks : t # s => table'[t] = table[t] /\ (Present(t) => table[t] # n)
    BY <1>1 DEF Recs, Map
  <1>4. \A t, u \in Socks : Present(t)' /\ table'[t] = table'[u] => t = u
    BY <1>2, <1>3 DEF Map, Present
  <1>5. \A t \in Socks : Present(t)' => mem'[table'[t]].key = t
    <2> SUFFICES ASSUME NEW t \in Socks, Present(t)', t # s PROVE mem'[table'[t]].key = t
      BY <1>2
    <2>1. Present(t) /\ table[t] \in Nodes /\ table[t] # n /\ table'[t] = table[t]
      BY <1>3 DEF Present, Recs
    <2> QED BY <2>1, <1>1 DEF Map, Recs
  <1>6. \A w \in Workers : Holding(w) => iter[w] = table'[sock[arg[w]]]
    <2> SUFFICES ASSUME NEW w \in Workers, Holding(w) PROVE table'[sock[arg[w]]] = table[sock[arg[w]]]
      BY DEF Map
    <2> QED BY <1>1, <1>2, <1>3, OwnNode
  <1> QED BY <1>4, <1>5, <1>6 DEF Map

LEMMA MapQuiet ==
    ASSUME Map, UNCHANGED <<table, mem, iter>>,
           \A w \in Workers : Holding(w)' => Holding(w) /\ sock'[arg'[w]] = sock[arg[w]]
    PROVE  Map'
  BY DEF Map, Present

LEMMA Keys ==
    ASSUME Recs, Map, NEW s \in Socks, NEW c
    PROVE  /\ NewRecord(s, c).key = s
           /\ [At(s) EXCEPT !.pio = c].key = s /\ [At(s) EXCEPT !.user = c].key = s
  <1> DEFINE r == At(s)
  <1>1. r \in Record /\ r.key = s
    BY Kinds DEF At, Map, NewRecord
  <1> HIDE DEF r
  <1>2. [r EXCEPT !.pio = c].key = s /\ [r EXCEPT !.user = c].key = s
    BY <1>1 DEF Record
  <1> QED BY <1>2 DEF r, NewRecord

LEMMA MapNext ==
    ASSUME ConnAssumption, Places, Recs, Map, Tokens, Removals, [Next]_vars PROVE Map'
  <1> USE DEF ConnAssumption
  <1>1. ASSUME NEW s \in Socks, Accept(s) PROVE Map'
    <2>1. UNCHANGED <<table, mem, iter>>
      BY <1>1 DEF Accept
    <2>2. \A w \in Workers : Holding(w)' => Holding(w) /\ arg[w] \in Accepted /\ arg'[w] = arg[w]
      BY <1>1, OthersStay DEF AcceptLoop, Places, Numbered, Holding
    <2>3. \A c \in Accepted : sock'[c] = sock[c]
      BY <1>1 DEF Accept, Places, Accepted, Conns
    <2> QED BY <2>1, <2>2, <2>3, MapQuiet
  <1>2. CASE Insert
    <2> DEFINE a == arg["accept"]
    <2>1. sock[a] \in Socks /\ UNCHANGED <<iter, sock, arg>>
      BY <1>2 DEF Insert, Places, Numbered
    <2>2. \A w \in Workers : Holding(w)' => Holding(w)
      BY <1>2, OthersStay DEF AcceptLoop, Holding
    <2>3. UNCHANGED <<table, mem>> \/ Put(sock[a], NewRecord(sock[a], a))
      BY <1>2, Inserts
    <2> QED BY <2>1, <2>2, <2>3, Keys, MapPut, MapQuiet
  <1>3. CASE Set
    <2> DEFINE a == arg["accept"]
    <2>1. sock[a] \in Socks /\ UNCHANGED <<iter, sock, arg>>
      BY <1>3 DEF Set, Places, Numbered
    <2>2. \A w \in Workers : Holding(w)' => Holding(w)
      BY <1>3, OthersStay DEF AcceptLoop, Holding
    <2>3. Put(sock[a], [At(sock[a]) EXCEPT !.pio = a])
      BY <1>3 DEF Set
    <2> QED BY <2>1, <2>2, <2>3, Keys, MapPut
  <1>4. CASE Assign
    <2> DEFINE a == arg["queue"]
    <2>1. sock[a] \in Socks /\ UNCHANGED <<iter, sock, arg>>
      BY <1>4 DEF Assign, Places, Numbered
    <2>2. \A w \in Workers : Holding(w)' => Holding(w)
      BY <1>4, OthersStay DEF QueueThread, Holding
    <2>3. Put(sock[a], [At(sock[a]) EXCEPT !.user = a])
      BY <1>4 DEF Assign
    <2> QED BY <2>1, <2>2, <2>3, Keys, MapPut
  <1>5. ASSUME NEW w \in Workers, RemoveFind(w) PROVE Map'
    <2>1. UNCHANGED <<table, mem, sock, arg>>
      BY <1>5 DEF RemoveFind
    <2>2. \A v \in Workers : v # w => (Holding(v)' => Holding(v)) /\ iter'[v] = iter[v]
      <3>1. \A v \in Workers : v # w => (Holding(v)' => Holding(v))
        BY <1>5, WorkersStay DEF ServerWorkThread, Holding
      <3>2. iter' = iter \/ iter' = [iter EXCEPT ![w] = table[sock[arg[w]]]]
        BY <1>5 DEF RemoveFind
      <3> QED BY <3>1, <3>2 DEF Recs
    <2>3. Holding(w)' => iter'[w] = table[sock[arg[w]]]
      <3>1. CASE Goto(w, "wait")
        <4>1. pc'[w] = "wait"
          BY <3>1 DEF Goto, Places, Numbered, Threads
        <4> QED BY <4>1 DEF Holding
      <3>2. CASE iter' = [iter EXCEPT ![w] = table[sock[arg[w]]]]
        BY <3>2 DEF Recs
      <3> QED BY <1>5, <3>1, <3>2 DEF RemoveFind
    <2> QED BY <2>1, <2>2, <2>3 DEF Map, Present
  <1>6. ASSUME NEW w \in Workers, Erase(w) PROVE Map'
    <2> DEFINE s == sock[arg[w]]
    <2>1. s \in Socks /\ Present(s) /\ iter[w] = table[s] /\ open[s] = 0
      BY <1>6, OwnNode DEF Erase, Holding, Removals, Removing
    <2>2. table' = [t \in Socks |-> IF table[t] = table[s] THEN NoNode ELSE table[t]]
          /\ UNCHANGED <<mem, iter, sock, arg>>
      BY <1>6, <2>1 DEF Erase, Erased
    <2>3. \A v \in Workers : Holding(v)' => Holding(v) /\ v # w
      BY <1>6, WorkersStay DEF ServerWorkThread, Holding
    <2>4. \A v \in Workers : Holding(v) /\ v # w => sock[arg[v]] # s
      <3> SUFFICES ASSUME NEW v \in Workers, Holding(v), v # w, sock[arg[v]] = s PROVE FALSE
        OBVIOUS
      <3>1. CASE pc[v] = "close"
        <4>1. open[s] = arg[v] /\ arg[v] # 0
          BY <3>1 DEF Tokens, Places, Numbered, Accepted, Conns
        <4> QED BY <4>1, <2>1
      <3>2. CASE Removing(v)
        BY <3>2, <1>6 DEF Removals, Removing, Erase
      <3> QED BY <3>1, <3>2 DEF Holding, Removing
    <2> HIDE DEF s
    <2>5. \A t \in Socks : t # s => table'[t] = table[t]
      BY <2>1, <2>2 DEF Map
    <2>6. \A t \in Socks : Present(t)' => Present(t) /\ table'[t] = table[t]
      BY <2>2 DEF Present
    <2>7. \A t, u \in Socks : Present(t)' /\ table'[t] = table'[u] => t = u
      BY <2>2, <2>6 DEF Map, Present
    <2>8. \A v \in Workers : Holding(v)' => iter'[v] = table'[sock'[arg'[v]]]
      BY <2>2, <2>3, <2>4, <2>5, OwnNode
    <2> QED BY <2>2, <2>6, <2>7, <2>8 DEF Map
  <1>7. ASSUME NEW w \in Workers, Close(w) \/ Free(w) \/ Data(w) PROVE Map'
    <2>1. UNCHANGED <<table, mem, iter, sock, arg>>
      BY <1>7 DEF Close, Free, Data, memory
    <2>2. \A v \in Workers : Holding(v)' => Holding(v)
      BY <1>7, WorkersStay DEF ServerWorkThread, Holding
    <2> QED BY <2>1, <2>2, MapQuiet
  <1>8. ASSUME NEW w \in Workers, NEW c \in Conns, Complete(w, c) PROVE Map'
    <2>1. UNCHANGED <<table, mem, iter, sock>>
      BY <1>8 DEF Complete, memory
    <2>2. \A v \in Workers : Holding(v)' => Holding(v) /\ arg'[v] = arg[v]
      BY <1>8, WorkersStay DEF ServerWorkThread, Holding
    <2> QED BY <2>1, <2>2, MapQuiet
  <1>9. CASE \/ InsertFind \/ SetFind \/ Post
             \/ \E c \in Conns : SetterFind(c)
             \/ UNCHANGED vars
    <2>1. UNCHANGED <<table, mem, iter, sock>>
      BY <1>9, Lookups DEF Post, SetterFind, vars, memory
    <2>2. \A v \in Workers : pc'[v] = pc[v] /\ arg'[v] = arg[v]
      BY <1>9, OthersStay DEF AcceptLoop, QueueThread
    <2> QED BY <2>1, <2>2, MapQuiet DEF Holding
  <1> QED
    BY <1>1, <1>2, <1>3, <1>4, <1>5, <1>6, <1>7, <1>8, <1>9
    DEF Next, AcceptLoop, ServerWorkThread, QueueThread

\* The connection the pointer of a record belongs to: the one that has the
\* number, or the one whose record is being removed.
Holds(s, p) == open[s] = p \/ \E w \in Workers : Removing(w) /\ arg[w] = p /\ sock[p] = s

Pointers ==
    \A s \in Socks :
        /\ rec[s].phd \in Conns => Holds(s, rec[s].phd)
        /\ rec[s].pio \in Conns => Holds(s, rec[s].pio)

\* The buffers of a connection live until its worker has freed them.
Buffers ==
    /\ \A c \in Conns \ Accepted : pio[c] = "none"
    /\ \A c \in Accepted : open[sock[c]] = c => phd[c] = "live" /\ pio[c] # "freed"
    /\ \A w \in Workers : pc[w] = "free" => phd[arg[w]] = "live" /\ pio[arg[w]] # "freed"
    /\ pc["accept"] \in {"set", "post"} => pio[arg["accept"]] = "live"
    /\ \A s \in Socks : rec[s].pio \in Conns =>
          \/ pio[rec[s].pio] = "live"
          \/ \E w \in Workers : pc[w] = "erase" /\ arg[w] = rec[s].pio
    /\ \A c \in Conns : phd[c] # "twice" /\ pio[c] # "twice"

Heap == Removals /\ Pointers /\ Buffers

\* A step that changes no buffer, record or number, and removes nothing.
LEMMA HeapQuiet ==
    ASSUME Places, Heap, UNCHANGED <<open, sock, rec, phd, pio, next>>,
           \A w \in Workers : Removing(w) \/ Removing(w)' => pc'[w] = pc[w] /\ arg'[w] = arg[w],
           pc'["accept"] \in {"set", "post"} =>
               pc["accept"] \in {"set", "post"} /\ arg'["accept"] = arg["accept"]
    PROVE  Heap'
  <1>1. Removals'
    BY DEF Heap, Removals, Removing
  <1>2. Pointers'
    BY DEF Heap, Pointers, Holds, Removing
  <1>3. Buffers'
    BY DEF Heap, Buffers, Removing, Accepted
  <1> QED BY <1>1, <1>2, <1>3 DEF Heap

LEMMA HeapAccept ==
    ASSUME ConnAssumption, ~lapped', Places, Tokens, Heap, NEW s \in Socks, Accept(s) PROVE Heap'
  <1>1. /\ next \in Conns /\ next \notin Accepted /\ open[s] = 0 /\ ~Closing(s) /\ pc["accept"] = "accept"
        /\ open' = [open EXCEPT ![s] = next] /\ sock' = [sock EXCEPT ![next] = s]
        /\ phd' = [phd EXCEPT ![next] = "live"] /\ next' = next + 1
        /\ pc'["accept"] = "insertFind"
        /\ \A w \in Workers : pc'[w] = pc[w] /\ arg'[w] = arg[w]
        /\ UNCHANGED <<pio, rec>>
    <2>1. rec' = rec /\ ~Closing(s)
      BY SameRec DEF Accept
    <2> QED BY <2>1 DEF Accept, NumberFree, Accepted, Goto, ConnAssumption, Places, Numbered, Threads
  <1>2. \A w \in Workers : Removing(w) => arg[w] \in Accepted /\ arg[w] \in Conns /\ sock[arg[w]] # s
                                          /\ sock'[arg[w]] = sock[arg[w]]
    BY <1>1 DEF Removing, Places, Numbered, Closing, Accepted
  <1>3. \A w \in Workers : (Removing(w)' <=> Removing(w)) /\ arg'[w] = arg[w] /\ pc'[w] = pc[w]
    BY <1>1 DEF Removing
  <1>4. Removals'
    <2>1. \A w \in Workers : Removing(w) => open'[sock'[arg[w]]] = 0
      BY <1>1, <1>2 DEF Heap, Removals, Places
    <2>2. \A w, v \in Workers :
              Removing(w) /\ Removing(v) /\ sock'[arg[w]] = sock'[arg[v]] => w = v
      BY <1>2 DEF Heap, Removals
    <2> QED BY <2>1, <2>2, <1>3 DEF Removals
  <1>5. Pointers'
    <2>1. ASSUME NEW t \in Socks, NEW p \in Conns, Holds(t, p) PROVE Holds(t, p)'
      <3>1. CASE open[t] = p
        BY <3>1, <1>1 DEF Holds, Places, Conns
      <3>2. CASE \E w \in Workers : Removing(w) /\ arg[w] = p /\ sock[p] = t
        BY <3>2, <1>2, <1>3 DEF Holds
      <3> QED BY <2>1, <3>1, <3>2 DEF Holds
    <2> QED BY <2>1, <1>1 DEF Heap, Pointers
  <1>6. Buffers'
    <2>1. \A c \in Conns \ Accepted' : pio'[c] = "none"
      BY <1>1 DEF Heap, Buffers, Accepted, Places
    <2>2. \A c \in Accepted' : open'[sock'[c]] = c => phd'[c] = "live" /\ pio'[c] # "freed"
      <3> SUFFICES ASSUME NEW c \in Accepted', open'[sock'[c]] = c
                   PROVE  phd'[c] = "live" /\ pio'[c] # "freed"
        OBVIOUS
      <3>1. CASE c = next
        BY <3>1, <1>1 DEF Heap, Buffers, Places
      <3>2. CASE c # next
        <4>1. c \in Accepted /\ c \in Conns
          BY <3>2, <1>1 DEF Accepted, Conns, Places
        <4>2. sock'[c] = sock[c] /\ sock[c] # s /\ open[sock[c]] = c
          BY <4>1, <3>2, <1>1 DEF Places, Numbered
        <4> QED BY <4>1, <4>2, <3>2, <1>1 DEF Heap, Buffers, Places
      <3> QED BY <3>1, <3>2
    <2>3. \A w \in Workers : pc'[w] = "free" => phd'[arg'[w]] = "live" /\ pio'[arg'[w]] # "freed"
      BY <1>1, <1>2 DEF Heap, Buffers, Removing, Places
    <2>4. \A t \in Socks : rec'[t].pio \in Conns =>
              \/ pio'[rec'[t].pio] = "live"
              \/ \E w \in Workers : pc'[w] = "erase" /\ arg'[w] = rec'[t].pio
      BY <1>1 DEF Heap, Buffers
    <2>5. \A c \in Conns : phd'[c] # "twice" /\ pio'[c] # "twice"
      BY <1>1 DEF Heap, Buffers, Places
    <2> QED BY <1>1, <2>1, <2>2, <2>3, <2>4, <2>5 DEF Buffers
  <1> QED BY <1>4, <1>5, <1>6 DEF Heap

\* The accept loop fills the record of the number it holds: its connection has
\* the number, so nobody is removing the record.
LEMMA HeapInsert ==
    ASSUME Places, Recs, Map, Tokens, Heap, Insert PROVE Heap'
  <1> DEFINE a == arg["accept"]  s == sock[a]
  <1>1. /\ a \in Conns /\ a \in Accepted /\ s \in Socks /\ open[s] = a
        /\ pc'["accept"] = "setFind"
        /\ \A w \in Workers : pc'[w] = pc[w]
        /\ UNCHANGED <<open, sock, phd, pio, arg, next>>
    BY ConnAssumption DEF Insert, Places, Numbered, Accepted, Tokens, Goto, Threads, ConnAssumption
  <1>2. \A t \in Socks : \/ rec'[t] = rec[t]
                         \/ t = s /\ rec'[t] = NewRecord(s, a)
    BY <1>1, ConnAssumption, InsertEffect
  <1>3. NewRecord(s, a).phd = a /\ NewRecord(s, a).pio = 0
    BY DEF NewRecord
  <1> HIDE DEF a, s
  <1>4. Removals'
    BY <1>1 DEF Heap, Removals, Removing
  <1>5. \A t \in Socks : /\ rec'[t].phd \in Conns => rec'[t].phd = rec[t].phd \/ open[t] = rec'[t].phd
                         /\ rec'[t].pio \in Conns => rec'[t].pio = rec[t].pio
    BY <1>1, <1>2, <1>3 DEF Conns
  <1>6. Pointers'
    BY <1>1, <1>5 DEF Heap, Pointers, Holds, Removing
  <1>7. Buffers'
    BY <1>1, <1>5 DEF Heap, Buffers, Accepted
  <1> QED BY <1>4, <1>6, <1>7 DEF Heap

LEMMA HeapSetFind ==
    ASSUME Places, Tokens, Heap, SetFind PROVE Heap'
  <1> DEFINE a == arg["accept"]
  <1>1. /\ a \in Conns /\ a \in Accepted /\ open[sock[a]] = a
        /\ pio' = [pio EXCEPT ![a] = "live"]
        /\ \A w \in Workers : pc'[w] = pc[w]
        /\ UNCHANGED <<open, sock, phd, rec, arg, next>>
    <2>0. UNCHANGED <<table, mem>>
      BY Lookups
    <2>1. /\ pc["accept"] = "setFind"
          /\ pio' = [pio EXCEPT ![a] = "live"]
          /\ \E l : pc' = [pc EXCEPT !["accept"] = l]
          /\ UNCHANGED <<open, sock, phd, rec, arg, next>>
      BY <2>0, Lookups, SameRec DEF Goto
    <2> QED BY <2>1, ConnAssumption DEF Places, Numbered, Accepted, Tokens, Threads, ConnAssumption
  <1> HIDE DEF a
  <1>2. Removals'
    BY <1>1 DEF Heap, Removals, Removing
  <1>3. Pointers'
    BY <1>1 DEF Heap, Pointers, Holds, Removing
  <1>4. Buffers'
    BY <1>1 DEF Heap, Buffers, Accepted, Places, a
  <1> QED BY <1>2, <1>3, <1>4 DEF Heap

\* What the accept loop and the queue thread leave in the pointers of a record.
LEMMA Fields ==
    ASSUME Recs, NEW s \in Socks, NEW c \in Conns
    PROVE  /\ [At(s) EXCEPT !.pio = c].phd \in {0, rec[s].phd}
           /\ [At(s) EXCEPT !.pio = c].pio = c
           /\ [At(s) EXCEPT !.user = c].phd \in {0, rec[s].phd}
           /\ [At(s) EXCEPT !.user = c].pio \in {0, rec[s].pio}
  <1> DEFINE r == At(s)
  <1>1. r \in Record /\ r.phd \in {0, rec[s].phd} /\ r.pio \in {0, rec[s].pio}
    BY Kinds DEF At, rec, NewRecord
  <1> HIDE DEF r
  <1>2. /\ [r EXCEPT !.pio = c].phd = r.phd /\ [r EXCEPT !.pio = c].pio = c
        /\ [r EXCEPT !.user = c].phd = r.phd /\ [r EXCEPT !.user = c].pio = r.pio
    BY <1>1 DEF Record
  <1> QED BY <1>1, <1>2 DEF r

LEMMA HeapSet ==
    ASSUME Places, Recs, Map, Tokens, Heap, Set PROVE Heap'
  <1> DEFINE a == arg["accept"]  s == sock[a]
  <1>1. /\ a \in Conns /\ a \in Accepted /\ s \in Socks /\ open[s] = a
        /\ pc["accept"] = "set" /\ pc'["accept"] = "post"
        /\ \A w \in Workers : pc'[w] = pc[w]
        /\ UNCHANGED <<open, sock, phd, pio, arg, next>>
    BY ConnAssumption DEF Set, Places, Numbered, Accepted, Tokens, Goto, Threads, ConnAssumption
  <1>2. PICK n : /\ \A t \in Socks : rec'[t] = rec[t] \/ (t = s /\ rec'[t] = n)
                 /\ n.phd \in {0, rec[s].phd} /\ n.pio = a
    <2> DEFINE m == [At(s) EXCEPT !.pio = a]
    <2>1. m.phd \in {0, rec[s].phd} /\ m.pio = a
      BY <1>1, Fields
    <2>2. m \in Record /\ Put(s, m)
      BY <1>1, Kinds DEF Set
    <2> HIDE DEF m
    <2>3. \A t \in Socks : rec'[t] = rec[t] \/ (t = s /\ rec'[t] = m)
      BY <2>2, <1>1, ConnAssumption, PutEffect
    <2> QED BY <2>1, <2>3
  <1> HIDE DEF a, s
  <1>5. \A t \in Socks : /\ rec'[t].phd \in Conns => rec'[t].phd = rec[t].phd
                         /\ rec'[t].pio \in Conns => \/ rec'[t].pio = rec[t].pio
                                                     \/ rec'[t].pio = a /\ open[t] = a
    BY <1>1, <1>2 DEF Conns
  <1>6. Removals'
    BY <1>1 DEF Heap, Removals, Removing
  <1>7. Pointers'
    BY <1>1, <1>5 DEF Heap, Pointers, Holds, Removing
  <1>8. pio[a] = "live"
    BY <1>1 DEF Heap, Buffers, a
  <1>9. Buffers'
    BY <1>1, <1>5, <1>8 DEF Heap, Buffers, Accepted
  <1> QED BY <1>6, <1>7, <1>9 DEF Heap

LEMMA HeapAssign ==
    ASSUME Places, Recs, Map, Heap, Assign PROVE Heap'
  <1> DEFINE a == arg["queue"]  s == sock[a]
  <1>1. /\ a \in Conns /\ s \in Socks
        /\ pc'["accept"] = pc["accept"]
        /\ \A w \in Workers : pc'[w] = pc[w]
        /\ UNCHANGED <<open, sock, phd, pio, arg, next>>
    BY ConnAssumption DEF Assign, Places, Numbered, Accepted, Goto, Threads, ConnAssumption
  <1>2. PICK n : /\ \A t \in Socks : rec'[t] = rec[t] \/ (t = s /\ rec'[t] = n)
                 /\ n.phd \in {0, rec[s].phd} /\ n.pio \in {0, rec[s].pio}
    <2> DEFINE m == [At(s) EXCEPT !.user = a]
    <2>1. m.phd \in {0, rec[s].phd} /\ m.pio \in {0, rec[s].pio}
      BY <1>1, Fields
    <2>2. m \in Record /\ Put(s, m)
      BY <1>1, Kinds DEF Assign
    <2> HIDE DEF m
    <2>3. \A t \in Socks : rec'[t] = rec[t] \/ (t = s /\ rec'[t] = m)
      BY <2>2, <1>1, ConnAssumption, PutEffect
    <2> QED BY <2>1, <2>3
  <1> HIDE DEF a, s
  <1>5. \A t \in Socks : /\ rec'[t].phd \in Conns => rec'[t].phd = rec[t].phd
                         /\ rec'[t].pio \in Conns => rec'[t].pio = rec[t].pio
    BY <1>1, <1>2 DEF Conns
  <1>6. Removals'
    BY <1>1 DEF Heap, Removals, Removing
  <1>7. Pointers'
    BY <1>1, <1>5 DEF Heap, Pointers, Holds, Removing
  <1>8. Buffers'
    BY <1>1, <1>5 DEF Heap, Buffers, Accepted
  <1> QED BY <1>6, <1>7, <1>8 DEF Heap

\* A worker closes its own connection's number; nobody else removes a record
\* of that number, which was open until now.
LEMMA HeapClose ==
    ASSUME Places, Recs, Map, Tokens, Heap, NEW w \in Workers, Close(w) PROVE Heap'
  <1> DEFINE a == arg[w]  s == sock[a]
  <1>1. /\ a \in Conns /\ a \in Accepted /\ s \in Socks /\ open[s] = a
        /\ pc[w] = "close" /\ pc'[w] = "free" /\ pc'["accept"] = pc["accept"]
        /\ \A v \in Workers : v # w => pc'[v] = pc[v]
        /\ open' = [open EXCEPT ![s] = 0]
        /\ UNCHANGED <<sock, phd, pio, rec, arg, next>>
    <2>1. mem[iter[w]].key = s /\ rec' = rec
      BY ConnAssumption, OwnNode, SameRec DEF Close, Holding, memory
    <2> QED BY <2>1, ConnAssumption
      DEF Close, Places, Numbered, Accepted, Tokens, Goto, Threads, ConnAssumption, memory
  <1>2. a # 0
    BY <1>1 DEF Conns
  <1>3. \A v \in Workers : Removing(v) => v # w /\ sock[arg[v]] # s
    BY <1>1, <1>2 DEF Heap, Removals, Removing
  <1> HIDE DEF a, s
  <1>4. \A v \in Workers : Removing(v)' <=> Removing(v) \/ v = w
    BY <1>1 DEF Removing
  <1>5. Removals'
    <2>1. open'[s] = 0 /\ arg'[w] = a /\ sock'[a] = s
      BY <1>1 DEF Places, a, s
    <2>2. \A v \in Workers : Removing(v) => open'[sock'[arg'[v]]] = 0
      BY <1>1, <1>3 DEF Heap, Removals, Places
    <2>3. \A v \in Workers : Removing(v)' => v = w \/ (Removing(v) /\ sock'[arg'[v]] # s)
      BY <1>1, <1>3, <1>4
    <2>4. \A u, v \in Workers :
             Removing(u) /\ Removing(v) /\ sock'[arg'[u]] = sock'[arg'[v]] => u = v
      BY <1>1 DEF Heap, Removals
    <2> QED BY <1>4, <2>1, <2>2, <2>3, <2>4 DEF Removals
  <1>6. Pointers'
    <2>1. ASSUME NEW t \in Socks, NEW p \in Conns, Holds(t, p) PROVE Holds(t, p)'
      <3>1. CASE open[t] = p /\ t # s
        BY <3>1, <1>1 DEF Holds, Places
      <3>2. CASE open[t] = p /\ t = s
        <4>1. Removing(w)' /\ arg'[w] = p /\ sock'[p] = t
          BY <3>2, <1>1, <1>4 DEF a, s
        <4> QED BY <4>1 DEF Holds
      <3>3. CASE \E v \in Workers : Removing(v) /\ arg[v] = p /\ sock[p] = t
        BY <3>3, <1>1, <1>4 DEF Holds
      <3> QED BY <2>1, <3>1, <3>2, <3>3 DEF Holds
    <2> QED BY <2>1, <1>1 DEF Heap, Pointers
  <1>7. Buffers'
    <2>1. \A c \in Accepted : open'[sock[c]] = c => open[sock[c]] = c
      BY <1>1, <1>2 DEF Places, Numbered, Accepted, Conns
    <2>2. phd[a] = "live" /\ pio[a] # "freed"
      BY <1>1 DEF Heap, Buffers, s
    <2>3. \A v \in Workers : pc'[v] = "free" => phd[arg[v]] = "live" /\ pio[arg[v]] # "freed"
      BY <1>1, <2>2 DEF Heap, Buffers, a
    <2>4. \A v \in Workers : pc[v] = "erase" => pc'[v] = "erase"
      BY <1>1
    <2> QED BY <1>1, <2>1, <2>3, <2>4 DEF Heap, Buffers, Accepted
  <1> QED BY <1>5, <1>6, <1>7 DEF Heap

\* Whatever the record of a number that is being removed points to belongs to
\* the connection of the worker that removes it: its own buffers are freed.
LEMMA OwnPointers ==
    ASSUME Heap, NEW w \in Workers, Removing(w), sock[arg[w]] \in Socks
    PROVE  /\ rec[sock[arg[w]]].phd \in Conns => rec[sock[arg[w]]].phd = arg[w]
           /\ rec[sock[arg[w]]].pio \in Conns => rec[sock[arg[w]]].pio = arg[w]
  <1> DEFINE s == sock[arg[w]]
  <1>1. ASSUME NEW p \in Conns, Holds(s, p) PROVE p = arg[w]
    <2>1. open[s] # p
      BY DEF Heap, Removals, Conns
    <2>2. PICK v \in Workers : Removing(v) /\ arg[v] = p /\ sock[p] = s
      BY <1>1, <2>1 DEF Holds
    <2>3. v = w
      BY <2>2 DEF Heap, Removals
    <2> QED BY <2>2, <2>3
  <1> QED BY <1>1 DEF Heap, Pointers

LEMMA FreedOf ==
    ASSUME NEW buffers \in [Conns -> {"none", "live", "freed", "twice"}], NEW p
    PROVE  /\ \A c \in Conns : c # p => Freed(buffers, p)[c] = buffers[c]
           /\ p \in Conns /\ buffers[p] = "live" => Freed(buffers, p)[p] = "freed"
  BY DEF Freed

LEMMA HeapFree ==
    ASSUME Places, Recs, Map, Tokens, Heap, NEW w \in Workers, Free(w) PROVE Heap'
  <1> DEFINE a == arg[w]  s == sock[a]
  <1>1. /\ a \in Conns /\ a \in Accepted /\ s \in Socks /\ open[s] = 0
        /\ pc[w] = "free" /\ pc'[w] = "erase" /\ pc'["accept"] = pc["accept"]
        /\ \A v \in Workers : v # w => pc'[v] = pc[v]
        /\ UNCHANGED <<open, sock, rec, arg, next>>
    <2>1. rec' = rec
      BY SameRec DEF Free
    <2> QED BY <2>1, ConnAssumption
      DEF Free, Places, Numbered, Accepted, Goto, Threads, ConnAssumption, Heap, Removals, Removing
  <1>2. \A c \in Conns : c # a => phd'[c] = phd[c] /\ pio'[c] = pio[c]
    <2>1. phd' = Freed(phd, rec[s].phd) /\ pio' = Freed(pio, rec[s].pio)
      BY ConnAssumption, OwnNode DEF Free, Holding
    <2>2. /\ rec[s].phd \in Conns => rec[s].phd = a
          /\ rec[s].pio \in Conns => rec[s].pio = a
      BY <1>1, OwnPointers DEF Removing
    <2>3. phd \in [Conns -> {"none", "live", "freed", "twice"}]
          /\ pio \in [Conns -> {"none", "live", "freed", "twice"}]
      BY DEF Places
    <2> QED BY <2>1, <2>2, <2>3, FreedOf
  <1>3. phd'[a] # "twice" /\ pio'[a] # "twice"
    <2>1. phd' = Freed(phd, rec[s].phd) /\ pio' = Freed(pio, rec[s].pio)
      BY ConnAssumption, OwnNode DEF Free, Holding
    <2>2. phd[a] = "live" /\ phd[a] # "twice" /\ pio[a] # "twice"
      BY <1>1 DEF Heap, Buffers
    <2>3. rec[s].pio = a => pio[a] = "live"
      <3>1. \A v \in Workers : pc[v] = "erase" => arg[v] # a
        BY <1>1 DEF Tokens
      <3> QED BY <1>1, <3>1 DEF Heap, Buffers
    <2>4. phd \in [Conns -> {"none", "live", "freed", "twice"}]
          /\ pio \in [Conns -> {"none", "live", "freed", "twice"}]
      BY DEF Places
    <2>5. phd'[a] # "twice"
      <3>1. CASE rec[s].phd = a
        BY <3>1, <2>1, <2>2, <2>4, <1>1, FreedOf
      <3>2. CASE rec[s].phd # a
        BY <3>2, <2>1, <2>2, <2>4, <1>1, FreedOf
      <3> QED BY <3>1, <3>2
    <2>6. pio'[a] # "twice"
      <3>1. CASE rec[s].pio = a
        BY <3>1, <2>1, <2>3, <2>4, <1>1, FreedOf
      <3>2. CASE rec[s].pio # a
        BY <3>2, <2>1, <2>2, <2>4, <1>1, FreedOf
      <3> QED BY <3>1, <3>2
    <2> QED BY <2>5, <2>6
  <1>4. /\ open[sock[a]] # a
        /\ \A v \in Workers : pc[v] = "free" /\ v # w => arg[v] # a
        /\ pc["accept"] # "accept" => arg["accept"] # a
    BY <1>1 DEF Tokens, Conns
  <1>5. a = arg[w]
    OBVIOUS
  <1> HIDE DEF a, s
  <1>6. Removals'
    BY <1>1 DEF Heap, Removals, Removing
  <1>7. Pointers'
    BY <1>1 DEF Heap, Pointers, Holds, Removing
  <1>8. Buffers'
    <2>1. \A c \in Conns \ Accepted' : pio'[c] = "none"
      BY <1>1, <1>2 DEF Heap, Buffers, Accepted
    <2>2. \A c \in Accepted' : open'[sock'[c]] = c => phd'[c] = "live" /\ pio'[c] # "freed"
      BY <1>1, <1>2, <1>4 DEF Heap, Buffers, Accepted
    <2>3. \A v \in Workers : pc'[v] = "free" => phd'[arg'[v]] = "live" /\ pio'[arg'[v]] # "freed"
      BY <1>1, <1>2, <1>4 DEF Heap, Buffers, Places, Numbered, Accepted
    <2>4. pc'["accept"] \in {"set", "post"} => pio'[arg'["accept"]] = "live"
      BY <1>1, <1>2, <1>4 DEF Heap, Buffers, Places, Numbered, Accepted
    <2>5. \A t \in Socks : rec'[t].pio \in Conns =>
              \/ pio'[rec'[t].pio] = "live"
              \/ \E v \in Workers : pc'[v] = "erase" /\ arg'[v] = rec'[t].pio
      BY <1>1, <1>2, <1>5 DEF Heap, Buffers
    <2>6. \A c \in Conns : phd'[c] # "twice" /\ pio'[c] # "twice"
      BY <1>2, <1>3 DEF Heap, Buffers
    <2> QED BY <2>1, <2>2, <2>3, <2>4, <2>5, <2>6 DEF Buffers
  <1> QED BY <1>6, <1>7, <1>8 DEF Heap

LEMMA HeapErase ==
    ASSUME Places, Recs, Map, Tokens, Heap, NEW w \in Workers, Erase(w) PROVE Heap'
  <1> DEFINE a == arg[w]  s == sock[a]
  <1>1. /\ a \in Conns /\ a \in Accepted /\ s \in Socks /\ open[s] = 0
        /\ pc[w] = "erase" /\ pc'[w] = "wait" /\ pc'["accept"] = pc["accept"]
        /\ \A v \in Workers : v # w => pc'[v] = pc[v]
        /\ UNCHANGED <<open, sock, phd, pio, arg, next>>
    BY ConnAssumption
    DEF Erase, Places, Numbered, Accepted, Goto, Threads, ConnAssumption, Heap, Removals, Removing
  <1>2. rec' = [rec EXCEPT ![s] = NoRec]
    BY ConnAssumption, EraseEffect
  <1>3. NoRec.phd \notin Conns /\ NoRec.pio \notin Conns
    BY DEF NoRec, Conns
  <1>4. \A t \in Socks : /\ rec'[t].phd \in Conns => t # s /\ rec'[t].phd = rec[t].phd
                         /\ rec'[t].pio \in Conns => t # s /\ rec'[t].pio = rec[t].pio
    BY <1>1, <1>2, <1>3 DEF rec
  <1>5. a = arg[w] /\ s = sock[a]
    OBVIOUS
  <1> HIDE DEF a, s
  <1>6. \A v \in Workers : Removing(v)' <=> Removing(v) /\ v # w
    BY <1>1 DEF Removing
  <1>7. Removals'
    BY <1>1, <1>6 DEF Heap, Removals
  <1>8. ASSUME NEW t \in Socks, t # s, NEW p \in Conns, Holds(t, p) PROVE Holds(t, p)'
    <2>1. CASE open[t] = p
      BY <2>1, <1>1 DEF Holds
    <2>2. CASE \E v \in Workers : Removing(v) /\ arg[v] = p /\ sock[p] = t
      BY <2>2, <1>1, <1>5, <1>6, <1>8 DEF Holds
    <2> QED BY <1>8, <2>1, <2>2 DEF Holds
  <1>9. Pointers'
    BY <1>4, <1>8 DEF Heap, Pointers
  <1>10. Buffers'
    <2>1. ASSUME NEW t \in Socks, rec'[t].pio \in Conns
          PROVE  \/ pio'[rec'[t].pio] = "live"
                 \/ \E v \in Workers : pc'[v] = "erase" /\ arg'[v] = rec'[t].pio
      <3>1. t # s /\ rec'[t].pio = rec[t].pio /\ Holds(t, rec[t].pio)
        BY <1>4, <2>1 DEF Heap, Pointers
      <3>2. rec[t].pio # a
        <4>1. open[t] # a
          BY <1>1, <1>5, <3>1 DEF Places, Numbered, Conns
        <4> QED BY <3>1, <4>1, <1>5 DEF Holds
      <3> QED BY <3>1, <3>2, <2>1, <1>1, <1>5 DEF Heap, Buffers
    <2> QED BY <2>1, <1>1 DEF Heap, Buffers, Accepted
  <1> QED BY <1>7, <1>9, <1>10 DEF Heap

LEMMA HeapInit == Init => Heap
  <1>1. \A w \in Workers : Init => pc[w] = "wait"
    BY ConnAssumption DEF Init, Threads, ConnAssumption
  <1>2. \A s \in Socks : Init => rec[s].phd \notin Conns /\ rec[s].pio \notin Conns
    BY DEF Init, NoRec, Conns, rec, Present
  <1>3. Init => pc["accept"] = "accept"
    BY DEF Init, Threads
  <1> QED
    BY <1>1, <1>2, <1>3 DEF Init, Heap, Removals, Removing, Pointers, Buffers, Accepted, Conns

LEMMA HeapNext ==
    ASSUME ~lapped', Typed, Tokens, Map, Heap, [Next]_vars PROVE Heap'
  <1> USE ConnAssumption, TypedParts DEF ConnAssumption
  <1>1. ASSUME NEW s \in Socks, Accept(s) PROVE Heap'
    BY <1>1, HeapAccept
  <1>2. CASE Insert
    BY <1>2, HeapInsert
  <1>3. CASE SetFind
    BY <1>3, HeapSetFind
  <1>4. CASE Set
    BY <1>4, HeapSet
  <1>5. CASE Assign
    BY <1>5, HeapAssign
  <1>6. ASSUME NEW w \in Workers, Close(w) PROVE Heap'
    BY <1>6, HeapClose
  <1>7. ASSUME NEW w \in Workers, Free(w) PROVE Heap'
    BY <1>7, HeapFree
  <1>8. ASSUME NEW w \in Workers, Erase(w) PROVE Heap'
    BY <1>8, HeapErase
  <1>9. CASE InsertFind
    <2>1. /\ UNCHANGED <<open, sock, rec, phd, pio, next, arg>>
          /\ \A w \in Workers : pc'[w] = pc[w]
          /\ pc'["accept"] \in {"setFind", "insert"}
      BY <1>9, Lookups, SameRec DEF Places, Numbered, Threads, Goto, memory
    <2> QED BY <2>1, HeapQuiet
  <1>10. CASE Post
    <2>1. /\ UNCHANGED <<open, sock, rec, phd, pio, next, arg>>
          /\ \A w \in Workers : pc'[w] = pc[w]
          /\ pc'["accept"] = "accept"
      BY <1>10, SameRec DEF Post, Places, Numbered, Threads, Goto, memory
    <2> QED BY <2>1, HeapQuiet
  <1>11. ASSUME NEW w \in Workers, NEW c \in Conns, Complete(w, c) PROVE Heap'
    <2>1. /\ UNCHANGED <<open, sock, rec, phd, pio, next>>
          /\ pc[w] = "wait" /\ pc'[w] \in {"data", "removeFind"}
          /\ \A v \in Workers : v # w => pc'[v] = pc[v] /\ arg'[v] = arg[v]
          /\ pc'["accept"] = pc["accept"] /\ arg'["accept"] = arg["accept"]
      BY <1>11, SameRec DEF Complete, Places, Numbered, Threads, Goto, memory
    <2> QED BY <2>1, HeapQuiet DEF Removing
  <1>12. ASSUME NEW w \in Workers, Data(w) PROVE Heap'
    <2>1. /\ UNCHANGED <<open, sock, rec, phd, pio, next, arg>>
          /\ pc[w] = "data" /\ pc'[w] = "wait"
          /\ \A v \in Workers : v # w => pc'[v] = pc[v]
          /\ pc'["accept"] = pc["accept"]
      BY <1>12, SameRec DEF Data, Places, Numbered, Threads, Goto, memory
    <2> QED BY <2>1, HeapQuiet DEF Removing
  <1>13. ASSUME NEW w \in Workers, RemoveFind(w) PROVE Heap'
    <2>1. /\ UNCHANGED <<open, sock, rec, phd, pio, next, arg>>
          /\ pc[w] = "removeFind" /\ pc'[w] \in {"close", "wait"}
          /\ \A v \in Workers : v # w => pc'[v] = pc[v]
          /\ pc'["accept"] = pc["accept"]
      BY <1>13, Lookups, SameRec DEF Places, Numbered, Threads, Goto
    <2> QED BY <2>1, HeapQuiet DEF Removing
  <1>14. ASSUME NEW c \in Conns, SetterFind(c) PROVE Heap'
    <2>1. /\ UNCHANGED <<open, sock, rec, phd, pio, next>>
          /\ \A v \in Workers : pc'[v] = pc[v] /\ arg'[v] = arg[v]
          /\ pc'["accept"] = pc["accept"] /\ arg'["accept"] = arg["accept"]
      BY <1>14, SameRec DEF SetterFind, Places, Numbered, Threads, Goto, memory
    <2> QED BY <2>1, HeapQuiet
  <1>15. CASE UNCHANGED vars
    BY <1>15, HeapQuiet, SameRec DEF vars, Removing, memory
  <1> QED
    BY <1>1, <1>2, <1>3, <1>4, <1>5, <1>6, <1>7, <1>8, <1>9, <1>10, <1>11, <1>12, <1>13,
       <1>14, <1>15 DEF Next, AcceptLoop, ServerWorkThread, QueueThread

------------------------------------------------------------------------------
(* The record of a connection *)

\* m_mUserInfo has a record for every connection the accept loop is done with.
Recorded == \A s \in Socks : PastInsertInfo(s) => Present(s)

\* The accept loop has not looked for, or not made, the record of a number.
Unrecorded(s) == arg["accept"] = open[s] /\ pc["accept"] \in {"insertFind", "insert"}

LEMMA SavedQuiet ==
    ASSUME Recorded, UNCHANGED open,
           \A s \in Socks : Present(s) => Present(s)',
           \A s \in Socks : Unrecorded(s) /\ open[s] # 0 => Unrecorded(s)' \/ Present(s)'
    PROVE  Recorded'
  BY DEF Recorded, PastInsertInfo, Unrecorded

LEMMA SavedNext ==
    ASSUME ConnAssumption, Places, Recs, Map, Tokens, Removals, Recorded, [Next]_vars
    PROVE  Recorded'
  <1>1. ASSUME NEW s \in Socks, Accept(s) PROVE Recorded'
    <2>1. /\ open' = [open EXCEPT ![s] = next] /\ table' = table /\ pc["accept"] = "accept"
          /\ pc'["accept"] = "insertFind" /\ arg'["accept"] = next
      BY <1>1 DEF Accept, Goto, Places, Numbered, Threads
    <2>2. \A t \in Socks : t # s /\ open[t] # 0 => Present(t)
      BY <2>1 DEF Recorded, PastInsertInfo
    <2> QED BY <2>1, <2>2 DEF Recorded, PastInsertInfo, Places, Present
  <1>2. CASE InsertFind
    <2> DEFINE a == arg["accept"]
    <2>1. Present(sock[a]) \/ (pc'["accept"] = "insert" /\ arg' = arg)
      BY <1>2 DEF InsertFind, Refused, Goto, Places, Numbered, Threads
    <2>2. \A s \in Socks : open[s] = a /\ open[s] # 0 => s = sock[a]
      BY DEF Places, Numbered
    <2>3. UNCHANGED <<open, table>>
      BY <1>2, Lookups DEF memory
    <2>4. \A s \in Socks : Present(s) => Present(s)'
      BY <2>3 DEF Present
    <2>5. \A s \in Socks : Unrecorded(s) /\ open[s] # 0 => Unrecorded(s)' \/ Present(s)
      BY <2>1, <2>2, <2>3 DEF Unrecorded
    <2> QED BY <2>3, <2>4, <2>5, SavedQuiet
  <1>3. ASSUME NEW s \in Socks, NEW r, Put(s, r)
        PROVE  \A t \in Socks : (Present(t) \/ t = s) => Present(t)'
    <2>1. PICK n \in Nodes : table' = [table EXCEPT ![s] = n]
      BY <1>3, Puts
    <2> QED BY <2>1 DEF Present, Recs, ConnAssumption
  <1>4. CASE Insert
    <2> DEFINE a == arg["accept"]
    <2>1. sock[a] \in Socks /\ \A s \in Socks : open[s] = a /\ open[s] # 0 => s = sock[a]
      BY <1>4 DEF Insert, Places, Numbered
    <2>2. \A t \in Socks : (Present(t) \/ t = sock[a]) => Present(t)'
      <3>1. CASE Present(sock[a]) /\ UNCHANGED <<table, mem>>
        BY <3>1 DEF Present
      <3>2. CASE Put(sock[a], NewRecord(sock[a], a))
        BY <3>2, <2>1, <1>3
      <3> QED BY <1>4, <3>1, <3>2, Inserts
    <2>3. UNCHANGED open
      BY <1>4 DEF Insert
    <2> QED BY <2>1, <2>2, <2>3, SavedQuiet DEF Unrecorded
  <1>6. CASE Set
    <2> DEFINE a == arg["accept"]
    <2>1. sock[a] \in Socks /\ pc["accept"] = "set" /\ UNCHANGED open
      BY <1>6 DEF Set, Places, Numbered
    <2>2. \A t \in Socks : Present(t) => Present(t)'
      BY <1>6, <2>1, <1>3 DEF Set
    <2> QED BY <2>1, <2>2, SavedQuiet DEF Unrecorded
  <1>7. CASE Assign
    <2> DEFINE a == arg["queue"]
    <2>1. sock[a] \in Socks /\ UNCHANGED open
      BY <1>7 DEF Assign, Places, Numbered
    <2>2. \A t \in Socks : Present(t) => Present(t)'
      BY <1>7, <2>1, <1>3 DEF Assign
    <2>3. pc'["accept"] = pc["accept"] /\ arg' = arg
      BY <1>7 DEF Assign, Goto, Places, Numbered, Threads
    <2> QED BY <2>1, <2>2, <2>3, SavedQuiet DEF Unrecorded
  <1>8. ASSUME NEW w \in Workers, Close(w) PROVE Recorded'
    <2>1. /\ open' = [open EXCEPT ![sock[arg[w]]] = 0] /\ table' = table /\ arg' = arg
          /\ pc'["accept"] = pc["accept"]
      BY <1>8, OwnNode, ConnAssumption DEF Close, Holding, memory, Goto, Places, Numbered, Threads, ConnAssumption
    <2>2. \A t \in Socks : open'[t] # 0 => open'[t] = open[t]
      BY <2>1 DEF Places
    <2> QED BY <2>1, <2>2 DEF Recorded, PastInsertInfo, Present
  <1>9. ASSUME NEW w \in Workers, Erase(w) PROVE Recorded'
    <2>1. /\ open[sock[arg[w]]] = 0 /\ open' = open /\ arg' = arg
          /\ table' = [t \in Socks |-> IF table[t] = table[sock[arg[w]]] THEN NoNode ELSE table[t]]
          /\ pc'["accept"] = pc["accept"]
      BY <1>9, OwnNode, ConnAssumption
      DEF Erase, Erased, Goto, Places, Numbered, Threads, ConnAssumption, Removals, Removing, Holding
    <2>2. \A t \in Socks : open'[t] # 0 => (Present(t) => Present(t)')
      BY <2>1, <1>9, OwnNode DEF Map, Present, Erase, Holding
    <2> QED BY <2>1, <2>2 DEF Recorded, PastInsertInfo, Present
  <1>10. ASSUME UNCHANGED <<open, table>>,
                \A s \in Socks : Unrecorded(s) => Unrecorded(s)'
         PROVE  Recorded'
    BY <1>10, SavedQuiet DEF Present
  <1>11. CASE SetFind \/ Post
    <2>1. UNCHANGED <<open, table>> /\ pc["accept"] \notin {"insertFind", "insert"}
      BY <1>11, Lookups DEF Post, memory
    <2> QED BY <2>1, <1>10 DEF Unrecorded
  <1>12. CASE \/ \E w \in Workers, c \in Conns : Complete(w, c)
              \/ \E w \in Workers : Data(w) \/ RemoveFind(w) \/ Free(w)
              \/ \E c \in Conns : SetterFind(c)
              \/ UNCHANGED vars
    <2>1. UNCHANGED <<open, table>> /\ pc'["accept"] = pc["accept"] /\ arg'["accept"] = arg["accept"]
      <3>1. ASSUME NEW w \in Workers, NEW c \in Conns, Complete(w, c)
            PROVE  UNCHANGED <<open, table>> /\ pc'["accept"] = pc["accept"] /\ arg'["accept"] = arg["accept"]
        BY <3>1, ConnAssumption DEF Complete, memory, Goto, Places, Numbered, Threads, ConnAssumption
      <3>2. ASSUME NEW w \in Workers, Data(w) \/ RemoveFind(w) \/ Free(w)
            PROVE  UNCHANGED <<open, table, arg>> /\ pc'["accept"] = pc["accept"]
        BY <3>2, Lookups, ConnAssumption DEF Data, Free, memory, Goto, Places, Numbered, Threads, ConnAssumption
      <3>3. ASSUME NEW c \in Conns, SetterFind(c)
            PROVE  UNCHANGED <<open, table>> /\ pc'["accept"] = pc["accept"] /\ arg'["accept"] = arg["accept"]
        BY <3>3 DEF SetterFind, memory, Goto, Places, Numbered, Threads
      <3> QED BY <1>12, <3>1, <3>2, <3>3 DEF vars, memory
    <2> QED BY <2>1, <1>10 DEF Unrecorded
  <1> QED
    BY <1>1, <1>2, <1>4, <1>6, <1>7, <1>8, <1>9, <1>11, <1>12
    DEF Next, AcceptLoop, ServerWorkThread, QueueThread

------------------------------------------------------------------------------
(* The invariant, and what follows from it *)

Sound == Tokens /\ Map /\ Heap /\ Recorded
IInv == Typed /\ (lapped \/ Sound)

\* What has happened stays so.
LEMMA LappedStays == ASSUME lapped, [Next]_vars PROVE lapped'
  <1>1. ASSUME NEW s \in Socks, Accept(s) PROVE lapped'
    BY <1>1 DEF Accept
  <1>2. CASE ~(\E s \in Socks : Accept(s))
    <2>1. UNCHANGED lapped
      BY <1>2 DEF Next, AcceptLoop, ServerWorkThread, QueueThread, InsertFind, Insert, SetFind, Set,
                  Post, Complete, Data, RemoveFind, Close, Free, Erase, SetterFind, Assign, vars
    <2> QED BY <2>1
  <1> QED BY <1>1, <1>2

LEMMA ConnInvariant == Spec => []IInv
  <1>1. Init => IInv
    <2>1. Init => Recorded
      BY DEF Init, Recorded, PastInsertInfo
    <2> QED BY <2>1, ConnAssumption, TypedInit, TokensInit, MapInit, HeapInit DEF IInv, Sound
  <1>2. IInv /\ [Next]_vars => IInv'
    <2> SUFFICES ASSUME IInv, [Next]_vars PROVE IInv'
      OBVIOUS
    <2>1. Typed' /\ Places /\ Recs
      BY TypedNext, TypedParts DEF IInv
    <2>2. ASSUME ~lapped' PROVE Sound'
      <3>1. Tokens /\ Map /\ Heap /\ Recorded /\ Removals
        BY <2>2, LappedStays DEF IInv, Sound, Heap
      <3>2. Tokens' /\ Map'
        BY <2>1, <3>1, ConnAssumption, TokensNext, MapNext
      <3>3. Heap'
        BY <2>2, <3>1, HeapNext DEF IInv
      <3>4. Recorded'
        BY <2>1, <3>1, ConnAssumption, SavedNext
      <3> QED BY <3>2, <3>3, <3>4 DEF Sound
    <2> QED BY <2>1, <2>2 DEF IInv
  <1> QED
    BY <1>1, <1>2, PTL DEF Spec

\* NetSysMgr.cpp:62: as long as no number has been handed out between its close
\* and the erase of its record, the connection a worker closes is the one whose
\* receive failed.
THEOREM OwnConnectionClosed == Spec => []ClosesItsOwn
  <1>1. IInv => ClosesItsOwn
    <2> SUFFICES ASSUME IInv, ~lapped, NEW w \in Workers, pc[w] = "close"
                 PROVE  open[mem[iter[w]].key] = arg[w]
      BY DEF ClosesItsOwn
    <2>1. Places /\ Recs /\ Map /\ Tokens
      BY TypedParts DEF IInv, Sound
    <2>2. mem[iter[w]].key = sock[arg[w]]
      BY <2>1, OwnNode, ConnAssumption DEF Holding
    <2> QED BY <2>1, <2>2 DEF Tokens
  <1> QED
    BY <1>1, ConnInvariant, PTL

\* RemoveInfoBySocketId frees the buffers of a connection only when nothing
\* uses them any more, and once, until the first time the system hands a number
\* out that RemoveInfoBySocketId has closed and whose record it has not erased.
THEOREM NothingUsedAfterFree == Spec => []FreedAfterUse
  <1>1. IInv => FreedAfterUse
    <2> SUFFICES ASSUME IInv, ~lapped, NEW c \in Conns
                 PROVE  /\ InUse(c) => phd[c] = "live" /\ pio[c] # "freed"
                        /\ phd[c] # "twice" /\ pio[c] # "twice"
      BY DEF FreedAfterUse, NoUseAfterFree
    <2>0. Places /\ Tokens /\ Heap
      BY TypedParts DEF IInv, Sound
    <2>1. InUse(c) => open[sock[c]] = c
      BY <2>0 DEF InUse, Tokens
    <2>2. InUse(c) => c \in Accepted
      BY <2>0 DEF InUse, Places, Numbered
    <2> QED BY <2>0, <2>1, <2>2 DEF Heap, Buffers
  <1> QED
    BY <1>1, ConnInvariant, PTL

\* NetSysMgr.cpp:218: until that time, the record under the number of a
\* connection the accept loop is done with is the connection's own, or one that
\* a setter made again and that has no PerHandleData; never another connection's.
\* The test and the insert of InsertInfo, two accesses with a lock between them
\* that locks nothing, never lose one.
THEOREM ConnectionSaved == Spec => []SavedUnlessRevived
  <1>1. IInv => SavedUnlessRevived
    <2> SUFFICES ASSUME IInv, ~lapped, NEW s \in Socks, PastInsertInfo(s)
                 PROVE  Present(s) /\ mem[table[s]].phd \in {open[s], 0}
      BY DEF SavedUnlessRevived
    <2>0. Recs /\ Heap /\ Recorded
      BY TypedParts DEF IInv, Sound
    <2>1. Present(s) /\ rec[s] = mem[table[s]] /\ mem[table[s]] \in Record
      BY <2>0 DEF Recorded, rec, Recs
    <2>2. rec[s].phd \in 0..MaxConn
      BY <2>1 DEF Record
    <2>3. rec[s].phd \in Conns => open[s] = rec[s].phd
      <3> SUFFICES ASSUME rec[s].phd \in Conns PROVE open[s] = rec[s].phd
        OBVIOUS
      <3>1. Holds(s, rec[s].phd)
        BY <2>0 DEF Heap, Pointers
      <3>2. open[s] # 0
        BY DEF PastInsertInfo
      <3> QED BY <3>1, <3>2, <2>0 DEF Holds, Heap, Removals
    <2> QED BY <2>1, <2>2, <2>3, ConnAssumption DEF Conns, ConnAssumption
  <1> QED
    BY <1>1, ConnInvariant, PTL
=============================================================================
