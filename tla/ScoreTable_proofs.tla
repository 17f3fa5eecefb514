--------------------------- MODULE ScoreTable_proofs ---------------------------
(***************************************************************************)
(* Proofs about ScoreTable, for any subjects, accounts, connections and    *)
(* bounds: its types, that an account has one row at most, and what a step *)
(* may do to the list of subjects, to the scores and to an answer's truth. *)
(*                                                                         *)
(* A client has one request at most on its way: as a message, a statement  *)
(* or an answer.  That bounds the inboxes, and says which statement an     *)
(* answer is about.  A request names no subject twice, because the lists   *)
(* it was chosen from do not.                                              *)
(***************************************************************************)
EXTENDS ScoreTable, Ordering_proofs

------------------------------------------------------------------------------
(* The inductive invariant *)

Values == 0..100 \cup {Junk}
Lists == {q \in Seq(Subjects) : IsInjective(q)}

Requests ==
    [kind : {"get"}, sock : Socks, type : {1, 2}]
    \cup [kind : {"alter"}, sock : Socks, type : {1, 2}, subj : Subjects]
    \cup [kind : {"add"}, sock : Socks, acct : Accts, subjs : Lists, scores : Seq(Values),
          shown : Lists]
    \cup [kind : {"select"}, sock : Socks, acct : Accts, subjs : Lists]
    \cup {r \in [kind : {"update"}, sock : Socks, acct : Accts, subjs : Lists,
                 scores : Seq(Values)] : Len(r.scores) = Len(r.subjs)}
    \cup [kind : {"delete"}, sock : Socks, acct : Accts, lo : {0}, hi : {0}]
    \cup [kind : {"delete"}, sock : Socks, lo : Nat \ {0}, hi : Nat]

\* The SELECT of the start, and the requests that are passed on.
Boot == [kind |-> "boot"]
Statements ==
    {Boot} \cup {r \in Requests : r.kind # "get"
                                  /\ (r.kind = "add" => Len(r.scores) = Len(r.subjs))}

Changes == {"alter", "add", "update", "delete"}
Acks ==
    [kind : {"get"}, list : Lists]
    \cup [kind : {"select"}, code : {1, 2, 3}]
    \cup [kind : {"select"}, code : {0}, acct : Accts, subjs : Lists]
    \cup [kind : Changes, ok : BOOLEAN]

Messages ==
    /\ oper \in [Socks -> States] /\ queue \in Seq(Requests) /\ stmts \in Seq(Statements)
    /\ inbox \in [Socks -> Seq(Acks)]

\* A client that waits has one request or one answer; one that does not has none,
\* and one that has left has no answer.
Once ==
    /\ \A i, j \in 1..Len(queue) : queue[i].sock = queue[j].sock => i = j
    /\ \A i, j \in 1..Len(stmts) :
          stmts[i] # Boot /\ stmts[j] # Boot /\ stmts[i].sock = stmts[j].sock => i = j
    /\ \A i \in 1..Len(queue), j \in 1..Len(stmts) :
          stmts[j] # Boot => queue[i].sock # stmts[j].sock
    /\ \A i \in 1..Len(queue) : oper[queue[i].sock] # "idle" /\ inbox[queue[i].sock] = <<>>
    /\ \A i \in 1..Len(stmts) :
          stmts[i] # Boot => oper[stmts[i].sock] # "idle" /\ inbox[stmts[i].sock] = <<>>
    /\ \A s \in Socks : Len(inbox[s]) <= 1 /\ (oper[s] \in {"idle", "gone"} => inbox[s] = <<>>)

RowOrNone(rs) == rs = <<>> \/ (rs = <<rs[1]>> /\ rs[1] \in [cols -> Values])

\* The statement of the start is the first, and finds the columns as they were.
Tables ==
    /\ exist \in Lists /\ Range(exist) \subseteq cols /\ cols \subseteq Subjects
    /\ users \in Seq(Accts) /\ IsInjective(users)
    /\ DOMAIN rows = Accts
    /\ \A a \in Accts : RowOrNone(rows[a]) /\ (rows[a] # <<>> => a \in Range(users))

Start ==
    \A i \in 1..Len(stmts) :
        stmts[i] = Boot => i = 1 /\ exist = <<>> /\ cols = Range(InitCols)

Typed == Tables /\ Messages
IInv == Typed /\ Once /\ Start

------------------------------------------------------------------------------
(* Sequences *)

\* What a map iterates over are the subjects of the set, each once.
LEMMA InOrderLists ==
    ASSUME NEW S \in SUBSET Subjects
    PROVE  InOrder(S) \in Lists
  <1>1. S \in SUBSET Nat /\ IsFiniteSet(S) /\ Cardinality(S) \in Nat /\ Subjects \in SUBSET Nat
    BY ScoreAssumption, FS_Subset, FS_CardinalityType
  <1> DEFINE q == InOrder(S)
             n == Cardinality(S)
  <1>2. q \in [1..n -> S] /\ Ascending(q)
    BY <1>1, InOrderOf
  <1>3. n \in Nat
    BY <1>1
  <1> HIDE DEF q, n
  <1>4. q \in [1..n -> Subjects]
    BY <1>2
  <1>5. q \in Seq(Subjects) /\ DOMAIN q = 1..n
    BY <1>3, <1>4
  <1>6. IsInjective(q)
    <2>1. SUFFICES ASSUME NEW i \in DOMAIN q, NEW j \in DOMAIN q, i # j PROVE q[i] # q[j]
      BY DEF IsInjective
    <2>2. q[i] \in Nat /\ q[j] \in Nat /\ (i < j \/ j < i)
      <3>1. q[i] \in Nat /\ q[j] \in Nat
        BY <1>1, <1>2, <1>5
      <3>2. i < j \/ j < i
        BY <1>3, <1>5, <2>1
      <3> QED BY <3>1, <3>2
    <2> QED BY <2>2, <1>2 DEF Ascending
  <1> QED BY <1>5, <1>6 DEF q, Lists

LEMMA AppendLists ==
    ASSUME NEW s \in Lists, NEW e \in Subjects, e \notin Range(s)
    PROVE  Append(s, e) \in Lists /\ Range(Append(s, e)) = Range(s) \cup {e}
  <1> DEFINE t == Append(s, e)
             n == Len(s)
  <1>1. s \in Seq(Subjects) /\ n \in Nat /\ DOMAIN s = 1..n /\ \A i \in 1..n : s[i] # e
    BY DEF Lists, Range
  <1>2. /\ t \in Seq(Subjects) /\ DOMAIN t = 1..(n + 1)
        /\ \A i \in 1..n : t[i] = s[i] /\ i \in 1..(n + 1)
        /\ t[n + 1] = e /\ n + 1 \in 1..(n + 1)
        /\ \A i \in 1..(n + 1) : i = n + 1 \/ i \in 1..n
    BY <1>1
  <1> HIDE DEF t, n
  <1>3. IsInjective(t)
    BY <1>1, <1>2 DEF IsInjective, Lists
  <1>4. Range(t) = Range(s) \cup {e}
    BY <1>1, <1>2 DEF Range
  <1> QED BY <1>2, <1>3, <1>4 DEF t, Lists

\* RemoveFirst takes a subject off a list.
LEMMA RemoveLists ==
    ASSUME NEW s \in Lists, NEW e
    PROVE  RemoveFirst(s, e) \in Lists /\ Range(RemoveFirst(s, e)) = Range(s) \ {e}
  <1>0. s \in Seq(Subjects) /\ Len(s) \in Nat /\ DOMAIN s = 1..Len(s) /\ IsInjective(s)
    BY DEF Lists
  <1>1. CASE ~ \E i \in 1..Len(s): s[i] = e
    BY <1>0, <1>1 DEF RemoveFirst, Range
  <1>2. CASE \E i \in 1..Len(s): s[i] = e
    <2> DEFINE I == { i \in 1..Len(s) : s[i] = e }
               k == Min(I)
               n == Len(s)
    <2>1. RemoveFirst(s, e) = SubSeq(s, 1, k-1) \o SubSeq(s, k+1, n)
      BY <1>2 DEF RemoveFirst, RemoveAt, SelectInSeq
    <2>2. k \in 1..n /\ s[k] = e
      <3>0. I \subseteq Nat /\ I # {}
        BY <1>2
      <3>1. \E m \in I : \A j \in I : m <= j
        <4> HIDE DEF I
        <4> QED BY <3>0, Smallest
      <3> QED BY <3>1 DEF Min
    <2>3. \A i \in 1..n : s[i] = e => i = k
      BY <1>0, <2>2 DEF IsInjective
    <2>0. n \in Nat /\ DOMAIN s = 1..n /\ k \in Nat /\ 1 <= k /\ k <= n
      BY <1>0, <2>2
    <2> HIDE DEF k
    <2> DEFINE a == SubSeq(s, 1, k-1)
               b == SubSeq(s, k+1, n)
               t == a \o b
    <2>4. /\ a \in Seq(Subjects) /\ b \in Seq(Subjects) /\ Len(a) = k - 1 /\ Len(b) = n - k
          /\ \A i \in 1..(k - 1) : a[i] = s[i]
          /\ \A i \in 1..(n - k) : b[i] = s[k + i]
      <3>1. a \in Seq(Subjects) /\ Len(a) = k - 1 /\ \A i \in 1..(k - 1) : a[i] = s[i]
        BY <1>0, <2>0
      <3>0. k + 1 \in Int /\ n \in Int /\ \A j \in (k + 1)..n : s[j] \in Subjects
        BY <1>0, <2>0
      <3>2. b \in Seq(Subjects) /\ Len(b) = n - k
        <4>1. b \in Seq(Subjects) /\ Len(b) = IF k + 1 <= n THEN n - (k + 1) + 1 ELSE 0
          <5> HIDE DEF n
          <5> QED BY <3>0, SubSeqProperties
        <4> HIDE DEF b, n
        <4> QED BY <2>0, <4>1
      <3>3. \A i \in 1..(n - k) : b[i] = s[k + i]
        <4> TAKE i \in 1..(n - k)
        <4>1. b[i] = s[(k + 1) + i - 1]
          <5>1. i \in 1..(n - (k + 1) + 1)
            BY <2>0
          <5> HIDE DEF n
          <5> QED BY <3>0, <5>1, SubSeqProperties
        <4>2. (k + 1) + i - 1 = k + i
          BY <2>0
        <4> HIDE DEF b, n
        <4> QED BY <4>1, <4>2
      <3> HIDE DEF a, b
      <3> QED BY <3>1, <3>2, <3>3
    <2> HIDE DEF a, b, n
    <2>5. t \in Seq(Subjects) /\ Len(t) = n - 1
      <3>1. t \in Seq(Subjects) /\ Len(t) = Len(a) + Len(b)
        BY <2>4
      <3> HIDE DEF t
      <3> QED BY <2>0, <2>4, <3>1
    <2>6. \A i \in 1..(n - 1) : t[i] = IF i < k THEN s[i] ELSE s[i + 1]
      <3> TAKE i \in 1..(n - 1)
      <3>1. t[i] = IF i <= k - 1 THEN a[i] ELSE b[i - (k - 1)]
        BY <2>0, <2>4
      <3>2. CASE i < k
        <4>1. i <= k - 1 /\ i \in 1..(k - 1)
          BY <2>0, <3>2
        <4> QED BY <2>4, <3>1, <4>1, <3>2
      <3>3. CASE ~(i < k)
        <4>1. i - (k - 1) \in 1..(n - k) /\ k + (i - (k - 1)) = i + 1 /\ ~(i <= k - 1)
          BY <2>0, <3>3
        <4> QED BY <2>4, <3>1, <4>1, <3>3
      <3> QED BY <3>2, <3>3
    <2> HIDE DEF t
    <2>7. n \in Nat /\ DOMAIN t = 1..(n - 1) /\ DOMAIN s = 1..n
      BY <2>0, <2>5
    <2> DEFINE at(i) == IF i < k THEN i ELSE i + 1
    <2>8. \A i \in DOMAIN t : at(i) \in DOMAIN s /\ at(i) # k /\ t[i] = s[at(i)]
      BY <2>2, <2>6, <2>7
    <2>9. IsInjective(t)
      <3>1. SUFFICES ASSUME NEW i \in DOMAIN t, NEW j \in DOMAIN t, t[i] = t[j] PROVE i = j
        BY DEF IsInjective
      <3>2. s[at(i)] = s[at(j)] /\ at(i) \in DOMAIN s /\ at(j) \in DOMAIN s
        BY <2>8, <3>1
      <3>3. at(i) = at(j)
        <4> HIDE DEF at
        <4> QED BY <3>2, <1>0 DEF IsInjective
      <3> QED BY <3>3, <2>2, <2>7
    <2>10. Range(t) = Range(s) \ {e}
      <3>1. \A i \in DOMAIN t : t[i] \in Range(s) /\ t[i] # e
        <4> HIDE DEF at
        <4> QED BY <2>8, <2>3, <2>7 DEF Range
      <3>2. \A j \in DOMAIN s : s[j] # e => \E i \in DOMAIN t : t[i] = s[j]
        <4> TAKE j \in DOMAIN s
        <4> HAVE s[j] # e
        <4>1. CASE j < k
          <5>1. j \in DOMAIN t /\ at(j) = j
            BY <2>2, <2>7, <4>1
          <5> QED BY <5>1, <2>8
        <4>2. CASE ~(j < k)
          <5>1. j # k
            BY <2>2
          <5>2. j - 1 \in DOMAIN t /\ at(j - 1) = j
            BY <2>2, <2>7, <4>2, <5>1
          <5> QED BY <5>2, <2>8
        <4> QED BY <4>1, <4>2
      <3> QED BY <3>1, <3>2 DEF Range
    <2> QED BY <2>1, <2>5, <2>9, <2>10 DEF Lists, t, a, b, n
  <1> QED
    BY <1>1, <1>2

------------------------------------------------------------------------------
(* Requests, statements and answers *)

LEMMA RequestOf ==
    ASSUME NEW r \in Requests
    PROVE  /\ r.sock \in Socks /\ r.kind \in {"get", "select"} \cup Changes
           /\ r.kind = "get" => r.type \in {1, 2}
           /\ r.kind = "alter" => r.type \in {1, 2} /\ r.subj \in Subjects
           /\ r.kind \in {"add", "select", "update"} => r.acct \in Accts /\ r.subjs \in Lists
           /\ r.kind \in {"add", "update"} => r.scores \in Seq(Values)
           /\ r.kind = "update" => Len(r.scores) = Len(r.subjs)
           /\ r.kind = "delete" => /\ r.lo \in Nat /\ r.hi \in Nat
                                   /\ r.lo = 0 => r.hi = 0
  BY DEF Requests, Changes

LEMMA StatementOf ==
    ASSUME NEW st \in Statements, st # Boot
    PROVE  /\ st \in Requests /\ st.kind \in {"select"} \cup Changes
           /\ st.kind \in {"add", "update"} => Len(st.scores) = Len(st.subjs)
  <1>1. st \in Requests /\ st.kind # "get" /\ (st.kind = "add" => Len(st.scores) = Len(st.subjs))
    BY DEF Statements
  <1> QED BY <1>1, RequestOf

LEMMA BootKind == Boot.kind = "boot"
  BY DEF Boot

LEMMA AckOf ==
    ASSUME NEW ack \in Acks
    PROVE  /\ ack.kind = "get" => ack.list \in Lists
           /\ ack.kind = "select" /\ ack.code = 0 => ack.acct \in Accts /\ ack.subjs \in Lists
  BY DEF Acks, Changes

\* An answer to a client that waits is the only one it has.
LEMMA SendOne ==
    ASSUME Messages, NEW s \in Socks, NEW ack \in Acks, inbox[s] = <<>>, Send(s, ack)
    PROVE  /\ inbox' \in [Socks -> Seq(Acks)]
           /\ \A t \in Socks : t # s => inbox'[t] = inbox[t]
           /\ Len(inbox'[s]) <= 1 /\ (oper[s] = "gone" => inbox'[s] = <<>>)
           /\ \A t \in Socks : Len(inbox'[t]) > Len(inbox[t]) => t = s /\ Last(inbox'[t]) = ack
  <1>1. Append(<<>>, ack) = <<ack>> /\ <<ack>> \in Seq(Acks) /\ Len(<<ack>>) = 1 /\ Last(<<ack>>) = ack
    BY DEF Last
  <1>2. CASE oper[s] = "gone"
    <2>1. inbox' = inbox
      BY <1>2 DEF Send
    <2>2. \A t \in Socks : Len(inbox[t]) \in Nat
      BY DEF Messages
    <2> QED BY <2>1, <2>2 DEF Messages
  <1>3. CASE oper[s] # "gone"
    <2>1. inbox' = [inbox EXCEPT ![s] = <<ack>>]
      BY <1>1, <1>3 DEF Send
    <2>2. \A t \in Socks : Len(inbox[t]) \in Nat
      BY DEF Messages
    <2> QED BY <1>1, <1>3, <2>1, <2>2 DEF Messages
  <1> QED BY <1>2, <1>3

------------------------------------------------------------------------------
(* The clients *)

\* Nothing of this client is on its way to the server or being worked on.
Free(s) ==
    /\ \A i \in 1..Len(queue) : queue[i].sock # s
    /\ \A i \in 1..Len(stmts) : stmts[i] # Boot => stmts[i].sock # s

NewRequest(s) == \E r \in Requests : r.sock = s /\ queue' = Append(queue, r)

ClientShape(s) ==
    /\ UNCHANGED <<exist, cols, users, rows, stmts>>
    /\ \/ /\ oper[s] = "idle" /\ NewRequest(s) /\ UNCHANGED inbox
          /\ \E op \in Opers \cup {"delete"} : oper' = [oper EXCEPT ![s] = op]
       \/ /\ oper' = [oper EXCEPT ![s] = "gone"] /\ inbox' = [inbox EXCEPT ![s] = <<>>]
          /\ UNCHANGED queue
       \/ /\ inbox[s] # <<>> /\ inbox' = [inbox EXCEPT ![s] = Tail(@)]
          /\ \/ oper' = [oper EXCEPT ![s] = "idle"] /\ UNCHANGED queue
             \/ UNCHANGED oper /\ NewRequest(s)

LEMMA Sends ==
    ASSUME NEW s \in Socks, NEW r \in Requests, r.sock = s, Request(r)
    PROVE  NewRequest(s)
  BY DEF Request, NewRequest

LEMMA AskShape ==
    ASSUME NEW s \in Socks, NEW op \in Opers, Ask(s, op) PROVE ClientShape(s)
  <1> DEFINE r == [kind |-> "get", sock |-> s, type |-> IF op = "addSubject" THEN 1 ELSE 2]
  <1>1. r \in Requests /\ r.sock = s
    BY DEF Requests
  <1>2. Request(r) /\ oper[s] = "idle" /\ UNCHANGED <<exist, cols, users, rows, stmts, inbox>>
        /\ oper' = [oper EXCEPT ![s] = op]
    BY DEF Ask, Unmoved
  <1> HIDE DEF r
  <1>3. NewRequest(s)
    BY <1>1, <1>2, Sends
  <1> QED BY <1>2, <1>3 DEF ClientShape

LEMMA DeleteShape ==
    ASSUME NEW s \in Socks, DeleteScoreChooseHandle(s) PROVE ClientShape(s)
  <1>1. /\ oper[s] = "idle" /\ oper' = [oper EXCEPT ![s] = "delete"]
        /\ UNCHANGED <<exist, cols, users, rows, stmts, inbox>>
    BY DEF DeleteScoreChooseHandle, Unmoved
  <1>2. NewRequest(s)
    <2>1. ASSUME NEW a \in Accts, Request([kind |-> "delete", sock |-> s, acct |-> a, lo |-> 0, hi |-> 0])
          PROVE  NewRequest(s)
      <3>1. [kind |-> "delete", sock |-> s, acct |-> a, lo |-> 0, hi |-> 0] \in Requests
        BY DEF Requests
      <3> QED BY <2>1, <3>1, Sends
    <2>2. ASSUME NEW lo \in 1..Cardinality(Accts), NEW hi \in 1..Cardinality(Accts),
                 Request([kind |-> "delete", sock |-> s, lo |-> lo, hi |-> hi])
          PROVE  NewRequest(s)
      <3>1. [kind |-> "delete", sock |-> s, lo |-> lo, hi |-> hi] \in Requests
        BY DEF Requests
      <3> QED BY <2>2, <3>1, Sends
    <2> QED BY <2>1, <2>2 DEF DeleteScoreChooseHandle
  <1> QED BY <1>1, <1>2 DEF ClientShape

LEMMA LeaveShape ==
    ASSUME NEW s \in Socks, Leave(s) PROVE ClientShape(s)
  BY DEF Leave, Unmoved, ClientShape

LEMMA FinishShape ==
    ASSUME NEW s \in Socks, NEW kind, Take(s, kind), Finish(s) PROVE ClientShape(s)
  BY DEF Take, Finish, Unmoved, ClientShape

LEMMA GoOnShape ==
    ASSUME NEW s \in Socks, NEW kind, Take(s, kind), NewRequest(s), UNCHANGED oper
    PROVE  ClientShape(s)
  BY DEF Take, Unmoved, ClientShape

LEMMA OneList ==
    ASSUME NEW x \in Subjects PROVE <<x>> \in Lists
  <1>1. <<x>> \in Seq(Subjects) /\ DOMAIN <<x>> = {1}
    OBVIOUS
  <1> QED BY <1>1 DEF Lists, IsInjective

LEMMA ListOf ==
    ASSUME NEW q \in Lists
    PROVE  /\ q \in Seq(Subjects) /\ Range(q) \in SUBSET Subjects
           /\ Len(q) \in Nat /\ DOMAIN q = 1..Len(q)
  BY DEF Lists, Range

\* The scores as they are typed, and as they are sent.
LEMMA TypedScores ==
    ASSUME ScoreAssumption, NEW n \in Nat, NEW typed \in [1..n -> Scores]
    PROVE  /\ typed \in Seq(Values)
           /\ \A m \in Nat : Filled(typed, m) \in Seq(Values) /\ Len(Filled(typed, m)) = m
  <1>1. typed \in [1..n -> Values] /\ DOMAIN typed = 1..n
    BY DEF ScoreAssumption, Values
  <1>2. typed \in Seq(Values)
    BY <1>1, FunctionSeq
  <1>3. ASSUME NEW m \in Nat
        PROVE  Filled(typed, m) \in Seq(Values) /\ Len(Filled(typed, m)) = m
    <2>1. Filled(typed, m) \in [1..m -> Values]
      BY <1>1 DEF Filled, Values
    <2> QED BY <2>1, FunctionSeq
  <1> QED BY <1>2, <1>3

LEMMA OneScore ==
    ASSUME ScoreAssumption, NEW v \in Scores PROVE <<v>> \in Seq(Values) /\ Len(<<v>>) = 1
  <1>1. v \in Values
    BY DEF ScoreAssumption, Values
  <1> QED BY <1>1

LEMMA AlterSends ==
    ASSUME NEW s \in Socks, NEW list \in Lists, AlterChoose(s, list) PROVE NewRequest(s)
  <1>1. PICK x \in Range(list) :
            Request([kind |-> "alter", sock |-> s,
                     type |-> IF oper[s] = "addSubject" THEN 1 ELSE 2, subj |-> x])
    BY DEF AlterChoose
  <1>2. x \in Subjects
    BY ListOf
  <1> DEFINE r == [kind |-> "alter", sock |-> s,
                   type |-> IF oper[s] = "addSubject" THEN 1 ELSE 2, subj |-> x]
  <1>3. r \in Requests /\ r.sock = s
    BY <1>2 DEF Requests
  <1> HIDE DEF r
  <1>4. Request(r)
    BY <1>1 DEF r
  <1> QED BY <1>3, <1>4, Sends

LEMMA AddSends ==
    ASSUME ScoreAssumption, NEW s \in Socks, NEW list \in Lists, AddChoose(s, list)
    PROVE  NewRequest(s)
  <1> DEFINE add(a, subjs, scores, shown) ==
                 [kind |-> "add", sock |-> s, acct |-> a, subjs |-> subjs, scores |-> scores,
                  shown |-> shown]
  <1>1. ASSUME NEW a \in Accts, NEW subjs \in Lists, NEW scores \in Seq(Values), NEW shown \in Lists,
               Request(add(a, subjs, scores, shown))
        PROVE  NewRequest(s)
    <2> DEFINE r == add(a, subjs, scores, shown)
    <2>1. r \in Requests /\ r.sock = s
      BY DEF Requests
    <2>2. Request(r)
      BY <1>1
    <2> HIDE DEF r
    <2> QED BY <2>1, <2>2, Sends
  <1>2. ASSUME NEW a \in Accts, NEW x \in Range(list), NEW v \in Scores,
               Request(add(a, <<x>>, <<v>>, <<x>>))
        PROVE  NewRequest(s)
    <2>1. <<x>> \in Lists /\ <<v>> \in Seq(Values)
      <3>1. x \in Subjects
        BY ListOf
      <3> QED BY <3>1, OneList, OneScore
    <2> HIDE DEF add
    <2> QED BY <1>1, <1>2, <2>1
  <1>3. ASSUME NEW a \in Accts, NEW n \in DOMAIN list, NEW typed \in [1..n -> Scores],
               Request(add(a, list, typed, InOrder(Range(list))))
        PROVE  NewRequest(s)
    <2>1. n \in Nat /\ InOrder(Range(list)) \in Lists
      <3>1. n \in 1..Len(list) /\ Len(list) \in Nat /\ Range(list) \in SUBSET Subjects
        BY ListOf
      <3>2. \A m \in Nat : 1..m \subseteq Nat
        OBVIOUS
      <3>3. n \in Nat
        BY <3>1, <3>2
      <3> QED BY <3>1, <3>3, InOrderLists
    <2>2. typed \in Seq(Values)
      BY <2>1, TypedScores
    <2> HIDE DEF add
    <2> QED BY <1>1, <1>3, <2>1, <2>2
  <1> QED BY <1>2, <1>3 DEF AddChoose

LEMMA SelectSends ==
    ASSUME NEW s \in Socks, NEW list \in Lists, SelectChoose(s, list) PROVE NewRequest(s)
  <1> DEFINE select(a, subjs) == [kind |-> "select", sock |-> s, acct |-> a, subjs |-> subjs]
  <1>1. ASSUME NEW a \in Accts, NEW subjs \in Lists, Request(select(a, subjs))
        PROVE  NewRequest(s)
    <2>1. select(a, subjs) \in Requests /\ select(a, subjs).sock = s
      BY DEF Requests
    <2> HIDE DEF select
    <2> QED BY <1>1, <2>1, Sends
  <1>2. ASSUME NEW a \in Accts, NEW x \in Range(list), Request(select(a, <<x>>))
        PROVE  NewRequest(s)
    <2>1. <<x>> \in Lists
      BY OneList, ListOf
    <2> HIDE DEF select
    <2> QED BY <1>1, <1>2, <2>1
  <1>3. \E a \in Accts : \/ \E x \in Range(list) : Request(select(a, <<x>>))
                         \/ Request(select(a, list))
    BY DEF SelectChoose
  <1> QED BY <1>1, <1>2, <1>3

LEMMA UpdateSends ==
    ASSUME ScoreAssumption, NEW s \in Socks, NEW ack, ack.acct \in Accts, ack.subjs \in Lists,
           UpdateChoose(s, ack)
    PROVE  NewRequest(s)
  <1> DEFINE update(subjs, scores) ==
                 [kind |-> "update", sock |-> s, acct |-> ack.acct, subjs |-> subjs,
                  scores |-> scores]
  <1>1. ASSUME NEW subjs \in Lists, NEW scores \in Seq(Values), Len(scores) = Len(subjs),
               Request(update(subjs, scores))
        PROVE  NewRequest(s)
    <2> DEFINE r == update(subjs, scores)
    <2>1. r \in Requests /\ r.sock = s
      BY <1>1 DEF Requests
    <2>2. Request(r)
      BY <1>1
    <2> HIDE DEF r
    <2> QED BY <2>1, <2>2, Sends
  <1>2. ASSUME NEW x \in Range(ack.subjs), NEW v \in Scores, Request(update(<<x>>, <<v>>))
        PROVE  NewRequest(s)
    <2>1. <<x>> \in Lists /\ <<v>> \in Seq(Values) /\ Len(<<x>>) = Len(<<v>>)
      <3>1. x \in Subjects /\ Len(<<x>>) = 1
        BY ListOf
      <3> QED BY <3>1, OneList, OneScore
    <2> HIDE DEF update
    <2> QED BY <1>1, <1>2, <2>1
  <1>3. ASSUME NEW n \in DOMAIN ack.subjs, NEW typed \in [1..n -> Scores],
               Request(update(ack.subjs, Filled(typed, Len(ack.subjs))))
        PROVE  NewRequest(s)
    <2>1. n \in Nat /\ Len(ack.subjs) \in Nat
      <3>1. n \in 1..Len(ack.subjs) /\ Len(ack.subjs) \in Nat
        BY ListOf
      <3>2. \A m \in Nat : 1..m \subseteq Nat
        OBVIOUS
      <3> QED BY <3>1, <3>2
    <2>2. Filled(typed, Len(ack.subjs)) \in Seq(Values)
          /\ Len(Filled(typed, Len(ack.subjs))) = Len(ack.subjs)
      BY <2>1, TypedScores
    <2> HIDE DEF update
    <2> QED BY <1>1, <1>3, <2>2
  <1> QED BY <1>2, <1>3 DEF UpdateChoose

LEMMA Taken ==
    ASSUME Messages, NEW s \in Socks, NEW kind, Take(s, kind)
    PROVE  Head(inbox[s]) \in Acks /\ Head(inbox[s]).kind = kind /\ inbox[s] # <<>>
  BY TailOf DEF Messages, Take

LEMMA ClientsShape ==
    ASSUME ScoreAssumption, Messages, Clients PROVE \E s \in Socks : ClientShape(s)
  <1>1. PICK s \in Socks :
            (\E op \in Opers : Ask(s, op)) \/ DeleteScoreChooseHandle(s) \/ Leave(s) \/ Answer(s)
    BY DEF Clients
  <1>2. ASSUME GetSubjectsAnswer(s) PROVE ClientShape(s)
    <2>1. Take(s, "get")
      BY <1>2 DEF GetSubjectsAnswer
    <2>2. CASE Finish(s)
      BY <2>1, <2>2, FinishShape
    <2> DEFINE list == Head(inbox[s]).list
    <2>3. CASE (AlterChoose(s, list) \/ AddChoose(s, list) \/ SelectChoose(s, list)) /\ UNCHANGED oper
      <3>1. list \in Lists
        BY <2>1, Taken, AckOf
      <3> HIDE DEF list
      <3>2. NewRequest(s)
        BY <2>3, <3>1, AlterSends, AddSends, SelectSends
      <3> QED BY <2>1, <2>3, <3>2, GoOnShape
    <2> QED BY <1>2, <2>2, <2>3 DEF GetSubjectsAnswer
  <1>3. ASSUME SelectAnswer(s) PROVE ClientShape(s)
    <2>1. Take(s, "select")
      BY <1>3 DEF SelectAnswer
    <2>2. CASE Finish(s)
      BY <2>1, <2>2, FinishShape
    <2> DEFINE ack == Head(inbox[s])
    <2>3. CASE ack.code = 0 /\ UpdateChoose(s, ack) /\ UNCHANGED oper
      <3>1. ack.acct \in Accts /\ ack.subjs \in Lists
        BY <2>1, <2>3, Taken, AckOf
      <3> HIDE DEF ack
      <3>2. NewRequest(s)
        BY <2>3, <3>1, UpdateSends
      <3> QED BY <2>1, <2>3, <3>2, GoOnShape
    <2> QED BY <1>3, <2>2, <2>3 DEF SelectAnswer
  <1>4. ASSUME ChangeAnswer(s) PROVE ClientShape(s)
    BY <1>4, FinishShape DEF ChangeAnswer
  <1> QED BY <1>1, <1>2, <1>3, <1>4, AskShape, DeleteShape, LeaveShape DEF Answer

------------------------------------------------------------------------------
(* One request for each client *)

Flow == Messages /\ Once

LEMMA SockOf ==
    ASSUME Messages
    PROVE  /\ Len(queue) \in Nat /\ Len(stmts) \in Nat
           /\ \A i \in 1..Len(queue) : queue[i] \in Requests /\ queue[i].sock \in Socks
           /\ \A i \in 1..Len(stmts) : stmts[i] \in Statements
           /\ \A i \in 1..Len(stmts) : stmts[i] # Boot => stmts[i].sock \in Socks
           /\ \A s \in Socks : inbox[s] \in Seq(Acks) /\ Len(inbox[s]) \in Nat
  <1>1. queue \in Seq(Requests) /\ stmts \in Seq(Statements) /\ inbox \in [Socks -> Seq(Acks)]
    BY DEF Messages
  <1>2. /\ Len(queue) \in Nat /\ Len(stmts) \in Nat
        /\ \A i \in 1..Len(queue) : queue[i] \in Requests
        /\ \A i \in 1..Len(stmts) : stmts[i] \in Statements
        /\ \A s \in Socks : inbox[s] \in Seq(Acks) /\ Len(inbox[s]) \in Nat
    BY <1>1
  <1> QED BY <1>2, RequestOf, StatementOf

\* A client that has nothing on its way, and whose inbox is or becomes empty,
\* may wait or not.
LEMMA QuietFlow ==
    ASSUME Flow, NEW s \in Socks, NEW op \in States,
           oper' = [oper EXCEPT ![s] = op], inbox' = [inbox EXCEPT ![s] = <<>>],
           UNCHANGED <<queue, stmts>>, Free(s) \/ op # "idle"
    PROVE  Flow'
  <1>1. Messages'
    BY DEF Flow, Messages
  <1>2. \A t \in Socks : t # s => oper'[t] = oper[t] /\ inbox'[t] = inbox[t]
    BY DEF Flow, Messages
  <1>3. oper'[s] = op /\ inbox'[s] = <<>> /\ Len(<<>>) = 0
    BY DEF Flow, Messages
  <1>4. \A t \in Socks : Len(inbox'[t]) <= 1 /\ (oper'[t] \in {"idle", "gone"} => inbox'[t] = <<>>)
    BY <1>2, <1>3 DEF Flow, Once
  <1>5. \A i \in 1..Len(queue) : oper'[queue[i].sock] # "idle" /\ inbox'[queue[i].sock] = <<>>
    BY <1>2, <1>3, SockOf DEF Flow, Once, Free
  <1>6. \A i \in 1..Len(stmts) :
           stmts[i] # Boot => oper'[stmts[i].sock] # "idle" /\ inbox'[stmts[i].sock] = <<>>
    BY <1>2, <1>3, SockOf DEF Flow, Once, Free
  <1> QED BY <1>1, <1>4, <1>5, <1>6 DEF Flow, Once

\* A client with nothing on its way sends a request and waits.
LEMMA NewFlow ==
    ASSUME Flow, NEW s \in Socks, Free(s), NEW op \in States \ {"idle"}, NewRequest(s),
           oper' = [oper EXCEPT ![s] = op], inbox' = [inbox EXCEPT ![s] = <<>>],
           UNCHANGED stmts
    PROVE  Flow'
  <1>1. PICK r \in Requests : r.sock = s /\ queue' = Append(queue, r)
    BY DEF NewRequest
  <1> DEFINE n == Len(queue)
  <1>2. /\ queue' \in Seq(Requests) /\ n \in Nat /\ Len(queue') = n + 1 /\ queue'[n + 1] = r
        /\ \A i \in 1..n : queue'[i] = queue[i]
        /\ \A i \in 1..Len(queue') : i \in 1..n \/ i = n + 1
    BY <1>1, AppendOf DEF Flow, Messages
  <1>3. Messages'
    BY <1>2 DEF Flow, Messages
  <1>4. \A t \in Socks : t # s => oper'[t] = oper[t] /\ inbox'[t] = inbox[t]
    BY DEF Flow, Messages
  <1>5. oper'[s] # "idle" /\ inbox'[s] = <<>> /\ Len(<<>>) = 0
    BY DEF Flow, Messages
  <1>6. \A t \in Socks : Len(inbox'[t]) <= 1 /\ (oper'[t] \in {"idle", "gone"} => inbox'[t] = <<>>)
    BY <1>4, <1>5 DEF Flow, Once
  <1>7. \A i \in 1..n : queue[i].sock # s /\ queue[i].sock \in Socks
    BY SockOf DEF Free, Flow
  <1>8. \A i \in 1..Len(queue') : oper'[queue'[i].sock] # "idle" /\ inbox'[queue'[i].sock] = <<>>
    <2> TAKE i \in 1..Len(queue')
    <2>1. CASE i \in 1..n
      BY <1>2, <1>4, <1>7, <2>1 DEF Flow, Once
    <2>2. CASE i = n + 1
      BY <1>1, <1>2, <1>5, <2>2
    <2> QED BY <1>2, <2>1, <2>2
  <1>9. \A i, j \in 1..Len(queue') : queue'[i].sock = queue'[j].sock => i = j
    <2> TAKE i, j \in 1..Len(queue')
    <2>1. (i \in 1..n => queue'[i] = queue[i]) /\ (j \in 1..n => queue'[j] = queue[j])
      BY <1>2
    <2>2. (i \in 1..n \/ i = n + 1) /\ (j \in 1..n \/ j = n + 1)
      BY <1>2
    <2> HIDE DEF n
    <2>3. queue'[n + 1].sock = s
      BY <1>1, <1>2
    <2>4. \A k, m \in 1..n : queue[k].sock = queue[m].sock => k = m
      BY DEF Flow, Once, n
    <2> QED BY <1>7, <2>1, <2>2, <2>3, <2>4
  <1>10. \A i \in 1..Len(queue'), j \in 1..Len(stmts) :
            stmts[j] # Boot => queue'[i].sock # stmts[j].sock
    <2> TAKE i \in 1..Len(queue'), j \in 1..Len(stmts)
    <2>1. CASE i \in 1..n
      BY <1>2, <2>1 DEF Flow, Once
    <2>2. CASE i = n + 1
      BY <1>1, <1>2, <2>2 DEF Free
    <2> QED BY <1>2, <2>1, <2>2
  <1>11. \A i \in 1..Len(stmts) :
            stmts[i] # Boot => oper'[stmts[i].sock] # "idle" /\ inbox'[stmts[i].sock] = <<>>
    BY <1>4, <1>5, SockOf DEF Flow, Once
  <1> QED BY <1>3, <1>6, <1>8, <1>9, <1>10, <1>11 DEF Flow, Once

LEMMA ClientFlow ==
    ASSUME Flow, NEW s \in Socks, ClientShape(s) PROVE Flow'
  <1>0. UNCHANGED stmts /\ Messages /\ oper[s] \in States /\ inbox[s] \in Seq(Acks)
    BY DEF ClientShape, Flow, Messages
  <1>1. ASSUME oper[s] = "idle" \/ inbox[s] # <<>> PROVE Free(s)
    BY <1>1 DEF Flow, Once, Free
  <1>2. CASE /\ oper[s] = "idle" /\ NewRequest(s) /\ UNCHANGED inbox
             /\ \E op \in Opers \cup {"delete"} : oper' = [oper EXCEPT ![s] = op]
    <2>1. PICK op \in Opers \cup {"delete"} : oper' = [oper EXCEPT ![s] = op]
      BY <1>2
    <2>2. op \in States \ {"idle"}
      BY DEF States, Opers, Altering, Adding, Selecting, Updating
    <2>3. inbox' = [inbox EXCEPT ![s] = <<>>]
      BY <1>2 DEF Flow, Once, Messages
    <2> QED BY <1>0, <1>1, <1>2, <2>1, <2>2, <2>3, NewFlow
  <1>3. CASE /\ oper' = [oper EXCEPT ![s] = "gone"] /\ inbox' = [inbox EXCEPT ![s] = <<>>]
             /\ UNCHANGED queue
    BY <1>0, <1>3, QuietFlow DEF States
  <1>4. CASE /\ inbox[s] # <<>> /\ inbox' = [inbox EXCEPT ![s] = Tail(@)]
             /\ \/ oper' = [oper EXCEPT ![s] = "idle"] /\ UNCHANGED queue
                \/ UNCHANGED oper /\ NewRequest(s)
    <2>1. inbox' = [inbox EXCEPT ![s] = <<>>]
      <3>1. Len(inbox[s]) <= 1
        BY DEF Flow, Once
      <3>2. Tail(inbox[s]) = <<>>
        BY <1>0, <1>4, <3>1, TailOne
      <3> QED BY <1>4, <3>2
    <2>2. CASE oper' = [oper EXCEPT ![s] = "idle"] /\ UNCHANGED queue
      BY <1>0, <1>1, <1>4, <2>1, <2>2, QuietFlow DEF States
    <2>3. CASE UNCHANGED oper /\ NewRequest(s)
      <3>1. oper' = [oper EXCEPT ![s] = oper[s]] /\ oper[s] # "idle"
        BY <1>4, <2>3 DEF Flow, Once, Messages
      <3> QED BY <1>0, <1>1, <1>4, <2>1, <2>3, <3>1, NewFlow
    <2> QED BY <1>4, <2>2, <2>3
  <1> QED BY <1>2, <1>3, <1>4 DEF ClientShape

------------------------------------------------------------------------------
(* The server's queues *)

RecvShape ==
    /\ queue # <<>> /\ queue' = Tail(queue)
    /\ UNCHANGED <<exist, cols, users, rows, oper>>
    /\ \/ /\ Head(queue) \in Statements \ {Boot} /\ stmts' = Append(stmts, Head(queue))
          /\ UNCHANGED inbox
       \/ /\ UNCHANGED stmts
          /\ \E ack \in Acks : Send(Head(queue).sock, ack) /\ (ack.kind \in Changes => ~ack.ok)

MysqlShape ==
    /\ stmts # <<>> /\ stmts' = Tail(stmts) /\ UNCHANGED <<oper, queue>>
    /\ \/ Head(stmts) = Boot /\ UNCHANGED inbox
       \/ Head(stmts) # Boot /\ \E ack \in Acks : Send(Head(stmts).sock, ack)

LEMMA PassedStatement ==
    ASSUME NEW r \in Requests, r.kind # "get", r.kind = "add" => Len(r.scores) = Len(r.subjs)
    PROVE  r \in Statements \ {Boot}
  <1>1. r # Boot
    BY RequestOf, BootKind DEF Changes
  <1> QED BY <1>1 DEF Statements

LEMMA RefusedAck ==
    ASSUME NEW r, r.kind \in {"select"} \cup Changes
    PROVE  Refused(r) \in Acks /\ (Refused(r).kind \in Changes => ~Refused(r).ok)
  BY DEF Refused, Acks, Changes

LEMMA RecvHead ==
    ASSUME Messages, NEW kind, RecvFront(kind)
    PROVE  /\ queue # <<>> /\ queue' = Tail(queue) /\ UNCHANGED <<exist, cols, users, rows, oper>>
           /\ Head(queue) \in Requests /\ Head(queue).kind = kind
  BY TailOf DEF Messages, RecvFront, HeadIs

LEMMA PassOnShape ==
    ASSUME Messages, NEW kind \in {"alter", "delete"}, PassOn(kind) PROVE RecvShape
  <1>1. RecvFront(kind) /\ stmts' = Append(stmts, Head(queue)) /\ UNCHANGED inbox
    BY DEF PassOn
  <1> QED BY <1>1, RecvHead, PassedStatement DEF RecvShape

LEMMA PassIfValidShape ==
    ASSUME Messages, NEW kind \in {"add", "select", "update"}, PassIfValid(kind) PROVE RecvShape
  <1> DEFINE r == Head(queue)
  <1>1. RecvFront(kind) /\ (IF Valid(r) THEN stmts' = Append(stmts, r) /\ UNCHANGED inbox
                            ELSE Send(r.sock, Refused(r)) /\ UNCHANGED stmts)
    BY DEF PassIfValid
  <1>2. /\ queue # <<>> /\ queue' = Tail(queue) /\ UNCHANGED <<exist, cols, users, rows, oper>>
        /\ r \in Requests /\ r.kind = kind
    BY <1>1, RecvHead
  <1>3. CASE Valid(r)
    <2>1. r.kind = "add" => Len(r.scores) = Len(r.subjs)
      BY <1>3 DEF Valid
    <2>2. r \in Statements \ {Boot}
      BY <1>2, <2>1, PassedStatement
    <2> QED BY <1>1, <1>2, <1>3, <2>2 DEF RecvShape
  <1>4. CASE ~Valid(r)
    <2>1. Refused(r) \in Acks /\ (Refused(r).kind \in Changes => ~Refused(r).ok)
      BY <1>2, RefusedAck DEF Changes
    <2> QED BY <1>1, <1>2, <1>4, <2>1 DEF RecvShape
  <1> QED BY <1>3, <1>4

LEMMA CheckShape ==
    ASSUME Messages, exist \in Lists, CheckCanAlterSubjectRecvHandle PROVE RecvShape
  <1> DEFINE list == IF Head(queue).type = 1 THEN InOrder(Subjects \ Range(exist)) ELSE exist
             ack == [kind |-> "get", list |-> list]
  <1>1. RecvFront("get") /\ UNCHANGED stmts /\ Send(Head(queue).sock, ack)
    BY DEF CheckCanAlterSubjectRecvHandle
  <1>2. list \in Lists
    BY InOrderLists
  <1>3. ack \in Acks /\ ack.kind \notin Changes
    <2> HIDE DEF list
    <2> QED BY <1>2 DEF Acks, Changes
  <1> HIDE DEF ack
  <1> QED BY <1>1, <1>3, RecvHead DEF RecvShape

LEMMA RecvShapes ==
    ASSUME Messages, exist \in Lists, Recv PROVE RecvShape
  BY CheckShape, PassOnShape, PassIfValidShape
     DEF Recv, AlterSubjectRecvHandle, AddSingleScoreRecvHandle, SelectSingleScoreRecvHandle,
         UpdateSingleScoreRecvHandle, DeleteScoreRecvHandle

\* The client whose request or statement is answered: it alone has an answer.
LEMMA AnswerFlow ==
    ASSUME Messages, NEW s \in Socks, NEW ack \in Acks, inbox[s] = <<>>, oper[s] # "idle",
           Send(s, ack), UNCHANGED oper,
           \A t \in Socks : Len(inbox[t]) <= 1 /\ (oper[t] \in {"idle", "gone"} => inbox[t] = <<>>)
    PROVE  /\ inbox' \in [Socks -> Seq(Acks)]
           /\ \A t \in Socks : t # s => inbox'[t] = inbox[t]
           /\ \A t \in Socks : Len(inbox'[t]) <= 1 /\ (oper'[t] \in {"idle", "gone"} => inbox'[t] = <<>>)
  BY SendOne

LEMMA RecvFlow ==
    ASSUME Flow, RecvShape PROVE Flow'
  <1> DEFINE r == Head(queue)  q == queue
  <1>1. /\ q \in Seq(Requests) /\ stmts \in Seq(Statements) /\ q # <<>> /\ queue' = Tail(q)
        /\ UNCHANGED oper
    BY DEF RecvShape, Flow, Messages
  <1>2. /\ Len(q) \in Nat /\ 1 \in 1..Len(q) /\ r = q[1] /\ r \in Requests
        /\ queue' \in Seq(Requests) /\ Len(queue') = Len(q) - 1
        /\ \A i \in 1..Len(queue') : i + 1 \in 1..Len(q) /\ queue'[i] = q[i + 1]
    BY <1>1, TailOf
  <1>3. \A i \in 1..Len(queue') : i + 1 # 1
    BY <1>2
  <1>4. \A i, j \in 1..Len(queue') : queue'[i].sock = queue'[j].sock => i = j
    <2> TAKE i, j \in 1..Len(queue')
    <2>1. PICK k \in 1..Len(q), m \in 1..Len(q) :
              k = i + 1 /\ m = j + 1 /\ queue'[i] = q[k] /\ queue'[j] = q[m]
      BY <1>2
    <2>2. q[k].sock = q[m].sock => k = m
      BY DEF Flow, Once
    <2>3. k = m => i = j
      BY <2>1, <1>2
    <2> QED BY <2>1, <2>2, <2>3
  <1>5. \A i \in 1..Len(queue') : queue'[i].sock # r.sock
    <2> TAKE i \in 1..Len(queue')
    <2>1. i + 1 \in 1..Len(q) /\ queue'[i] = q[i + 1] /\ i + 1 # 1
      BY <1>2, <1>3
    <2> QED BY <1>2, <2>1 DEF Flow, Once
  <1>6. \A j \in 1..Len(stmts) : stmts[j] # Boot => stmts[j].sock # r.sock
    BY <1>2 DEF Flow, Once
  <1>7. r.sock \in Socks /\ oper[r.sock] # "idle" /\ inbox[r.sock] = <<>>
    BY <1>2, RequestOf DEF Flow, Once
  <1>8. \A i \in 1..Len(queue') :
           queue'[i].sock \in Socks /\ oper[queue'[i].sock] # "idle" /\ inbox[queue'[i].sock] = <<>>
    <2> TAKE i \in 1..Len(queue')
    <2>1. PICK j \in 1..Len(q) : queue'[i] = q[j]
      BY <1>2
    <2> QED BY <2>1, SockOf DEF Flow, Once
  <1>9. CASE r \in Statements \ {Boot} /\ stmts' = Append(stmts, r) /\ UNCHANGED inbox
    <2> DEFINE n == Len(stmts)
    <2>1. /\ stmts' \in Seq(Statements) /\ n \in Nat /\ Len(stmts') = n + 1 /\ stmts'[n + 1] = r
          /\ \A i \in 1..n : stmts'[i] = stmts[i]
          /\ \A i \in 1..Len(stmts') : i \in 1..n \/ i = n + 1
      BY <1>1, <1>9, AppendOf
    <2>2. Messages'
      BY <1>2, <1>9, <1>1, <2>1 DEF Flow, Messages
    <2>3. \A i, j \in 1..Len(stmts') :
             stmts'[i] # Boot /\ stmts'[j] # Boot /\ stmts'[i].sock = stmts'[j].sock => i = j
      <3> TAKE i, j \in 1..Len(stmts')
      <3>1. \A k, m \in 1..n : stmts[k] # Boot /\ stmts[m] # Boot /\ stmts[k].sock = stmts[m].sock => k = m
        BY DEF Flow, Once
      <3> HIDE DEF n, r
      <3> QED BY <1>6, <2>1, <3>1 DEF n
    <2>4. \A i \in 1..Len(queue'), j \in 1..Len(stmts') :
             stmts'[j] # Boot => queue'[i].sock # stmts'[j].sock
      <3> TAKE i \in 1..Len(queue'), j \in 1..Len(stmts')
      <3>1. CASE j \in 1..n
        <4>1. PICK k \in 1..Len(q) : queue'[i] = q[k]
          BY <1>2
        <4>2. stmts'[j] = stmts[j] /\ j \in 1..Len(stmts)
          BY <2>1, <3>1
        <4> QED BY <4>1, <4>2 DEF Flow, Once
      <3>2. CASE j = n + 1
        BY <1>5, <2>1, <3>2
      <3> QED BY <2>1, <3>1, <3>2
    <2>5. \A i \in 1..Len(stmts') :
             stmts'[i] # Boot => oper[stmts'[i].sock] # "idle" /\ inbox[stmts'[i].sock] = <<>>
      <3> TAKE i \in 1..Len(stmts')
      <3>1. CASE i \in 1..n
        BY <2>1, <3>1 DEF Flow, Once
      <3>2. CASE i = n + 1
        BY <1>7, <2>1, <3>2
      <3> QED BY <2>1, <3>1, <3>2
    <2>6. inbox' = inbox /\ oper' = oper
      BY <1>1, <1>9
    <2>7. \A s \in Socks : Len(inbox[s]) <= 1 /\ (oper[s] \in {"idle", "gone"} => inbox[s] = <<>>)
      BY DEF Flow, Once
    <2> HIDE DEF n, r, q
    <2> QED BY <1>4, <1>8, <2>2, <2>3, <2>4, <2>5, <2>6, <2>7 DEF Flow, Once
  <1>10. ASSUME UNCHANGED stmts, NEW ack \in Acks, Send(r.sock, ack) PROVE Flow'
    <2>1. /\ inbox' \in [Socks -> Seq(Acks)]
          /\ \A t \in Socks : t # r.sock => inbox'[t] = inbox[t]
          /\ \A t \in Socks : Len(inbox'[t]) <= 1 /\ (oper'[t] \in {"idle", "gone"} => inbox'[t] = <<>>)
      BY <1>1, <1>7, <1>10, AnswerFlow DEF Flow, Once
    <2>2. Messages'
      BY <1>1, <1>2, <1>10, <2>1 DEF Flow, Messages
    <2>3. \A i \in 1..Len(queue') : inbox'[queue'[i].sock] = <<>>
      BY <1>5, <1>8, <2>1
    <2>4. \A i \in 1..Len(stmts) : stmts[i] # Boot => inbox'[stmts[i].sock] = <<>>
      BY <1>6, <2>1, SockOf DEF Flow, Once
    <2>5. \A i \in 1..Len(queue'), j \in 1..Len(stmts) :
             stmts[j] # Boot => queue'[i].sock # stmts[j].sock
      <3> TAKE i \in 1..Len(queue'), j \in 1..Len(stmts)
      <3>1. PICK k \in 1..Len(q) : queue'[i] = q[k]
        BY <1>2
      <3> QED BY <3>1 DEF Flow, Once
    <2>6. stmts' = stmts /\ oper' = oper
      BY <1>1, <1>10
    <2>7. /\ \A i, j \in 1..Len(stmts) :
                stmts[i] # Boot /\ stmts[j] # Boot /\ stmts[i].sock = stmts[j].sock => i = j
          /\ \A i \in 1..Len(stmts) : stmts[i] # Boot => oper[stmts[i].sock] # "idle"
      BY DEF Flow, Once
    <2> HIDE DEF r, q
    <2> QED BY <1>4, <1>8, <2>1, <2>2, <2>3, <2>4, <2>5, <2>6, <2>7 DEF Flow, Once
  <1> QED BY <1>9, <1>10 DEF RecvShape

LEMMA MysqlFlow ==
    ASSUME Flow, MysqlShape PROVE Flow'
  <1> DEFINE st == Head(stmts)  q == stmts
  <1>1. q \in Seq(Statements) /\ q # <<>> /\ stmts' = Tail(q) /\ UNCHANGED <<oper, queue>>
    BY DEF MysqlShape, Flow, Messages
  <1>2. /\ Len(q) \in Nat /\ 1 \in 1..Len(q) /\ st = q[1] /\ st \in Statements
        /\ stmts' \in Seq(Statements) /\ Len(stmts') = Len(q) - 1
        /\ \A i \in 1..Len(stmts') : i + 1 \in 1..Len(q) /\ stmts'[i] = q[i + 1]
    BY <1>1, TailOf
  <1>3. \A i \in 1..Len(stmts') : i + 1 # 1
    BY <1>2
  <1>4. \A i, j \in 1..Len(stmts') :
           stmts'[i] # Boot /\ stmts'[j] # Boot /\ stmts'[i].sock = stmts'[j].sock => i = j
    <2> TAKE i, j \in 1..Len(stmts')
    <2>1. PICK k \in 1..Len(q), m \in 1..Len(q) :
              k = i + 1 /\ m = j + 1 /\ stmts'[i] = q[k] /\ stmts'[j] = q[m]
      BY <1>2
    <2>2. q[k] # Boot /\ q[m] # Boot /\ q[k].sock = q[m].sock => k = m
      BY DEF Flow, Once
    <2>3. k = m => i = j
      BY <2>1, <1>2
    <2> QED BY <2>1, <2>2, <2>3
  <1>5. \A i \in 1..Len(queue), j \in 1..Len(stmts') :
           stmts'[j] # Boot => queue[i].sock # stmts'[j].sock
    BY <1>2 DEF Flow, Once
  <1>6. \A i \in 1..Len(stmts') :
           stmts'[i] # Boot => /\ stmts'[i].sock \in Socks /\ oper[stmts'[i].sock] # "idle"
                               /\ inbox[stmts'[i].sock] = <<>>
    <2> TAKE i \in 1..Len(stmts')
    <2>1. PICK j \in 1..Len(q) : stmts'[i] = q[j]
      BY <1>2
    <2> QED BY <2>1, SockOf DEF Flow, Once
  <1>7. oper' = oper /\ queue' = queue
    BY <1>1
  <1>8. /\ \A i, j \in 1..Len(queue) : queue[i].sock = queue[j].sock => i = j
        /\ \A i \in 1..Len(queue) : oper[queue[i].sock] # "idle" /\ inbox[queue[i].sock] = <<>>
        /\ \A s \in Socks : Len(inbox[s]) <= 1 /\ (oper[s] \in {"idle", "gone"} => inbox[s] = <<>>)
    BY DEF Flow, Once
  <1>9. CASE UNCHANGED inbox
    <2>1. Messages' /\ inbox' = inbox
      BY <1>2, <1>7, <1>9 DEF Flow, Messages
    <2> HIDE DEF st, q
    <2> QED BY <2>1, <1>4, <1>5, <1>6, <1>7, <1>8 DEF Flow, Once
  <1>10. ASSUME st # Boot, NEW ack \in Acks, Send(st.sock, ack) PROVE Flow'
    <2>1. st.sock \in Socks /\ oper[st.sock] # "idle" /\ inbox[st.sock] = <<>>
      BY <1>2, <1>10, SockOf DEF Flow, Once
    <2>2. /\ inbox' \in [Socks -> Seq(Acks)]
          /\ \A t \in Socks : t # st.sock => inbox'[t] = inbox[t]
          /\ \A t \in Socks : Len(inbox'[t]) <= 1 /\ (oper'[t] \in {"idle", "gone"} => inbox'[t] = <<>>)
      BY <1>1, <1>8, <1>10, <2>1, AnswerFlow DEF Flow
    <2>3. Messages'
      BY <1>2, <1>7, <2>2 DEF Flow, Messages
    <2>4. \A i \in 1..Len(queue) : queue[i].sock # st.sock /\ queue[i].sock \in Socks
      BY <1>2, <1>10, SockOf DEF Flow, Once
    <2>5. \A i \in 1..Len(stmts') : stmts'[i] # Boot => stmts'[i].sock # st.sock
      <3> TAKE i \in 1..Len(stmts')
      <3>1. i + 1 \in 1..Len(q) /\ stmts'[i] = q[i + 1] /\ i + 1 # 1
        BY <1>2, <1>3
      <3> QED BY <1>2, <1>10, <3>1 DEF Flow, Once
    <2>6. \A i \in 1..Len(queue) : inbox'[queue[i].sock] = <<>>
      BY <1>8, <2>2, <2>4
    <2>7. \A i \in 1..Len(stmts') : stmts'[i] # Boot => inbox'[stmts'[i].sock] = <<>>
      BY <1>6, <2>2, <2>5
    <2> HIDE DEF st, q
    <2> QED BY <1>4, <1>5, <1>6, <1>7, <1>8, <2>2, <2>3, <2>6, <2>7 DEF Flow, Once
  <1> QED BY <1>9, <1>10 DEF MysqlShape

------------------------------------------------------------------------------
(* What the statements do to the tables *)

ListStep ==
    /\ Range(exist') \subseteq cols'
    /\ Range(exist) = cols => Range(exist') = cols'

ScoresStep ==
    \A a \in Accts, c \in cols \cap cols' :
        Score(a, c)' # Score(a, c) =>
            LET st == Head(stmts)
            IN \/ /\ st.kind \in {"add", "update"} /\ st.acct = a
                  /\ \E i \in DOMAIN st.subjs : st.subjs[i] = c /\ st.scores[i] = Score(a, c)'
               \/ /\ st.kind = "delete" /\ rows'[a] = <<>>
                  /\ IF st.lo = 0 THEN a = st.acct
                     ELSE \E i \in st.lo..st.hi : i \in DOMAIN users /\ users[i] = a

\* What an answer to client s may say of this step.
Outcome(s, ack) ==
    LET st == Head(stmts)
    IN ack.kind \in Changes =>
          IF ~ack.ok THEN UNCHANGED <<exist, cols, rows>>
          ELSE /\ st.kind = ack.kind /\ st.sock = s
               /\ st.kind = "alter" =>
                     /\ st.subj \in cols' <=> st.type = 1
                     /\ Range(exist) = cols => (st.subj \in Range(exist') <=> st.type = 1)
               /\ st.kind \in {"add", "update"} =>
                     \/ st.kind = "update" /\ rows'[st.acct] = <<>>
                     \/ \A i \in DOMAIN st.subjs :
                           rows'[st.acct][1][st.subjs[i]] = st.scores[i]
               /\ st.kind = "delete" =>
                     \A i \in DOMAIN users :
                         i \in st.lo..st.hi \/ (st.lo = 0 /\ users[i] = st.acct)
                         => rows'[users[i]] = <<>>

AnswerStep ==
    \A s \in Socks : Len(inbox'[s]) > Len(inbox[s]) => Outcome(s, Last(inbox'[s]))

Steps == ListStep /\ ScoresStep /\ AnswerStep

\* No answer.
LEMMA NoAnswer ==
    ASSUME Messages, \A s \in Socks : Len(inbox'[s]) <= Len(inbox[s]) /\ Len(inbox'[s]) \in Nat
    PROVE  AnswerStep
  <1>1. \A s \in Socks : Len(inbox[s]) \in Nat
    BY SockOf
  <1> QED BY <1>1 DEF AnswerStep

LEMMA OneAnswer ==
    ASSUME Messages, NEW s \in Socks, NEW ack \in Acks, inbox[s] = <<>>, Send(s, ack), Outcome(s, ack)
    PROVE  AnswerStep
  <1>1. \A t \in Socks : Len(inbox'[t]) > Len(inbox[t]) => t = s /\ Last(inbox'[t]) = ack
    BY SendOne
  <1> HIDE DEF Outcome
  <1> QED BY <1>1 DEF AnswerStep

LEMMA SameTables ==
    ASSUME Tables, UNCHANGED <<exist, cols, users, rows>>
    PROVE  Tables' /\ ListStep /\ ScoresStep
  <1>1. Tables'
    BY DEF Tables, RowOrNone
  <1>2. ListStep
    BY DEF ListStep, Tables
  <1>3. ScoresStep
    BY DEF ScoresStep, Score
  <1> QED BY <1>1, <1>2, <1>3

\* The statement at the front, and the client it is for.
LEMMA FrontOf ==
    ASSUME Flow, Start, NEW kind, MysqlFront(kind)
    PROVE  /\ stmts # <<>> /\ stmts' = Tail(stmts) /\ UNCHANGED <<oper, queue>>
           /\ Start' /\ Head(stmts).kind = kind /\ Head(stmts) \in Statements
           /\ Head(stmts) = Boot <=> kind = "boot"
           /\ kind = "boot" => exist = <<>> /\ cols = Range(InitCols)
           /\ kind # "boot" =>
                 /\ Head(stmts) \in Requests /\ Head(stmts).sock \in Socks
                 /\ inbox[Head(stmts).sock] = <<>>
  <1> DEFINE st == Head(stmts)
  <1>1. /\ stmts \in Seq(Statements) /\ stmts # <<>> /\ stmts' = Tail(stmts) /\ UNCHANGED <<oper, queue>>
        /\ st.kind = kind
    BY DEF Flow, Messages, MysqlFront, HeadIs
  <1>2. /\ Len(stmts) \in Nat /\ 1 \in 1..Len(stmts) /\ st = stmts[1] /\ st \in Statements
        /\ Len(stmts') = Len(stmts) - 1
        /\ \A i \in 1..Len(stmts') : i + 1 \in 1..Len(stmts) /\ stmts'[i] = stmts[i + 1]
    BY <1>1, TailOf
  <1>3. Start'
    <2>1. ASSUME NEW i \in 1..Len(stmts'), stmts'[i] = Boot PROVE FALSE
      <3>1. PICK k \in 1..Len(stmts) : k = i + 1 /\ stmts[k] = Boot
        BY <1>2, <2>1
      <3>2. k = 1
        BY <3>1 DEF Start
      <3> QED BY <3>1, <3>2, <1>2
    <2> QED BY <2>1 DEF Start
  <1>4. st = Boot <=> kind = "boot"
    <2>1. st = Boot => kind = "boot"
      BY <1>1, BootKind
    <2>2. st # Boot => st.kind \in {"select"} \cup Changes
      BY <1>2, StatementOf
    <2> QED BY <1>1, <2>1, <2>2 DEF Changes
  <1>5. kind = "boot" => exist = <<>> /\ cols = Range(InitCols)
    BY <1>2, <1>4 DEF Start
  <1>6. kind # "boot" => st \in Requests /\ st.sock \in Socks /\ inbox[st.sock] = <<>>
    BY <1>2, <1>4, StatementOf, RequestOf DEF Flow, Once
  <1> QED BY <1>1, <1>2, <1>3, <1>4, <1>5, <1>6

\* What is to be shown of a statement.
Good == MysqlShape /\ Tables' /\ Start' /\ Steps

\* An answered statement.
LEMMA Answered ==
    ASSUME Flow, Start, NEW kind, MysqlFront(kind), kind # "boot",
           NEW ack \in Acks, Send(Head(stmts).sock, ack), Outcome(Head(stmts).sock, ack),
           Tables', ListStep, ScoresStep
    PROVE  Good
  <1> DEFINE s == Head(stmts).sock
  <1>1. /\ stmts # <<>> /\ stmts' = Tail(stmts) /\ UNCHANGED <<oper, queue>>
        /\ Start' /\ Head(stmts) # Boot /\ s \in Socks /\ inbox[s] = <<>>
    BY FrontOf
  <1>2. MysqlShape
    BY <1>1 DEF MysqlShape
  <1>3. AnswerStep
    <2>1. Send(s, ack) /\ Outcome(s, ack) /\ Messages
      BY DEF Flow
    <2> HIDE DEF s
    <2> QED BY <1>1, <2>1, OneAnswer
  <1> QED BY <1>1, <1>2, <1>3 DEF Good, Steps

LEMMA FailedAck ==
    ASSUME NEW st, st.kind \in {"select"} \cup Changes
    PROVE  Failed(st) \in Acks /\ (Failed(st).kind \in Changes => ~Failed(st).ok)
  BY DEF Failed, Acks, Changes

LEMMA SucceedsAck ==
    ASSUME NEW st, st.kind \in Changes PROVE [kind |-> st.kind, ok |-> TRUE] \in Acks
  BY DEF Acks

\* A statement that fails.
LEMMA FailsGood ==
    ASSUME Tables, Flow, Start, NEW kind \in {"select"} \cup Changes, MysqlFront(kind),
           Send(Head(stmts).sock, Failed(Head(stmts))), UNCHANGED <<exist, cols, users, rows>>
    PROVE  Good
  <1> DEFINE ack == Failed(Head(stmts))
  <1>1. kind # "boot" /\ Head(stmts).kind = kind
    BY FrontOf DEF Changes
  <1>2. ack \in Acks /\ (ack.kind \in Changes => ~ack.ok)
    BY <1>1, FailedAck
  <1>3. Send(Head(stmts).sock, ack)
    OBVIOUS
  <1> HIDE DEF ack
  <1>4. Outcome(Head(stmts).sock, ack)
    BY <1>2 DEF Outcome
  <1> QED BY <1>1, <1>2, <1>3, <1>4, SameTables, Answered

LEMMA BootGood ==
    ASSUME ScoreAssumption, Tables, Flow, Start, MysqlFront("boot"), UNCHANGED <<cols, users, rows, inbox>>,
           exist' = exist \/ exist' = exist \o InitCols
    PROVE  Good
  <1>1. /\ stmts # <<>> /\ stmts' = Tail(stmts) /\ UNCHANGED <<oper, queue>> /\ Start'
        /\ Head(stmts) = Boot /\ exist = <<>> /\ cols = Range(InitCols)
    BY FrontOf
  <1>2. MysqlShape
    BY <1>1 DEF MysqlShape
  <1>3. AnswerStep
    <2>1. \A s \in Socks : Len(inbox'[s]) <= Len(inbox[s]) /\ Len(inbox'[s]) \in Nat
      <3>1. \A s \in Socks : Len(inbox[s]) \in Nat
        BY SockOf DEF Flow
      <3> QED BY <3>1
    <2> QED BY <2>1, NoAnswer DEF Flow
  <1>4. CASE exist' = exist
    BY <1>1, <1>2, <1>3, <1>4, SameTables DEF Good, Steps
  <1>5. CASE exist' = exist \o InitCols
    <2>1. InitCols \in Lists
      BY DEF Lists, ScoreAssumption
    <2>2. exist' = InitCols
      BY <1>1, <1>5, <2>1, ListOf
    <2>3. Tables'
      BY <1>1, <2>1, <2>2 DEF Tables, RowOrNone
    <2>4. ListStep
      BY <1>1, <2>2 DEF ListStep
    <2>5. ScoresStep
      BY DEF ScoresStep, Score
    <2> QED BY <1>1, <1>2, <1>3, <2>3, <2>4, <2>5 DEF Good, Steps
  <1> QED BY <1>4, <1>5

\* ALTER TABLE keeps the rows, and in them the columns that stay.
LEMMA AlteredRows ==
    ASSUME NEW rs, RowOrNone(rs), NEW columns,
           NEW ns, ns = [i \in DOMAIN rs |-> Altered(rs[i], columns)]
    PROVE  /\ rs = <<>> => ns = <<>>
           /\ rs # <<>> => /\ ns = <<ns[1]>> /\ ns[1] \in [columns -> Values] /\ ns # <<>>
                           /\ \A c \in cols \cap columns : ns[1][c] = rs[1][c]
  <1>1. CASE rs = <<>>
    BY <1>1
  <1>2. CASE rs # <<>>
    <2>1. rs = <<rs[1]>> /\ rs[1] \in [cols -> Values]
      BY <1>2 DEF RowOrNone
    <2> DEFINE row == rs[1]  new == Altered(rs[1], columns)
    <2>2. DOMAIN rs = {1}
      BY <2>1
    <2>3. ns = <<new>> /\ ns # <<>> /\ ns[1] = new
      BY <2>2
    <2>4. new \in [columns -> Values] /\ \A c \in cols \cap columns : new[c] = row[c]
      <3>1. 0 \in Values
        BY DEF Values
      <3> QED BY <2>1, <3>1 DEF Altered
    <2> HIDE DEF new, row
    <2> QED BY <1>2, <2>3, <2>4 DEF row
  <1> QED BY <1>1, <1>2

LEMMA AlterGood ==
    ASSUME Tables, Flow, Start, AlterSubjectReplyHandle PROVE Good
  <1> DEFINE st == Head(stmts)
             columns == IF st.type = 1 THEN cols \cup {st.subj} ELSE cols \ {st.subj}
  <1>1. MysqlFront("alter") /\ "alter" \in {"select"} \cup Changes /\ "alter" # "boot"
    BY DEF AlterSubjectReplyHandle, Changes
  <1>2. /\ st.kind = "alter" /\ st.type \in {1, 2} /\ st.subj \in Subjects /\ st.kind \in Changes
    BY <1>1, FrontOf, RequestOf DEF Changes
  <1>3. CASE columns = cols /\ Fails(st)
    BY <1>1, <1>3, FailsGood DEF Fails
  <1>4. CASE /\ columns # cols /\ cols' = columns
             /\ rows' = [a \in Accts |-> [i \in DOMAIN rows[a] |-> Altered(rows[a][i], columns)]]
             /\ exist' = Listed(st) /\ Succeeds(st) /\ UNCHANGED users
    <2>1. exist \in Lists /\ Range(exist) \subseteq cols /\ cols \subseteq Subjects
      BY DEF Tables
    <2>2. /\ exist' \in Lists /\ Range(exist') \subseteq cols' /\ cols' \subseteq Subjects
          /\ Range(exist) = cols => Range(exist') = cols'
          /\ st.subj \in cols' <=> st.type = 1
      <3>1. CASE st.type = 1
        <4>1. cols' = cols \cup {st.subj} /\ st.subj \notin cols
          BY <1>4, <3>1
        <4>2. st.subj \notin Range(exist) /\ exist' = Append(exist, st.subj)
          BY <1>4, <2>1, <3>1, <4>1 DEF Listed
        <4>3. exist' \in Lists /\ Range(exist') = Range(exist) \cup {st.subj}
          BY <1>2, <2>1, <4>2, AppendLists
        <4> HIDE DEF st
        <4> QED BY <1>2, <2>1, <3>1, <4>1, <4>3
      <3>2. CASE st.type # 1
        <4>1. cols' = cols \ {st.subj} /\ st.type = 2
          BY <1>2, <1>4, <3>2
        <4>2. exist' = RemoveFirst(exist, st.subj)
          BY <1>4, <4>1 DEF Listed
        <4>3. exist' \in Lists /\ Range(exist') = Range(exist) \ {st.subj}
          BY <2>1, <4>2, RemoveLists
        <4> HIDE DEF st
        <4> QED BY <2>1, <4>1, <4>3
      <3> QED BY <3>1, <3>2
    <2>3. \A a \in Accts :
             /\ RowOrNone(rows[a])
             /\ rows'[a] = [i \in DOMAIN rows[a] |-> Altered(rows[a][i], columns)]
      BY <1>4 DEF Tables
    <2>4. \A a \in Accts :
             /\ rows[a] = <<>> => rows'[a] = <<>>
             /\ rows[a] # <<>> => /\ rows'[a] = <<rows'[a][1]>> /\ rows'[a][1] \in [cols' -> Values]
                                  /\ rows'[a] # <<>>
                                  /\ \A c \in cols \cap cols' : rows'[a][1][c] = rows[a][1][c]
      <3>1. cols' = columns
        BY <1>4
      <3> HIDE DEF columns
      <3> TAKE a \in Accts
      <3> DEFINE rs == rows[a]  ns == rows'[a]
      <3>2. RowOrNone(rs) /\ ns = [i \in DOMAIN rs |-> Altered(rs[i], columns)]
        BY <2>3
      <3> HIDE DEF rs, ns
      <3>3. /\ rs = <<>> => ns = <<>>
            /\ rs # <<>> => /\ ns = <<ns[1]>> /\ ns[1] \in [columns -> Values] /\ ns # <<>>
                            /\ \A c \in cols \cap columns : ns[1][c] = rs[1][c]
        BY <3>2, AlteredRows
      <3> QED BY <3>1, <3>3 DEF rs, ns
    <2>5. DOMAIN rows' = Accts /\ users' = users
      BY <1>4
    <2> HIDE DEF columns
    <2>6. Tables'
      <3>1. \A a \in Accts : (RowOrNone(rows[a]))' /\ (rows'[a] # <<>> => a \in Range(users'))
        <4> TAKE a \in Accts
        <4>1. rows[a] # <<>> => a \in Range(users)
          BY DEF Tables
        <4>2. (RowOrNone(rows[a]))'
          BY <2>4 DEF RowOrNone
        <4> QED BY <2>4, <2>5, <4>1, <4>2
      <3>2. users' \in Seq(Accts) /\ IsInjective(users')
        BY <2>5 DEF Tables
      <3> QED BY <2>2, <2>5, <3>1, <3>2 DEF Tables
    <2>7. ListStep
      BY <2>2 DEF ListStep
    <2>8. ScoresStep
      BY <2>4 DEF ScoresStep, Score
    <2> DEFINE ack == [kind |-> st.kind, ok |-> TRUE]
    <2>9. ack \in Acks /\ ack.kind = "alter" /\ ack.ok
      BY <1>2, SucceedsAck
    <2>10. Send(st.sock, ack)
      BY <1>4 DEF Succeeds
    <2> HIDE DEF ack
    <2>11. Outcome(st.sock, ack)
      <3>1. Range(exist) = cols => (st.subj \in Range(exist') <=> st.type = 1)
        BY <2>2
      <3> QED BY <1>2, <2>2, <2>9, <3>1 DEF Outcome
    <2> HIDE DEF st
    <2> QED BY <1>1, <2>6, <2>7, <2>8, <2>9, <2>10, <2>11, Answered DEF st
  <1> QED BY <1>3, <1>4 DEF AlterSubjectReplyHandle

\* A statement that names columns gives each the score it says, and leaves the
\* others of the row.
LEMMA ScoredRow ==
    ASSUME Messages, NEW st \in Statements, st # Boot, st.kind \in {"add", "update"}, Known(st),
           NEW row \in [cols -> Values], NEW new, new = Scored(st, row)
    PROVE  /\ new \in [cols -> Values]
           /\ \A i \in DOMAIN st.subjs : new[st.subjs[i]] = st.scores[i]
           /\ \A c \in cols : \/ new[c] = row[c]
                              \/ \E i \in DOMAIN st.subjs : st.subjs[i] = c /\ st.scores[i] = new[c]
  <1> DEFINE q == st.subjs  v == st.scores
  <1>1. q \in Lists /\ v \in Seq(Values) /\ Len(v) = Len(q) /\ Range(q) \subseteq cols
    BY StatementOf, RequestOf DEF Known
  <1>2. DOMAIN v = DOMAIN q /\ \A i \in DOMAIN q : v[i] \in Values
    BY <1>1, ListOf
  <1>3. \A i, j \in DOMAIN q : q[i] = q[j] => i = j
    BY <1>1 DEF Lists, IsInjective
  <1>4. \A c \in Range(q) : \E i \in DOMAIN q : q[i] = c /\ Given(st, c) = v[i]
    <2> TAKE c \in Range(q)
    <2>1. \E i \in DOMAIN q : q[i] = c
      BY DEF Range
    <2> DEFINE k == CHOOSE i \in DOMAIN q : q[i] = c
    <2>2. k \in DOMAIN q /\ q[k] = c
      BY <2>1
    <2>3. Given(st, c) = v[k]
      BY DEF Given
    <2> HIDE DEF k, q, v
    <2> QED BY <2>2, <2>3
  <1>5. \A i \in DOMAIN q : q[i] \in Range(q) /\ q[i] \in cols /\ Given(st, q[i]) = v[i]
    <2> TAKE i \in DOMAIN q
    <2>1. q[i] \in Range(q)
      BY DEF Range
    <2> HIDE DEF q, v
    <2> QED BY <1>1, <1>3, <1>4, <2>1
  <1>6. new = [c \in cols |-> IF c \in Range(q) THEN Given(st, c) ELSE row[c]]
    BY DEF Scored
  <1> HIDE DEF q, v
  <1>7. \A c \in cols : new[c] \in Values
    BY <1>2, <1>4, <1>6
  <1>8. new \in [cols -> Values]
    BY <1>6, <1>7
  <1>9. \A i \in DOMAIN q : new[q[i]] = v[i]
    BY <1>5, <1>6
  <1>10. \A c \in cols : new[c] = row[c] \/ \E i \in DOMAIN q : q[i] = c /\ v[i] = new[c]
    BY <1>4, <1>6
  <1> QED BY <1>8, <1>9, <1>10 DEF q, v

LEMMA SameScore ==
    ASSUME NEW a, NEW c, rows'[a] = rows[a] PROVE Score(a, c)' = Score(a, c)
  BY DEF Score

\* A row given new scores, and what the properties say of it.
LEMMA RowChange ==
    ASSUME Tables, Messages, NEW row \in [cols -> Values], UNCHANGED <<exist, cols>>,
           LET st == Head(stmts)
           IN /\ st \in Statements /\ st # Boot /\ st.kind \in {"add", "update"} /\ Known(st)
              /\ row = IF rows[st.acct] = <<>> THEN NoScores ELSE rows[st.acct][1]
              /\ rows' = [rows EXCEPT ![st.acct] = <<Scored(st, row)>>]
    PROVE  LET st == Head(stmts)
           IN /\ ScoresStep
              /\ \A a \in Accts : (RowOrNone(rows[a]))' /\ (a # st.acct => rows'[a] = rows[a])
              /\ \A i \in DOMAIN st.subjs : rows'[st.acct][1][st.subjs[i]] = st.scores[i]
  <1> DEFINE st == Head(stmts)
  <1>0. /\ st \in Statements /\ st # Boot /\ st.kind \in {"add", "update"} /\ Known(st)
        /\ row = IF rows[st.acct] = <<>> THEN NoScores ELSE rows[st.acct][1]
        /\ rows' = [rows EXCEPT ![st.acct] = <<Scored(st, row)>>]
    OBVIOUS
  <1>00. st = Head(stmts)
    OBVIOUS
  <1> HIDE DEF st
  <1> DEFINE new == Scored(st, row)
  <1>1. st.acct \in Accts /\ DOMAIN rows = Accts /\ cols' = cols
    BY <1>0, StatementOf, RequestOf DEF Tables
  <1>2. /\ new \in [cols -> Values]
        /\ \A i \in DOMAIN st.subjs : new[st.subjs[i]] = st.scores[i]
        /\ \A c \in cols : \/ new[c] = row[c]
                           \/ \E i \in DOMAIN st.subjs : st.subjs[i] = c /\ st.scores[i] = new[c]
    BY <1>0, ScoredRow
  <1> HIDE DEF new
  <1>3. rows'[st.acct] = <<new>> /\ \A a \in Accts : a # st.acct => rows'[a] = rows[a]
    BY <1>0, <1>1 DEF new
  <1>4. rows'[st.acct] # <<>> /\ rows'[st.acct][1] = new
    BY <1>3
  <1>5. \A a \in Accts : (RowOrNone(rows[a]))'
    <2> TAKE a \in Accts
    <2>1. CASE a = st.acct
      BY <1>1, <1>2, <1>3, <1>4, <2>1 DEF RowOrNone
    <2>2. CASE a # st.acct
      <3>1. RowOrNone(rows[a])
        BY DEF Tables
      <3> QED BY <1>1, <1>3, <2>2, <3>1 DEF RowOrNone
    <2> QED BY <2>1, <2>2
  <1>6. \A c \in cols : Score(st.acct, c) = row[c]
    BY <1>0 DEF Score, NoScores
  <1>7. ASSUME NEW a \in Accts, a = st.acct, NEW c \in cols PROVE Score(a, c)' = new[c]
    BY <1>4, <1>7 DEF Score
  <1>8. ScoresStep
    <2>1. SUFFICES ASSUME NEW a \in Accts, NEW c \in cols \cap cols', Score(a, c)' # Score(a, c)
                   PROVE  /\ st.kind \in {"add", "update"} /\ st.acct = a
                          /\ \E i \in DOMAIN st.subjs : st.subjs[i] = c /\ st.scores[i] = Score(a, c)'
      BY <1>00 DEF ScoresStep
    <2>2. a = st.acct
      <3>1. a # st.acct => rows'[a] = rows[a]
        BY <1>3
      <3> QED BY <3>1, <2>1, SameScore
    <2>3. new[c] # row[c]
      BY <1>6, <1>7, <2>1, <2>2
    <2> QED BY <1>0, <1>2, <1>7, <2>2, <2>3
  <1> QED BY <1>1, <1>2, <1>3, <1>4, <1>5, <1>8 DEF st

LEMMA AddGood ==
    ASSUME Tables, Flow, Start, AddSingleScoreReplyHandle PROVE Good
  <1> DEFINE st == Head(stmts)  new == Append(users, st.acct)
             s == st.sock
  <1>1. /\ MysqlFront("add") /\ UNCHANGED <<exist, cols>>
        /\ users' = IF st.acct \in Range(users) THEN users ELSE new
    BY DEF AddSingleScoreReplyHandle
  <1>2. st \in Statements /\ st # Boot /\ st.kind = "add" /\ st.acct \in Accts
    BY <1>1, FrontOf, RequestOf
  <1>3. /\ users' \in Seq(Accts) /\ IsInjective(users') /\ st.acct \in Range(users')
        /\ Range(users) \subseteq Range(users')
    <2>1. users \in Seq(Accts) /\ IsInjective(users)
      BY DEF Tables
    <2>2. CASE st.acct \in Range(users)
      BY <1>1, <2>1, <2>2
    <2>3. CASE st.acct \notin Range(users)
      <3> DEFINE n == Len(users)
      <3>1. /\ new \in Seq(Accts) /\ n \in Nat /\ DOMAIN users = 1..n /\ DOMAIN new = 1..(n + 1)
            /\ \A i \in 1..n : new[i] = users[i] /\ i \in 1..(n + 1)
            /\ new[n + 1] = st.acct /\ n + 1 \in 1..(n + 1)
            /\ \A i \in 1..(n + 1) : i = n + 1 \/ i \in 1..n
        BY <1>2, <2>1
      <3>2. users' = new
        BY <1>1, <2>3
      <3>3. \A i \in 1..n : users[i] # st.acct
        BY <2>3, <3>1 DEF Range
      <3> HIDE DEF new, n, st
      <3>4. IsInjective(new)
        BY <2>1, <3>1, <3>3 DEF IsInjective
      <3>5. st.acct \in Range(new) /\ Range(users) \subseteq Range(new)
        BY <3>1 DEF Range
      <3> QED BY <3>1, <3>2, <3>4, <3>5
    <2> QED BY <2>2, <2>3
  <1>4. ListStep /\ (Tables /\ DOMAIN rows = Accts)
    BY <1>1 DEF ListStep, Tables
  <1>5. ASSUME \A a \in Accts : (RowOrNone(rows[a]))' /\ (a # st.acct => rows'[a] = rows[a]),
               DOMAIN rows' = Accts
        PROVE  Tables'
    <2>1. \A a \in Accts : rows'[a] # <<>> => a \in Range(users')
      <3> TAKE a \in Accts
      <3>1. rows[a] # <<>> => a \in Range(users)
        BY DEF Tables
      <3> QED BY <1>3, <1>5, <3>1
    <2>2. exist' \in Lists /\ Range(exist') \subseteq cols' /\ cols' \subseteq Subjects
      BY <1>1 DEF Tables
    <2> QED BY <1>3, <1>5, <2>1, <2>2 DEF Tables
  <1>6. CASE /\ Known(st) /\ rows' = [rows EXCEPT ![st.acct] = Added(st, @)] /\ Succeeds(st)
    <2> DEFINE row == IF rows[st.acct] = <<>> THEN NoScores ELSE rows[st.acct][1]
    <2>1. row \in [cols -> Values]
      <3>1. RowOrNone(rows[st.acct])
        BY <1>2 DEF Tables
      <3>2. NoScores \in [cols -> Values]
        BY DEF NoScores, Values
      <3> QED BY <3>1, <3>2 DEF RowOrNone
    <2>2. rows' = [rows EXCEPT ![st.acct] = <<Scored(st, row)>>]
      <3>1. Added(st, rows[st.acct]) = <<Scored(st, row)>>
        BY DEF Added
      <3> HIDE DEF row
      <3> QED BY <1>6, <3>1
    <2>3. /\ ScoresStep
          /\ \A a \in Accts : (RowOrNone(rows[a]))' /\ (a # st.acct => rows'[a] = rows[a])
          /\ \A i \in DOMAIN st.subjs : rows'[st.acct][1][st.subjs[i]] = st.scores[i]
      <3>1. row = IF rows[st.acct] = <<>> THEN NoScores ELSE rows[st.acct][1]
        OBVIOUS
      <3>2. st.kind \in {"add", "update"} /\ Messages
        BY <1>2 DEF Flow
      <3> HIDE DEF row
      <3>3. /\ UNCHANGED <<exist, cols>> /\ st \in Statements /\ st # Boot /\ Known(st)
        BY <1>1, <1>2, <1>6
      <3> QED BY <2>1, <2>2, <3>1, <3>2, <3>3, RowChange
    <2>4. Tables'
      BY <1>4, <1>5, <2>2, <2>3
    <2> DEFINE ack == [kind |-> st.kind, ok |-> TRUE]
    <2>5. ack \in Acks /\ ack.kind = "add" /\ ack.ok
      BY <1>2, SucceedsAck DEF Changes
    <2>6. Send(st.sock, ack)
      BY <1>6 DEF Succeeds
    <2> HIDE DEF ack
    <2>7. Outcome(st.sock, ack)
      BY <1>2, <2>3, <2>5 DEF Outcome
    <2> HIDE DEF st
    <2> QED BY <1>1, <1>4, <2>3, <2>4, <2>5, <2>6, <2>7, Answered DEF st
  <1>7. CASE ~Known(st) /\ Send(st.sock, Failed(st)) /\ UNCHANGED rows
    <2>1. \A a \in Accts : (RowOrNone(rows[a]))'
      BY <1>1, <1>7 DEF Tables, RowOrNone
    <2>2. Tables'
      BY <1>4, <1>5, <1>7, <2>1
    <2>3. ScoresStep
      BY <1>7 DEF ScoresStep, Score
    <2> DEFINE ack == Failed(st)
    <2>4. ack \in Acks /\ (ack.kind \in Changes => ~ack.ok)
      BY <1>2, FailedAck DEF Changes
    <2>5. Send(st.sock, ack)
      BY <1>7
    <2> HIDE DEF ack
    <2>6. Outcome(st.sock, ack)
      BY <1>1, <1>7, <2>4 DEF Outcome
    <2> HIDE DEF st
    <2> QED BY <1>1, <1>4, <2>2, <2>3, <2>4, <2>5, <2>6, Answered DEF st
  <1> QED BY <1>6, <1>7 DEF AddSingleScoreReplyHandle

LEMMA SelectGood ==
    ASSUME Tables, Flow, Start, SelectSingleScoreReplyHandle PROVE Good
  <1> DEFINE st == Head(stmts)
  <1>1. MysqlFront("select") /\ UNCHANGED <<exist, cols, users, rows>>
    BY DEF SelectSingleScoreReplyHandle
  <1>2. /\ st \in Statements /\ st # Boot /\ st.kind = "select" /\ st.acct \in Accts
        /\ st.subjs \in Lists
    BY <1>1, FrontOf, RequestOf
  <1>3. CASE Send(st.sock, Failed(st))
    BY <1>1, <1>3, FailsGood
  <1>4. CASE Send(st.sock, IF Len(rows[st.acct]) # 1 THEN [kind |-> "select", code |-> 2]
                           ELSE [kind |-> "select", code |-> 0, acct |-> st.acct,
                                 subjs |-> st.subjs])
    <2> DEFINE ack == IF Len(rows[st.acct]) # 1 THEN [kind |-> "select", code |-> 2]
                      ELSE [kind |-> "select", code |-> 0, acct |-> st.acct, subjs |-> st.subjs]
    <2>1. ack \in Acks /\ ack.kind \notin Changes
      <3> HIDE DEF st
      <3>1. [kind |-> "select", code |-> 2] \in Acks
        BY DEF Acks
      <3>2. [kind |-> "select", code |-> 0, acct |-> st.acct, subjs |-> st.subjs] \in Acks
        BY <1>2 DEF Acks
      <3> QED BY <3>1, <3>2 DEF Changes
    <2>2. Send(st.sock, ack)
      BY <1>4
    <2> HIDE DEF ack, st
    <2>3. Outcome(st.sock, ack)
      BY <2>1 DEF Outcome
    <2> QED BY <1>1, <2>1, <2>2, <2>3, SameTables, Answered DEF st
  <1> QED BY <1>3, <1>4 DEF SelectSingleScoreReplyHandle

LEMMA UpdateGood ==
    ASSUME Tables, Flow, Start, UpdateSingleScoreReplyHandle PROVE Good
  <1> DEFINE st == Head(stmts)
  <1>1. MysqlFront("update")
    BY DEF UpdateSingleScoreReplyHandle
  <1>2. /\ st \in Statements /\ st # Boot /\ st.kind = "update" /\ st.acct \in Accts
    BY <1>1, FrontOf, RequestOf
  <1>3. CASE Fails(st)
    BY <1>1, <1>3, FailsGood DEF Fails, Changes
  <1>4. CASE /\ Known(st) /\ Succeeds(st) /\ UNCHANGED <<exist, cols, users>>
             /\ rows' = [rows EXCEPT ![st.acct] = [i \in DOMAIN @ |-> Scored(st, @[i])]]
    <2>1. ListStep
      BY <1>4 DEF ListStep, Tables
    <2> DEFINE ack == [kind |-> st.kind, ok |-> TRUE]
    <2>2. ack \in Acks /\ ack.kind = "update" /\ ack.ok
      BY <1>2, SucceedsAck DEF Changes
    <2>3. Send(st.sock, ack)
      BY <1>4 DEF Succeeds
    <2> HIDE DEF ack
    <2>4. DOMAIN rows = Accts /\ DOMAIN rows' = Accts /\ RowOrNone(rows[st.acct])
      BY <1>2, <1>4 DEF Tables
    <2>5. CASE rows[st.acct] = <<>>
      <3>1. [i \in DOMAIN rows[st.acct] |-> Scored(st, rows[st.acct][i])] = <<>>
        BY <2>5
      <3>2. \A a \in Accts : rows'[a] = rows[a]
        <4>1. rows' = [rows EXCEPT ![st.acct] = <<>>]
          BY <1>4, <3>1
        <4> HIDE DEF st
        <4> QED BY <2>4, <2>5, <4>1
      <3>3. Tables' /\ ScoresStep
        <4>1. Tables'
          BY <1>4, <2>4, <3>2 DEF Tables, RowOrNone
        <4>2. ScoresStep
          BY <3>2 DEF ScoresStep, Score
        <4> QED BY <4>1, <4>2
      <3>4. Outcome(st.sock, ack)
        BY <1>2, <2>2, <2>5, <3>2 DEF Outcome
      <3> HIDE DEF st
      <3> QED BY <1>1, <2>1, <2>2, <2>3, <3>3, <3>4, Answered DEF st
    <2>6. CASE rows[st.acct] # <<>>
      <3> DEFINE row == rows[st.acct][1]
      <3>1. rows[st.acct] = <<row>> /\ row \in [cols -> Values]
        BY <2>4, <2>6 DEF RowOrNone
      <3>2. [i \in DOMAIN rows[st.acct] |-> Scored(st, rows[st.acct][i])] = <<Scored(st, row)>>
        <4>1. DOMAIN rows[st.acct] = {1}
          BY <3>1
        <4> HIDE DEF st
        <4> QED BY <4>1
      <3>3. rows' = [rows EXCEPT ![st.acct] = <<Scored(st, row)>>]
        BY <1>4, <3>2
      <3>4. /\ ScoresStep
            /\ \A a \in Accts : (RowOrNone(rows[a]))' /\ (a # st.acct => rows'[a] = rows[a])
            /\ \A i \in DOMAIN st.subjs : rows'[st.acct][1][st.subjs[i]] = st.scores[i]
        <4>1. row = IF rows[st.acct] = <<>> THEN NoScores ELSE rows[st.acct][1]
          BY <2>6
        <4>2. /\ st.kind \in {"add", "update"} /\ Messages /\ UNCHANGED <<exist, cols>>
              /\ st \in Statements /\ st # Boot /\ Known(st)
          BY <1>2, <1>4 DEF Flow
        <4> HIDE DEF row
        <4> QED BY <3>1, <3>3, <4>1, <4>2, RowChange
      <3>5. Tables'
        <4>1. \A a \in Accts : rows'[a] # <<>> => a \in Range(users')
          <5>1. \A a \in Accts : rows[a] # <<>> => a \in Range(users)
            BY DEF Tables
          <5> QED BY <1>4, <2>6, <3>4, <5>1
        <4> QED BY <1>4, <2>4, <3>4, <4>1 DEF Tables
      <3>6. Outcome(st.sock, ack)
        BY <1>2, <2>2, <3>4 DEF Outcome
      <3> HIDE DEF st
      <3> QED BY <1>1, <2>1, <2>2, <2>3, <3>4, <3>5, <3>6, Answered DEF st
    <2> QED BY <2>5, <2>6
  <1> QED BY <1>3, <1>4 DEF UpdateSingleScoreReplyHandle

LEMMA DeleteGood ==
    ASSUME Tables, Flow, Start, DeleteScoreReplyHandle PROVE Good
  <1> DEFINE st == Head(stmts)
  <1>1. /\ MysqlFront("delete") /\ UNCHANGED <<exist, cols, users>> /\ Succeeds(st)
        /\ rows' = [a \in Accts |-> IF a \in Meant(st) THEN <<>> ELSE rows[a]]
    BY DEF DeleteScoreReplyHandle
  <1>2. /\ st \in Statements /\ st # Boot /\ st.kind = "delete" /\ st.lo \in Nat /\ st.hi \in Nat
        /\ st.lo = 0 => st.hi = 0
    BY <1>1, FrontOf, RequestOf
  <1>3. users \in Seq(Accts) /\ Len(users) \in Nat /\ DOMAIN users = 1..Len(users)
    BY DEF Tables
  <1> DEFINE ack == [kind |-> st.kind, ok |-> TRUE]
  <1>4. ack \in Acks /\ ack.kind = "delete" /\ ack.ok
    BY <1>2, SucceedsAck DEF Changes
  <1>5. Send(st.sock, ack)
    BY <1>1 DEF Succeeds
  <1> HIDE DEF ack, st
  <1>6. ListStep
    BY <1>1 DEF ListStep, Tables
  <1>7. Tables'
    <2>1. \A a \in Accts : (RowOrNone(rows[a]))' /\ (rows'[a] # <<>> => a \in Range(users'))
      <3> TAKE a \in Accts
      <3>1. RowOrNone(rows[a]) /\ (rows[a] # <<>> => a \in Range(users))
        BY DEF Tables
      <3>2. rows'[a] = <<>> \/ rows'[a] = rows[a]
        BY <1>1
      <3> QED BY <1>1, <3>1, <3>2 DEF RowOrNone
    <2>2. DOMAIN rows' = Accts
      BY <1>1
    <2> QED BY <1>1, <2>1, <2>2 DEF Tables
  <1>8. ScoresStep
    <2>1. SUFFICES ASSUME NEW a \in Accts, NEW c \in cols \cap cols', Score(a, c)' # Score(a, c)
                   PROVE  /\ st.kind = "delete" /\ rows'[a] = <<>>
                          /\ IF st.lo = 0 THEN a = st.acct
                             ELSE \E i \in st.lo..st.hi : i \in DOMAIN users /\ users[i] = a
      BY DEF ScoresStep, st
    <2>2. a \in Meant(st)
      BY <1>1, <2>1 DEF Score
    <2>3. rows'[a] = <<>>
      BY <1>1, <2>2
    <2>4. CASE st.lo = 0
      BY <1>2, <2>2, <2>3, <2>4 DEF Meant
    <2>5. CASE st.lo # 0
      <3>1. PICK i \in DOMAIN users : st.lo <= i /\ i <= st.hi /\ users[i] = a
        BY <2>2, <2>5 DEF Meant
      <3>2. i \in st.lo..st.hi
        BY <1>2, <1>3, <3>1
      <3> QED BY <1>2, <2>3, <2>5, <3>1, <3>2
    <2> QED BY <2>4, <2>5
  <1>9. Outcome(st.sock, ack)
    <2>1. \A i \in DOMAIN users :
             i \in st.lo..st.hi \/ (st.lo = 0 /\ users[i] = st.acct) => rows'[users[i]] = <<>>
      <3> TAKE i \in DOMAIN users
      <3> HAVE i \in st.lo..st.hi \/ (st.lo = 0 /\ users[i] = st.acct)
      <3>1. users[i] \in Accts /\ i \in Nat /\ i # 0
        BY <1>3
      <3>2. users[i] \in Meant(st)
        <4>1. CASE st.lo = 0
          BY <1>2, <3>1, <4>1 DEF Meant
        <4>2. CASE st.lo # 0
          BY <1>2, <3>1, <4>2 DEF Meant
        <4> QED BY <4>1, <4>2
      <3> QED BY <1>1, <3>1, <3>2
    <2> QED BY <1>2, <1>4, <2>1 DEF Outcome, st
  <1> QED BY <1>1, <1>4, <1>5, <1>6, <1>7, <1>8, <1>9, Answered DEF st

LEMMA MysqlGood ==
    ASSUME ScoreAssumption, Tables, Flow, Start, Mysql PROVE Good
  <1>1. CASE GetExistSubjectReplyHandle
    BY <1>1, BootGood DEF GetExistSubjectReplyHandle
  <1>2. CASE ExecFault
    <2>1. ASSUME NEW kind \in {"alter", "add", "select", "update", "delete"}, MysqlFront(kind),
                 Fails(Head(stmts))
          PROVE  Good
      BY <2>1, FailsGood DEF Fails, Changes
    <2>2. ASSUME MysqlFront("boot"), UNCHANGED <<exist, cols, users, rows, inbox>> PROVE Good
      BY <2>2, BootGood
    <2> QED BY <1>2, <2>1, <2>2 DEF ExecFault
  <1> QED BY <1>1, <1>2, AlterGood, AddGood, SelectGood, UpdateGood, DeleteGood DEF Mysql

------------------------------------------------------------------------------
(* The theorems *)

LEMMA RecvGood ==
    ASSUME Tables, Flow, Start, RecvShape PROVE Tables' /\ Start' /\ Steps
  <1>1. Tables' /\ ListStep /\ ScoresStep
    BY SameTables DEF RecvShape
  <1>2. queue # <<>> /\ queue \in Seq(Requests) /\ stmts \in Seq(Statements)
    BY DEF RecvShape, Flow, Messages
  <1>3. Start'
    <2>1. CASE Head(queue) \in Statements \ {Boot} /\ stmts' = Append(stmts, Head(queue))
      <3>1. /\ Len(stmts) \in Nat /\ stmts'[Len(stmts) + 1] # Boot
            /\ \A i \in 1..Len(stmts) : stmts'[i] = stmts[i]
            /\ \A i \in 1..Len(stmts') : i \in 1..Len(stmts) \/ i = Len(stmts) + 1
        <4> DEFINE st == Head(queue)
        <4>1. st \in Statements /\ st # Boot /\ stmts' = Append(stmts, st)
          BY <2>1
        <4> HIDE DEF st
        <4> QED BY <1>2, <4>1, AppendOf
      <3>2. ASSUME NEW i \in 1..Len(stmts'), stmts'[i] = Boot
            PROVE  i = 1 /\ exist' = <<>> /\ cols' = Range(InitCols)
        <4>1. i \in 1..Len(stmts) /\ stmts[i] = Boot
          BY <3>1, <3>2
        <4>2. exist' = exist /\ cols' = cols
          BY DEF RecvShape
        <4> QED BY <4>1, <4>2 DEF Start
      <3> QED BY <3>2 DEF Start
    <2>2. CASE UNCHANGED stmts
      BY <2>2 DEF RecvShape, Start
    <2> QED BY <2>1, <2>2 DEF RecvShape
  <1>4. AnswerStep
    <2>1. CASE UNCHANGED inbox
      <3>1. \A s \in Socks : Len(inbox[s]) \in Nat
        BY SockOf DEF Flow
      <3>2. \A s \in Socks : Len(inbox'[s]) <= Len(inbox[s]) /\ Len(inbox'[s]) \in Nat
        BY <2>1, <3>1
      <3> QED BY <3>2, NoAnswer DEF Flow
    <2>2. ASSUME NEW ack \in Acks, Send(Head(queue).sock, ack), ack.kind \in Changes => ~ack.ok
          PROVE  AnswerStep
      <3> DEFINE s == Head(queue).sock
      <3>1. Len(queue) \in Nat /\ 1 \in 1..Len(queue) /\ Head(queue) = queue[1]
        BY <1>2, TailOf
      <3>2. s \in Socks /\ inbox[s] = <<>> /\ Messages
        BY <3>1, SockOf DEF Flow, Once
      <3>3. Outcome(s, ack)
        BY <2>2 DEF Outcome, RecvShape
      <3> HIDE DEF s
      <3>4. Send(s, ack)
        BY <2>2 DEF s
      <3> QED BY <3>2, <3>3, <3>4, OneAnswer
    <2> QED BY <2>1, <2>2 DEF RecvShape
  <1> QED BY <1>1, <1>3, <1>4 DEF Steps

LEMMA ClientGood ==
    ASSUME Tables, Flow, Start, NEW s \in Socks, ClientShape(s) PROVE Tables' /\ Start' /\ Steps
  <1>1. UNCHANGED <<exist, cols, users, rows, stmts>>
    BY DEF ClientShape
  <1>2. Tables' /\ ListStep /\ ScoresStep
    BY <1>1, SameTables
  <1>3. Start'
    BY <1>1 DEF Start
  <1>4. AnswerStep
    <2>1. /\ \A t \in Socks : Len(inbox[t]) \in Nat /\ inbox[t] \in Seq(Acks)
          /\ inbox \in [Socks -> Seq(Acks)] /\ Len(inbox[s]) <= 1
      BY SockOf DEF Flow, Messages, Once
    <2>2. inbox' = inbox \/ inbox' = [inbox EXCEPT ![s] = <<>>]
      <3>1. inbox[s] # <<>> => Tail(inbox[s]) = <<>>
        BY <2>1, TailOne
      <3> QED BY <3>1 DEF ClientShape
    <2>3. \A t \in Socks : Len(inbox'[t]) <= Len(inbox[t]) /\ Len(inbox'[t]) \in Nat
      <3>1. Len(<<>>) = 0
        OBVIOUS
      <3> QED BY <2>1, <2>2, <3>1
    <2> QED BY <2>3, NoAnswer DEF Flow
  <1> QED BY <1>2, <1>3, <1>4 DEF Steps

LEMMA Invariant ==
    ASSUME ScoreAssumption PROVE (Init => IInv) /\ (IInv /\ [Next]_vars => IInv' /\ (UNCHANGED vars \/ Steps))
  <1>1. ASSUME Init PROVE IInv
    <2>1. /\ exist = <<>> /\ cols = Range(InitCols) /\ users = InitUsers
          /\ rows = [a \in Accts |-> IF a \in Range(users) THEN <<NoScores>> ELSE <<>>]
          /\ oper = [s \in Socks |-> "idle"] /\ queue = <<>> /\ stmts = <<Boot>>
          /\ inbox = [s \in Socks |-> <<>>]
      BY <1>1 DEF Init, Boot
    <2>2. Messages
      <3>1. stmts \in Seq(Statements)
        BY <2>1 DEF Statements
      <3> QED BY <2>1, <3>1 DEF Messages, States
    <2>3. Once /\ Start
      <3>1. Len(queue) = 0 /\ Len(stmts) = 1 /\ stmts[1] = Boot /\ Len(<<>>) = 0
        BY <2>1
      <3> QED BY <2>1, <3>1 DEF Once, Start
    <2>4. Tables
      <3>1. <<>> \in Lists /\ Range(<<>>) = {}
        BY DEF Lists, IsInjective, Range
      <3>2. cols \subseteq Subjects
        BY <2>1, ListOf DEF Lists, ScoreAssumption
      <3>3. users \in Seq(Accts) /\ IsInjective(users)
        BY <2>1 DEF ScoreAssumption
      <3>4. NoScores \in [cols -> Values]
        BY DEF NoScores, Values
      <3>5. \A a \in Accts : RowOrNone(rows[a]) /\ (rows[a] # <<>> => a \in Range(users))
        BY <2>1, <3>4 DEF RowOrNone
      <3> QED BY <2>1, <3>1, <3>2, <3>3, <3>5 DEF Tables
    <2> QED BY <2>2, <2>3, <2>4 DEF IInv, Typed
  <1>2. ASSUME IInv, [Next]_vars PROVE IInv' /\ (UNCHANGED vars \/ Steps)
    <2>0. Tables /\ Flow /\ Start
      BY <1>2 DEF IInv, Typed, Flow
    <2>1. ASSUME Tables', Flow', Start' PROVE IInv'
      BY <2>1 DEF IInv, Typed, Flow
    <2>2. CASE Clients
      <3>1. PICK s \in Socks : ClientShape(s)
        BY <2>0, <2>2, ClientsShape DEF Flow
      <3> QED BY <2>0, <2>1, <3>1, ClientFlow, ClientGood
    <2>3. CASE Recv
      <3>1. RecvShape
        BY <2>0, <2>3, RecvShapes DEF Flow, Tables
      <3> QED BY <2>0, <2>1, <3>1, RecvFlow, RecvGood
    <2>4. CASE Mysql
      <3>1. Good
        BY <2>0, <2>4, MysqlGood
      <3> QED BY <2>0, <2>1, <3>1, MysqlFlow DEF Good
    <2>5. CASE UNCHANGED vars
      BY <2>0, <2>1, <2>5 DEF vars, Tables, RowOrNone, Flow, Messages, Once, Start
    <2> QED BY <1>2, <2>2, <2>3, <2>4, <2>5 DEF Next
  <1> QED BY <1>1, <1>2

LEMMA Kept == Spec => []IInv
  BY Invariant, ScoreAssumption, PTL DEF Spec

\* The handlers of SubjectsMgr and ScoreProc keep lists, tables and messages of
\* their kind, and no client ever has a second answer in its inbox.
THEOREM ScoresTypeCorrect == Spec => []TypeOK
  <1>1. IInv => TypeOK
    <2> SUFFICES ASSUME IInv PROVE TypeOK
      OBVIOUS
    <2>1. \A a \in Accts : \A i \in DOMAIN rows[a] : rows[a][i] \in [cols -> 0..100 \cup {Junk}]
      <3> TAKE a \in Accts
      <3>1. RowOrNone(rows[a])
        BY DEF IInv, Typed, Tables
      <3>2. CASE rows[a] = <<>>
        BY <3>2
      <3>3. CASE rows[a] # <<>>
        <4> DEFINE rs == rows[a]
        <4>1. rs = <<rs[1]>> /\ rs[1] \in [cols -> 0..100 \cup {Junk}]
          BY <3>1, <3>3 DEF RowOrNone, Values
        <4>2. DOMAIN rs = {1}
          BY <4>1
        <4> HIDE DEF rs
        <4>3. \A i \in DOMAIN rs : rs[i] \in [cols -> 0..100 \cup {Junk}]
          BY <4>1, <4>2
        <4> QED BY <4>3 DEF rs
      <3> QED BY <3>2, <3>3
    <2>2. exist \in Seq(Subjects) /\ IsInjective(exist)
      BY DEF IInv, Typed, Tables, Lists
    <2> QED BY <2>1, <2>2 DEF IInv, Typed, Tables, Messages, Once, TypeOK
  <1> QED BY <1>1, Kept, PTL

\* AddSingleScoreHaveRegister never gives an account a second row of scores, and
\* AddSingleScore gives one only to an account it has registered, whoever adds
\* scores to it how often and in between which other statements.
THEOREM OneRowEach == Spec => []OneRow
  <1>1. IInv => OneRow
    <2> SUFFICES ASSUME IInv, NEW a \in Accts
                 PROVE  Len(rows[a]) <= 1 /\ (rows[a] # <<>> => a \in Range(users))
      BY DEF OneRow
    <2>1. RowOrNone(rows[a]) /\ (rows[a] # <<>> => a \in Range(users))
      BY DEF IInv, Typed, Tables
    <2>2. Len(rows[a]) \in 0..1
      <3>1. Len(<<>>) = 0 /\ \A x : Len(<<x>>) = 1
        OBVIOUS
      <3>2. rows[a] = <<>> \/ rows[a] = <<rows[a][1]>>
        BY <2>1 DEF RowOrNone
      <3>3. Len(rows[a]) = 0 \/ Len(rows[a]) = 1
        BY <3>1, <3>2
      <3> QED BY <3>3
    <2>3. Len(rows[a]) <= 1
      <3>1. \A k \in 0..1 : k <= 1
        OBVIOUS
      <3> QED BY <2>2, <3>1
    <2> QED BY <2>1, <2>3
  <1> QED BY <1>1, Kept, PTL

\* m_vExistSubjects names columns only, and all of them once it has named all of
\* them: SubjectsMgr changes it with every ALTER that succeeds and with no other.
THEOREM ListOfColumns == Spec => ListFollowsColumns
  <1>1. IInv /\ [Next]_vars => [ListStep]_vars
    BY Invariant, ScoreAssumption DEF Steps
  <1> QED BY <1>1, Kept, PTL DEF Spec, ListFollowsColumns, ListStep

\* No handler changes a score in a column that stays, except the one whose
\* statement names its account and column or deletes its row.
THEOREM OthersScoresStand == Spec => ScoresStand
  <1>1. IInv /\ [Next]_vars => [ScoresStep]_vars
    BY Invariant, ScoreAssumption DEF Steps
  <1> QED BY <1>1, Kept, PTL DEF Spec, ScoresStand, ScoresStep

\* The replies of ScoreProc and AlterSubjectReplyHandle say what the statement at
\* the front of m_MysqlMsgQueue has done, for the client whose statement it is.
THEOREM AnswersAreTrue == Spec => AnswersTellRows
  <1>1. IInv /\ [Next]_vars => [AnswerStep]_vars
    BY Invariant, ScoreAssumption DEF Steps
  <1> QED BY <1>1, Kept, PTL DEF Spec, AnswersTellRows, AnswerStep, Outcome, Changes
==============================================================================
