------------------------- MODULE SelectBatch_proofs -------------------------
(***************************************************************************)
(* Proofs about SelectBatch, for any users, scores, inputs, connections,   *)
(* sizes of a page and bounds: that every value keeps its kind, that       *)
(* nobody is shown rows of a selection of somebody else, and that a list   *)
(* arrives whole and in order when recv cuts the stream between messages.  *)
(*                                                                         *)
(* Typed is what every value is.  Placed says in which order things of one *)
(* socket number stand: what an earlier connection left behind stands      *)
(* before the login of the one that has the number now.  Owned says whose  *)
(* rows are on their way, and Listed which part of the list is where.      *)
(***************************************************************************)
EXTENDS SelectBatch, Ordering_proofs

------------------------------------------------------------------------------
(* Pages, rows and records *)

LEMMA SmallMultiple ==
    ASSUME NEW P \in Nat, P > 1, NEW d \in Int, NEW e \in Int, P * d = e, -P < e, e < P
    PROVE  d = 0
  <1>1. CASE d >= 1
    <2>1. P * (d - 1) = P * d - P
      OBVIOUS
    <2>2. P * (d - 1) >= 0
      BY <1>1
    <2> QED BY <2>1, <2>2
  <1>2. CASE d <= -1
    <2>1. P * (-1 - d) = -P - P * d
      OBVIOUS
    <2>2. P * (-1 - d) >= 0
      BY <1>2
    <2> QED BY <2>1, <2>2
  <1> QED BY <1>1, <1>2

\* One more row on a page.
LEMMA NextOnPage ==
    ASSUME NEW n \in Nat
    PROVE  /\ n % PageSize \in 0..PageSize - 1 /\ 0 % PageSize = 0
           /\ (n + 1) % PageSize = IF (n % PageSize) + 1 = PageSize THEN 0 ELSE (n % PageSize) + 1
  <1> DEFINE P == PageSize
             q == n \div P
             r == n % P
             u == (n + 1) \div P
             v == (n + 1) % P
  <1>1. P \in Nat /\ P > 1
    BY SelectAssumption
  <1>2. /\ q \in Int /\ r \in 0..P - 1 /\ n = P * q + r
        /\ u \in Int /\ v \in 0..P - 1 /\ n + 1 = P * u + v
        /\ 0 % P = 0
    BY <1>1
  <1>3. P * (q + 1) = P * q + P /\ P * (u - q) = P * u - P * q /\ P * (u - (q + 1)) = P * u - (P * q + P)
    BY <1>1, <1>2
  <1> HIDE DEF P, q, r, u, v
  <1>4. CASE r + 1 = P
    <2>1. P * (u - (q + 1)) = 0 - v
      BY <1>1, <1>2, <1>3, <1>4
    <2>2. u - (q + 1) = 0
      <3>1. u - (q + 1) \in Int
        BY <1>2
      <3> QED BY <1>1, <1>2, <2>1, <3>1, SmallMultiple
    <2>3. v = 0
      BY <1>1, <1>2, <2>1, <2>2
    <2> QED BY <1>2, <1>4, <2>3 DEF P, r, v
  <1>5. CASE r + 1 # P
    <2>1. P * (u - q) = (r + 1) - v
      BY <1>1, <1>2, <1>3, <1>5
    <2>2. u - q = 0
      <3>1. u - q \in Int
        BY <1>2
      <3> QED BY <1>1, <1>2, <1>5, <2>1, <3>1, SmallMultiple
    <2>3. v = r + 1
      BY <1>1, <1>2, <2>1, <2>2
    <2> QED BY <1>2, <1>5, <2>3 DEF P, r, v
  <1> QED BY <1>4, <1>5

\* A sequence without one of its elements.
LEMMA RemoveFirstInjective ==
    ASSUME NEW S, NEW s \in Seq(S), IsInjective(s), NEW e
    PROVE  RemoveFirst(s, e) \in Seq(S) /\ IsInjective(RemoveFirst(s, e))
  <1>1. CASE ~ \E i \in 1..Len(s): s[i] = e
    BY <1>1 DEF RemoveFirst
  <1>2. CASE \E i \in 1..Len(s): s[i] = e
    <2> DEFINE I == { i \in 1..Len(s) : s[i] = e }
               k == Min(I)
    <2>1. RemoveFirst(s, e) = SubSeq(s, 1, k-1) \o SubSeq(s, k+1, Len(s))
      BY <1>2 DEF RemoveFirst, RemoveAt, SelectInSeq
    <2>2. k \in 1..Len(s)
      <3>0. I \subseteq Nat /\ I # {}
        BY <1>2
      <3>1. \E m \in I : \A n \in I : m <= n
        <4> HIDE DEF I
        <4> QED BY <3>0, Smallest
      <3> QED BY <3>1 DEF Min
    <2> HIDE DEF k
    <2> DEFINE a == SubSeq(s, 1, k-1)
               b == SubSeq(s, k+1, Len(s))
               r == a \o b
    <2>3. /\ a \in Seq(S) /\ Len(a) = k - 1 /\ Len(s) \in Nat /\ \A j \in 1..(k - 1) : a[j] = s[j]
      BY <2>2
    <2>4. /\ b \in Seq(S) /\ Len(b) = Len(s) - k /\ \A j \in 1..(Len(s) - k) : b[j] = s[k + j]
      BY <2>2
    <2> HIDE DEF a, b
    <2>5. /\ r \in Seq(S) /\ Len(r) = Len(a) + Len(b)
          /\ \A j \in 1..Len(r) : r[j] = IF j <= Len(a) THEN a[j] ELSE b[j - Len(a)]
      BY <2>3, <2>4, ConcatProperties
    <2> HIDE DEF r
    <2>6. r \in Seq(S) /\ Len(r) = Len(s) - 1
      BY <2>2, <2>3, <2>4, <2>5
    <2>7. ASSUME NEW j \in 1..Len(r), j < k PROVE r[j] = s[j] /\ j \in 1..Len(s)
      <3>1. j \in 1..(k - 1) /\ j \in 1..Len(s)
        BY <2>2, <2>3, <2>6, <2>7
      <3>2. r[j] = a[j]
        BY <2>3, <2>5, <3>1
      <3> QED BY <2>3, <3>1, <3>2
    <2>8. ASSUME NEW j \in 1..Len(r), ~(j < k) PROVE r[j] = s[j + 1] /\ j + 1 \in 1..Len(s)
      <3>1. j - (k - 1) \in 1..(Len(s) - k) /\ k + (j - (k - 1)) = j + 1
        BY <2>2, <2>3, <2>6, <2>8
      <3>2. r[j] = b[j - (k - 1)]
        BY <2>2, <2>3, <2>8, <2>5
      <3>3. b[j - (k - 1)] = s[j + 1]
        BY <2>4, <3>1
      <3>4. j + 1 \in 1..Len(s)
        BY <2>2, <2>3, <2>6, <2>8
      <3> QED BY <3>2, <3>3, <3>4
    <2>9. IsInjective(r)
      <3>1. \A i, j \in 1..Len(s) : s[i] = s[j] => i = j
        BY DEF IsInjective
      <3>2. ASSUME NEW i \in 1..Len(r), NEW j \in 1..Len(r), r[i] = r[j] PROVE i = j
        <4>1. \A x \in 1..Len(r) : x \in Int
          BY <2>6, <2>3
        <4> QED BY <2>2, <2>3, <2>7, <2>8, <3>1, <3>2, <4>1
      <3> QED BY <2>6, <3>2 DEF IsInjective
    <2> QED BY <2>1, <2>9, <2>6 DEF r, a, b
  <1> QED BY <1>1, <1>2

LEMMA AppendKeepsInjective ==
    ASSUME NEW S, NEW s \in Seq(S), IsInjective(s), NEW e \in S, e \notin Range(s)
    PROVE  IsInjective(Append(s, e))
  <1>1. \A i, j \in 1..Len(s) : s[i] = s[j] => i = j
    BY DEF IsInjective
  <1>2. \A i \in 1..Len(s) : s[i] # e
    BY DEF Range
  <1>3. /\ Len(s) \in Nat /\ DOMAIN Append(s, e) = 1..(Len(s) + 1) /\ Append(s, e)[Len(s) + 1] = e
        /\ \A i \in 1..Len(s) : Append(s, e)[i] = s[i]
    OBVIOUS
  <1>4. \A i \in 1..(Len(s) + 1) : i \in 1..Len(s) \/ i = Len(s) + 1
    BY <1>3
  <1> QED BY <1>1, <1>2, <1>3, <1>4 DEF IsInjective

\* The scores that users may ask for, and what their records say.
ScoreInputs == {t \in Inputs : t.kind = "scores" /\ Good(t)}

RecordFor(t) == Record(t.subjects, Conditions(t.text), TypedRank(t))

FlagsFor(t) == [cond |-> Conditions(t.text), rank |-> TypedRank(t)]

LEMMA RecordReads ==
    ASSUME NEW t \in ScoreInputs
    PROVE  FlagsOf(RecordFor(t)) = FlagsFor(t)
  <1> DEFINE R == RecordFor(t)
             F == [record |-> R, flags |-> ReadRecord(R)]
  <1>1. ReadRecord(R) = FlagsFor(t)
    BY TextsReadBack DEF ScoreInputs, RecordFor, FlagsFor
  <1>2. RecordsRead = {[record |-> record, flags |-> ReadRecord(record)] : record \in {RecordFor(u) : u \in ScoreInputs}}
    BY DEF RecordsRead, RecordFor, ScoreInputs
  <1> HIDE DEF R
  <1>3. R \in {RecordFor(u) : u \in ScoreInputs}
    BY DEF R
  <1>4. F \in RecordsRead /\ F.record = R
    BY <1>2, <1>3
  <1>5. \A read \in RecordsRead : read.record = R => read.flags = ReadRecord(R)
    BY <1>2
  <1>6. (CHOOSE read \in RecordsRead : read.record = R).flags = ReadRecord(R)
    BY <1>4, <1>5
  <1> QED BY <1>1, <1>6 DEF FlagsOf, R

LEMMA FlagsAreBytes ==
    ASSUME NEW f \in {NoFlags} \cup {FlagsFor(t) : t \in ScoreInputs}
    PROVE  \A c \in DOMAIN f.cond : f.cond[c] \in 0..255
  <1>1. CASE f = NoFlags
    BY <1>1 DEF NoFlags
  <1>2. CASE f \in {FlagsFor(t) : t \in ScoreInputs}
    BY <1>2, TextsReadBack DEF FlagsFor, ScoreInputs
  <1> QED BY <1>1, <1>2

------------------------------------------------------------------------------
(* The types *)

Maybe == Accts \cup {Nobody}

EndOf(t, i) == Bound(t.kind, Splite(t.range, Dash)[i])

Flags == {NoFlags} \cup {FlagsFor(t) : t \in ScoreInputs}
Requests ==
    [kind : Kinds \cup {"login"}, conn : 0..MaxConn, acct : Maybe,
     cond : {<<>>} \cup {Conditions(t.text) : t \in Inputs}, rank : {0} \cup {TypedRank(t) : t \in Inputs},
     ranged : BOOLEAN, lo : {0} \cup {EndOf(t, 1) : t \in Inputs}, hi : {0} \cup {EndOf(t, 2) : t \in Inputs},
     fits : {{}} \cup {t.fits : t \in Inputs}, subjects : {0} \cup {t.subjects : t \in Inputs}]
Statements ==
    [req : Requests, scope : SUBSET Accts, record : {<<>>} \cup {RecordFor(t) : t \in ScoreInputs}]
Shown == [acct : Accts, conn : 0..MaxConn, pwd : BOOLEAN]
Message ==
    [kind : {"login"}, conn : 0..MaxConn, code : 0..1, may : BOOLEAN]
    \cup {m \in [kind : Kinds \cup {"junk"}, conn : 0..MaxConn, code : 0..4, rows : Seq(Shown),
                 no : 0..PageWrap - 1, last : BOOLEAN, flags : Flags] : Len(m.rows) <= PageSize}
Work ==
    [kind : Kinds \cup {"none"}, conn : 0..MaxConn, rows : Seq(Accts), n : Nat, page : Seq(Shown),
     flags : Flags, record : {<<>>} \cup {RecordFor(t) : t \in ScoreInputs}]
Client ==
    [typed : Maybe, acct : Maybe, may : BOOLEAN, oper : Kinds \cup {"none", "login"},
     asked : {NoFlags} \cup {FlagsFor(t) : t \in Inputs}, shown : Seq(Shown), heads : Nat, total : Int,
     end : {"none", "ok", "failed"}]

\* A request, and the record of a statement, come from what somebody has typed.
FromInput(r) ==
    /\ r.kind = "login" => r.acct \in Accts
    /\ r.kind = "scores" =>
          \E t \in ScoreInputs : /\ r.subjects = t.subjects
                                 /\ [cond |-> r.cond, rank |-> r.rank] = FlagsFor(t)

Recorded(kind, record) == kind = "scores" => \E t \in ScoreInputs : record = RecordFor(t)

Typed ==
    /\ users \in Seq(Accts) /\ IsInjective(users) /\ granted \subseteq Accts
    /\ live \in BOOLEAN /\ conn \in 0..MaxConn /\ session \in Maybe
    /\ queue \in Seq(Requests) /\ \A i \in 1..Len(queue) : FromInput(queue[i])
    /\ stmts \in Seq(Statements)
    /\ \A i \in 1..Len(stmts) : FromInput(stmts[i].req) /\ Recorded(stmts[i].req.kind, stmts[i].record)
    /\ work \in Work /\ Len(work.page) = work.n % PageSize /\ Recorded(work.kind, work.record)
    /\ wire \in Seq(Message) /\ client \in Client /\ cut \in BOOLEAN

LEMMA Blank ==
    /\ NoFlags \in Flags /\ Idle \in Work /\ NewClient \in Client
    /\ Idle.kind = "none" /\ Idle.page = <<>> /\ Idle.n = 0 /\ Idle.conn = 0
    /\ "none" \notin Kinds /\ "login" \notin Kinds /\ "junk" \notin Kinds
  <1>1. NoFlags \in Flags /\ <<>> \in Seq(Accts) /\ <<>> \in Seq(Shown) /\ 0 \in 0..MaxConn
    BY SelectAssumption DEF Flags
  <1>2. Idle \in Work
    <2> HIDE DEF Flags, NoFlags, Shown
    <2> QED BY <1>1 DEF Idle, Work
  <1>3. NewClient \in Client
    <2> HIDE DEF Flags, NoFlags, Shown
    <2> QED BY <1>1 DEF NewClient, Client, Maybe
  <1> QED BY <1>1, <1>2, <1>3 DEF Idle, Kinds

LEMMA LoginTyped ==
    ASSUME NEW a \in Accts, conn \in 0..MaxConn
    PROVE  /\ LoginRequest(a) \in Requests /\ FromInput(LoginRequest(a))
           /\ LoginRequest(a).kind = "login" /\ LoginRequest(a).conn = conn /\ LoginRequest(a).acct = a
  BY DEF LoginRequest, Requests, FromInput, Maybe, Kinds

LEMMA RequestTyped ==
    ASSUME NEW t \in Inputs, Good(t), conn \in 0..MaxConn
    PROVE  /\ Request(t) \in Requests /\ FromInput(Request(t))
           /\ Request(t).kind = t.kind /\ t.kind \in Kinds /\ Request(t).conn = conn
           /\ [cond |-> Request(t).cond, rank |-> Request(t).rank] = FlagsFor(t)
  <1> DEFINE r == Request(t)
             ranged == Asks(Conditions(t.text), RangeCondition(t.kind))
  <1>1. ranged \in BOOLEAN
    BY DEF Asks
  <1>2. t.kind \in Kinds
    BY SelectAssumption DEF Kinds
  <1>3. r = [kind |-> t.kind, conn |-> conn, acct |-> Nobody, cond |-> Conditions(t.text),
             rank |-> TypedRank(t), ranged |-> ranged,
             lo |-> IF ranged THEN EndOf(t, 1) ELSE 0, hi |-> IF ranged THEN EndOf(t, 2) ELSE 0,
             fits |-> t.fits, subjects |-> t.subjects]
    BY DEF Request, EndOf
  <1> HIDE DEF r, ranged
  <1>4. r \in Requests
    BY <1>1, <1>2, <1>3 DEF Requests, Maybe
  <1>5. FromInput(r)
    BY <1>2, <1>3 DEF FromInput, ScoreInputs, FlagsFor, Kinds
  <1> QED BY <1>2, <1>3, <1>4, <1>5 DEF r, FlagsFor

LEMMA PageTyped ==
    ASSUME NEW kind \in Kinds \cup {"junk"}, NEW c \in 0..MaxConn, NEW code \in 0..4,
           NEW rows \in Seq(Shown), Len(rows) <= PageSize, NEW no \in 0..PageWrap - 1,
           NEW last \in BOOLEAN, NEW flags \in Flags
    PROVE  /\ Page(kind, c, code, rows, no, last, flags) \in Message
           /\ Page(kind, c, code, rows, no, last, flags) =
                [kind |-> kind, conn |-> c, code |-> code, rows |-> rows, no |-> no, last |-> last,
                 flags |-> flags]
  BY DEF Page, Message

LEMMA RefusalTyped ==
    ASSUME NEW kind \in Kinds, NEW c \in 0..MaxConn, NEW code \in 0..4
    PROVE  /\ Refusal(kind, c, code) \in Message /\ Refusal(kind, c, code).kind = kind
           /\ Refusal(kind, c, code).conn = c /\ Refusal(kind, c, code).code = code
           /\ Refusal(kind, c, code).rows = <<>> /\ Refusal(kind, c, code).last = TRUE
  <1> DEFINE none == <<>>
  <1>1. none \in Seq(Shown) /\ Len(none) <= PageSize /\ 0 \in 0..PageWrap - 1
    BY SelectAssumption
  <1>2. kind \in Kinds \cup {"junk"} /\ NoFlags \in Flags /\ TRUE \in BOOLEAN
    BY Blank
  <1>3. Refusal(kind, c, code) = Page(kind, c, code, none, 0, TRUE, NoFlags)
    BY DEF Refusal
  <1> HIDE DEF none
  <1>4. /\ Page(kind, c, code, none, 0, TRUE, NoFlags) \in Message
        /\ Page(kind, c, code, none, 0, TRUE, NoFlags) =
             [kind |-> kind, conn |-> c, code |-> code, rows |-> none, no |-> 0, last |-> TRUE,
              flags |-> NoFlags]
    BY <1>1, <1>2, PageTyped
  <1> DEFINE m == Refusal(kind, c, code)
  <1>5. m = [kind |-> kind, conn |-> c, code |-> code, rows |-> none, no |-> 0, last |-> TRUE,
             flags |-> NoFlags]
    BY <1>3, <1>4
  <1>6. m \in Message
    BY <1>3, <1>4
  <1> HIDE DEF m
  <1>7. m.kind = kind /\ m.conn = c /\ m.code = code /\ m.rows = none /\ m.last = TRUE
    BY <1>5
  <1> QED BY <1>6, <1>7 DEF m, none

LEMMA JunkTyped == Junk \in Message /\ Junk.kind = "junk"
  <1> DEFINE none == <<>>
  <1>1. none \in Seq(Shown) /\ Len(none) <= PageSize /\ 0 \in 0..PageWrap - 1 /\ 0 \in 0..MaxConn /\ 0 \in 0..4
    BY SelectAssumption
  <1>2. "junk" \in Kinds \cup {"junk"} /\ NoFlags \in Flags /\ TRUE \in BOOLEAN
    BY Blank
  <1>3. Junk = Page("junk", 0, 0, none, 0, TRUE, NoFlags)
    BY DEF Junk
  <1> HIDE DEF none
  <1>4. Junk \in Message /\ Junk = [kind |-> "junk", conn |-> 0, code |-> 0, rows |-> none, no |-> 0,
                                    last |-> TRUE, flags |-> NoFlags]
    BY <1>1, <1>2, <1>3, PageTyped
  <1> QED BY <1>4

LEMMA MessageIs ==
    ASSUME NEW m \in Message
    PROVE  /\ m.conn \in 0..MaxConn /\ m.kind \in Kinds \cup {"junk", "login"}
           /\ m.kind = "login" => m.code \in 0..1 /\ m.may \in BOOLEAN
           /\ m.kind # "login" => /\ m.rows \in Seq(Shown) /\ Len(m.rows) <= PageSize
                                  /\ m.no \in 0..PageWrap - 1 /\ m.last \in BOOLEAN
                                  /\ m.flags \in Flags /\ m.code \in 0..4
  BY Blank DEF Message

LEMMA Delivered ==
    ASSUME wire \in Seq(Message), live \in BOOLEAN, NEW m \in Message, Deliver(m)
    PROVE  /\ wire' \in Seq(Message) /\ Len(wire) \in Nat
           /\ ~live => wire' = wire
           /\ live => /\ Len(wire') = Len(wire) + 1 /\ wire'[Len(wire) + 1] = m
           /\ \A i \in 1..Len(wire) : wire'[i] = wire[i]
           /\ \A i \in 1..Len(wire') : i \in 1..Len(wire) \/ (live /\ i = Len(wire') /\ wire'[i] = m)
  <1>1. CASE live
    <2>1. wire' = Append(wire, m)
      BY <1>1 DEF Deliver
    <2> QED BY <1>1, <2>1, AppendOf
  <1>2. CASE ~live
    <2>1. wire' = wire
      BY <1>2 DEF Deliver
    <2> QED BY <1>2, <2>1
  <1> QED BY <1>1, <1>2

\* What recv leaves: the messages from some place on, in front of them perhaps junk.
LEMMA ReceivedWire ==
    ASSUME wire \in Seq(Message), cut \in BOOLEAN, Received
    PROVE  /\ live /\ wire # <<>> /\ Head(wire) = wire[1] /\ wire[1] \in Message /\ Len(wire) \in Nat
           /\ 1 \in 1..Len(wire) /\ wire' \in Seq(Message) /\ Len(wire') < Len(wire)
           /\ \A i \in 1..Len(wire') :
                 \/ wire'[i] = Junk
                 \/ i + (Len(wire) - Len(wire')) \in 2..Len(wire)
                    /\ wire'[i] = wire[i + (Len(wire) - Len(wire'))]
           /\ UNCHANGED <<users, granted, live, conn, server, list, counts>>
           /\ cut' \in BOOLEAN /\ (~cut' => ~cut /\ wire' = Tail(wire))
  <1>1. /\ live /\ wire # <<>> /\ UNCHANGED <<users, granted, live, conn, server, list, counts>>
    BY DEF Received
  <1>2. PICK n \in 1..Merge :
          /\ n <= Len(wire)
          /\ cut' = (cut \/ n > 1)
          /\ \/ wire' = SubSeq(wire, n + 1, Len(wire))
             \/ n > 1 /\ wire' = <<Junk>> \o SubSeq(wire, n + 1, Len(wire))
    BY DEF Received
  <1>3. n \in 1..2
    BY SelectAssumption
  <1>4. Head(wire) = wire[1] /\ wire[1] \in Message /\ Len(wire) \in Nat /\ 1 \in 1..Len(wire)
    BY <1>1
  <1> DEFINE rest == SubSeq(wire, n + 1, Len(wire))
             o == <<Junk>>
  <1>5. /\ rest \in Seq(Message) /\ Len(rest) = Len(wire) - n
        /\ \A i \in 1..Len(rest) : i + n \in 2..Len(wire) /\ rest[i] = wire[i + n]
    BY <1>2, <1>3, <1>4
  <1>6. o \in Seq(Message) /\ Len(o) = 1 /\ o[1] = Junk
    BY JunkTyped
  <1>7. n = 1 => rest = Tail(wire)
    BY <1>4
  <1> HIDE DEF rest, o
  <1>10. n = 1 \/ (n = 2 /\ n > 1)
    BY <1>3
  <1>11. cut' \in BOOLEAN /\ (n > 1 => cut') /\ (cut => cut')
    BY <1>2
  <1>8. CASE wire' = rest
    <2>1. ~cut' => ~cut /\ wire' = Tail(wire)
      BY <1>7, <1>8, <1>10, <1>11
    <2>2. /\ wire' \in Seq(Message) /\ Len(wire') < Len(wire) /\ Len(wire) - Len(wire') = n
          /\ \A i \in 1..Len(wire') : i + n \in 2..Len(wire) /\ wire'[i] = wire[i + n]
      BY <1>3, <1>4, <1>5, <1>8
    <2> QED BY <1>1, <1>4, <1>11, <2>1, <2>2
  <1>9. CASE n > 1 /\ wire' = o \o rest
    <2>1. n = 2 /\ cut'
      BY <1>9, <1>10, <1>11
    <2>2. /\ wire' \in Seq(Message) /\ Len(wire') = Len(wire) - 1 /\ wire'[1] = Junk
          /\ \A i \in 1..Len(wire') : i = 1 \/ (i - 1 \in 1..Len(rest) /\ wire'[i] = rest[i - 1])
      <3>1. Len(rest) = Len(wire) - 2 /\ Len(rest) \in Nat
        BY <1>4, <1>5, <2>1
      <3>2. /\ o \o rest \in Seq(Message) /\ Len(o \o rest) = 1 + Len(rest)
            /\ \A i \in 1..(1 + Len(rest)) : (o \o rest)[i] = IF i <= 1 THEN o[i] ELSE rest[i - 1]
        <4>1. /\ o \o rest \in Seq(Message) /\ Len(o \o rest) = Len(o) + Len(rest)
              /\ \A i \in 1..(Len(o) + Len(rest)) :
                     (o \o rest)[i] = IF i <= Len(o) THEN o[i] ELSE rest[i - Len(o)]
          BY <1>5, <1>6, ConcatProperties
        <4> QED BY <1>6, <4>1
      <3>3. (o \o rest)[1] = o[1]
        BY <3>1, <3>2
      <3>4. \A i \in 2..(1 + Len(rest)) : (o \o rest)[i] = rest[i - 1] /\ i - 1 \in 1..Len(rest)
        BY <3>1, <3>2
      <3>5. \A i \in 1..(1 + Len(rest)) : i = 1 \/ i \in 2..(1 + Len(rest))
        BY <3>1
      <3> QED BY <1>4, <1>6, <1>9, <3>1, <3>2, <3>3, <3>4, <3>5
    <2>3. ASSUME NEW i \in 1..Len(wire'), i # 1
          PROVE  i + 1 \in 2..Len(wire) /\ wire'[i] = wire[i + 1]
      <3>1. i - 1 \in 1..Len(rest) /\ wire'[i] = rest[i - 1]
        BY <2>2, <2>3
      <3>2. (i - 1) + n = i + 1
        BY <2>1
      <3> QED BY <1>5, <3>1, <3>2
    <2>4. Len(wire) - Len(wire') = 1
      BY <1>4, <2>2
    <2> QED BY <1>1, <1>4, <1>11, <2>1, <2>2, <2>3, <2>4
  <1> QED BY <1>2, <1>8, <1>9 DEF rest, o

LEMMA AppendCases ==
    ASSUME NEW S, NEW q \in Seq(S), NEW e \in S
    PROVE  /\ Append(q, e) \in Seq(S) /\ Len(q) \in Nat /\ Len(Append(q, e)) = Len(q) + 1
           /\ Append(q, e)[Len(q) + 1] = e /\ Append(q, e) # <<>>
           /\ \A i \in 1..Len(q) : Append(q, e)[i] = q[i] /\ i \in 1..Len(Append(q, e))
           /\ \A i \in 1..Len(Append(q, e)) :
                 \/ i \in 1..Len(q) /\ Append(q, e)[i] = q[i]
                 \/ i = Len(Append(q, e)) /\ Append(q, e)[i] = e
  <1>1. /\ Append(q, e) \in Seq(S) /\ Len(q) \in Nat /\ Len(Append(q, e)) = Len(q) + 1
        /\ Append(q, e)[Len(q) + 1] = e
        /\ \A i \in 1..Len(q) : Append(q, e)[i] = q[i]
        /\ \A i \in 1..Len(Append(q, e)) : i \in 1..Len(q) \/ i = Len(q) + 1
    BY AppendOf
  <1>2. Append(q, e) # <<>>
    BY <1>1
  <1>3. \A i \in 1..Len(q) : i \in 1..Len(q) + 1
    BY <1>1
  <1> QED BY <1>1, <1>2, <1>3

\* A handler of requests takes the first one, and queues a statement or refuses.
LEMMA RecvShape ==
    ASSUME Typed, Recv
    PROVE  /\ UNCHANGED <<users, granted, live, conn, session, work, client, list, cut, counts>>
           /\ queue # <<>> /\ queue' = Tail(queue)
           /\ \/ /\ UNCHANGED wire
                 /\ \E st \in Statements :
                       /\ stmts' = Append(stmts, st) /\ st.req = Head(queue)
                       /\ Recorded(st.req.kind, st.record)
                       /\ st.req.kind = "users" => session # Nobody /\ st.scope = Scope(session)
                       /\ st.req.kind = "scores" => FlagsOf(st.record) = [cond |-> st.req.cond, rank |-> st.req.rank]
              \/ /\ UNCHANGED stmts /\ Head(queue).kind = "users"
                 /\ Deliver(Refusal("users", Head(queue).conn, 4))
  <1> DEFINE r == Head(queue)
  <1>1. /\ UNCHANGED <<users, granted, live, conn, session, work, client, list, cut, counts>>
        /\ queue # <<>> /\ queue' = Tail(queue)
    BY DEF Recv, LoginRecvHandle, SelectBatchUserInfoRecvHandle, SelectBatchScoreRecvHandle, RecvFront
  <1>2. r \in Requests /\ FromInput(r)
    <2>1. r = queue[1] /\ 1 \in 1..Len(queue) /\ r \in Requests
      BY <1>1, TailOf DEF Typed
    <2> QED BY <2>1 DEF Typed
  <1>3. CASE LoginRecvHandle
    <2> DEFINE st == [req |-> r, scope |-> {}, record |-> <<>>]
    <2>1. r.kind = "login" /\ UNCHANGED wire /\ stmts' = Append(stmts, st)
      BY <1>3 DEF LoginRecvHandle, RecvFront
    <2>2. st \in Statements /\ Recorded(st.req.kind, st.record)
      BY <1>2, <2>1 DEF Statements, Recorded
    <2> QED BY <1>1, <2>1, <2>2
  <1>4. CASE SelectBatchUserInfoRecvHandle
    <2> DEFINE st == [req |-> r, scope |-> Scope(session), record |-> <<>>]
    <2>1. r.kind = "users"
      BY <1>4 DEF SelectBatchUserInfoRecvHandle, RecvFront
    <2>2. CASE (HasRight(session) \/ Ident(session) > 1) /\ stmts' = Append(stmts, st) /\ UNCHANGED wire
      <3>1. session # Nobody
        <4>1. ~(Ident(Nobody) > 1) /\ ~HasRight(Nobody)
          BY SelectAssumption DEF Ident, HasRight, Typed
        <4> QED BY <2>2, <4>1
      <3>2. st \in Statements /\ Recorded(st.req.kind, st.record)
        BY <1>2, <2>1 DEF Statements, Recorded, Scope
      <3> QED BY <1>1, <2>1, <2>2, <3>1, <3>2
    <2>3. CASE Deliver(Refusal("users", r.conn, 4)) /\ UNCHANGED stmts
      BY <1>1, <2>1, <2>3
    <2> QED BY <1>4, <2>2, <2>3 DEF SelectBatchUserInfoRecvHandle
  <1>5. CASE SelectBatchScoreRecvHandle
    <2> DEFINE st == [req |-> r, scope |-> Accts, record |-> Record(r.subjects, r.cond, r.rank)]
    <2>1. r.kind = "scores" /\ UNCHANGED wire /\ stmts' = Append(stmts, st)
      BY <1>5 DEF SelectBatchScoreRecvHandle, RecvFront
    <2>2. PICK t \in ScoreInputs : r.subjects = t.subjects /\ [cond |-> r.cond, rank |-> r.rank] = FlagsFor(t)
      BY <1>2, <2>1 DEF FromInput
    <2>3. r.cond = Conditions(t.text) /\ r.rank = TypedRank(t)
      BY <2>2 DEF FlagsFor
    <2>4. st.record = RecordFor(t)
      BY <2>2, <2>3 DEF RecordFor
    <2>5. st \in Statements /\ Recorded(st.req.kind, st.record)
      BY <1>2, <2>4 DEF Statements, Recorded
    <2>6. FlagsOf(st.record) = [cond |-> st.req.cond, rank |-> st.req.rank]
      BY <2>2, <2>4, RecordReads
    <2>7. st.req.kind # "users" /\ st.req = r
      BY <2>1
    <2> HIDE DEF st, r
    <2> QED BY <1>1, <2>1, <2>5, <2>6, <2>7 DEF r
  <1> QED BY <1>3, <1>4, <1>5 DEF Recv

\* The rows of a result.
LEMMA ResultsAre ==
    ASSUME Typed, NEW st, NEW rows \in Results(st)
    PROVE  /\ rows \in Seq(Accts) /\ \A i \in 1..Len(rows) : Selected(st, rows[i])
           /\ IsFiniteSet(Accts) => Len(rows) <= Cardinality(Accts)
  <1> DEFINE A == {a \in Range(users) : Selected(st, a)}
             n == Cardinality(A)
  <1>1. IsFiniteSet(Range(users)) /\ Range(users) \subseteq Accts
    <2>1. users \in [1..Len(users) -> Accts] /\ Len(users) \in Nat
      BY DEF Typed
    <2>2. users \in Surjection(1..Len(users), Range(users))
      BY <2>1 DEF Surjection, Range
    <2>3. IsFiniteSet(1..Len(users))
      BY <2>1, FS_Interval
    <2> QED BY <2>1, <2>2, <2>3, FS_Surjection DEF Range
  <1>2. IsFiniteSet(A) /\ A \subseteq Accts
    BY <1>1, FS_Subset
  <1>3. n \in Nat
    BY <1>2, FS_CardinalityType
  <1>4. rows \in [1..n -> A]
    BY DEF Results, SetToSeqs
  <1> HIDE DEF n
  <1>5. rows \in Seq(A) /\ Len(rows) = n
    BY <1>3, <1>4
  <1>6. rows \in Seq(Accts) /\ \A i \in 1..Len(rows) : rows[i] \in A
    BY <1>2, <1>3, <1>4, <1>5
  <1>7. IsFiniteSet(Accts) => n <= Cardinality(Accts)
    BY <1>2, FS_Subset DEF n
  <1> QED BY <1>5, <1>6, <1>7

LEMMA TypedUsers ==
    ASSUME Typed, User
    PROVE  /\ Typed' /\ UNCHANGED <<users, granted, live, conn, session, stmts, work, wire, list, cut>>
           /\ live
           /\ \/ \E a \in Accts :
                    /\ queue' = Append(queue, LoginRequest(a))
                    /\ client.acct = Nobody /\ client.typed = Nobody /\ client.oper = "none"
                    /\ client' = [client EXCEPT !.typed = a, !.oper = "login"]
              \/ \E t \in Inputs :
                    /\ Good(t) /\ queue' = Append(queue, Request(t))
                    /\ client.may /\ client.oper = "none"
                    /\ client' = [client EXCEPT !.oper = t.kind, !.asked = FlagsFor(t), !.shown = <<>>,
                                                !.heads = 0, !.total = 0, !.end = "none"]
  <1>1. /\ conn \in 0..MaxConn /\ queue \in Seq(Requests) /\ client \in Client
        /\ \A i \in 1..Len(queue) : FromInput(queue[i])
    BY DEF Typed
  <1>2. ASSUME NEW r \in Requests, FromInput(r), queue' = Append(queue, r)
        PROVE  queue' \in Seq(Requests) /\ \A i \in 1..Len(queue') : FromInput(queue'[i])
    BY <1>1, <1>2, AppendCases
  <1>3. ASSUME queue' \in Seq(Requests), \A i \in 1..Len(queue') : FromInput(queue'[i]),
               client' \in Client, UNCHANGED <<users, granted, live, conn, session, stmts, work, wire, list, cut>>
        PROVE  Typed'
    BY <1>3 DEF Typed
  <1>4. ASSUME NEW a \in Accts, LoginChooseHandle(a)
        PROVE  /\ Typed' /\ UNCHANGED <<users, granted, live, conn, session, stmts, work, wire, list, cut>> /\ live
               /\ queue' = Append(queue, LoginRequest(a))
               /\ client.acct = Nobody /\ client.typed = Nobody /\ client.oper = "none"
               /\ client' = [client EXCEPT !.typed = a, !.oper = "login"]
    <2>1. /\ UNCHANGED <<users, granted, live, conn, session, stmts, work, wire, list, cut>> /\ live
          /\ queue' = Append(queue, LoginRequest(a))
          /\ client.acct = Nobody /\ client.typed = Nobody /\ client.oper = "none"
          /\ client' = [client EXCEPT !.typed = a, !.oper = "login"]
      BY <1>4 DEF LoginChooseHandle, Send
    <2>2. client' \in Client
      BY <1>1, <2>1 DEF Client, Maybe
    <2>3. queue' \in Seq(Requests) /\ \A i \in 1..Len(queue') : FromInput(queue'[i])
      BY <1>1, <1>2, <2>1, LoginTyped
    <2> QED BY <1>3, <2>1, <2>2, <2>3
  <1>5. ASSUME NEW t \in Inputs, SelectChooseHandle(t)
        PROVE  /\ Typed' /\ UNCHANGED <<users, granted, live, conn, session, stmts, work, wire, list, cut>> /\ live
               /\ Good(t) /\ queue' = Append(queue, Request(t))
               /\ client.may /\ client.oper = "none"
               /\ client' = [client EXCEPT !.oper = t.kind, !.asked = FlagsFor(t), !.shown = <<>>,
                                           !.heads = 0, !.total = 0, !.end = "none"]
    <2>1. /\ UNCHANGED <<users, granted, live, conn, session, stmts, work, wire, list, cut>> /\ live
          /\ Good(t) /\ queue' = Append(queue, Request(t))
          /\ client.may /\ client.oper = "none"
          /\ client' = [client EXCEPT !.oper = t.kind,
                            !.asked = [cond |-> Request(t).cond, rank |-> Request(t).rank],
                            !.shown = <<>>, !.heads = 0, !.total = 0, !.end = "none"]
      BY <1>5 DEF SelectChooseHandle, Send
    <2>2. /\ Request(t) \in Requests /\ FromInput(Request(t)) /\ t.kind \in Kinds
          /\ [cond |-> Request(t).cond, rank |-> Request(t).rank] = FlagsFor(t)
      BY <1>1, <2>1, RequestTyped
    <2>3. client' \in Client
      <3> DEFINE f == FlagsFor(t)
                 none == <<>>
                 F == {NoFlags} \cup {FlagsFor(u) : u \in Inputs}
      <3>1. f \in F /\ none \in Seq(Shown)
        OBVIOUS
      <3>2. client' = [client EXCEPT !.oper = t.kind, !.asked = f, !.shown = none,
                                     !.heads = 0, !.total = 0, !.end = "none"]
        BY <2>1, <2>2
      <3>3. client \in [typed : Maybe, acct : Maybe, may : BOOLEAN, oper : Kinds \cup {"none", "login"},
                        asked : F, shown : Seq(Shown), heads : Nat, total : Int, end : {"none", "ok", "failed"}]
        BY <1>1 DEF Client
      <3>4. client' \in [typed : Maybe, acct : Maybe, may : BOOLEAN, oper : Kinds \cup {"none", "login"},
                         asked : F, shown : Seq(Shown), heads : Nat, total : Int, end : {"none", "ok", "failed"}]
        <4> HIDE DEF f, none, F
        <4>1. client' = [typed |-> client.typed, acct |-> client.acct, may |-> client.may, oper |-> t.kind,
                         asked |-> f, shown |-> none, heads |-> 0, total |-> 0, end |-> "none"]
          BY <3>2, <3>3
        <4>2. client.typed \in Maybe /\ client.acct \in Maybe /\ client.may \in BOOLEAN
          BY <3>3
        <4> QED BY <2>2, <3>1, <4>1, <4>2
      <3> QED BY <3>4 DEF Client
    <2>4. queue' \in Seq(Requests) /\ \A i \in 1..Len(queue') : FromInput(queue'[i])
      BY <1>2, <2>1, <2>2
    <2> QED BY <1>3, <2>1, <2>2, <2>3, <2>4
  <1> QED BY <1>4, <1>5 DEF User

LEMMA TypedRecv ==
    ASSUME Typed, Recv PROVE Typed'
  <1>1. /\ UNCHANGED <<users, granted, live, conn, session, work, client, cut>>
        /\ queue # <<>> /\ queue' = Tail(queue)
        /\ \/ /\ UNCHANGED wire
              /\ \E st \in Statements :
                    /\ stmts' = Append(stmts, st) /\ st.req = Head(queue)
                    /\ Recorded(st.req.kind, st.record)
           \/ /\ UNCHANGED stmts /\ Head(queue).kind = "users"
              /\ Deliver(Refusal("users", Head(queue).conn, 4))
    BY RecvShape
  <1>2. /\ Head(queue) \in Requests /\ FromInput(Head(queue))
        /\ queue' \in Seq(Requests) /\ \A i \in 1..Len(queue') : FromInput(queue'[i])
    <2>1. /\ Head(queue) = queue[1] /\ 1 \in 1..Len(queue) /\ Head(queue) \in Requests
          /\ queue' \in Seq(Requests) /\ \A i \in 1..Len(queue') : i + 1 \in 1..Len(queue) /\ queue'[i] = queue[i + 1]
      BY <1>1, TailOf DEF Typed
    <2> QED BY <2>1 DEF Typed
  <1>3. CASE UNCHANGED wire /\ \E st \in Statements :
                    /\ stmts' = Append(stmts, st) /\ st.req = Head(queue)
                    /\ Recorded(st.req.kind, st.record)
    <2> PICK st \in Statements :
                    /\ stmts' = Append(stmts, st) /\ st.req = Head(queue)
                    /\ Recorded(st.req.kind, st.record)
      BY <1>3
    <2>1. /\ stmts' \in Seq(Statements)
          /\ \A i \in 1..Len(stmts') : \/ i \in 1..Len(stmts) /\ stmts'[i] = stmts[i]
                                       \/ stmts'[i] = st
      BY AppendCases DEF Typed
    <2>2. \A i \in 1..Len(stmts') : FromInput(stmts'[i].req) /\ Recorded(stmts'[i].req.kind, stmts'[i].record)
      BY <1>2, <2>1 DEF Typed
    <2> QED BY <1>1, <1>2, <1>3, <2>1, <2>2 DEF Typed
  <1>4. CASE UNCHANGED stmts /\ Deliver(Refusal("users", Head(queue).conn, 4))
    <2>1. Refusal("users", Head(queue).conn, 4) \in Message
      <3>1. Head(queue).conn \in 0..MaxConn /\ "users" \in Kinds /\ 4 \in 0..4
        BY <1>2 DEF Requests, Kinds
      <3> QED BY <3>1, RefusalTyped
    <2>2. wire' \in Seq(Message)
      BY <1>4, <2>1, Delivered DEF Typed
    <2> QED BY <1>1, <1>2, <1>4, <2>2 DEF Typed
  <1> QED BY <1>1, <1>3, <1>4

\* The statement at the front.
LEMMA MysqlShape ==
    ASSUME Typed, NEW kind, MysqlFront(kind)
    PROVE  /\ work.kind = "none" /\ stmts # <<>> /\ stmts' = Tail(stmts) /\ stmts' \in Seq(Statements)
           /\ UNCHANGED <<users, granted, live, conn, queue, client, cut>>
           /\ Head(stmts) = stmts[1] /\ 1 \in 1..Len(stmts) /\ Head(stmts) \in Statements
           /\ Head(stmts).req \in Requests /\ Head(stmts).req.kind = kind
           /\ FromInput(Head(stmts).req) /\ Recorded(kind, Head(stmts).record)
           /\ Len(stmts') = Len(stmts) - 1 /\ Len(stmts) \in Nat
           /\ \A i \in 1..Len(stmts') : i + 1 \in 1..Len(stmts) /\ stmts'[i] = stmts[i + 1]
           /\ \A i \in 1..Len(stmts') : FromInput(stmts'[i].req) /\ Recorded(stmts'[i].req.kind, stmts'[i].record)
  <1>1. /\ work.kind = "none" /\ stmts # <<>> /\ stmts' = Tail(stmts) /\ Head(stmts).req.kind = kind
        /\ UNCHANGED <<users, granted, live, conn, queue, client, cut>>
    BY DEF MysqlFront
  <1>2. /\ Head(stmts) = stmts[1] /\ 1 \in 1..Len(stmts) /\ Head(stmts) \in Statements
        /\ stmts' \in Seq(Statements) /\ Len(stmts') = Len(stmts) - 1 /\ Len(stmts) \in Nat
        /\ \A i \in 1..Len(stmts') : i + 1 \in 1..Len(stmts) /\ stmts'[i] = stmts[i + 1]
    BY <1>1, TailOf DEF Typed
  <1>3. \A i \in 1..Len(stmts) : FromInput(stmts[i].req) /\ Recorded(stmts[i].req.kind, stmts[i].record)
    BY DEF Typed
  <1>4. Head(stmts).req \in Requests
    BY <1>2 DEF Statements
  <1>5. \A i \in 1..Len(stmts') : FromInput(stmts'[i].req) /\ Recorded(stmts'[i].req.kind, stmts'[i].record)
    BY <1>2, <1>3
  <1> QED BY <1>1, <1>2, <1>3, <1>4, <1>5

LEMMA TypedLoginReply ==
    ASSUME Typed, LoginReplyHandle
    PROVE  /\ Typed'
           /\ \E m \in Message :
                 /\ m.kind = "login" /\ m.conn = Head(stmts).req.conn /\ Deliver(m)
                 /\ session' = IF m.code = 0 /\ live THEN Head(stmts).req.acct ELSE session
           /\ UNCHANGED <<users, granted, live, conn, queue, client, cut, work, list>>
  <1> DEFINE r == Head(stmts).req
             a == Ident(r.acct) > 1 \/ HasRight(r.acct)
  <1>1. MysqlFront("login") /\ UNCHANGED <<work, list>>
    BY DEF LoginReplyHandle
  <1>2. r \in Requests /\ r.acct \in Accts /\ r.conn \in 0..MaxConn
    BY <1>1, MysqlShape DEF FromInput, Requests
  <1>3. PICK ok \in BOOLEAN :
             /\ session' = IF ok /\ live THEN r.acct ELSE session
             /\ Deliver([kind |-> "login", conn |-> r.conn, code |-> IF ok THEN 0 ELSE 1, may |-> a])
    BY DEF LoginReplyHandle
  <1> DEFINE m == [kind |-> "login", conn |-> r.conn, code |-> IF ok THEN 0 ELSE 1, may |-> a]
  <1>4. a \in BOOLEAN
    OBVIOUS
  <1> HIDE DEF a
  <1>5. m \in [kind : {"login"}, conn : 0..MaxConn, code : 0..1, may : BOOLEAN]
    BY <1>2, <1>4
  <1>6. m \in Message /\ m.kind = "login" /\ m.conn = r.conn /\ (m.code = 0 <=> ok)
    BY <1>5 DEF Message
  <1> HIDE DEF m, r
  <1>7. Deliver(m)
    BY <1>3 DEF m
  <1>8. wire' \in Seq(Message)
    BY <1>6, <1>7, Delivered DEF Typed
  <1>9. session' \in Maybe
    BY <1>2, <1>3 DEF Maybe, Typed
  <1>10. Typed'
    BY <1>1, <1>8, <1>9, MysqlShape DEF Typed
  <1> QED BY <1>1, <1>3, <1>6, <1>7, <1>10, MysqlShape DEF r

LEMMA TypedBegins ==
    ASSUME Typed, NEW kind \in Kinds, SelectReplyBegins(kind)
    PROVE  /\ Typed' /\ UNCHANGED <<users, granted, live, conn, session, queue, client, cut>>
           /\ \/ /\ UNCHANGED work
                 /\ \E code \in 1..2 : Deliver(Refusal(kind, Head(stmts).req.conn, code))
              \/ \E rows \in Results(Head(stmts)) :
                    /\ rows # <<>> /\ UNCHANGED wire
                    /\ list' = IF live /\ Head(stmts).req.conn = conn THEN rows ELSE list
                    /\ work' = [Idle EXCEPT !.kind = kind, !.conn = Head(stmts).req.conn, !.rows = rows,
                                            !.record = Head(stmts).record]
  <1> DEFINE st == Head(stmts)
  <1>1. MysqlFront(kind) /\ UNCHANGED session
    BY DEF SelectReplyBegins
  <1>2. /\ st \in Statements /\ st.req \in Requests /\ st.req.conn \in 0..MaxConn /\ st.req.kind = kind
        /\ st.record \in {<<>>} \cup {RecordFor(t) : t \in ScoreInputs} /\ Recorded(kind, st.record)
        /\ UNCHANGED <<users, granted, live, conn, queue, client, cut>>
    BY <1>1, MysqlShape DEF Statements, Requests
  <1>3. \/ UNCHANGED work /\ Deliver(Refusal(kind, st.req.conn, 1))
        \/ UNCHANGED work /\ Deliver(Refusal(kind, st.req.conn, 2))
        \/ \E rows \in Results(st) :
              /\ rows # <<>> /\ UNCHANGED wire
              /\ list' = IF live /\ st.req.conn = conn THEN rows ELSE list
              /\ work' = [Idle EXCEPT !.kind = kind, !.conn = st.req.conn, !.rows = rows,
                                      !.record = st.record]
    BY DEF SelectReplyBegins
  <1> HIDE DEF st
  <1>4. CASE UNCHANGED work /\ \E code \in 1..2 : Deliver(Refusal(kind, st.req.conn, code))
    <2>1. PICK code \in 1..2 : Deliver(Refusal(kind, st.req.conn, code))
      BY <1>4
    <2>2. Refusal(kind, st.req.conn, code) \in Message
      <3>1. code \in 0..4
        OBVIOUS
      <3> QED BY <1>2, <3>1, RefusalTyped
    <2>3. wire' \in Seq(Message)
      BY <2>1, <2>2, Delivered DEF Typed
    <2>4. Typed'
      BY <1>1, <1>2, <1>4, <2>3, MysqlShape DEF Typed
    <2> QED BY <1>1, <1>2, <1>4, <2>4 DEF st
  <1>5. CASE \E rows \in Results(st) :
              /\ rows # <<>> /\ UNCHANGED wire
              /\ list' = IF live /\ st.req.conn = conn THEN rows ELSE list
              /\ work' = [Idle EXCEPT !.kind = kind, !.conn = st.req.conn, !.rows = rows,
                                      !.record = st.record]
    <2> PICK rows \in Results(st) :
              /\ rows # <<>> /\ UNCHANGED wire
              /\ list' = IF live /\ st.req.conn = conn THEN rows ELSE list
              /\ work' = [Idle EXCEPT !.kind = kind, !.conn = st.req.conn, !.rows = rows,
                                      !.record = st.record]
      BY <1>5
    <2>1. rows \in Seq(Accts)
      BY ResultsAre
    <2>2. work' \in Work /\ work'.page = <<>> /\ work'.n = 0 /\ work'.kind = kind /\ work'.record = st.record
      BY <1>2, <2>1, Blank DEF Work
    <2>3. Len(work'.page) = work'.n % PageSize
      <3>1. 0 % PageSize = 0 /\ 0 \in Nat
        BY NextOnPage
      <3> QED BY <2>2, <3>1
    <2>4. Typed'
      BY <1>1, <1>2, <2>2, <2>3, MysqlShape DEF Typed
    <2> QED BY <1>1, <1>2, <2>4 DEF st
  <1>6. 1 \in 1..2 /\ 2 \in 1..2
    OBVIOUS
  <1> QED BY <1>3, <1>4, <1>5, <1>6

\* The page after one more row.
PageWith(a) == Append(work.page, Row(work.kind, a))

LEMMA RowShape ==
    ASSUME Typed, ReplyRow
    PROVE  /\ work.kind \in Kinds /\ work.rows # <<>> /\ Head(work.rows) \in Accts /\ Head(work.rows) = work.rows[1]
           /\ UNCHANGED <<users, granted, live, conn, session, queue, stmts, client, list, cut>>
           /\ PageWith(Head(work.rows)) \in Seq(Shown) /\ Len(PageWith(Head(work.rows))) = Len(work.page) + 1
           /\ Len(work.page) \in Nat /\ Len(work.page) + 1 <= PageSize
           /\ PageNo(work.n + 1) \in 0..PageWrap - 1
           /\ FlagsAfter(work.kind, work.n + 1, work.flags, work.record) \in Flags
           /\ \/ /\ work.kind = "users" /\ ~MayShow(Head(work.rows)) /\ work' = Idle
                 /\ Deliver(Page("users", work.conn, 3, PageWith(Head(work.rows)), 0, TRUE, NoFlags))
              \/ /\ work.kind = "scores" \/ MayShow(Head(work.rows))
                 /\ Len(work.page) + 1 = PageSize
                 /\ Deliver(Page(work.kind, work.conn, 0, PageWith(Head(work.rows)), PageNo(work.n + 1), FALSE, work.flags))
                 /\ work' = [work EXCEPT !.rows = Tail(work.rows), !.n = work.n + 1, !.page = <<>>,
                                !.flags = FlagsAfter(work.kind, work.n + 1, work.flags, work.record)]
                 /\ (work.n + 1) % PageSize = 0
              \/ /\ work.kind = "scores" \/ MayShow(Head(work.rows))
                 /\ Len(work.page) + 1 < PageSize /\ UNCHANGED wire
                 /\ work' = [work EXCEPT !.rows = Tail(work.rows), !.n = work.n + 1, !.page = PageWith(Head(work.rows)),
                                !.flags = FlagsAfter(work.kind, work.n + 1, work.flags, work.record)]
                 /\ (work.n + 1) % PageSize = Len(work.page) + 1
  <1> DEFINE a == Head(work.rows)
             page == PageWith(a)
             n == work.n + 1
             f == FlagsAfter(work.kind, n, work.flags, work.record)
  <1>1. /\ work.kind # "none" /\ work.rows # <<>>
        /\ UNCHANGED <<users, granted, live, conn, session, queue, stmts, client, list, cut>>
    BY DEF ReplyRow
  <1>2. /\ work \in Work /\ work.kind \in Kinds /\ work.rows \in Seq(Accts) /\ work.page \in Seq(Shown)
        /\ work.n \in Nat /\ work.conn \in 0..MaxConn /\ work.flags \in Flags
    BY <1>1 DEF Typed, Work
  <1>3. a \in Accts /\ a = work.rows[1]
    BY <1>1, <1>2
  <1>4. Row(work.kind, a) \in Shown
    <2> DEFINE p == work.kind = "users" /\ Ident(session) = 3 /\ Identity[a] < 3
    <2>1. p \in BOOLEAN
      OBVIOUS
    <2>2. Row(work.kind, a) = [acct |-> a, conn |-> work.conn, pwd |-> p]
      BY DEF Row
    <2> HIDE DEF p, a
    <2> QED BY <1>2, <1>3, <2>1, <2>2 DEF Shown
  <1>5. page \in Seq(Shown) /\ Len(page) = Len(work.page) + 1 /\ Len(work.page) \in Nat
    BY <1>2, <1>4, AppendOf DEF PageWith
  <1>6. /\ Len(work.page) \in 0..PageSize - 1 /\ PageSize \in Nat
        /\ n % PageSize = IF Len(work.page) + 1 = PageSize THEN 0 ELSE Len(work.page) + 1
    BY <1>2, NextOnPage, SelectAssumption DEF Typed
  <1>7. PageNo(n) \in 0..PageWrap - 1
    <2>1. n - 1 \in Nat /\ n > 0
      BY <1>2
    <2>2. (n - 1) \div PageSize \in Int
      BY <2>1, SelectAssumption
    <2>3. PageNo(n) = ((n - 1) \div PageSize + 1) % PageWrap
      BY <2>1 DEF PageNo
    <2> DEFINE d == (n - 1) \div PageSize
    <2> HIDE DEF d
    <2>4. (d + 1) % PageWrap \in 0..PageWrap - 1
      BY <2>2, SelectAssumption DEF d
    <2> QED BY <2>3, <2>4 DEF d
  <1>8. f \in Flags
    <2>1. CASE work.kind = "scores" /\ (n = 1 \/ n % PageSize = 0)
      <3>1. PICK t \in ScoreInputs : work.record = RecordFor(t)
        BY <2>1 DEF Typed, Recorded
      <3>2. f = FlagsOf(work.record)
        BY <2>1 DEF FlagsAfter
      <3> QED BY <3>1, <3>2, RecordReads DEF Flags
    <2>2. CASE ~(work.kind = "scores" /\ (n = 1 \/ n % PageSize = 0))
      <3>1. f = NoFlags \/ f = work.flags
        BY <2>2 DEF FlagsAfter
      <3> QED BY <1>2, <3>1, Blank
    <2> QED BY <2>1, <2>2
  <1>9. \/ /\ work.kind = "users" /\ ~MayShow(a) /\ work' = Idle
           /\ Deliver(Page("users", work.conn, 3, page, 0, TRUE, NoFlags))
        \/ /\ ~(work.kind = "users" /\ ~MayShow(a)) /\ n % PageSize = 0
           /\ Deliver(Page(work.kind, work.conn, 0, page, PageNo(n), FALSE, work.flags))
           /\ work' = [work EXCEPT !.rows = Tail(work.rows), !.n = n, !.page = <<>>, !.flags = f]
        \/ /\ ~(work.kind = "users" /\ ~MayShow(a)) /\ n % PageSize # 0 /\ UNCHANGED wire
           /\ work' = [work EXCEPT !.rows = Tail(work.rows), !.n = n, !.page = page, !.flags = f]
    BY DEF ReplyRow, Rest, PageWith
  <1>10. ~(work.kind = "users" /\ ~MayShow(a)) => work.kind = "scores" \/ MayShow(a)
    BY <1>2 DEF Kinds
  <1>11. n % PageSize = 0 => Len(work.page) + 1 = PageSize
    BY <1>6
  <1>12. n % PageSize # 0 => Len(work.page) + 1 < PageSize /\ n % PageSize = Len(work.page) + 1
    BY <1>6
  <1> HIDE DEF page, f, a
  <1>13. Len(work.page) + 1 <= PageSize
    BY <1>6
  <1> QED BY <1>1, <1>2, <1>3, <1>5, <1>7, <1>8, <1>9, <1>10, <1>11, <1>12, <1>13 DEF page, f, a

\* The messages that a reply handler may send after a row.
LEMMA RowMessages ==
    ASSUME Typed, ReplyRow
    PROVE  /\ Page("users", work.conn, 3, PageWith(Head(work.rows)), 0, TRUE, NoFlags) \in Message
           /\ Page(work.kind, work.conn, 0, PageWith(Head(work.rows)), PageNo(work.n + 1), FALSE, work.flags) \in Message
  <1> DEFINE page == PageWith(Head(work.rows))
  <1>1. /\ work.kind \in Kinds /\ work.conn \in 0..MaxConn /\ work.flags \in Flags /\ PageNo(work.n + 1) \in 0..PageWrap - 1
        /\ page \in Seq(Shown)
    BY RowShape DEF Typed, Work
  <1>2. Len(page) <= PageSize
    <2>1. Len(page) = Len(work.page) + 1 /\ Len(work.page) + 1 <= PageSize
      BY RowShape
    <2> QED BY <2>1
  <1> HIDE DEF page
  <1>3. /\ "users" \in Kinds \cup {"junk"} /\ 3 \in 0..4 /\ 0 \in 0..PageWrap - 1 /\ TRUE \in BOOLEAN
        /\ work.kind \in Kinds \cup {"junk"} /\ 0 \in 0..4 /\ FALSE \in BOOLEAN
    BY <1>1, SelectAssumption DEF Kinds
  <1> QED BY <1>1, <1>2, <1>3, Blank, PageTyped DEF page

LEMMA TypedRow == ASSUME Typed, ReplyRow PROVE Typed'
  <1> DEFINE a == Head(work.rows)
             page == PageWith(a)
             n == work.n + 1
             f == FlagsAfter(work.kind, n, work.flags, work.record)
  <1>1. /\ work \in Work /\ work.n \in Nat /\ work.rows \in Seq(Accts) /\ work.conn \in 0..MaxConn
        /\ work.flags \in Flags /\ Recorded(work.kind, work.record)
    BY DEF Typed, Work
  <1>2. /\ UNCHANGED <<users, granted, live, conn, session, queue, stmts, client, cut>>
        /\ work.kind \in Kinds /\ page \in Seq(Shown) /\ Len(page) = Len(work.page) + 1
        /\ Len(page) <= PageSize /\ PageNo(n) \in 0..PageWrap - 1 /\ f \in Flags /\ work.rows # <<>>
    BY RowShape
  <1>3. Tail(work.rows) \in Seq(Accts) /\ n \in Nat
    BY <1>1, <1>2, TailOf
  <1> HIDE DEF page, n, f, a
  <1>4. CASE work' = Idle /\ Deliver(Page("users", work.conn, 3, page, 0, TRUE, NoFlags))
    <2>1. Page("users", work.conn, 3, page, 0, TRUE, NoFlags) \in Message
      <3>1. "users" \in Kinds \cup {"junk"} /\ 3 \in 0..4 /\ 0 \in 0..PageWrap - 1 /\ TRUE \in BOOLEAN
        BY SelectAssumption DEF Kinds
      <3> QED BY <1>1, <1>2, <3>1, Blank, PageTyped
    <2>2. wire' \in Seq(Message)
      BY <1>4, <2>1, Delivered DEF Typed
    <2>3. Len(work'.page) = work'.n % PageSize /\ work' \in Work /\ Recorded(work'.kind, work'.record)
      <3>1. 0 % PageSize = 0 /\ 0 \in Nat
        BY NextOnPage
      <3> QED BY <1>4, <3>1, Blank DEF Recorded
    <2> QED BY <1>2, <2>2, <2>3 DEF Typed
  <1>5. CASE /\ Deliver(Page(work.kind, work.conn, 0, page, PageNo(n), FALSE, work.flags))
             /\ work' = [work EXCEPT !.rows = Tail(work.rows), !.n = n, !.page = <<>>, !.flags = f]
             /\ n % PageSize = 0
    <2>1. Page(work.kind, work.conn, 0, page, PageNo(n), FALSE, work.flags) \in Message
      <3>1. work.kind \in Kinds \cup {"junk"} /\ 0 \in 0..4 /\ FALSE \in BOOLEAN
        BY <1>2
      <3> QED BY <1>1, <1>2, <3>1, PageTyped
    <2>2. wire' \in Seq(Message)
      BY <1>5, <2>1, Delivered DEF Typed
    <2> DEFINE none == <<>>
    <2>3. none \in Seq(Shown) /\ Len(none) = 0
      OBVIOUS
    <2>4. work' = [work EXCEPT !.rows = Tail(work.rows), !.n = n, !.page = none, !.flags = f]
      BY <1>5
    <2> HIDE DEF none
    <2>5. work' \in Work /\ work'.page = none /\ work'.n = n /\ work'.kind = work.kind /\ work'.record = work.record
      BY <1>1, <1>2, <1>3, <2>3, <2>4 DEF Work
    <2> QED BY <1>1, <1>2, <1>5, <2>2, <2>3, <2>5 DEF Typed
  <1>6. CASE /\ UNCHANGED wire
             /\ work' = [work EXCEPT !.rows = Tail(work.rows), !.n = n, !.page = page, !.flags = f]
             /\ n % PageSize = Len(work.page) + 1
    <2>1. work' \in Work /\ work'.page = page /\ work'.n = n /\ work'.kind = work.kind /\ work'.record = work.record
      BY <1>1, <1>2, <1>3, <1>6 DEF Work
    <2> QED BY <1>1, <1>2, <1>6, <2>1 DEF Typed
  <1> QED BY <1>4, <1>5, <1>6, RowShape DEF page, n, f, a

\* The last page.
LEMMA EndShape ==
    ASSUME Typed, ReplyEnds
    PROVE  /\ work.kind \in Kinds /\ work.rows = <<>> /\ work' = Idle
           /\ UNCHANGED <<users, granted, live, conn, session, queue, stmts, client, list, cut>>
           /\ Deliver(Page(work.kind, work.conn, 0, work.page, PageNo(work.n), TRUE, work.flags))
           /\ Page(work.kind, work.conn, 0, work.page, PageNo(work.n), TRUE, work.flags) \in Message
           /\ Page(work.kind, work.conn, 0, work.page, PageNo(work.n), TRUE, work.flags) =
                [kind |-> work.kind, conn |-> work.conn, code |-> 0, rows |-> work.page,
                 no |-> PageNo(work.n), last |-> TRUE, flags |-> work.flags]
           /\ Len(work.page) < PageSize
  <1>1. /\ work.kind # "none" /\ work.rows = <<>> /\ work' = Idle
        /\ UNCHANGED <<users, granted, live, conn, session, queue, stmts, client, list, cut>>
        /\ Deliver(Page(work.kind, work.conn, 0, work.page, PageNo(work.n), TRUE, work.flags))
    BY DEF ReplyEnds, LastPage
  <1>2. /\ work.kind \in Kinds /\ work.page \in Seq(Shown)
        /\ work.n \in Nat /\ work.conn \in 0..MaxConn /\ work.flags \in Flags
    BY <1>1 DEF Typed, Work
  <1>3. Len(work.page) \in 0..PageSize - 1 /\ PageSize \in Nat
    BY <1>2, NextOnPage, SelectAssumption DEF Typed
  <1>4. PageNo(work.n) \in 0..PageWrap - 1
    <2> DEFINE d == (IF work.n > 0 THEN work.n - 1 ELSE 0) \div PageSize
    <2>1. (IF work.n > 0 THEN work.n - 1 ELSE 0) \in Nat
      BY <1>2
    <2>2. d \in Int
      BY <2>1, SelectAssumption
    <2>3. PageNo(work.n) = (d + 1) % PageWrap
      BY DEF PageNo
    <2> HIDE DEF d
    <2>4. (d + 1) % PageWrap \in 0..PageWrap - 1
      BY <2>2, SelectAssumption
    <2> QED BY <2>3, <2>4
  <1> DEFINE m == Page(work.kind, work.conn, 0, work.page, PageNo(work.n), TRUE, work.flags)
  <1>5. m \in Message /\ m = [kind |-> work.kind, conn |-> work.conn, code |-> 0, rows |-> work.page,
                 no |-> PageNo(work.n), last |-> TRUE, flags |-> work.flags]
    <2>1. work.kind \in Kinds \cup {"junk"} /\ 0 \in 0..4 /\ TRUE \in BOOLEAN /\ Len(work.page) <= PageSize
      BY <1>2, <1>3
    <2> QED BY <1>2, <1>4, <2>1, PageTyped
  <1>6. Len(work.page) < PageSize
    BY <1>3
  <1> HIDE DEF m
  <1> QED BY <1>1, <1>2, <1>5, <1>6 DEF m

LEMMA TypedEnds == ASSUME Typed, ReplyEnds PROVE Typed'
  <1>1. wire' \in Seq(Message)
    BY EndShape, Delivered DEF Typed
  <1>2. Len(work'.page) = work'.n % PageSize /\ work' \in Work /\ Recorded(work'.kind, work'.record)
    <2>1. 0 % PageSize = 0 /\ 0 \in Nat
      BY NextOnPage
    <2> QED BY <2>1, EndShape, Blank DEF Recorded
  <1> QED BY <1>1, <1>2, EndShape DEF Typed

\* What a client takes, and what it makes of it.
LEMMA TakeShape ==
    ASSUME Typed, RecvThread
    PROVE  /\ Received /\ UNCHANGED <<users, granted, live, conn, session, queue, stmts, work, list>>
           /\ \/ /\ Ours(wire[1]) /\ wire[1].code = 0
                 /\ client' = [client EXCEPT
                       !.shown = client.shown \o wire[1].rows,
                       !.heads = IF Header(wire[1]) THEN client.heads + 1 ELSE client.heads,
                       !.total = IF wire[1].last /\ wire[1].rows # <<>>
                                 THEN (wire[1].no - 1) * PageSize + Len(wire[1].rows) ELSE client.total,
                       !.oper = IF wire[1].last THEN "none" ELSE client.oper,
                       !.end = IF wire[1].last THEN "ok" ELSE client.end]
              \/ /\ wire[1].kind = "login" /\ client.oper = "login"
                 /\ client' = [client EXCEPT !.oper = "none",
                                             !.acct = IF wire[1].code = 0 THEN client.typed ELSE client.acct,
                                             !.may = (wire[1].code = 0 /\ wire[1].may),
                                             !.typed = IF wire[1].code = 0 THEN client.typed ELSE Nobody]
              \/ /\ ~(Ours(wire[1]) /\ wire[1].code = 0) /\ ~(wire[1].kind = "login" /\ client.oper = "login")
                 /\ \/ client' = [client EXCEPT !.oper = "none",
                                     !.end = IF client.oper \in Kinds THEN "failed" ELSE client.end]
                    \/ wire[1].kind = "junk" /\ UNCHANGED client
  <1>1. Received
    BY DEF RecvThread, TakePage, TakeLogin, TakeOther
  <1>2. Head(wire) = wire[1] /\ UNCHANGED <<users, granted, live, conn, session, queue, stmts, work, list>>
    BY <1>1, ReceivedWire DEF Typed, server
  <1>3. CASE TakePage
    BY <1>1, <1>2, <1>3 DEF TakePage
  <1>4. CASE TakeLogin
    BY <1>1, <1>2, <1>4 DEF TakeLogin
  <1>5. CASE TakeOther
    BY <1>1, <1>2, <1>5 DEF TakeOther
  <1> QED BY <1>3, <1>4, <1>5 DEF RecvThread

LEMMA TypedTake == ASSUME Typed, RecvThread PROVE Typed'
  <1> DEFINE m == wire[1]
  <1>1. /\ wire' \in Seq(Message) /\ cut' \in BOOLEAN /\ m \in Message
        /\ UNCHANGED <<users, granted, live, conn, session, queue, stmts, work, list>>
    BY TakeShape, ReceivedWire DEF Typed
  <1>2. client \in Client /\ Nobody \in Maybe /\ client.shown \in Seq(Shown)
    BY DEF Typed, Maybe, Client
  <1>3. client' \in Client
    <2>1. CASE /\ Ours(m) /\ m.code = 0
               /\ client' = [client EXCEPT
                       !.shown = client.shown \o m.rows,
                       !.heads = IF Header(m) THEN client.heads + 1 ELSE client.heads,
                       !.total = IF m.last /\ m.rows # <<>>
                                 THEN (m.no - 1) * PageSize + Len(m.rows) ELSE client.total,
                       !.oper = IF m.last THEN "none" ELSE client.oper,
                       !.end = IF m.last THEN "ok" ELSE client.end]
      <3> DEFINE sh == client.shown \o m.rows
                 he == IF Header(m) THEN client.heads + 1 ELSE client.heads
                 to == IF m.last /\ m.rows # <<>> THEN (m.no - 1) * PageSize + Len(m.rows) ELSE client.total
                 op == IF m.last THEN "none" ELSE client.oper
                 en == IF m.last THEN "ok" ELSE client.end
      <3>1. /\ m.rows \in Seq(Shown) /\ m.no \in 0..PageWrap - 1 /\ m.kind # "login"
        BY <1>1, <2>1, MessageIs, Blank DEF Ours
      <3>2. client.heads \in Nat /\ client.total \in Int /\ client.oper \in Kinds \cup {"none", "login"}
            /\ client.end \in {"none", "ok", "failed"}
        BY <1>2 DEF Client
      <3>3. sh \in Seq(Shown)
        BY <1>2, <3>1
      <3>4. he \in Nat /\ op \in Kinds \cup {"none", "login"} /\ en \in {"none", "ok", "failed"}
        BY <3>2
      <3>5. to \in Int
        BY <3>1, <3>2, SelectAssumption
      <3> HIDE DEF sh, he, to, op, en
      <3>6. client' = [client EXCEPT !.shown = sh, !.heads = he, !.total = to, !.oper = op, !.end = en]
        BY <2>1 DEF sh, he, to, op, en
      <3> QED BY <1>2, <3>3, <3>4, <3>5, <3>6 DEF Client
    <2>2. CASE /\ client' = [client EXCEPT !.oper = "none",
                                           !.acct = IF m.code = 0 THEN client.typed ELSE client.acct,
                                           !.may = (m.code = 0 /\ m.may),
                                           !.typed = IF m.code = 0 THEN client.typed ELSE Nobody]
      <3> DEFINE b == m.code = 0 /\ m.may
                 ac == IF m.code = 0 THEN client.typed ELSE client.acct
                 ty == IF m.code = 0 THEN client.typed ELSE Nobody
      <3>1. b \in BOOLEAN
        OBVIOUS
      <3>2. ac \in Maybe /\ ty \in Maybe
        BY <1>2 DEF Client
      <3> HIDE DEF b, ac, ty
      <3>3. client' = [client EXCEPT !.oper = "none", !.acct = ac, !.may = b, !.typed = ty]
        BY <2>2 DEF b, ac, ty
      <3> QED BY <1>2, <3>1, <3>2, <3>3 DEF Client
    <2>3. CASE client' = [client EXCEPT !.oper = "none",
                                        !.end = IF client.oper \in Kinds THEN "failed" ELSE client.end]
      BY <1>2, <2>3 DEF Client
    <2> QED BY <1>2, <2>1, <2>2, <2>3, TakeShape
  <1> QED BY <1>1, <1>3 DEF Typed

LEMMA TypedEnvironment == ASSUME Typed, Environment PROVE Typed'
  <1>1. CASE Connect
    <2>1. /\ live' = TRUE /\ conn' = conn + 1 /\ conn < MaxConn /\ client' = NewClient
          /\ UNCHANGED <<users, granted, session, queue, stmts, work, wire, cut>>
      BY <1>1 DEF Connect, server
    <2>2. conn' \in 0..MaxConn
      BY <2>1, SelectAssumption DEF Typed
    <2> QED BY <2>1, <2>2, Blank DEF Typed
  <1>2. CASE Disconnect
    <2>1. /\ live' = FALSE /\ session' = Nobody /\ wire' = <<>>
          /\ UNCHANGED <<users, granted, conn, queue, stmts, work, client, cut>>
      BY <1>2 DEF Disconnect
    <2>2. wire' \in Seq(Message)
      BY <2>1
    <2> QED BY <2>1, <2>2 DEF Typed, Maybe
  <1>3. ASSUME NEW a \in Accts, EditAuthority(a) \/ AddUser(a) \/ DeleteUser(a) PROVE Typed'
    <2>1. UNCHANGED <<live, conn, session, queue, stmts, work, wire, client, cut>>
      BY <1>3 DEF EditAuthority, AddUser, DeleteUser, Others, server
    <2>2. granted' \subseteq Accts
      BY <1>3 DEF EditAuthority, AddUser, DeleteUser, Typed
    <2>3. users' \in Seq(Accts) /\ IsInjective(users')
      <3>1. users \in Seq(Accts) /\ IsInjective(users)
        BY DEF Typed
      <3>2. CASE AddUser(a)
        BY <3>1, <3>2, AppendKeepsInjective DEF AddUser
      <3>3. CASE DeleteUser(a)
        BY <3>1, <3>3, RemoveFirstInjective DEF DeleteUser
      <3>4. CASE EditAuthority(a)
        BY <3>1, <3>4 DEF EditAuthority
      <3> QED BY <1>3, <3>2, <3>3, <3>4
    <2> QED BY <2>1, <2>2, <2>3 DEF Typed
  <1> QED BY <1>1, <1>2, <1>3 DEF Environment

LEMMA TypedNext ==
    ASSUME Typed, [Next]_vars PROVE Typed'
  <1>1. CASE Mysql
    <2>1. CASE \E k \in Kinds : SelectReplyBegins(k)
      BY <2>1, TypedBegins
    <2> QED BY <1>1, <2>1, TypedLoginReply, TypedRow, TypedEnds DEF Mysql
  <1>2. CASE UNCHANGED vars
    BY <1>2 DEF vars, server, Typed
  <1> QED BY <1>1, <1>2, TypedRecv, TypedTake, TypedUsers, TypedEnvironment DEF Next

LEMMA TypedInit == Init => Typed
  <1> SUFFICES ASSUME Init PROVE Typed
    OBVIOUS
  <1>1. /\ users \in Seq(Accts) /\ IsInjective(users) /\ granted \subseteq Accts /\ live = FALSE /\ conn = 0
        /\ session = Nobody /\ queue = <<>> /\ stmts = <<>> /\ work = Idle /\ wire = <<>>
        /\ client = NewClient /\ cut = FALSE
    BY SelectAssumption DEF Init
  <1>2. conn \in 0..MaxConn /\ session \in Maybe /\ live \in BOOLEAN /\ cut \in BOOLEAN
    <2>1. conn \in 0..MaxConn /\ session \in Maybe
      BY <1>1, SelectAssumption DEF Maybe
    <2>2. live = FALSE /\ cut = FALSE
      BY <1>1
    <2> QED BY <2>1, <2>2
  <1>3. /\ queue \in Seq(Requests) /\ \A i \in 1..Len(queue) : FromInput(queue[i])
        /\ stmts \in Seq(Statements) /\ wire \in Seq(Message)
        /\ \A i \in 1..Len(stmts) : FromInput(stmts[i].req) /\ Recorded(stmts[i].req.kind, stmts[i].record)
    BY <1>1
  <1>4. work \in Work /\ Len(work.page) = work.n % PageSize /\ Recorded(work.kind, work.record) /\ client \in Client
    <2>1. 0 % PageSize = 0 /\ 0 \in Nat
      BY NextOnPage
    <2> QED BY <1>1, <2>1, Blank DEF Recorded
  <1> QED BY <1>1, <1>2, <1>3, <1>4 DEF Typed

LEMMA TypeOfTyped == Typed => TypeOK
  <1> SUFFICES ASSUME Typed PROVE TypeOK
    OBVIOUS
  <1>1. ASSUME NEW i \in DOMAIN wire, wire[i].kind \in Kinds
        PROVE  /\ Len(wire[i].rows) <= PageSize /\ wire[i].no \in 0..PageWrap - 1
               /\ \A c \in DOMAIN wire[i].flags.cond : wire[i].flags.cond[c] \in 0..255
    <2>1. wire[i] \in Message
      BY DEF Typed
    <2>2. wire[i].flags \in Flags /\ Len(wire[i].rows) <= PageSize /\ wire[i].no \in 0..PageWrap - 1
      BY <1>1, <2>1, MessageIs, Blank
    <2> QED BY <2>2, FlagsAreBytes DEF Flags
  <1>2. Len(work.page) < PageSize
    <2>1. Len(work.page) \in 0..PageSize - 1 /\ PageSize \in Nat
      BY NextOnPage, SelectAssumption DEF Typed, Work
    <2> QED BY <2>1
  <1> QED BY <1>1, <1>2 DEF Typed, TypeOK, Client, Maybe

\* Rows, pages, page numbers and requests stay what they are, for every table of
\* users, every page size and whatever is typed; a byte of what was asked for fits
\* a byte.
THEOREM SelectionsTypeCorrect == Spec => []TypeOK
  <1>1. Spec => []Typed
    BY TypedInit, TypedNext, PTL DEF Spec
  <1> QED BY <1>1, TypeOfTyped, PTL

------------------------------------------------------------------------------
(* Whose requests, results and messages are on their way *)

\* Of this connection if its user is logged in, of one before it otherwise.
ForConn(c) == c <= conn /\ (c = conn <=> client.acct # Nobody)

\* A login is that of this connection, whose user is not logged in yet.
RequestPlaced(r) ==
    /\ r.kind = "login" => r.conn = conn /\ r.acct = client.typed /\ client.acct = Nobody
    /\ r.kind # "login" => ForConn(r.conn)

QueuePlaced ==
    \A i \in 1..Len(queue) :
        RequestPlaced(queue[i]) /\ (queue[i].kind = "login" => i = Len(queue))

\* Nothing is behind a login.
StmtsPlaced ==
    \A i \in 1..Len(stmts) :
        /\ RequestPlaced(stmts[i].req)
        /\ stmts[i].req.kind = "login" => i = Len(stmts) /\ queue = <<>>

WorkPlaced == work.kind # "none" => ForConn(work.conn)

LoginPlaced(i) ==
    /\ i = Len(wire) /\ queue = <<>> /\ stmts = <<>> /\ work.kind = "none"
    /\ wire[i].conn = conn /\ client.acct = Nobody /\ client.typed # Nobody
    /\ wire[i].code = 0 => session = client.typed

WirePlaced ==
    \A i \in 1..Len(wire) :
        /\ wire[i].kind \in Kinds => ForConn(wire[i].conn)
        /\ wire[i].kind = "login" => LoginPlaced(i)

ClientPlaced ==
    /\ client.acct = Nobody => ~client.may /\ client.oper \notin Kinds /\ client.shown = <<>>
    /\ client.acct # Nobody => client.oper # "login" /\ (live => session = client.acct)
    /\ ~live => session = Nobody /\ wire = <<>>

Placed == QueuePlaced /\ StmtsPlaced /\ WorkPlaced /\ WirePlaced /\ ClientPlaced

LEMMA PlacedInit == Init => Placed
  <1> SUFFICES ASSUME Init PROVE Placed
    OBVIOUS
  <1>1. queue = <<>> /\ stmts = <<>> /\ wire = <<>> /\ work.kind = "none" /\ session = Nobody
    BY Blank DEF Init
  <1>2. client.acct = Nobody /\ client.may = FALSE /\ client.oper = "none" /\ client.shown = <<>>
    BY DEF Init, NewClient
  <1> QED BY <1>1, <1>2, Blank DEF Placed, QueuePlaced, StmtsPlaced, WorkPlaced, WirePlaced, ClientPlaced

\* No login is under way when nothing has been typed.
LEMMA NoLogin ==
    ASSUME Typed, Placed, client.typed = Nobody \/ client.acct # Nobody
    PROVE  /\ \A i \in 1..Len(queue) : queue[i].kind # "login"
           /\ \A i \in 1..Len(stmts) : stmts[i].req.kind # "login"
           /\ \A i \in 1..Len(wire) : wire[i].kind # "login"
  <1>1. ASSUME NEW r, FromInput(r), RequestPlaced(r) PROVE r.kind # "login"
    BY <1>1, SelectAssumption DEF FromInput, RequestPlaced
  <1>2. \A i \in 1..Len(queue) : queue[i].kind # "login"
    BY <1>1 DEF Typed, Placed, QueuePlaced
  <1>3. \A i \in 1..Len(stmts) : stmts[i].req.kind # "login"
    BY <1>1 DEF Typed, Placed, StmtsPlaced
  <1>4. \A i \in 1..Len(wire) : wire[i].kind # "login"
    BY DEF Placed, WirePlaced, LoginPlaced
  <1> QED BY <1>2, <1>3, <1>4

LEMMA PlacedUsers ==
    ASSUME Typed, Placed, User PROVE Placed'
  <1>1. /\ UNCHANGED <<live, conn, session, stmts, work, wire>> /\ live /\ client.oper = "none"
        /\ client \in Client /\ queue \in Seq(Requests) /\ conn \in 0..MaxConn
    BY TypedUsers DEF Typed
  <1>2. client.typed = Nobody \/ client.acct # Nobody
    BY TypedUsers DEF Placed, ClientPlaced
  <1>3. /\ \A i \in 1..Len(queue) : queue[i].kind # "login" /\ ForConn(queue[i].conn)
        /\ \A i \in 1..Len(stmts) : stmts[i].req.kind # "login" /\ ForConn(stmts[i].req.conn)
        /\ \A i \in 1..Len(wire) : wire[i].kind # "login" /\ (wire[i].kind \in Kinds => ForConn(wire[i].conn))
        /\ work.kind # "none" => ForConn(work.conn)
    BY <1>2, NoLogin DEF Placed, QueuePlaced, StmtsPlaced, WirePlaced, WorkPlaced, RequestPlaced
  <1>4. ASSUME client'.acct = client.acct, NEW r \in Requests, queue' = Append(queue, r),
               r.kind = "login" => r.conn = conn' /\ r.acct = client'.typed /\ client'.acct = Nobody,
               r.kind # "login" => r.conn <= conn' /\ (r.conn = conn' <=> client'.acct # Nobody)
        PROVE  QueuePlaced' /\ StmtsPlaced' /\ WorkPlaced' /\ WirePlaced'
    <2>1. \A c : ForConn(c) => ForConn(c)'
      BY <1>1, <1>4 DEF ForConn
    <2>2. QueuePlaced'
      <3>1. \A i \in 1..Len(queue') : \/ i \in 1..Len(queue) /\ queue'[i] = queue[i]
                                      \/ i = Len(queue') /\ queue'[i] = r
        BY <1>1, <1>4, AppendCases
      <3> QED BY <1>3, <1>4, <2>1, <3>1 DEF QueuePlaced, RequestPlaced, ForConn
    <2>3. StmtsPlaced'
      BY <1>1, <1>3, <2>1 DEF RequestPlaced, StmtsPlaced
    <2>4. WorkPlaced' /\ WirePlaced'
      BY <1>1, <1>3, <2>1 DEF WorkPlaced, WirePlaced
    <2> QED BY <2>2, <2>3, <2>4
  <1>5. CASE \E a \in Accts :
                    /\ queue' = Append(queue, LoginRequest(a))
                    /\ client.acct = Nobody /\ client.typed = Nobody /\ client.oper = "none"
                    /\ client' = [client EXCEPT !.typed = a, !.oper = "login"]
    <2> PICK a \in Accts :
                    /\ queue' = Append(queue, LoginRequest(a))
                    /\ client.acct = Nobody /\ client.typed = Nobody /\ client.oper = "none"
                    /\ client' = [client EXCEPT !.typed = a, !.oper = "login"]
      BY <1>5
    <2>1. /\ client'.acct = Nobody /\ client'.typed = a /\ client'.oper = "login"
          /\ client'.may = client.may /\ client'.shown = client.shown
      BY <1>1 DEF Client
    <2>2. /\ LoginRequest(a) \in Requests /\ LoginRequest(a).kind = "login"
          /\ LoginRequest(a).conn = conn /\ LoginRequest(a).acct = a
      BY <1>1, LoginTyped
    <2> DEFINE r == LoginRequest(a)
    <2> HIDE DEF r
    <2>3. r.kind = "login" /\ r.conn = conn' /\ r.acct = client'.typed /\ client'.acct = Nobody
      BY <1>1, <2>1, <2>2 DEF r
    <2>4. QueuePlaced' /\ StmtsPlaced' /\ WorkPlaced' /\ WirePlaced'
      <3>1. r \in Requests /\ queue' = Append(queue, r) /\ client'.acct = client.acct
        BY <2>1, <2>2 DEF r
      <3> QED BY <1>4, <2>3, <3>1
    <2>5. ClientPlaced'
      BY <1>1, <2>1, Blank DEF ClientPlaced, Placed
    <2> QED BY <2>4, <2>5 DEF Placed
  <1>6. CASE \E t \in Inputs :
                    /\ Good(t) /\ queue' = Append(queue, Request(t))
                    /\ client.may /\ client.oper = "none"
                    /\ client' = [client EXCEPT !.oper = t.kind, !.asked = FlagsFor(t), !.shown = <<>>,
                                                !.heads = 0, !.total = 0, !.end = "none"]
    <2> PICK t \in Inputs :
                    /\ Good(t) /\ queue' = Append(queue, Request(t))
                    /\ client.may /\ client.oper = "none"
                    /\ client' = [client EXCEPT !.oper = t.kind, !.asked = FlagsFor(t), !.shown = <<>>,
                                                !.heads = 0, !.total = 0, !.end = "none"]
      BY <1>6
    <2>1. /\ client'.acct = client.acct /\ client'.oper = t.kind /\ client'.may = client.may
      BY <1>1 DEF Client
    <2>2. /\ Request(t) \in Requests /\ t.kind \in Kinds /\ Request(t).kind = t.kind /\ Request(t).conn = conn
      BY <1>1, RequestTyped
    <2>3. client.acct # Nobody
      BY DEF Placed, ClientPlaced
    <2> DEFINE r == Request(t)
    <2> HIDE DEF r
    <2>4. QueuePlaced' /\ StmtsPlaced' /\ WorkPlaced' /\ WirePlaced'
      <3>1. r.conn = conn' /\ r.kind # "login" /\ client'.acct # Nobody /\ conn' \in Int
        BY <1>1, <2>1, <2>2, <2>3, Blank DEF r
      <3>2. r.conn <= conn' /\ (r.conn = conn' <=> client'.acct # Nobody)
        BY <3>1
      <3>3. r \in Requests /\ queue' = Append(queue, r) /\ client'.acct = client.acct
        BY <2>1, <2>2 DEF r
      <3> QED BY <1>4, <3>1, <3>2, <3>3
    <2>5. ClientPlaced'
      BY <1>1, <2>1, <2>2, <2>3, Blank DEF ClientPlaced, Placed
    <2> QED BY <2>4, <2>5 DEF Placed
  <1> QED BY <1>5, <1>6, TypedUsers

LEMMA RefusalFor ==
    ASSUME NEW kind \in Kinds, NEW c \in 0..MaxConn, NEW code \in 0..4
    PROVE  /\ Refusal(kind, c, code) \in Message /\ Refusal(kind, c, code).kind = kind
           /\ Refusal(kind, c, code).conn = c
  <1>1. Refusal(kind, c, code) \in Message
    BY RefusalTyped
  <1>2. Refusal(kind, c, code).kind = kind /\ Refusal(kind, c, code).conn = c
    BY DEF Refusal, Page
  <1> QED BY <1>1, <1>2

\* The server's steps leave the client and the connection alone.
LEMMA SameConn ==
    ASSUME UNCHANGED <<conn, client>>
    PROVE  \A c : ForConn(c) <=> c <= conn' /\ (c = conn' <=> client'.acct # Nobody)
  BY DEF ForConn

LEMMA PlacedRecv ==
    ASSUME Typed, Placed, Recv PROVE Placed'
  <1>1. /\ UNCHANGED <<live, conn, session, work, client>>
        /\ queue # <<>> /\ queue \in Seq(Requests) /\ stmts \in Seq(Statements)
    BY RecvShape DEF Typed
  <1>2. /\ Len(queue) \in Nat /\ 1 \in 1..Len(queue) /\ Head(queue) = queue[1] /\ Head(queue) \in Requests
        /\ Len(queue') = Len(queue) - 1
        /\ \A i \in 1..Len(queue') : i + 1 \in 1..Len(queue) /\ queue'[i] = queue[i + 1]
    <2>1. queue' = Tail(queue)
      BY RecvShape
    <2> QED BY <1>1, <2>1, TailOf
  <1>3. RequestPlaced(queue[1]) /\ (queue[1].kind = "login" => queue' = <<>>)
    <2>1. queue[1].kind = "login" => 1 = Len(queue)
      BY <1>2 DEF Placed, QueuePlaced
    <2>2. 1 = Len(queue) => queue' = <<>>
      <3>1. queue' = Tail(queue) /\ Tail(queue) \in Seq(Requests)
        BY <1>1, RecvShape, TailOf
      <3> QED BY <1>2, <3>1
    <2> QED BY <1>2, <2>1, <2>2 DEF Placed, QueuePlaced
  <1>4. QueuePlaced'
    <2>1. \A i \in 1..Len(queue') : RequestPlaced(queue[i + 1]) /\ (queue[i + 1].kind = "login" => i + 1 = Len(queue))
      BY <1>2 DEF Placed, QueuePlaced
    <2>2. ASSUME NEW i \in 1..Len(queue') PROVE queue'[i].kind = "login" => i = Len(queue')
      BY <1>2, <2>1
    <2> QED BY <1>1, <1>2, <2>1, <2>2, SameConn DEF QueuePlaced, RequestPlaced, ForConn
  <1>5. WorkPlaced' /\ (UNCHANGED wire => ClientPlaced')
    BY <1>1 DEF Placed, WorkPlaced, ClientPlaced, ForConn
  <1>6. \A i \in 1..Len(stmts) : RequestPlaced(stmts[i].req) /\ stmts[i].req.kind # "login"
    BY <1>1 DEF Placed, StmtsPlaced
  <1>7. \A i \in 1..Len(wire) : wire[i].kind # "login" /\ (wire[i].kind \in Kinds => ForConn(wire[i].conn))
    BY <1>1 DEF Placed, WirePlaced, LoginPlaced
  <1>8. CASE /\ UNCHANGED wire
             /\ \E st \in Statements : stmts' = Append(stmts, st) /\ st.req = Head(queue)
    <2> PICK st \in Statements : stmts' = Append(stmts, st) /\ st.req = Head(queue)
      BY <1>8
    <2>1. \A i \in 1..Len(stmts') : \/ i \in 1..Len(stmts) /\ stmts'[i] = stmts[i]
                                    \/ i = Len(stmts') /\ stmts'[i] = st
      BY <1>1, AppendCases
    <2>2. RequestPlaced(st.req) /\ (st.req.kind = "login" => queue' = <<>>)
      BY <1>2, <1>3
    <2>3. StmtsPlaced'
      BY <1>1, <1>6, <2>1, <2>2 DEF StmtsPlaced, RequestPlaced, ForConn
    <2>4. WirePlaced'
      BY <1>1, <1>7, <1>8 DEF WirePlaced, ForConn
    <2> QED BY <1>4, <1>5, <1>8, <2>3, <2>4 DEF Placed
  <1>9. CASE /\ UNCHANGED stmts /\ Head(queue).kind = "users"
             /\ Deliver(Refusal("users", Head(queue).conn, 4))
    <2> DEFINE m == Refusal("users", Head(queue).conn, 4)
    <2>1. m \in Message /\ m.kind = "users" /\ m.conn = Head(queue).conn
      <3>1. Head(queue).conn \in 0..MaxConn /\ "users" \in Kinds /\ 4 \in 0..4
        BY <1>2 DEF Requests, Kinds
      <3> DEFINE c == Head(queue).conn
      <3> HIDE DEF c
      <3>2. /\ Refusal("users", c, 4) \in Message /\ Refusal("users", c, 4).kind = "users"
            /\ Refusal("users", c, 4).conn = c
        BY <3>1, RefusalFor DEF c
      <3> QED BY <3>2 DEF c
    <2>2. ForConn(m.conn)
      BY <1>2, <1>3, <1>9, <2>1 DEF RequestPlaced
    <2>3. /\ \A i \in 1..Len(wire') : (i \in 1..Len(wire) /\ wire'[i] = wire[i]) \/ wire'[i] = m
          /\ ~live => wire' = wire
      <3> HIDE DEF m
      <3>1. Deliver(m)
        BY <1>9 DEF m
      <3> QED BY <2>1, <3>1, Delivered DEF Typed
    <2> HIDE DEF m
    <2>4. WirePlaced'
      BY <1>1, <1>7, <2>1, <2>2, <2>3, Blank DEF WirePlaced, ForConn
    <2>5. ClientPlaced'
      BY <1>1, <2>3 DEF ClientPlaced, Placed
    <2>6. StmtsPlaced'
      BY <1>1, <1>6, <1>9 DEF StmtsPlaced, RequestPlaced, ForConn
    <2> QED BY <1>4, <1>5, <2>4, <2>5, <2>6 DEF Placed
  <1> QED BY <1>8, <1>9, RecvShape

LEMMA PlacedLoginReply ==
    ASSUME Typed, Placed, LoginReplyHandle PROVE Placed'
  <1>1. /\ MysqlFront("login") /\ UNCHANGED <<live, conn, queue, work, client>> /\ work.kind = "none"
        /\ stmts # <<>> /\ 1 \in 1..Len(stmts) /\ Head(stmts) = stmts[1] /\ Head(stmts).req.kind = "login"
        /\ Head(stmts).req.acct \in Accts
        /\ Len(stmts') = Len(stmts) - 1 /\ Len(stmts) \in Nat /\ stmts' \in Seq(Statements)
    <2>1. MysqlFront("login")
      BY DEF LoginReplyHandle
    <2> QED BY <2>1, MysqlShape, TypedLoginReply DEF FromInput
  <1>2. /\ RequestPlaced(stmts[1].req) /\ 1 = Len(stmts) /\ queue = <<>>
    BY <1>1 DEF Placed, StmtsPlaced
  <1>3. /\ stmts[1].req.conn = conn /\ stmts[1].req.acct = client.typed /\ client.acct = Nobody
        /\ client.typed \in Accts
    BY <1>1, <1>2 DEF RequestPlaced
  <1>4. stmts' = <<>>
    <2>1. Len(stmts') = 0 /\ stmts' \in Seq(Statements)
      <3>1. 1 = Len(stmts)
        BY <1>2
      <3>2. Len(stmts') = Len(stmts) - 1 /\ stmts' \in Seq(Statements)
        BY <1>1
      <3> QED BY <3>1, <3>2
    <2> QED BY <2>1, EmptySeq
  <1>5. PICK m \in Message :
                 /\ m.kind = "login" /\ m.conn = Head(stmts).req.conn /\ Deliver(m)
                 /\ session' = IF m.code = 0 /\ live THEN Head(stmts).req.acct ELSE session
    BY TypedLoginReply
  <1>6. /\ Len(wire) \in Nat /\ \A i \in 1..Len(wire) : wire[i].kind # "login" /\ (wire[i].kind \in Kinds => ForConn(wire[i].conn))
        /\ \A i \in 1..Len(wire') : \/ i \in 1..Len(wire) /\ wire'[i] = wire[i]
                                    \/ live /\ i = Len(wire') /\ wire'[i] = m
        /\ ~live => wire' = wire
    <2>1. \A i \in 1..Len(wire) : wire[i].kind # "login" /\ (wire[i].kind \in Kinds => ForConn(wire[i].conn))
      BY <1>1 DEF Placed, WirePlaced, LoginPlaced
    <2>2. /\ Len(wire) \in Nat /\ ~live => wire' = wire
          /\ \A i \in 1..Len(wire) : wire'[i] = wire[i]
          /\ \A i \in 1..Len(wire') : i \in 1..Len(wire) \/ (live /\ i = Len(wire') /\ wire'[i] = m)
      BY <1>5, Delivered DEF Typed
    <2> QED BY <2>1, <2>2
  <1>7. ASSUME NEW i \in 1..Len(wire')
        PROVE  /\ wire'[i].kind \in Kinds => ForConn(wire'[i].conn)
               /\ wire'[i].kind = "login" => live /\ i = Len(wire') /\ wire'[i] = m
    BY <1>5, <1>6, <1>7, Blank
  <1>8. WirePlaced'
    <2>1. ASSUME NEW i \in 1..Len(wire'), live, i = Len(wire'), wire'[i] = m PROVE LoginPlaced(i)'
      <3>1. wire'[i].conn = conn' /\ (wire'[i].code = 0 => session' = client'.typed)
        BY <1>1, <1>3, <1>5, <2>1
      <3>2. client'.acct = Nobody /\ client'.typed # Nobody /\ work'.kind = "none" /\ queue' = <<>>
        BY <1>1, <1>2, <1>3, SelectAssumption
      <3> QED BY <1>4, <2>1, <3>1, <3>2 DEF LoginPlaced
    <2> QED BY <1>1, <1>7, <2>1, SameConn DEF WirePlaced, ForConn
  <1>9. ClientPlaced'
    <2>1. ~live => session' = session /\ wire' = wire
      BY <1>5, <1>6
    <2> QED BY <1>1, <1>3, <2>1 DEF ClientPlaced, Placed
  <1>10. QueuePlaced' /\ StmtsPlaced' /\ WorkPlaced'
    <2>1. queue' = <<>> /\ stmts' = <<>> /\ work'.kind = "none"
      BY <1>1, <1>2, <1>4
    <2>2. Len(queue') = 0 /\ Len(stmts') = 0
      BY <2>1
    <2>3. \A i \in 1..0 : FALSE
      OBVIOUS
    <2> QED BY <2>1, <2>2, <2>3 DEF QueuePlaced, StmtsPlaced, WorkPlaced
  <1> QED BY <1>8, <1>9, <1>10 DEF Placed

\* A message more, which is a page for whom it may be for.
LEMMA PlacedPage ==
    ASSUME Typed, Placed, UNCHANGED <<live, conn, session, client>>,
           NEW m \in Message, m.kind \in Kinds, ForConn(m.conn), UNCHANGED wire \/ Deliver(m),
           \A i \in 1..Len(wire) : wire[i].kind # "login"
    PROVE  WirePlaced' /\ ClientPlaced'
  <1>1. /\ \A i \in 1..Len(wire') : (i \in 1..Len(wire) /\ wire'[i] = wire[i]) \/ wire'[i] = m
        /\ ~live => wire' = wire
    <2>1. CASE UNCHANGED wire
      BY <2>1
    <2>2. CASE Deliver(m)
      BY <2>2, Delivered DEF Typed
    <2> QED BY <2>1, <2>2
  <1>2. \A i \in 1..Len(wire) : wire[i].kind \in Kinds => ForConn(wire[i].conn)
    BY DEF Placed, WirePlaced
  <1>3. WirePlaced'
    BY <1>1, <1>2, Blank DEF WirePlaced, ForConn
  <1>4. ClientPlaced'
    BY <1>1 DEF ClientPlaced, Placed
  <1> QED BY <1>3, <1>4

LEMMA PlacedBegins ==
    ASSUME Typed, Placed, NEW kind \in Kinds, SelectReplyBegins(kind) PROVE Placed'
  <1> DEFINE st == Head(stmts)
  <1>1. MysqlFront(kind)
    BY DEF SelectReplyBegins
  <1>2. /\ UNCHANGED <<live, conn, session, queue, client>> /\ work.kind = "none"
        /\ stmts # <<>> /\ 1 \in 1..Len(stmts) /\ st = stmts[1] /\ st.req.kind = kind
        /\ st.req.conn \in 0..MaxConn
        /\ Len(stmts') = Len(stmts) - 1 /\ Len(stmts) \in Nat
        /\ \A i \in 1..Len(stmts') : i + 1 \in 1..Len(stmts) /\ stmts'[i] = stmts[i + 1]
    BY <1>1, MysqlShape, TypedBegins DEF Requests
  <1>3. ForConn(st.req.conn) /\ kind # "login"
    BY <1>2, Blank DEF Placed, StmtsPlaced, RequestPlaced
  <1>4. \A i \in 1..Len(wire) : wire[i].kind # "login"
    BY <1>2 DEF Placed, WirePlaced, LoginPlaced
  <1>5. StmtsPlaced' /\ QueuePlaced'
    <2>1. \A i \in 1..Len(stmts') : /\ RequestPlaced(stmts[i + 1].req)
                                    /\ stmts[i + 1].req.kind = "login" => i + 1 = Len(stmts) /\ queue = <<>>
      BY <1>2 DEF Placed, StmtsPlaced
    <2>2. ASSUME NEW i \in 1..Len(stmts') PROVE stmts'[i].req.kind = "login" => i = Len(stmts') /\ queue' = <<>>
      BY <1>2, <2>1
    <2>3. StmtsPlaced'
      BY <1>2, <2>1, <2>2 DEF StmtsPlaced, RequestPlaced, ForConn
    <2> QED BY <1>2, <2>3 DEF Placed, QueuePlaced, RequestPlaced, ForConn
  <1> HIDE DEF st
  <1>6. CASE UNCHANGED work /\ \E code \in 1..2 : Deliver(Refusal(kind, st.req.conn, code))
    <2> PICK code \in 1..2 : Deliver(Refusal(kind, st.req.conn, code))
      BY <1>6
    <2> DEFINE c == st.req.conn
               m == Refusal(kind, c, code)
    <2>1. c \in 0..MaxConn /\ code \in 0..4 /\ ForConn(c) /\ Deliver(m)
      BY <1>2, <1>3
    <2> HIDE DEF c
    <2>2. m \in Message /\ m.kind = kind /\ m.conn = c
      BY <2>1, RefusalFor
    <2> HIDE DEF m
    <2>3. WirePlaced' /\ ClientPlaced'
      BY <1>2, <1>4, <2>1, <2>2, PlacedPage
    <2> QED BY <1>2, <1>5, <1>6, <2>3 DEF Placed, WorkPlaced
  <1>7. CASE UNCHANGED wire /\ work'.conn = st.req.conn
    <2>1. WorkPlaced'
      BY <1>2, <1>3, <1>7 DEF WorkPlaced, ForConn
    <2>2. WirePlaced'
      BY <1>2, <1>4, <1>7 DEF Placed, WirePlaced, ForConn
    <2>3. ClientPlaced'
      BY <1>2, <1>7 DEF Placed, ClientPlaced
    <2> QED BY <1>5, <2>1, <2>2, <2>3 DEF Placed
  <1>8. ASSUME NEW rows, work' = [Idle EXCEPT !.kind = kind, !.conn = st.req.conn, !.rows = rows, !.record = st.record]
        PROVE work'.conn = st.req.conn
    BY <1>8 DEF Idle
  <1> QED BY <1>6, <1>7, <1>8, TypedBegins DEF st

LEMMA PlacedRow ==
    ASSUME Typed, Placed, ReplyRow \/ ReplyEnds PROVE Placed'
  <1>1. /\ UNCHANGED <<live, conn, session, queue, stmts, client>>
        /\ work.kind \in Kinds /\ work.conn \in 0..MaxConn
    BY RowShape, EndShape DEF Typed, Work
  <1>2. ForConn(work.conn)
    BY <1>1, Blank DEF Placed, WorkPlaced
  <1>3. \A i \in 1..Len(wire) : wire[i].kind # "login"
    BY <1>1, Blank DEF Placed, WirePlaced, LoginPlaced
  <1>4. /\ work'.kind = "none" \/ work'.conn = work.conn
        /\ \/ UNCHANGED wire
           \/ \E m \in Message : m.kind \in Kinds /\ m.conn = work.conn /\ Deliver(m)
    <2>1. CASE ReplyEnds
      <3> DEFINE m == Page(work.kind, work.conn, 0, work.page, PageNo(work.n), TRUE, work.flags)
      <3>1. m \in Message /\ m.kind = work.kind /\ m.conn = work.conn
        <4>1. m.kind = work.kind /\ m.conn = work.conn
          BY DEF Page
        <4> QED BY <2>1, <4>1, EndShape
      <3>2. Deliver(m) /\ work' = Idle
        BY <2>1, EndShape
      <3> HIDE DEF m
      <3> QED BY <1>1, <3>1, <3>2, Blank
    <2>2. CASE ReplyRow
      <3> DEFINE page == PageWith(Head(work.rows))
      <3>1. /\ Page("users", work.conn, 3, page, 0, TRUE, NoFlags) \in Message
            /\ Page(work.kind, work.conn, 0, page, PageNo(work.n + 1), FALSE, work.flags) \in Message
        BY <2>2, RowMessages
      <3> HIDE DEF page
      <3>2. CASE work' = Idle /\ Deliver(Page("users", work.conn, 3, page, 0, TRUE, NoFlags))
        <4> DEFINE m == Page("users", work.conn, 3, page, 0, TRUE, NoFlags)
        <4>1. m \in Message
          BY <3>1
        <4>2. m.kind = "users" /\ m.conn = work.conn /\ "users" \in Kinds
          BY DEF Page, Kinds
        <4> HIDE DEF m
        <4>3. Deliver(m) /\ work'.kind = "none"
          BY <3>2, Blank DEF m
        <4> QED BY <4>1, <4>2, <4>3
      <3>3. CASE Deliver(Page(work.kind, work.conn, 0, page, PageNo(work.n + 1), FALSE, work.flags)) /\ work'.conn = work.conn
        <4> DEFINE m == Page(work.kind, work.conn, 0, page, PageNo(work.n + 1), FALSE, work.flags)
        <4>1. m \in Message
          BY <3>1
        <4>2. m.kind = work.kind /\ m.conn = work.conn
          BY DEF Page
        <4> HIDE DEF m
        <4>3. Deliver(m) /\ work'.conn = work.conn
          BY <3>3 DEF m
        <4> QED BY <1>1, <4>1, <4>2, <4>3
      <3>4. CASE UNCHANGED wire /\ work'.conn = work.conn
        BY <3>4
      <3>5. ASSUME NEW rows, NEW n, NEW pages, NEW f,
                   work' = [work EXCEPT !.rows = rows, !.n = n, !.page = pages, !.flags = f]
            PROVE  work'.conn = work.conn
        BY <3>5 DEF Typed, Work
      <3> DEFINE f == FlagsAfter(work.kind, work.n + 1, work.flags, work.record)
      <3>6. CASE /\ Deliver(Page(work.kind, work.conn, 0, page, PageNo(work.n + 1), FALSE, work.flags))
                 /\ work' = [work EXCEPT !.rows = Tail(work.rows), !.n = work.n + 1, !.page = <<>>, !.flags = f]
        BY <3>3, <3>5, <3>6
      <3>7. CASE /\ UNCHANGED wire
                 /\ work' = [work EXCEPT !.rows = Tail(work.rows), !.n = work.n + 1, !.page = page, !.flags = f]
        BY <3>4, <3>5, <3>7
      <3> QED BY <2>2, <3>2, <3>6, <3>7, RowShape DEF page
    <2> QED BY <2>1, <2>2
  <1>5. WirePlaced' /\ ClientPlaced'
    <2>1. CASE UNCHANGED wire
      BY <1>1, <1>3, <2>1 DEF Placed, WirePlaced, ClientPlaced, ForConn
    <2>2. CASE \E m \in Message : m.kind \in Kinds /\ m.conn = work.conn /\ Deliver(m)
      BY <1>1, <1>2, <1>3, <2>2, PlacedPage
    <2> QED BY <1>4, <2>1, <2>2
  <1>6. WorkPlaced'
    BY <1>1, <1>2, <1>4 DEF WorkPlaced, ForConn
  <1> QED BY <1>1, <1>5, <1>6 DEF Placed, QueuePlaced, StmtsPlaced, RequestPlaced, ForConn

\* The wire after a recv: what was on it, and perhaps junk.
LEMMA WireLeft ==
    ASSUME Typed, Received
    PROVE  \A i \in 1..Len(wire') :
              \/ wire'[i].kind = "junk"
              \/ \E j \in 2..Len(wire) : wire'[i] = wire[j] /\ (j = Len(wire) => i = Len(wire'))
  <1> SUFFICES ASSUME NEW i \in 1..Len(wire'), wire'[i].kind # "junk"
               PROVE  \E j \in 2..Len(wire) : wire'[i] = wire[j] /\ (j = Len(wire) => i = Len(wire'))
    OBVIOUS
  <1> DEFINE d == Len(wire) - Len(wire')
  <1>1. Len(wire) \in Nat /\ Len(wire') \in Nat
    BY ReceivedWire DEF Typed
  <1>2. i + d \in 2..Len(wire) /\ wire'[i] = wire[i + d]
    BY ReceivedWire, JunkTyped DEF Typed
  <1>3. i + d = Len(wire) => i = Len(wire')
    BY <1>1
  <1> HIDE DEF d
  <1> QED BY <1>2, <1>3

LEMMA PlacedTake ==
    ASSUME Typed, Placed, RecvThread PROVE Placed'
  <1> DEFINE m == wire[1]
  <1>1. /\ Received /\ UNCHANGED <<live, conn, session, queue, stmts, work>>
        /\ live /\ 1 \in 1..Len(wire) /\ Len(wire) \in Nat /\ Len(wire') < Len(wire) /\ wire' \in Seq(Message)
    BY TakeShape, ReceivedWire DEF Typed
  <1>2. client \in Client
    BY DEF Typed
  <1>3. \A i \in 1..Len(wire') :
              \/ wire'[i].kind = "junk"
              \/ \E j \in 2..Len(wire) : wire'[i] = wire[j] /\ (j = Len(wire) => i = Len(wire'))
    BY <1>1, WireLeft
  <1>4. ASSUME client'.acct = client.acct, client'.typed = client.typed
        PROVE  QueuePlaced' /\ StmtsPlaced' /\ WorkPlaced' /\ WirePlaced'
    <2>1. QueuePlaced'
      BY <1>1, <1>4 DEF Placed, QueuePlaced, RequestPlaced, ForConn
    <2>2. StmtsPlaced'
      BY <1>1, <1>4 DEF Placed, StmtsPlaced, RequestPlaced, ForConn
    <2>3. WorkPlaced'
      BY <1>1, <1>4 DEF Placed, WorkPlaced, ForConn
    <2>4. WirePlaced'
      <3> SUFFICES ASSUME NEW i \in 1..Len(wire'), wire'[i].kind # "junk"
                   PROVE  /\ wire'[i].kind \in Kinds =>
                                wire'[i].conn <= conn' /\ (wire'[i].conn = conn' <=> client'.acct # Nobody)
                          /\ wire'[i].kind = "login" => LoginPlaced(i)'
        BY Blank DEF WirePlaced, ForConn
      <3>1. PICK j \in 2..Len(wire) : wire'[i] = wire[j] /\ (j = Len(wire) => i = Len(wire'))
        BY <1>3
      <3>2. j \in 1..Len(wire) /\ j # 1
        BY <1>1
      <3>3. wire'[i].kind \in Kinds =>
                wire'[i].conn <= conn' /\ (wire'[i].conn = conn' <=> client'.acct # Nobody)
        BY <1>1, <1>4, <3>1, <3>2 DEF Placed, WirePlaced, ForConn
      <3>4. wire'[i].kind = "login" => LoginPlaced(i)'
        BY <1>1, <1>4, <3>1, <3>2 DEF Placed, WirePlaced, LoginPlaced
      <3> QED BY <3>3, <3>4
    <2> QED BY <2>1, <2>2, <2>3, <2>4
  <1> DEFINE sh == client.shown \o m.rows
             he == IF Header(m) THEN client.heads + 1 ELSE client.heads
             to == IF m.last /\ m.rows # <<>> THEN (m.no - 1) * PageSize + Len(m.rows) ELSE client.total
             op == IF m.last THEN "none" ELSE client.oper
             en == IF m.last THEN "ok" ELSE client.end
             failed == IF client.oper \in Kinds THEN "failed" ELSE client.end
  <1>8. \/ /\ Ours(m) /\ m.code = 0
           /\ client' = [client EXCEPT !.shown = sh, !.heads = he, !.total = to, !.oper = op, !.end = en]
        \/ /\ m.kind = "login" /\ client.oper = "login"
           /\ client' = [client EXCEPT !.oper = "none",
                                       !.acct = IF m.code = 0 THEN client.typed ELSE client.acct,
                                       !.may = (m.code = 0 /\ m.may),
                                       !.typed = IF m.code = 0 THEN client.typed ELSE Nobody]
        \/ client' = [client EXCEPT !.oper = "none", !.end = failed]
        \/ UNCHANGED client
    BY TakeShape
  <1>9. op \in {"none", client.oper}
    OBVIOUS
  <1> HIDE DEF sh, he, to, op, en, failed
  <1>5. CASE /\ Ours(m) /\ m.code = 0
             /\ client' = [client EXCEPT !.shown = sh, !.heads = he, !.total = to, !.oper = op, !.end = en]
    <2>1. /\ client'.acct = client.acct /\ client'.typed = client.typed /\ client'.may = client.may
          /\ client'.oper \in {"none", client.oper}
      BY <1>2, <1>5, <1>9 DEF Client
    <2>2. client.acct # Nobody
      BY <1>5 DEF Ours, Placed, ClientPlaced
    <2>3. ClientPlaced'
      BY <1>1, <2>1, <2>2, Blank DEF Placed, ClientPlaced
    <2> QED BY <1>4, <2>1, <2>3 DEF Placed
  <1>6. CASE client' = [client EXCEPT !.oper = "none", !.end = failed] \/ UNCHANGED client
    <2>1. /\ client'.acct = client.acct /\ client'.typed = client.typed /\ client'.may = client.may
          /\ client'.oper \in {"none", client.oper} /\ client'.shown = client.shown
      BY <1>2, <1>6 DEF Client
    <2>2. ClientPlaced'
      BY <1>1, <2>1, Blank DEF Placed, ClientPlaced
    <2> QED BY <1>4, <2>1, <2>2 DEF Placed
  <1>7. CASE /\ m.kind = "login" /\ client.oper = "login"
             /\ client' = [client EXCEPT !.oper = "none",
                                         !.acct = IF m.code = 0 THEN client.typed ELSE client.acct,
                                         !.may = (m.code = 0 /\ m.may),
                                         !.typed = IF m.code = 0 THEN client.typed ELSE Nobody]
    <2>1. LoginPlaced(1)
      BY <1>1, <1>7 DEF Placed, WirePlaced
    <2>2. /\ 1 = Len(wire) /\ queue = <<>> /\ stmts = <<>> /\ work.kind = "none"
          /\ client.acct = Nobody /\ client.typed # Nobody /\ (m.code = 0 => session = client.typed)
      BY <2>1 DEF LoginPlaced
    <2>3. queue' = <<>> /\ stmts' = <<>> /\ work'.kind = "none" /\ wire' = <<>>
      <3>1. 1 = Len(wire)
        BY <2>2
      <3>2. Len(wire') = 0
        <4> DEFINE n == Len(wire')
                   l == Len(wire)
        <4>1. n < l /\ n \in Nat /\ l \in Nat /\ 1 = l
          BY <1>1, <3>1
        <4> HIDE DEF n, l
        <4>2. n = 0
          BY <4>1
        <4> QED BY <4>2 DEF n
      <3>3. wire' = <<>>
        BY <1>1, <3>2, EmptySeq
      <3> QED BY <1>1, <2>2, <3>3
    <2>4. QueuePlaced' /\ StmtsPlaced' /\ WorkPlaced' /\ WirePlaced'
      <3>1. Len(queue') = 0 /\ Len(stmts') = 0 /\ Len(wire') = 0
        BY <2>3
      <3>2. \A i \in 1..0 : FALSE
        OBVIOUS
      <3> QED BY <2>3, <3>1, <3>2 DEF QueuePlaced, StmtsPlaced, WorkPlaced, WirePlaced
    <2>5. ClientPlaced'
      <3>1. /\ client'.oper = "none" /\ client'.shown = client.shown
            /\ client'.acct = IF m.code = 0 THEN client.typed ELSE client.acct
        BY <1>2, <1>7 DEF Client
      <3>2. client'.may = (m.code = 0 /\ m.may)
        BY <1>2, <1>7 DEF Client
      <3>3. CASE m.code = 0
        BY <1>1, <2>2, <3>1, <3>3, Blank DEF ClientPlaced
      <3>4. CASE m.code # 0
        <4>1. ~client'.may
          BY <3>2, <3>4
        <4> QED BY <1>1, <2>2, <3>1, <3>4, <4>1, Blank DEF ClientPlaced, Placed
      <3> QED BY <3>3, <3>4
    <2> QED BY <2>4, <2>5 DEF Placed
  <1> QED BY <1>5, <1>6, <1>7, <1>8

LEMMA PlacedEnvironment == ASSUME Typed, Placed, Environment PROVE Placed'
  <1>1. CASE Connect
    <2>1. /\ ~live /\ live' = TRUE /\ conn' = conn + 1 /\ client' = NewClient
          /\ UNCHANGED <<session, queue, stmts, work, wire>>
          /\ \A i \in DOMAIN queue : queue[i].kind # "login"
          /\ \A i \in DOMAIN stmts : stmts[i].req.kind # "login"
      BY <1>1 DEF Connect, server
    <2>2. /\ client'.acct = Nobody /\ client'.may = FALSE /\ client'.oper = "none" /\ client'.shown = <<>>
          /\ wire = <<>>
      BY <2>1 DEF NewClient, Placed, ClientPlaced
    <2>3. conn \in Int /\ queue \in Seq(Requests) /\ stmts \in Seq(Statements) /\ work \in Work
      BY SelectAssumption DEF Typed
    <2>4. \A c : ForConn(c) /\ c \in Int => c <= conn' /\ (c = conn' <=> client'.acct # Nobody)
      BY <2>1, <2>2, <2>3 DEF ForConn
    <2>5. QueuePlaced'
      <3>1. \A i \in 1..Len(queue) : queue[i].kind # "login" /\ ForConn(queue[i].conn) /\ queue[i].conn \in Int
        <4>1. \A i \in 1..Len(queue) : queue[i].conn \in Int
          <5> SUFFICES ASSUME NEW i \in 1..Len(queue) PROVE queue[i].conn \in Int
            OBVIOUS
          <5>1. queue[i] \in Requests
            BY <2>3
          <5>2. queue[i].conn \in 0..MaxConn
            BY <5>1 DEF Requests
          <5> QED BY <5>2, SelectAssumption
        <4> QED BY <2>1, <2>3, <4>1 DEF Placed, QueuePlaced, RequestPlaced
      <3> QED BY <2>1, <2>4, <3>1 DEF QueuePlaced, RequestPlaced, ForConn
    <2>6. StmtsPlaced'
      <3>1. \A i \in 1..Len(stmts) : stmts[i].req.kind # "login" /\ ForConn(stmts[i].req.conn) /\ stmts[i].req.conn \in Int
        <4>1. \A i \in 1..Len(stmts) : stmts[i].req.conn \in Int
          <5> SUFFICES ASSUME NEW i \in 1..Len(stmts) PROVE stmts[i].req.conn \in Int
            OBVIOUS
          <5>1. stmts[i] \in Statements
            BY <2>3
          <5>2. stmts[i].req \in Requests
            BY <5>1 DEF Statements
          <5>3. stmts[i].req.conn \in 0..MaxConn
            BY <5>2 DEF Requests
          <5> QED BY <5>3, SelectAssumption
        <4> QED BY <2>1, <2>3, <4>1 DEF Placed, StmtsPlaced, RequestPlaced
      <3> QED BY <2>1, <2>4, <3>1 DEF StmtsPlaced, RequestPlaced, ForConn
    <2>7. WorkPlaced'
      <3>1. work.conn \in Int
        BY <2>3, SelectAssumption DEF Work
      <3> QED BY <2>1, <2>4, <3>1 DEF Placed, WorkPlaced, ForConn
    <2>8. WirePlaced'
      BY <2>1, <2>2 DEF WirePlaced
    <2>9. ClientPlaced'
      BY <2>1, <2>2, Blank DEF ClientPlaced
    <2> QED BY <2>5, <2>6, <2>7, <2>8, <2>9 DEF Placed
  <1>2. CASE Disconnect
    <2>1. /\ live' = FALSE /\ session' = Nobody /\ wire' = <<>>
          /\ UNCHANGED <<conn, queue, stmts, work, client>>
      BY <1>2 DEF Disconnect
    <2>2. WirePlaced' /\ ClientPlaced'
      BY <2>1 DEF WirePlaced, ClientPlaced, Placed
    <2> QED BY <2>1, <2>2 DEF Placed, QueuePlaced, StmtsPlaced, WorkPlaced, RequestPlaced, ForConn
  <1>3. ASSUME NEW a \in Accts, EditAuthority(a) \/ AddUser(a) \/ DeleteUser(a) PROVE Placed'
    <2>1. UNCHANGED <<live, conn, session, queue, stmts, work, wire, client>>
      BY <1>3 DEF EditAuthority, AddUser, DeleteUser, Others, server
    <2> QED BY <2>1 DEF Placed, QueuePlaced, StmtsPlaced, WorkPlaced, WirePlaced, ClientPlaced, RequestPlaced,
                        ForConn, LoginPlaced
  <1> QED BY <1>1, <1>2, <1>3 DEF Environment

LEMMA PlacedNext ==
    ASSUME Typed, Placed, [Next]_vars PROVE Placed'
  <1>1. CASE UNCHANGED vars
    BY <1>1 DEF vars, server, Placed, QueuePlaced, StmtsPlaced, WorkPlaced, WirePlaced, ClientPlaced, RequestPlaced,
                ForConn, LoginPlaced
  <1>2. CASE Mysql
    BY <1>2, PlacedLoginReply, PlacedBegins, PlacedRow DEF Mysql
  <1> QED BY <1>1, <1>2, PlacedRecv, PlacedTake, PlacedUsers, PlacedEnvironment DEF Next

------------------------------------------------------------------------------
(* Whose rows they are *)

\* The rows of a message or of a page are of one connection, and those of this
\* connection are what its user may see.
RowOwn(kind, c, row) ==
    /\ row.conn = c
    /\ c = conn => /\ row.pwd => Identity[client.acct] = 3 /\ Identity[row.acct] < 3
                   /\ kind = "users" => row.acct \in Scope(client.acct)

RowsOwn(kind, c, rows) == \A i \in 1..Len(rows) : RowOwn(kind, c, rows[i])

Owned ==
    /\ \A i \in 1..Len(stmts) :
          stmts[i].req.kind = "users" /\ stmts[i].req.conn = conn => stmts[i].scope = Scope(client.acct)
    /\ work.kind = "users" /\ work.conn = conn =>
          \A i \in 1..Len(work.rows) : work.rows[i] \in Scope(client.acct)
    /\ RowsOwn(work.kind, work.conn, work.page) /\ (work.kind = "none" => work.page = <<>>)
    /\ \A i \in 1..Len(wire) :
          wire[i].kind \in Kinds => RowsOwn(wire[i].kind, wire[i].conn, wire[i].rows)
    /\ RowsOwn(client.oper, conn, client.shown)

LEMMA OwnedInit == Init => Owned
  <1> SUFFICES ASSUME Init PROVE Owned
    OBVIOUS
  <1>1. stmts = <<>> /\ wire = <<>> /\ work.kind = "none" /\ work.page = <<>> /\ client.shown = <<>>
    BY Blank DEF Init, NewClient
  <1>2. RowsOwn(work.kind, work.conn, work.page) /\ RowsOwn(client.oper, conn, client.shown)
    BY <1>1 DEF RowsOwn
  <1> QED BY <1>1, <1>2 DEF Owned

\* A result in work, as it should be.
WorkOwned(w) ==
    /\ w.kind = "users" /\ w.conn = conn => \A i \in 1..Len(w.rows) : w.rows[i] \in Scope(client.acct)
    /\ RowsOwn(w.kind, w.conn, w.page) /\ (w.kind = "none" => w.page = <<>>)

\* What the steps of the server, which leave the client and the number of its
\* connection alone, keep.
LEMMA OwnedServer ==
    ASSUME Typed, Owned, UNCHANGED <<conn, client>>,
           \/ UNCHANGED stmts \/ (stmts # <<>> /\ stmts' = Tail(stmts))
           \/ \E st \in Statements :
                 /\ stmts' = Append(stmts, st)
                 /\ st.req.kind = "users" /\ st.req.conn = conn => st.scope = Scope(client.acct),
           UNCHANGED work \/ WorkOwned(work'),
           \/ UNCHANGED wire
           \/ \E m \in Message : Deliver(m) /\ (m.kind \in Kinds => RowsOwn(m.kind, m.conn, m.rows))
    PROVE  Owned'
  <1>1. \A i \in 1..Len(stmts') :
          stmts'[i].req.kind = "users" /\ stmts'[i].req.conn = conn => stmts'[i].scope = Scope(client.acct)
    <2>1. CASE UNCHANGED stmts
      BY <2>1 DEF Owned
    <2>2. CASE stmts # <<>> /\ stmts' = Tail(stmts)
      <3>1. \A i \in 1..Len(stmts') : i + 1 \in 1..Len(stmts) /\ stmts'[i] = stmts[i + 1]
        BY <2>2, TailOf DEF Typed
      <3> QED BY <3>1 DEF Owned
    <2>3. CASE \E st \in Statements :
                 /\ stmts' = Append(stmts, st)
                 /\ st.req.kind = "users" /\ st.req.conn = conn => st.scope = Scope(client.acct)
      <3> PICK st \in Statements :
                 /\ stmts' = Append(stmts, st)
                 /\ st.req.kind = "users" /\ st.req.conn = conn => st.scope = Scope(client.acct)
        BY <2>3
      <3>1. \A i \in 1..Len(stmts') : \/ i \in 1..Len(stmts) /\ stmts'[i] = stmts[i]
                                      \/ i = Len(stmts') /\ stmts'[i] = st
        BY AppendCases DEF Typed
      <3> QED BY <3>1 DEF Owned
    <2> QED BY <2>1, <2>2, <2>3
  <1>2. WorkOwned(work')
    BY DEF Owned, WorkOwned
  <1>3. \A i \in 1..Len(wire') :
          wire'[i].kind \in Kinds => RowsOwn(wire'[i].kind, wire'[i].conn, wire'[i].rows)
    <2>1. CASE UNCHANGED wire
      BY <2>1 DEF Owned
    <2>2. CASE \E m \in Message : Deliver(m) /\ (m.kind \in Kinds => RowsOwn(m.kind, m.conn, m.rows))
      <3> PICK m \in Message : Deliver(m) /\ (m.kind \in Kinds => RowsOwn(m.kind, m.conn, m.rows))
        BY <2>2
      <3>1. \A i \in 1..Len(wire') : (i \in 1..Len(wire) /\ wire'[i] = wire[i]) \/ wire'[i] = m
        BY Delivered DEF Typed
      <3> QED BY <3>1 DEF Owned
    <2> QED BY <2>1, <2>2
  <1> QED BY <1>1, <1>2, <1>3 DEF Owned, WorkOwned, RowsOwn, RowOwn

LEMMA NoRows == \A kind, c : RowsOwn(kind, c, <<>>)
  BY DEF RowsOwn

LEMMA IdleOwned == WorkOwned(Idle)
  BY Blank, NoRows DEF WorkOwned, Kinds

LEMMA OwnedRecv ==
    ASSUME Typed, Placed, Owned, Recv PROVE Owned'
  <1>1. /\ UNCHANGED <<conn, client, work>> /\ queue # <<>> /\ Head(queue) \in Requests
        /\ RequestPlaced(Head(queue))
    <2>1. queue # <<>> /\ UNCHANGED <<conn, client, work>>
      BY RecvShape
    <2>2. Head(queue) = queue[1] /\ 1 \in 1..Len(queue) /\ Head(queue) \in Requests
      BY <2>1, TailOf DEF Typed
    <2> QED BY <2>1, <2>2 DEF Placed, QueuePlaced
  <1>2. CASE /\ UNCHANGED wire
             /\ \E st \in Statements :
                   /\ stmts' = Append(stmts, st) /\ st.req = Head(queue)
                   /\ st.req.kind = "users" => session # Nobody /\ st.scope = Scope(session)
    <2> PICK st \in Statements :
                   /\ stmts' = Append(stmts, st) /\ st.req = Head(queue)
                   /\ st.req.kind = "users" => session # Nobody /\ st.scope = Scope(session)
      BY <1>2
    <2>1. st.req.kind = "users" /\ st.req.conn = conn => st.scope = Scope(client.acct)
      <3> SUFFICES ASSUME st.req.kind = "users", st.req.conn = conn PROVE session = client.acct
        OBVIOUS
      <3>1. client.acct # Nobody
        BY <1>1 DEF RequestPlaced, ForConn
      <3> QED BY <3>1 DEF Placed, ClientPlaced
    <2> QED BY <1>1, <1>2, <2>1, OwnedServer
  <1>3. CASE UNCHANGED stmts /\ Deliver(Refusal("users", Head(queue).conn, 4))
    <2> DEFINE c == Head(queue).conn
               m == Refusal("users", c, 4)
    <2>1. c \in 0..MaxConn /\ "users" \in Kinds /\ 4 \in 0..4 /\ Deliver(m)
      BY <1>1, <1>3 DEF Requests, Kinds
    <2>2. RowsOwn(m.kind, m.conn, m.rows)
      BY NoRows DEF Refusal, Page
    <2> HIDE DEF c
    <2>3. m \in Message
      BY <2>1, RefusalFor
    <2> HIDE DEF m
    <2> QED BY <1>1, <1>3, <2>1, <2>2, <2>3, OwnedServer
  <1> QED BY <1>2, <1>3, RecvShape

LEMMA OwnedLoginReply ==
    ASSUME Typed, Owned, LoginReplyHandle PROVE Owned'
  <1>1. MysqlFront("login")
    BY DEF LoginReplyHandle
  <1>2. stmts # <<>> /\ stmts' = Tail(stmts) /\ UNCHANGED <<conn, client, work>>
    BY <1>1, MysqlShape, TypedLoginReply
  <1>3. \E m \in Message : Deliver(m) /\ m.kind = "login"
    BY TypedLoginReply
  <1> QED BY <1>2, <1>3, Blank, OwnedServer

LEMMA OwnedBegins ==
    ASSUME Typed, Owned, NEW kind \in Kinds, SelectReplyBegins(kind) PROVE Owned'
  <1> DEFINE st == Head(stmts)
  <1>1. MysqlFront(kind)
    BY DEF SelectReplyBegins
  <1>2. /\ UNCHANGED <<conn, client>> /\ stmts # <<>> /\ stmts' = Tail(stmts)
        /\ 1 \in 1..Len(stmts) /\ st = stmts[1] /\ st.req.kind = kind /\ st.req.conn \in 0..MaxConn
    BY <1>1, MysqlShape, TypedBegins DEF Requests
  <1>3. st.req.kind = "users" /\ st.req.conn = conn => st.scope = Scope(client.acct)
    BY <1>2 DEF Owned
  <1>4. CASE UNCHANGED work /\ \E code \in 1..2 : Deliver(Refusal(kind, st.req.conn, code))
    <2> PICK code \in 1..2 : Deliver(Refusal(kind, st.req.conn, code))
      BY <1>4
    <2> DEFINE c == st.req.conn
               m == Refusal(kind, c, code)
    <2>1. c \in 0..MaxConn /\ code \in 0..4 /\ Deliver(m)
      BY <1>2
    <2>2. RowsOwn(m.kind, m.conn, m.rows)
      BY NoRows DEF Refusal, Page
    <2> HIDE DEF c
    <2>3. m \in Message
      BY <2>1, RefusalFor
    <2> HIDE DEF m, st
    <2> QED BY <1>2, <1>4, <2>1, <2>2, <2>3, OwnedServer
  <1>5. CASE UNCHANGED wire /\ \E rows \in Results(st) :
                work' = [Idle EXCEPT !.kind = kind, !.conn = st.req.conn, !.rows = rows, !.record = st.record]
    <2> PICK rows \in Results(st) :
                work' = [Idle EXCEPT !.kind = kind, !.conn = st.req.conn, !.rows = rows, !.record = st.record]
      BY <1>5
    <2>1. work'.kind = kind /\ work'.conn = st.req.conn /\ work'.rows = rows /\ work'.page = <<>>
      BY DEF Idle
    <2>2. \A i \in 1..Len(rows) : rows[i] \in st.scope
      BY ResultsAre DEF Selected
    <2>3. WorkOwned(work')
      BY <1>2, <1>3, <2>1, <2>2, NoRows, Blank DEF WorkOwned
    <2> HIDE DEF st
    <2> QED BY <1>2, <1>5, <2>3, OwnedServer
  <1> HIDE DEF st
  <1> QED BY <1>4, <1>5, TypedBegins DEF st

\* The row that a reply handler writes.
LEMMA RowIsOwn ==
    ASSUME Typed, Placed, Owned, work.kind \in Kinds, work.rows # <<>>
    PROVE  RowsOwn(work.kind, work.conn, PageWith(Head(work.rows)))
  <1> DEFINE a == Head(work.rows)
             row == Row(work.kind, a)
  <1>1. /\ work \in Work /\ work.rows \in Seq(Accts) /\ work.page \in Seq(Shown) /\ work.conn \in 0..MaxConn
        /\ a = work.rows[1] /\ 1 \in 1..Len(work.rows) /\ a \in Accts
    BY TailOf DEF Typed, Work
  <1>2. row.acct = a /\ row.conn = work.conn
    BY DEF Row
  <1>3. row.pwd => Ident(session) = 3 /\ Identity[a] < 3
    BY DEF Row
  <1>4. row \in Shown
    <2> DEFINE p == work.kind = "users" /\ Ident(session) = 3 /\ Identity[a] < 3
    <2>1. p \in BOOLEAN
      OBVIOUS
    <2>2. row = [acct |-> a, conn |-> work.conn, pwd |-> p]
      BY DEF Row
    <2> HIDE DEF p, a, row
    <2> QED BY <1>1, <2>1, <2>2 DEF Shown
  <1>5. ASSUME work.conn = conn PROVE Ident(session) = 3 => Identity[client.acct] = 3
    <2>1. client.acct # Nobody
      BY <1>5, Blank DEF Placed, WorkPlaced, ForConn
    <2>2. CASE live
      <3>1. session = client.acct
        BY <2>1, <2>2 DEF Placed, ClientPlaced
      <3> QED BY <2>1, <3>1 DEF Ident
    <2>3. CASE ~live
      BY <2>3 DEF Placed, ClientPlaced, Ident
    <2> QED BY <2>2, <2>3 DEF Typed
  <1>6. work.conn = conn /\ work.kind = "users" => a \in Scope(client.acct)
    BY <1>1 DEF Owned
  <1>7. RowOwn(work.kind, work.conn, row)
    <2> HIDE DEF row, a
    <2> QED BY <1>2, <1>3, <1>5, <1>6 DEF RowOwn
  <1> HIDE DEF row, a
  <1>8. \A i \in 1..Len(PageWith(a)) : \/ i \in 1..Len(work.page) /\ PageWith(a)[i] = work.page[i]
                                       \/ PageWith(a)[i] = row
    <2>1. PageWith(a) = Append(work.page, row)
      BY DEF PageWith, row
    <2> QED BY <1>1, <1>4, <2>1, AppendCases
  <1>9. RowsOwn(work.kind, work.conn, PageWith(a))
    BY <1>7, <1>8 DEF Owned, RowsOwn
  <1> QED BY <1>9 DEF a

LEMMA OwnedRow ==
    ASSUME Typed, Placed, Owned, ReplyRow PROVE Owned'
  <1> DEFINE page == PageWith(Head(work.rows))
             f == FlagsAfter(work.kind, work.n + 1, work.flags, work.record)
  <1>1. /\ UNCHANGED <<conn, client, stmts>> /\ work.kind \in Kinds /\ work.rows # <<>>
        /\ work \in Work /\ work.conn \in 0..MaxConn /\ work.flags \in Flags /\ work.rows \in Seq(Accts)
    BY RowShape DEF Typed, Work
  <1>2. RowsOwn(work.kind, work.conn, page)
    BY <1>1, RowIsOwn
  <1>3. ASSUME NEW pages, RowsOwn(work.kind, work.conn, pages),
               work' = [work EXCEPT !.rows = Tail(work.rows), !.n = work.n + 1, !.page = pages, !.flags = f]
        PROVE  WorkOwned(work')
    <2>1. /\ work'.kind = work.kind /\ work'.conn = work.conn /\ work'.rows = Tail(work.rows)
          /\ work'.page = pages
      <3> HIDE DEF f
      <3> QED BY <1>1, <1>3 DEF Work
    <2>2. \A i \in 1..Len(Tail(work.rows)) : i + 1 \in 1..Len(work.rows) /\ Tail(work.rows)[i] = work.rows[i + 1]
      BY <1>1, TailOf
    <2> QED BY <1>1, <1>3, <2>1, <2>2, Blank DEF Owned, WorkOwned
  <1> HIDE DEF page, f
  <1>4. CASE /\ work.kind = "users" /\ work' = Idle
             /\ Deliver(Page("users", work.conn, 3, page, 0, TRUE, NoFlags))
    <2> DEFINE m == Page("users", work.conn, 3, page, 0, TRUE, NoFlags)
    <2>1. m \in Message
      BY RowMessages DEF page
    <2>2. RowsOwn(m.kind, m.conn, m.rows)
      BY <1>2, <1>4 DEF Page
    <2> HIDE DEF m
    <2>3. Deliver(m)
      BY <1>4 DEF m
    <2> QED BY <1>1, <1>4, <2>1, <2>2, <2>3, IdleOwned, OwnedServer
  <1>5. CASE /\ Deliver(Page(work.kind, work.conn, 0, page, PageNo(work.n + 1), FALSE, work.flags))
             /\ work' = [work EXCEPT !.rows = Tail(work.rows), !.n = work.n + 1, !.page = <<>>, !.flags = f]
    <2> DEFINE m == Page(work.kind, work.conn, 0, page, PageNo(work.n + 1), FALSE, work.flags)
    <2>1. m \in Message
      BY RowMessages DEF page
    <2>2. RowsOwn(m.kind, m.conn, m.rows)
      BY <1>2 DEF Page
    <2> HIDE DEF m
    <2>3. Deliver(m)
      BY <1>5 DEF m
    <2>4. WorkOwned(work')
      BY <1>3, <1>5, NoRows
    <2> QED BY <1>1, <2>1, <2>2, <2>3, <2>4, OwnedServer
  <1>6. CASE /\ UNCHANGED wire
             /\ work' = [work EXCEPT !.rows = Tail(work.rows), !.n = work.n + 1, !.page = page, !.flags = f]
    <2>1. WorkOwned(work')
      BY <1>2, <1>3, <1>6
    <2> QED BY <1>1, <1>6, <2>1, OwnedServer
  <1> QED BY <1>4, <1>5, <1>6, RowShape DEF page, f

LEMMA OwnedEnds ==
    ASSUME Typed, Owned, ReplyEnds PROVE Owned'
  <1> DEFINE m == Page(work.kind, work.conn, 0, work.page, PageNo(work.n), TRUE, work.flags)
  <1>1. UNCHANGED <<conn, client, stmts>> /\ work' = Idle /\ Deliver(m) /\ m \in Message
    BY EndShape
  <1>2. RowsOwn(m.kind, m.conn, m.rows)
    BY DEF Owned, Page
  <1> HIDE DEF m
  <1> QED BY <1>1, <1>2, IdleOwned, OwnedServer

LEMMA OwnedUsers ==
    ASSUME Typed, Owned, User PROVE Owned'
  <1>1. UNCHANGED <<conn, stmts, work, wire>> /\ client \in Client
    BY TypedUsers DEF Typed
  <1>2. /\ client'.acct = client.acct
        /\ \/ client'.shown = <<>>
           \/ client'.shown = client.shown /\ client'.oper = "login"
    <2>1. ASSUME NEW a, client' = [client EXCEPT !.typed = a, !.oper = "login"]
          PROVE  client'.acct = client.acct /\ client'.shown = client.shown /\ client'.oper = "login"
      BY <1>1, <2>1 DEF Client
    <2>2. ASSUME NEW t, client' = [client EXCEPT !.oper = t.kind, !.asked = FlagsFor(t), !.shown = <<>>,
                                                !.heads = 0, !.total = 0, !.end = "none"]
          PROVE  client'.acct = client.acct /\ client'.shown = <<>>
      BY <1>1, <2>2 DEF Client
    <2> QED BY <2>1, <2>2, TypedUsers
  <1>3. \A kind, c, row : RowOwn(kind, c, row) => RowOwn(kind, c, row)'
    BY <1>1, <1>2 DEF RowOwn
  <1>4. \A kind, c, rows : RowsOwn(kind, c, rows) => RowsOwn(kind, c, rows)'
    BY <1>3 DEF RowsOwn
  <1>5. RowsOwn(client.oper, conn, client.shown)'
    <2>1. CASE client'.shown = <<>>
      BY <2>1 DEF RowsOwn
    <2>2. CASE client'.shown = client.shown /\ client'.oper = "login"
      BY <1>1, <1>2, <2>2 DEF RowsOwn, RowOwn, Owned
    <2> QED BY <1>2, <2>1, <2>2
  <1> QED BY <1>1, <1>2, <1>5 DEF Owned, RowsOwn, RowOwn

LEMMA OwnedTake ==
    ASSUME Typed, Placed, Owned, RecvThread PROVE Owned'
  <1> DEFINE m == wire[1]
             sh == client.shown \o m.rows
             he == IF Header(m) THEN client.heads + 1 ELSE client.heads
             to == IF m.last /\ m.rows # <<>> THEN (m.no - 1) * PageSize + Len(m.rows) ELSE client.total
             op == IF m.last THEN "none" ELSE client.oper
             en == IF m.last THEN "ok" ELSE client.end
             failed == IF client.oper \in Kinds THEN "failed" ELSE client.end
  <1>1. /\ Received /\ UNCHANGED <<live, conn, stmts, work>> /\ client \in Client
        /\ 1 \in 1..Len(wire) /\ wire \in Seq(Message) /\ wire' \in Seq(Message) /\ Len(wire') < Len(wire) /\ Len(wire) \in Nat
    BY TakeShape, ReceivedWire DEF Typed
  <1>2. \A i \in 1..Len(wire') :
              \/ wire'[i].kind = "junk"
              \/ \E j \in 2..Len(wire) : wire'[i] = wire[j] /\ (j = Len(wire) => i = Len(wire'))
    BY <1>1, WireLeft
  <1>3. \/ /\ Ours(m) /\ m.code = 0
           /\ client' = [client EXCEPT !.shown = sh, !.heads = he, !.total = to, !.oper = op, !.end = en]
        \/ /\ m.kind = "login" /\ client.oper = "login"
           /\ client' = [client EXCEPT !.oper = "none",
                                       !.acct = IF m.code = 0 THEN client.typed ELSE client.acct,
                                       !.may = (m.code = 0 /\ m.may),
                                       !.typed = IF m.code = 0 THEN client.typed ELSE Nobody]
        \/ client' = [client EXCEPT !.oper = "none", !.end = failed]
        \/ UNCHANGED client
    BY TakeShape
  <1>4. op \in {"none", client.oper}
    OBVIOUS
  <1> HIDE DEF he, to, op, en, failed
  <1>5. ASSUME client'.acct = client.acct, RowsOwn(client'.oper, conn, client'.shown) PROVE Owned'
    <2>1. \A i \in 1..Len(wire') :
             wire'[i].kind \in Kinds => RowsOwn(wire'[i].kind, wire'[i].conn, wire'[i].rows)
      <3> SUFFICES ASSUME NEW i \in 1..Len(wire'), wire'[i].kind \in Kinds
                   PROVE  RowsOwn(wire'[i].kind, wire'[i].conn, wire'[i].rows)
        OBVIOUS
      <3>1. PICK j \in 2..Len(wire) : wire'[i] = wire[j]
        BY <1>2, Blank
      <3>2. j \in 1..Len(wire)
        BY <1>1
      <3> QED BY <3>1, <3>2 DEF Owned
    <2> QED BY <1>1, <1>5, <2>1 DEF Owned, RowsOwn, RowOwn
  <1>6. CASE /\ Ours(m) /\ m.code = 0
             /\ client' = [client EXCEPT !.shown = sh, !.heads = he, !.total = to, !.oper = op, !.end = en]
    <2>1. client'.acct = client.acct /\ client'.oper = op /\ client'.shown = sh
      <3> HIDE DEF sh
      <3> QED BY <1>1, <1>6 DEF Client
    <2>2. m.kind \in Kinds /\ m.kind = client.oper /\ m \in Message
      BY <1>1, <1>6 DEF Ours
    <2>3. m.rows \in Seq(Shown) /\ client.shown \in Seq(Shown)
      BY <1>1, <2>2, MessageIs, Blank DEF Client
    <2>4. RowsOwn(m.kind, conn, m.rows) /\ RowsOwn(m.kind, conn, client.shown)
      <3>1. client.acct # Nobody
        BY <2>2 DEF Placed, ClientPlaced
      <3>2. m.conn = conn
        BY <1>1, <2>2, <3>1 DEF Placed, WirePlaced, ForConn
      <3> QED BY <1>1, <2>2, <3>2 DEF Owned
    <2> DEFINE x == client.shown
               y == m.rows
               r == x \o y
    <2>5. x \in Seq(Shown) /\ y \in Seq(Shown) /\ Len(x) \in Nat /\ Len(y) \in Nat
      BY <2>3
    <2>6. sh = r
      OBVIOUS
    <2> HIDE DEF x, y
    <2>7. /\ Len(r) = Len(x) + Len(y)
          /\ \A i \in 1..Len(r) : r[i] = IF i <= Len(x) THEN x[i] ELSE y[i - Len(x)]
      <3>1. /\ x \o y \in Seq(Shown) /\ Len(x \o y) = Len(x) + Len(y)
            /\ \A i \in 1..(Len(x) + Len(y)) : (x \o y)[i] = IF i <= Len(x) THEN x[i] ELSE y[i - Len(x)]
        BY <2>5, ConcatProperties
      <3> QED BY <3>1
    <2> HIDE DEF r
    <2>8. \A i \in 1..Len(r) : \/ i \in 1..Len(x) /\ r[i] = x[i]
                               \/ i - Len(x) \in 1..Len(y) /\ r[i] = y[i - Len(x)]
      BY <2>5, <2>7
    <2>9. \A i \in 1..Len(r) : RowOwn(m.kind, conn, r[i])
      BY <2>4, <2>8 DEF RowsOwn, x, y
    <2>10. RowsOwn(client'.oper, conn, client'.shown)
      <3>1. op = "none" \/ op = m.kind
        BY <1>4, <2>2
      <3>2. \A i \in 1..Len(r) : RowOwn(op, conn, r[i])
        BY <2>9, <3>1 DEF RowOwn
      <3> HIDE DEF sh
      <3> QED BY <2>1, <2>6, <3>2 DEF RowsOwn
    <2> QED BY <1>5, <2>1, <2>10
  <1>7. CASE client' = [client EXCEPT !.oper = "none", !.end = failed] \/ UNCHANGED client
    <2>1. /\ client'.acct = client.acct /\ client'.shown = client.shown
          /\ client'.oper = "none" \/ client'.oper = client.oper
      BY <1>1, <1>7 DEF Client
    <2> QED BY <1>5, <2>1 DEF Owned, RowsOwn, RowOwn
  <1>8. CASE /\ m.kind = "login" /\ client.oper = "login"
             /\ client' = [client EXCEPT !.oper = "none",
                                         !.acct = IF m.code = 0 THEN client.typed ELSE client.acct,
                                         !.may = (m.code = 0 /\ m.may),
                                         !.typed = IF m.code = 0 THEN client.typed ELSE Nobody]
    <2>1. LoginPlaced(1)
      BY <1>1, <1>8 DEF Placed, WirePlaced
    <2>2. 1 = Len(wire) /\ stmts = <<>> /\ work.kind = "none" /\ client.acct = Nobody
      BY <2>1 DEF LoginPlaced
    <2>3. client'.shown = <<>>
      <3>1. client'.shown = client.shown
        BY <1>1, <1>8 DEF Client
      <3> QED BY <2>2, <3>1 DEF Placed, ClientPlaced
    <2>4. wire' = <<>>
      <3> DEFINE n == Len(wire')
                 l == Len(wire)
      <3>1. n < l /\ n \in Nat /\ l \in Nat /\ 1 = l
        BY <1>1, <2>2
      <3> HIDE DEF n, l
      <3>2. n = 0
        BY <3>1
      <3> QED BY <1>1, <3>2, EmptySeq DEF n
    <2>5. work'.page = <<>> /\ work'.kind = "none" /\ stmts' = <<>>
      BY <1>1, <2>2 DEF Owned
    <2>6. RowsOwn(work.kind, work.conn, work.page)' /\ RowsOwn(client.oper, conn, client.shown)'
      BY <2>3, <2>5 DEF RowsOwn
    <2> QED BY <2>4, <2>5, <2>6 DEF Owned
  <1> QED BY <1>3, <1>6, <1>7, <1>8

LEMMA OwnedEnvironment == ASSUME Typed, Placed, Owned, Environment PROVE Owned'
  <1>1. CASE Connect
    <2>1. /\ ~live /\ live' = TRUE /\ conn' = conn + 1 /\ client' = NewClient
          /\ UNCHANGED <<session, queue, stmts, work, wire>>
          /\ \A i \in DOMAIN stmts : stmts[i].req.kind # "login"
      BY <1>1 DEF Connect, server
    <2>2. client'.shown = <<>> /\ wire' = <<>> /\ wire = <<>>
      BY <2>1 DEF NewClient, Placed, ClientPlaced
    <2>3. conn \in Int /\ stmts \in Seq(Statements) /\ work \in Work
      BY SelectAssumption DEF Typed
    <2>4. \A i \in 1..Len(stmts') : stmts'[i].req.conn # conn'
      <3> SUFFICES ASSUME NEW i \in 1..Len(stmts) PROVE stmts[i].req.conn # conn'
        BY <2>1
      <3>1. stmts[i] \in Statements
        BY <2>3
      <3>2. stmts[i].req \in Requests
        BY <3>1 DEF Statements
      <3>3. stmts[i].req.conn \in 0..MaxConn
        BY <3>2 DEF Requests
      <3>4. stmts[i].req.conn <= conn
        BY <2>1, <2>3 DEF Placed, StmtsPlaced, RequestPlaced, ForConn
      <3> QED BY <2>1, <2>3, <3>3, <3>4, SelectAssumption
    <2>5. work.kind # "none" => work.conn # conn'
      <3>1. work.conn \in 0..MaxConn
        BY <2>3 DEF Work
      <3> QED BY <2>1, <2>3, <3>1, SelectAssumption DEF Placed, WorkPlaced, ForConn
    <2>6. /\ work'.kind = "users" /\ work'.conn = conn' => FALSE
          /\ RowsOwn(work.kind, work.conn, work.page)' /\ (work'.kind = "none" => work'.page = <<>>)
      <3>1. work'.kind = "users" /\ work'.conn = conn' => FALSE
        BY <2>1, <2>5
      <3>2. work'.kind = "none" => work'.page = <<>>
        BY <2>1 DEF Owned
      <3>3. CASE work.kind = "none"
        BY <2>1, <3>2, <3>3 DEF RowsOwn
      <3>4. CASE work.kind # "none"
        BY <2>1, <2>5, <3>4 DEF Owned, RowsOwn, RowOwn
      <3> QED BY <3>1, <3>2, <3>3, <3>4
    <2>7. RowsOwn(client.oper, conn, client.shown)'
      BY <2>2 DEF RowsOwn
    <2> QED BY <2>2, <2>4, <2>6, <2>7 DEF Owned
  <1>2. CASE Disconnect
    <2>1. wire' = <<>> /\ UNCHANGED <<conn, stmts, work, client>>
      BY <1>2 DEF Disconnect
    <2> QED BY <2>1 DEF Owned, RowsOwn, RowOwn
  <1>3. ASSUME NEW a \in Accts, EditAuthority(a) \/ AddUser(a) \/ DeleteUser(a) PROVE Owned'
    <2>1. UNCHANGED <<conn, stmts, work, wire, client>>
      BY <1>3 DEF EditAuthority, AddUser, DeleteUser, Others, server
    <2> QED BY <2>1 DEF Owned, RowsOwn, RowOwn
  <1> QED BY <1>1, <1>2, <1>3 DEF Environment

LEMMA OwnedNext ==
    ASSUME Typed, Placed, Owned, [Next]_vars PROVE Owned'
  <1>1. CASE UNCHANGED vars
    BY <1>1 DEF vars, server, Owned, RowsOwn, RowOwn
  <1>2. CASE Mysql
    BY <1>2, OwnedLoginReply, OwnedBegins, OwnedRow, OwnedEnds DEF Mysql
  <1> QED BY <1>1, <1>2, OwnedRecv, OwnedTake, OwnedUsers, OwnedEnvironment DEF Next

LEMMA RowsOfOwned ==
    ASSUME Typed, Placed, Owned PROVE OwnRows
  <1> SUFFICES ASSUME NEW i \in DOMAIN client.shown
               PROVE  LET row == client.shown[i]
                      IN /\ row.conn = conn
                         /\ row.pwd => Identity[client.acct] = 3 /\ Identity[row.acct] < 3
                         /\ client.oper = "users" =>
                               \/ Identity[row.acct] < Identity[client.acct]
                               \/ row.acct = client.acct
                               \/ Identity[row.acct] = 1 /\ Identity[client.acct] = 1
    BY DEF OwnRows
  <1> DEFINE row == client.shown[i]
  <1>1. client.shown \in Seq(Shown) /\ i \in 1..Len(client.shown) /\ client.acct \in Maybe
    BY DEF Typed, Client
  <1>2. client.acct # Nobody /\ client.acct \in Accts
    BY <1>1 DEF Placed, ClientPlaced, Maybe
  <1>3. RowOwn(client.oper, conn, row)
    BY <1>1 DEF Owned, RowsOwn
  <1>4. ASSUME client.oper = "users"
        PROVE  \/ Identity[row.acct] < Identity[client.acct]
               \/ row.acct = client.acct
               \/ Identity[row.acct] = 1 /\ Identity[client.acct] = 1
    <2>1. row.acct \in Scope(client.acct)
      BY <1>3, <1>4 DEF RowOwn
    <2> HIDE DEF row
    <2> QED BY <1>2, <2>1 DEF Scope, Ident
  <1> QED BY <1>3, <1>4 DEF RowOwn

\* The invariant of the first two theorems.
LEMMA SelectionsKept == Spec => [](Typed /\ Placed /\ Owned)
  <1>1. Init => Typed /\ Placed /\ Owned
    BY TypedInit, PlacedInit, OwnedInit
  <1>2. (Typed /\ Placed /\ Owned) /\ [Next]_vars => (Typed /\ Placed /\ Owned)'
    BY TypedNext, PlacedNext, OwnedNext
  <1> QED BY <1>1, <1>2, PTL DEF Spec

\* Whoever has the socket number by the time of the reply is shown rows of its
\* own selection only, of users whom it may see, and passwords only if it is the
\* administrator, of lower identities: for every number of connections, logins
\* and selections, and however the stream is cut.
THEOREM RowsAreOwn == Spec => []OwnRows
  <1>1. Typed /\ Placed /\ Owned => OwnRows
    BY RowsOfOwned
  <1> QED BY <1>1, SelectionsKept, PTL

------------------------------------------------------------------------------
(* The list, page by page *)

\* The rows of k pages.
Off(k) == PageSize * k

LEMMA Offsets ==
    ASSUME NEW k \in Nat
    PROVE  /\ Off(k) \in Nat /\ Off(0) = 0 /\ Off(k + 1) = Off(k) + PageSize
           /\ k > 0 => Off(k) >= PageSize
  <1>1. Off(k) \in Nat /\ Off(0) = 0 /\ Off(k + 1) = Off(k) + PageSize
    BY SelectAssumption DEF Off
  <1>2. ASSUME k > 0 PROVE Off(k) >= PageSize
    <2>1. PageSize * (k - 1) >= 0 /\ PageSize * (k - 1) = PageSize * k - PageSize
      BY <1>2, SelectAssumption
    <2> QED BY <2>1, SelectAssumption DEF Off
  <1> QED BY <1>1, <1>2

LEMMA DivOf ==
    ASSUME NEW P \in Nat, P > 1, NEW k \in Int, NEW r \in 0..P - 1, NEW n \in Int, n = P * k + r
    PROVE  n \div P = k /\ n % P = r
  <1> DEFINE q == n \div P
             s == n % P
  <1>1. q \in Int /\ s \in 0..P - 1 /\ n = P * q + s
    OBVIOUS
  <1>2. P * (q - k) = P * q - P * k
    BY <1>1
  <1> HIDE DEF q, s
  <1>3. P * (q - k) = r - s
    BY <1>1, <1>2
  <1>4. q - k \in Int /\ r - s \in Int /\ -P < r - s /\ r - s < P
    BY <1>1
  <1>5. q - k = 0
    BY <1>3, <1>4, SmallMultiple
  <1>6. q = k
    BY <1>1, <1>5
  <1>7. s = r
    BY <1>1, <1>6
  <1> QED BY <1>6, <1>7 DEF q, s

LEMMA SmallMod ==
    ASSUME NEW P \in Nat, P > 1, NEW r \in 0..P - 1
    PROVE  r % P = r
  <1>1. 0 \in Int /\ r \in Int /\ r = P * 0 + r
    OBVIOUS
  <1> QED BY <1>1, DivOf

LEMMA PageNumber ==
    ASSUME NEW k \in Nat, NEW n \in Nat, Off(k) < n, n <= Off(k + 1), n <= Off(PageWrap - 1)
    PROVE  PageNo(n) = k + 1
  <1>1. Off(k) \in Nat /\ Off(k + 1) = Off(k) + PageSize /\ PageSize \in Nat /\ PageSize > 1
    BY Offsets, SelectAssumption
  <1>2. (n - 1) \div PageSize = k
    <2> DEFINE r == (n - 1) - Off(k)
               x == n - 1
    <2>1. r \in 0..PageSize - 1 /\ x \in Int /\ x = PageSize * k + r /\ k \in Int
      BY <1>1 DEF Off
    <2> HIDE DEF r, x
    <2>2. x \div PageSize = k
      BY <1>1, <2>1, DivOf
    <2> QED BY <2>2 DEF x
  <1>3. k + 1 < PageWrap
    <2> SUFFICES ASSUME k >= PageWrap - 1 PROVE FALSE
      BY SelectAssumption
    <2>1. PageSize * (k - (PageWrap - 1)) >= 0
      BY SelectAssumption
    <2>2. PageSize * (k - (PageWrap - 1)) = PageSize * k - PageSize * (PageWrap - 1)
      BY SelectAssumption
    <2>3. Off(PageWrap - 1) = PageSize * (PageWrap - 1) /\ Off(k) = PageSize * k
      BY DEF Off
    <2>4. PageSize * k \in Int /\ PageSize * (PageWrap - 1) \in Int
      BY SelectAssumption
    <2> QED BY <2>1, <2>2, <2>3, <2>4
  <1>4. (k + 1) % PageWrap = k + 1
    <2> DEFINE r == k + 1
    <2>1. r \in 0..PageWrap - 1 /\ PageWrap \in Nat /\ PageWrap > 1
      BY <1>3, SelectAssumption
    <2> HIDE DEF r
    <2>2. r % PageWrap = r
      BY <2>1, SmallMod
    <2> QED BY <2>2 DEF r
  <1>5. n > 0
    BY <1>1
  <1> QED BY <1>2, <1>4, <1>5 DEF PageNo

\* The rows are those of the list from the place on.
At(rows, from) == \A j \in 1..Len(rows) : from + j <= Len(list) /\ rows[j].acct = list[from + j]

\* They say what they are.
Flagged(flags) == client.oper = "scores" => flags = client.asked

\* The k-th message of the selection, and one that is the last.
FullPage(m, k) ==
    /\ m.kind = client.oper /\ m.code = 0 /\ m.last = FALSE
    /\ Len(m.rows) = PageSize /\ m.no = k /\ At(m.rows, Off(k - 1)) /\ Flagged(m.flags)

EndPage(m, k) ==
    /\ m.kind = client.oper /\ m.last = TRUE
    /\ m.code = 0 =>
          /\ list # <<>> /\ At(m.rows, Off(k - 1)) /\ Len(list) = Off(k - 1) + Len(m.rows)
          /\ m.rows # <<>> => m.no = k /\ Flagged(m.flags)

Fresh == client.shown = <<>> /\ client.heads = 0 /\ client.total = 0 /\ client.end = "none"

\* The request is on its way, or its statement.
InQueue ==
    /\ Fresh /\ Len(queue) = 1 /\ stmts = <<>> /\ work.kind = "none" /\ wire = <<>>
    /\ queue[1].kind = client.oper
    /\ Flagged([cond |-> queue[1].cond, rank |-> queue[1].rank])

InStmts ==
    /\ Fresh /\ queue = <<>> /\ Len(stmts) = 1 /\ work.kind = "none" /\ wire = <<>>
    /\ stmts[1].req.kind = client.oper /\ Flagged(FlagsOf(stmts[1].record))

\* p pages are shown.
Filled(p) ==
    /\ Len(client.shown) = Off(p) /\ At(client.shown, 0)
    /\ client.heads = (IF p = 0 THEN 0 ELSE 1) /\ client.total = 0 /\ client.end = "none"

\* The reply handler is at work on the list, and has sent all pages but the last.
Working(p) ==
    /\ work.kind = client.oper /\ list # <<>>
    /\ \A i \in 1..Len(wire) : FullPage(wire[i], p + i)
    /\ At(work.page, Off(p + Len(wire))) /\ work.n = Off(p + Len(wire)) + Len(work.page)
    /\ Len(list) = work.n + Len(work.rows)
    /\ \A j \in 1..Len(work.rows) : work.rows[j] = list[work.n + j]
    /\ Flagged(FlagsOf(work.record)) /\ (work.n > 0 => Flagged(work.flags))

\* The last is on its way, too.
Sent(p) ==
    /\ work.kind = "none" /\ wire # <<>>
    /\ \A i \in 1..Len(wire) : i < Len(wire) => FullPage(wire[i], p + i)
    /\ EndPage(wire[Len(wire)], p + Len(wire))

Coming == queue = <<>> /\ stmts = <<>> /\ \E p \in Nat : Filled(p) /\ (Working(p) \/ Sent(p))

Nothing == queue = <<>> /\ stmts = <<>> /\ work.kind = "none" /\ wire = <<>>

\* What is under way for a user who is logged in.
UnderWay ==
    live /\ client.acct # Nobody =>
        /\ client.oper = "none" => Nothing
        /\ client.oper \in Kinds => InQueue \/ InStmts \/ Coming

\* What is on the console.
Shows ==
    /\ client.oper \in Kinds => At(client.shown, 0) /\ client.end = "none"
    /\ client.end = "ok" =>
          /\ At(client.shown, 0) /\ Len(client.shown) = Len(list) /\ client.heads = 1
          /\ client.total = Len(list) \/ (client.total = 0 /\ Len(list) % PageSize = 0)

ListTyped == list \in Seq(Accts) /\ Len(list) <= Off(PageWrap - 1)

Listed == ListTyped /\ (~cut => Shows /\ UnderWay)

\* The numbers of the pages of the longest list fit a byte.
PagesFit == IsFiniteSet(Accts) /\ Cardinality(Accts) <= PageSize * (PageWrap - 1)

LEMMA ListedInit == Init => Listed
  <1> SUFFICES ASSUME Init PROVE Listed
    OBVIOUS
  <1>1. live = FALSE /\ list = <<>> /\ client.oper = "none" /\ client.end = "none"
    BY DEF Init, NewClient
  <1>2. ListTyped
    <2>1. Len(list) = 0 /\ list \in Seq(Accts)
      BY <1>1
    <2>2. PageWrap - 1 \in Nat
      BY SelectAssumption
    <2>3. Off(PageWrap - 1) \in Nat
      BY <2>2, Offsets
    <2> QED BY <2>1, <2>3 DEF ListTyped
  <1> QED BY <1>1, <1>2, Blank DEF Listed, Shows, UnderWay

\* Steps that are not of the selection.
LEMMA ListedElse ==
    ASSUME Listed, UNCHANGED <<list, cut>>, client'.shown = client.shown,
           client'.heads = client.heads, client'.total = client.total, client'.end = client.end,
           client'.oper \in Kinds => client.oper \in Kinds,
           live' /\ client'.acct # Nobody /\ ~cut => UnderWay'
    PROVE  Listed'
  <1>1. \A rows, from : At(rows, from) => At(rows, from)'
    BY DEF At
  <1>2. Shows => Shows'
    BY <1>1 DEF Shows, At
  <1> QED BY <1>2 DEF Listed, ListTyped, UnderWay

LEMMA ListedUnchanged ==
    ASSUME Listed, UNCHANGED <<live, queue, stmts, work, wire, client, list, cut>> PROVE Listed'
  <1>1. \A rows, from : At(rows, from)' <=> At(rows, from)
    BY DEF At
  <1>2. \A m, k : (FullPage(m, k)' <=> FullPage(m, k)) /\ (EndPage(m, k)' <=> EndPage(m, k))
    BY DEF FullPage, EndPage, Flagged, At
  <1>3. \A p : (Filled(p)' <=> Filled(p)) /\ (Working(p)' <=> Working(p)) /\ (Sent(p)' <=> Sent(p))
    BY DEF Filled, Working, Sent, FullPage, EndPage, Flagged, At
  <1>4. (InQueue' <=> InQueue) /\ (InStmts' <=> InStmts) /\ (Nothing' <=> Nothing)
    BY DEF InQueue, InStmts, Nothing, Fresh, Flagged
  <1>5. UnderWay' <=> UnderWay
    BY <1>3, <1>4 DEF UnderWay, Coming
  <1> QED BY <1>5, ListedElse DEF Listed

\* Where a step of the server may be seen.
LEMMA OnTheWay ==
    ASSUME Typed, Placed, Listed, ~cut, live, client.acct # Nobody,
           queue # <<>> \/ stmts # <<>> \/ work.kind # "none" \/ wire # <<>>
    PROVE  /\ client.oper \in Kinds /\ client.end = "none"
           /\ queue # <<>> => InQueue
           /\ stmts # <<>> => InStmts
           /\ work.kind # "none" => queue = <<>> /\ stmts = <<>> /\ \E p \in Nat : Filled(p) /\ Working(p)
           /\ wire # <<>> => queue = <<>> /\ stmts = <<>> /\ \E p \in Nat : Filled(p) /\ (Working(p) \/ Sent(p))
  <1>1. client.oper \in Kinds
    <2>1. client.oper \in Kinds \cup {"none", "login"} /\ client.oper # "login"
      BY DEF Typed, Client, Placed, ClientPlaced
    <2>2. client.oper # "none"
      BY DEF Listed, UnderWay, Nothing
    <2> QED BY <2>1, <2>2
  <1>2. InQueue \/ InStmts \/ Coming
    BY <1>1 DEF Listed, UnderWay
  <1>3. CASE InQueue
    <2>1. stmts = <<>> /\ work.kind = "none" /\ wire = <<>> /\ client.end = "none"
      BY <1>3 DEF InQueue, Fresh
    <2> QED BY <1>1, <1>3, <2>1
  <1>4. CASE InStmts
    <2>1. queue = <<>> /\ work.kind = "none" /\ wire = <<>> /\ client.end = "none"
      BY <1>4 DEF InStmts, Fresh
    <2> QED BY <1>1, <1>4, <2>1
  <1>5. CASE Coming
    <2>1. queue = <<>> /\ stmts = <<>>
      BY <1>5 DEF Coming
    <2> PICK p \in Nat : Filled(p) /\ (Working(p) \/ Sent(p))
      BY <1>5 DEF Coming
    <2>2. client.end = "none"
      BY DEF Filled
    <2>3. work.kind # "none" => Working(p)
      BY DEF Sent
    <2> QED BY <1>1, <2>1, <2>2, <2>3
  <1> QED BY <1>2, <1>3, <1>4, <1>5

LEMMA ListedUsers ==
    ASSUME Typed, Placed, Listed, User PROVE Listed'
  <1>1. /\ UNCHANGED <<live, conn, session, stmts, work, wire, list, cut>> /\ live /\ client.oper = "none"
        /\ client \in Client /\ queue \in Seq(Requests) /\ conn \in 0..MaxConn
    BY TypedUsers DEF Typed
  <1>2. CASE \E a \in Accts :
                    /\ queue' = Append(queue, LoginRequest(a))
                    /\ client.acct = Nobody /\ client.typed = Nobody /\ client.oper = "none"
                    /\ client' = [client EXCEPT !.typed = a, !.oper = "login"]
    <2>1. /\ client'.shown = client.shown /\ client'.heads = client.heads /\ client'.total = client.total
          /\ client'.end = client.end /\ client'.oper = "login" /\ client'.acct = Nobody
      BY <1>1, <1>2 DEF Client
    <2> QED BY <1>1, <2>1, Blank, ListedElse
  <1>3. CASE \E t \in Inputs :
                    /\ Good(t) /\ queue' = Append(queue, Request(t))
                    /\ client.may /\ client.oper = "none"
                    /\ client' = [client EXCEPT !.oper = t.kind, !.asked = FlagsFor(t), !.shown = <<>>,
                                                !.heads = 0, !.total = 0, !.end = "none"]
    <2> PICK t \in Inputs :
                    /\ Good(t) /\ queue' = Append(queue, Request(t))
                    /\ client.may /\ client.oper = "none"
                    /\ client' = [client EXCEPT !.oper = t.kind, !.asked = FlagsFor(t), !.shown = <<>>,
                                                !.heads = 0, !.total = 0, !.end = "none"]
      BY <1>3
    <2>1. /\ client'.oper = t.kind /\ client'.asked = FlagsFor(t) /\ client'.shown = <<>>
          /\ client'.heads = 0 /\ client'.total = 0 /\ client'.end = "none"
      BY <1>1 DEF Client
    <2> DEFINE r == Request(t)
    <2>2. /\ r \in Requests /\ r.kind = t.kind /\ t.kind \in Kinds
          /\ [cond |-> r.cond, rank |-> r.rank] = FlagsFor(t)
      BY <1>1, RequestTyped
    <2>3. client.acct # Nobody
      BY DEF Placed, ClientPlaced
    <2> HIDE DEF r
    <2>4. ASSUME ~cut PROVE InQueue'
      <3>1. Nothing
        BY <1>1, <2>3, <2>4 DEF Listed, UnderWay
      <3>2. queue = <<>> /\ stmts' = <<>> /\ work'.kind = "none" /\ wire' = <<>>
        BY <1>1, <3>1 DEF Nothing
      <3>3. Len(queue') = 1 /\ queue'[1] = r
        <4>1. queue' = Append(queue, r)
          BY DEF r
        <4> QED BY <2>2, <3>2, <4>1
      <3>4. queue'[1].kind = client'.oper /\ [cond |-> queue'[1].cond, rank |-> queue'[1].rank] = client'.asked
        BY <2>1, <2>2, <3>3
      <3> QED BY <2>1, <3>2, <3>3, <3>4 DEF InQueue, Fresh, Flagged
    <2>5. ~cut => UnderWay'
      <3>1. client'.oper # "none"
        BY <2>1, <2>2, Blank
      <3> QED BY <2>4, <3>1 DEF UnderWay
    <2>6. Shows'
      <3>1. Len(client'.shown) = 0 /\ client'.end # "ok"
        BY <2>1
      <3>2. \A i \in 1..0 : FALSE
        OBVIOUS
      <3> QED BY <2>1, <3>1, <3>2 DEF Shows, At
    <2> QED BY <1>1, <2>5, <2>6 DEF Listed, ListTyped
  <1> QED BY <1>2, <1>3, TypedUsers

LEMMA ListedRecv ==
    ASSUME Typed, Placed, Listed, Recv PROVE Listed'
  <1>1. UNCHANGED <<live, work, client, list, cut>> /\ queue # <<>> /\ queue \in Seq(Requests)
    BY RecvShape DEF Typed
  <1>2. ASSUME live, client.acct # Nobody, ~cut PROVE client.oper \in Kinds /\ (InStmts' \/ Coming')
    <2>1. client.oper \in Kinds /\ InQueue
      BY <1>1, <1>2, OnTheWay
    <2>2. /\ Fresh /\ Len(queue) = 1 /\ stmts = <<>> /\ work.kind = "none" /\ wire = <<>>
          /\ queue[1].kind = client.oper /\ Flagged([cond |-> queue[1].cond, rank |-> queue[1].rank])
      BY <2>1 DEF InQueue
    <2>3. Head(queue) = queue[1] /\ queue' = <<>> /\ Head(queue) \in Requests
      <3>1. queue' = Tail(queue) /\ Len(Tail(queue)) = Len(queue) - 1 /\ Tail(queue) \in Seq(Requests)
            /\ Head(queue) = queue[1] /\ Head(queue) \in Requests
        BY <1>1, RecvShape, TailOf
      <3> QED BY <2>2, <3>1, EmptySeq
    <2>4. CASE /\ UNCHANGED wire
               /\ \E st \in Statements :
                     /\ stmts' = Append(stmts, st) /\ st.req = Head(queue)
                     /\ st.req.kind = "scores" => FlagsOf(st.record) = [cond |-> st.req.cond, rank |-> st.req.rank]
      <3> PICK st \in Statements :
                     /\ stmts' = Append(stmts, st) /\ st.req = Head(queue)
                     /\ st.req.kind = "scores" => FlagsOf(st.record) = [cond |-> st.req.cond, rank |-> st.req.rank]
        BY <2>4
      <3>1. Len(stmts') = 1 /\ stmts'[1] = st
        BY <2>2
      <3>2. st.req.kind = client.oper /\ Flagged(FlagsOf(st.record))
        BY <2>2, <2>3 DEF Flagged
      <3>3. InStmts'
        BY <1>1, <2>2, <2>3, <2>4, <3>1, <3>2 DEF InStmts, Fresh, Flagged
      <3> QED BY <2>1, <3>3
    <2>5. CASE /\ UNCHANGED stmts /\ Head(queue).kind = "users"
               /\ Deliver(Refusal("users", Head(queue).conn, 4))
      <3> DEFINE m == Refusal("users", Head(queue).conn, 4)
      <3>1. m.kind = "users" /\ m.last = TRUE /\ m.code = 4
        BY DEF Refusal, Page
      <3>2. wire' = Append(wire, m)
        BY <1>2, <2>5 DEF Deliver
      <3> HIDE DEF m
      <3>3. Len(wire') = 1 /\ wire'[1] = m /\ wire' # <<>>
        BY <2>2, <3>2
      <3>4. Sent(0)'
        <4>1. wire'[1].kind = client'.oper /\ wire'[1].last = TRUE /\ wire'[1].code # 0
          <5>1. wire'[1].kind = client'.oper /\ wire'[1].code # 0
            BY <1>1, <2>2, <2>3, <2>5, <3>1, <3>3
          <5>2. wire'[1].last = TRUE
            BY <3>1, <3>3
          <5> QED BY <5>1, <5>2
        <4>2. EndPage(wire[Len(wire)], 0 + Len(wire))'
          BY <3>3, <4>1 DEF EndPage
        <4>3. \A i \in 1..Len(wire') : ~(i < Len(wire'))
          BY <3>3
        <4> QED BY <1>1, <2>2, <3>3, <4>2, <4>3 DEF Sent
      <3>5. Filled(0)'
        <4>1. Len(client'.shown) = 0 /\ Off(0) = 0
          BY <1>1, <2>2, Offsets DEF Fresh
        <4> QED BY <1>1, <2>2, <4>1 DEF Filled, Fresh, At
      <3> QED BY <1>1, <2>1, <2>2, <2>3, <2>5, <3>4, <3>5 DEF Coming
    <2> QED BY <2>4, <2>5, RecvShape
  <1>3. live' /\ client'.acct # Nobody /\ ~cut => UnderWay'
    <2> SUFFICES ASSUME live', client'.acct # Nobody, ~cut PROVE UnderWay'
      OBVIOUS
    <2>1. client'.oper \in Kinds /\ (InStmts' \/ Coming')
      BY <1>1, <1>2
    <2> QED BY <2>1, Blank DEF UnderWay
  <1> QED BY <1>1, <1>3, ListedElse

LEMMA ListedLoginReply ==
    ASSUME Typed, Placed, Listed, LoginReplyHandle PROVE Listed'
  <1>1. MysqlFront("login") /\ UNCHANGED <<live, client, list, cut>>
    BY TypedLoginReply DEF LoginReplyHandle
  <1>2. client.acct = Nobody
    <2>1. 1 \in 1..Len(stmts) /\ stmts[1].req.kind = "login"
      BY <1>1, MysqlShape
    <2> QED BY <2>1 DEF Placed, StmtsPlaced, RequestPlaced
  <1> QED BY <1>1, <1>2, ListedElse

\* The list is that of the client's last selection.
LEMMA BeginsList ==
    ASSUME NEW kind \in Kinds, SelectReplyBegins(kind)
    PROVE  \/ list' = list /\ ~(live /\ Head(stmts).req.conn = conn)
           \/ live /\ Head(stmts).req.conn = conn /\ (list' = <<>> \/ \E rows \in Results(Head(stmts)) : list' = rows)
  <1> DEFINE st == Head(stmts)
             own == live /\ st.req.conn = conn
  <1>1. \/ list' = IF own THEN <<>> ELSE list
        \/ \E rows \in Results(st) : list' = IF own THEN rows ELSE list
    BY DEF SelectReplyBegins
  <1> HIDE DEF st
  <1>2. CASE own
    BY <1>1, <1>2 DEF st
  <1>3. CASE ~own
    BY <1>1, <1>3 DEF st
  <1> QED BY <1>2, <1>3

LEMMA ListTypedNext ==
    ASSUME PagesFit, Typed, Listed, NEW kind \in Kinds, SelectReplyBegins(kind) PROVE ListTyped'
  <1>1. Off(PageWrap - 1) = PageSize * (PageWrap - 1) /\ Off(PageWrap - 1) \in Nat
    <2>1. PageWrap - 1 \in Nat
      BY SelectAssumption
    <2> QED BY <2>1, Offsets DEF Off
  <1>2. CASE list' = list
    BY <1>2 DEF Listed, ListTyped
  <1>3. CASE list' = <<>>
    BY <1>1, <1>3 DEF ListTyped
  <1>4. CASE \E rows \in Results(Head(stmts)) : list' = rows
    <2>1. list' \in Seq(Accts) /\ Len(list') <= Cardinality(Accts)
      BY <1>4, ResultsAre DEF PagesFit
    <2>2. Cardinality(Accts) \in Nat /\ Len(list') \in Nat
      BY <2>1, FS_CardinalityType DEF PagesFit
    <2>3. Cardinality(Accts) <= Off(PageWrap - 1)
      BY <1>1 DEF PagesFit
    <2>4. Len(list') <= Off(PageWrap - 1)
      BY <1>1, <2>1, <2>2, <2>3
    <2> QED BY <2>1, <2>4 DEF ListTyped
  <1> QED BY <1>2, <1>3, <1>4, BeginsList

LEMMA ListedBegins ==
    ASSUME PagesFit, Typed, Placed, Listed, NEW kind \in Kinds, SelectReplyBegins(kind) PROVE Listed'
  <1> DEFINE st == Head(stmts)
             own == live /\ st.req.conn = conn
  <1>1. MysqlFront(kind)
    BY DEF SelectReplyBegins
  <1>2. /\ UNCHANGED <<live, conn, session, queue, client, cut>> /\ work.kind = "none"
        /\ stmts # <<>> /\ 1 \in 1..Len(stmts) /\ st = stmts[1] /\ st.req.kind = kind
        /\ st.req.conn \in 0..MaxConn /\ Len(stmts) \in Nat /\ Len(stmts') = Len(stmts) - 1
        /\ stmts' \in Seq(Statements) /\ kind # "login"
    BY <1>1, MysqlShape, TypedBegins, Blank DEF Requests
  <1>3. own <=> live /\ client.acct # Nobody
    BY <1>2 DEF Placed, StmtsPlaced, RequestPlaced, ForConn
  <1>4. CASE ~own
    <2>1. list' = list
      BY <1>4, BeginsList
    <2> QED BY <1>2, <1>3, <1>4, <2>1, ListedElse
  <1>5. CASE own
    <2> SUFFICES ASSUME ~cut PROVE Shows' /\ UnderWay'
      BY <1>2, ListTypedNext DEF Listed
    <2>1. /\ client.oper \in Kinds /\ client.end = "none" /\ Fresh /\ queue = <<>> /\ Len(stmts) = 1 /\ wire = <<>>
          /\ kind = client.oper /\ Flagged(FlagsOf(st.record))
      <3>1. client.oper \in Kinds /\ InStmts
        BY <1>2, <1>3, <1>5, OnTheWay
      <3> QED BY <1>2, <3>1 DEF InStmts, Fresh
    <2>2. stmts' = <<>>
      <3> DEFINE n == Len(stmts')
                 l == Len(stmts)
      <3>1. n = l - 1 /\ l \in Nat /\ l = 1
        BY <1>2, <2>1
      <3> HIDE DEF n, l
      <3>2. n = 0
        BY <3>1
      <3> QED BY <1>2, <3>2, EmptySeq DEF n
    <2>3. At(client.shown, 0)' /\ Len(client'.shown) = 0
      BY <1>2, <2>1 DEF At, Fresh
    <2>4. Shows'
      BY <1>2, <2>1, <2>3 DEF Shows
    <2>5. Filled(0)'
      BY <1>2, <2>1, <2>3, Offsets DEF Filled, Fresh
    <2> HIDE DEF own
    <2>6. CASE UNCHANGED work /\ \E code \in 1..2 : Deliver(Refusal(kind, st.req.conn, code))
      <3> PICK code \in 1..2 : Deliver(Refusal(kind, st.req.conn, code))
        BY <2>6
      <3> DEFINE m == Refusal(kind, st.req.conn, code)
      <3>1. m.kind = kind /\ m.code = code
        BY DEF Refusal, Page
      <3>2. m.last = TRUE
        BY DEF Refusal, Page
      <3>3. wire' = Append(wire, m)
        BY <1>5 DEF Deliver, own
      <3> HIDE DEF m, st
      <3>4. Len(wire') = 1 /\ wire'[1] = m /\ wire' # <<>>
        BY <2>1, <3>3
      <3>5. wire'[1].kind = client'.oper /\ wire'[1].code # 0
        BY <1>2, <2>1, <3>1, <3>4
      <3>6. wire'[1].last = TRUE
        BY <3>2, <3>4
      <3>7. EndPage(wire[Len(wire)], 0 + Len(wire))'
        BY <3>4, <3>5, <3>6 DEF EndPage
      <3>8. \A i \in 1..Len(wire') : ~(i < Len(wire'))
        BY <3>4
      <3>9. Sent(0)'
        BY <1>2, <2>6, <3>4, <3>7, <3>8 DEF Sent
      <3>10. Coming'
        BY <1>2, <2>1, <2>2, <2>5, <3>9 DEF Coming
      <3> QED BY <1>2, <2>1, <2>4, <3>10, Blank DEF UnderWay
    <2>7. CASE /\ UNCHANGED wire
               /\ \E rows \in Results(st) :
                     /\ rows # <<>> /\ list' = IF own THEN rows ELSE list
                     /\ work' = [Idle EXCEPT !.kind = kind, !.conn = st.req.conn, !.rows = rows, !.record = st.record]
      <3> PICK rows \in Results(st) :
                     /\ rows # <<>> /\ list' = IF own THEN rows ELSE list
                     /\ work' = [Idle EXCEPT !.kind = kind, !.conn = st.req.conn, !.rows = rows, !.record = st.record]
        BY <2>7
      <3>1. list' = rows /\ rows \in Seq(Accts)
        BY <1>5, ResultsAre
      <3>2. work'.kind = kind /\ work'.rows = rows /\ work'.page = <<>> /\ work'.n = 0 /\ work'.record = st.record
        BY DEF Idle
      <3> HIDE DEF st
      <3>3. Len(wire') = 0 /\ Len(work'.page) = 0 /\ Off(0) = 0 /\ 0 + 0 = 0 /\ Len(rows) \in Nat
        BY <2>1, <2>7, <3>1, <3>2, Offsets
      <3>4. \A i \in 1..0 : FALSE
        OBVIOUS
      <3>5. \A j \in 1..Len(rows) : 0 + j = j
        BY <3>1
      <3>6. Flagged(FlagsOf(work.record))'
        BY <1>2, <2>1, <3>2 DEF Flagged
      <3>7. At(work.page, Off(0 + Len(wire)))'
        BY <3>3, <3>4 DEF At
      <3>8. /\ work'.kind = client'.oper /\ list' # <<>> /\ ~(work'.n > 0)
            /\ \A i \in 1..Len(wire') : FALSE
            /\ work'.n = Off(0 + Len(wire')) + Len(work'.page)
            /\ Len(list') = work'.n + Len(work'.rows)
            /\ \A j \in 1..Len(work'.rows) : work'.rows[j] = list'[work'.n + j]
        <4>1. work'.kind = client'.oper /\ list' # <<>>
          BY <1>2, <2>1, <3>1, <3>2
        <4>2. ~(work'.n > 0) /\ \A i \in 1..Len(wire') : FALSE
          BY <3>2, <3>3, <3>4
        <4>3. Off(0 + Len(wire')) = 0
          BY <3>3
        <4>4. work'.n = Off(0 + Len(wire')) + Len(work'.page)
          BY <3>2, <3>3, <4>3
        <4>5. Len(list') = work'.n + Len(work'.rows)
          BY <3>1, <3>2, <3>3
        <4>6. \A j \in 1..Len(work'.rows) : work'.rows[j] = list'[work'.n + j]
          BY <3>1, <3>2, <3>5
        <4> QED BY <4>1, <4>2, <4>4, <4>5, <4>6
      <3>9. Working(0)'
        BY <3>6, <3>7, <3>8 DEF Working
      <3>10. Coming'
        BY <1>2, <2>1, <2>2, <2>5, <3>9 DEF Coming
      <3> QED BY <1>2, <2>1, <2>4, <3>10, Blank DEF UnderWay
    <2> QED BY <2>6, <2>7, TypedBegins DEF own
  <1> QED BY <1>4, <1>5

\* One more row on the page of a list.
LEMMA PageGrows ==
    ASSUME Typed, ListTyped, NEW p \in Nat, Working(p), work.kind \in Kinds, work.rows # <<>>
    PROVE  /\ At(PageWith(Head(work.rows)), Off(p + Len(wire)))
           /\ Len(wire) \in Nat /\ Len(work.page) \in Nat /\ work.n \in Nat /\ Len(list) \in Nat
           /\ work.n + 1 <= Len(list) /\ Off(p + Len(wire)) \in Nat
           /\ Len(list) = (work.n + 1) + Len(Tail(work.rows))
           /\ \A j \in 1..Len(Tail(work.rows)) : Tail(work.rows)[j] = list[(work.n + 1) + j]
           /\ PageWith(Head(work.rows)) # <<>>
  <1> DEFINE a == Head(work.rows)
             row == Row(work.kind, a)
             k == p + Len(wire)
             o == Off(k)
             n == work.n
             l == Len(work.page)
             r == Len(work.rows)
             b == Len(list)
  <1>1. /\ work \in Work /\ work.rows \in Seq(Accts) /\ work.page \in Seq(Shown) /\ work.conn \in 0..MaxConn
        /\ n \in Nat /\ l \in Nat /\ b \in Nat /\ r \in Nat /\ Len(wire) \in Nat /\ k \in Nat
    BY DEF Typed, Work, ListTyped
  <1>2. /\ a = work.rows[1] /\ 1 \in 1..r /\ a \in Accts
        /\ Len(Tail(work.rows)) = r - 1
        /\ \A j \in 1..Len(Tail(work.rows)) : j + 1 \in 1..r /\ Tail(work.rows)[j] = work.rows[j + 1]
    BY <1>1, TailOf
  <1>3. o \in Nat
    <2> HIDE DEF k
    <2> QED BY <1>1, Offsets
  <1>4. row.acct = a
    BY DEF Row
  <1>5. row \in Shown
    <2> DEFINE q == work.kind = "users" /\ Ident(session) = 3 /\ Identity[a] < 3
    <2>1. q \in BOOLEAN
      OBVIOUS
    <2>2. row = [acct |-> a, conn |-> work.conn, pwd |-> q]
      BY DEF Row
    <2> HIDE DEF q, a, row
    <2> QED BY <1>1, <1>2, <2>1, <2>2 DEF Shown
  <1>6. /\ PageWith(a) # <<>>
        /\ \A i \in 1..Len(PageWith(a)) : \/ i \in 1..l /\ PageWith(a)[i] = work.page[i]
                                          \/ i = l + 1 /\ PageWith(a)[i] = row
    <2> HIDE DEF row
    <2>1. PageWith(a) = Append(work.page, row)
      BY DEF PageWith, row
    <2>2. /\ Append(work.page, row) # <<>> /\ Len(Append(work.page, row)) = l + 1
          /\ \A i \in 1..Len(Append(work.page, row)) :
                 \/ i \in 1..l /\ Append(work.page, row)[i] = work.page[i]
                 \/ i = Len(Append(work.page, row)) /\ Append(work.page, row)[i] = row
      BY <1>1, <1>5, AppendCases
    <2> HIDE DEF a
    <2> QED BY <2>1, <2>2
  <1>7. /\ \A j \in 1..l : o + j <= b /\ work.page[j].acct = list[o + j]
        /\ n = o + l /\ b = n + r /\ \A j \in 1..r : work.rows[j] = list[n + j]
    BY DEF Working, At
  <1> HIDE DEF o, n, l, r, b, k, row
  <1>8. n + 1 <= b /\ a = list[n + 1]
    BY <1>1, <1>2, <1>7
  <1>9. ASSUME NEW i \in 1..Len(PageWith(a))
        PROVE  o + i <= b /\ PageWith(a)[i].acct = list[o + i]
    <2>1. CASE i \in 1..l /\ PageWith(a)[i] = work.page[i]
      BY <1>7, <2>1
    <2>2. CASE i = l + 1 /\ PageWith(a)[i] = row
      <3>1. o + i = n + 1
        BY <1>1, <1>3, <1>7, <2>2
      <3> HIDE DEF a
      <3> QED BY <1>4, <1>8, <2>2, <3>1
    <2> QED BY <1>6, <2>1, <2>2
  <1>10. b = (n + 1) + (r - 1)
    BY <1>1, <1>7
  <1>11. ASSUME NEW j \in 1..Len(Tail(work.rows)) PROVE Tail(work.rows)[j] = list[(n + 1) + j]
    <2>1. j + 1 \in 1..r /\ Tail(work.rows)[j] = work.rows[j + 1] /\ j \in Int
      BY <1>2
    <2>2. n + (j + 1) = (n + 1) + j
      BY <1>1, <2>1
    <2> QED BY <1>7, <2>1, <2>2
  <1>12. At(PageWith(a), o)
    <2> HIDE DEF a
    <2> QED BY <1>9 DEF At, b
  <1> QED BY <1>1, <1>2, <1>3, <1>6, <1>8, <1>10, <1>11, <1>12 DEF o, n, l, r, b, k

LEMMA ListedRow ==
    ASSUME Typed, Placed, Listed, ReplyRow PROVE Listed'
  <1> DEFINE page == PageWith(Head(work.rows))
             f == FlagsAfter(work.kind, work.n + 1, work.flags, work.record)
  <1>1. /\ UNCHANGED <<live, queue, stmts, client, list, cut>> /\ work.kind \in Kinds /\ work.rows # <<>>
        /\ work \in Work /\ page \in Seq(Shown) /\ Len(page) = Len(work.page) + 1
    BY RowShape DEF Typed
  <1> SUFFICES ASSUME live, client.acct # Nobody, ~cut PROVE client.oper \in Kinds /\ Coming'
    BY <1>1, Blank, ListedElse DEF UnderWay
  <1>2. client.oper \in Kinds /\ queue = <<>> /\ stmts = <<>> /\ \E p \in Nat : Filled(p) /\ Working(p)
    BY <1>1, OnTheWay, Blank
  <1> PICK p \in Nat : Filled(p) /\ Working(p)
    BY <1>2
  <1> DEFINE k == p + Len(wire)
             o == Off(k)
             n == work.n
             l == Len(work.page)
             b == Len(list)
  <1>3. /\ At(page, o) /\ Len(wire) \in Nat /\ l \in Nat /\ n \in Nat /\ b \in Nat /\ k \in Nat
        /\ n + 1 <= b /\ o \in Nat /\ b = (n + 1) + Len(Tail(work.rows))
        /\ \A j \in 1..Len(Tail(work.rows)) : Tail(work.rows)[j] = list[(n + 1) + j]
        /\ page # <<>>
    <2>1. ListTyped
      BY DEF Listed
    <2>2. /\ At(page, o) /\ Len(wire) \in Nat /\ l \in Nat /\ n \in Nat /\ b \in Nat
          /\ n + 1 <= b /\ o \in Nat /\ b = (n + 1) + Len(Tail(work.rows))
          /\ \A j \in 1..Len(Tail(work.rows)) : Tail(work.rows)[j] = list[(n + 1) + j]
          /\ page # <<>>
      BY <1>1, <2>1, PageGrows
    <2> QED BY <2>2
  <1>4. n = o + l /\ b <= Off(PageWrap - 1)
    BY DEF Working, Listed, ListTyped
  <1>5. /\ work.kind = client.oper /\ list # <<>>
        /\ \A i \in 1..Len(wire) : FullPage(wire[i], p + i)
        /\ Flagged(FlagsOf(work.record)) /\ (n > 0 => Flagged(work.flags))
    BY DEF Working
  <1>6. Filled(p)'
    BY <1>1 DEF Filled, At
  <1>7. ASSUME NEW m \in Message, Deliver(m)
        PROVE  /\ Len(wire') = Len(wire) + 1 /\ wire' # <<>> /\ wire'[Len(wire')] = m /\ p + Len(wire') = k + 1
               /\ \A i \in 1..Len(wire') : i < Len(wire') => FullPage(wire'[i], p + i)
    <2>1. /\ wire' \in Seq(Message) /\ Len(wire') = Len(wire) + 1 /\ wire'[Len(wire) + 1] = m
          /\ \A i \in 1..Len(wire) : wire'[i] = wire[i]
      BY <1>7, Delivered DEF Typed
    <2>2. Len(wire') = Len(wire) + 1 /\ wire' # <<>> /\ wire'[Len(wire')] = m /\ p + Len(wire') = k + 1
      BY <1>3, <2>1
    <2>3. \A i \in 1..Len(wire') : i < Len(wire') => i \in 1..Len(wire)
      BY <1>3, <2>1
    <2> QED BY <1>5, <2>1, <2>2, <2>3
  <1> HIDE DEF page, f
  <1>8. CASE /\ work.kind = "users" /\ work' = Idle
             /\ Deliver(Page("users", work.conn, 3, page, 0, TRUE, NoFlags))
    <2> DEFINE m == Page("users", work.conn, 3, page, 0, TRUE, NoFlags)
    <2>1. m \in Message
      BY <1>1, RowMessages DEF page
    <2>2. m.kind = "users" /\ m.code = 3
      BY DEF Page
    <2>3. m.last = TRUE
      BY DEF Page
    <2> HIDE DEF m
    <2>4. Deliver(m)
      BY <1>8 DEF m
    <2>5. EndPage(wire'[Len(wire')], p + Len(wire'))
      BY <1>5, <1>7, <1>8, <2>1, <2>2, <2>3, <2>4 DEF EndPage
    <2>6. Sent(p)'
      <3>1. work'.kind = "none" /\ wire' # <<>> /\ \A i \in 1..Len(wire') : i < Len(wire') => FullPage(wire'[i], p + i)
        BY <1>7, <1>8, <2>1, <2>4, Blank
      <3> QED BY <1>1, <2>5, <3>1 DEF Sent, EndPage, FullPage, At, Flagged
    <2> QED BY <1>1, <1>2, <1>6, <2>6 DEF Coming
  <1> DEFINE Sending(pages, w) ==
                 /\ work' = [work EXCEPT !.rows = Tail(work.rows), !.n = n + 1, !.page = pages, !.flags = f]
                 /\ w = p + Len(wire') /\ At(pages, Off(w)) /\ n + 1 = Off(w) + Len(pages)
                 /\ \A i \in 1..Len(wire') : FullPage(wire'[i], p + i)
                 /\ Flagged(f)
  <1>9. ASSUME NEW pages, NEW w, Sending(pages, w) PROVE Coming'
    <2>1. /\ work'.kind = work.kind /\ work'.record = work.record /\ work'.rows = Tail(work.rows)
          /\ work'.n = n + 1 /\ work'.page = pages /\ work'.flags = f
      BY <1>1, <1>9 DEF Work
    <2>2. /\ work'.kind = client'.oper /\ list' # <<>> /\ Flagged(FlagsOf(work'.record)) /\ Flagged(work'.flags)
      BY <1>1, <1>5, <1>9, <2>1
    <2>3. At(work'.page, Off(p + Len(wire'))) /\ work'.n = Off(p + Len(wire')) + Len(work'.page)
      BY <1>9, <2>1
    <2>4. /\ Len(list') = work'.n + Len(work'.rows)
          /\ \A j \in 1..Len(work'.rows) : work'.rows[j] = list'[work'.n + j]
      BY <1>1, <1>3, <2>1
    <2>5. Working(p)'
      <3>1. \A i \in 1..Len(wire') : FullPage(wire'[i], p + i)
        BY <1>9
      <3> QED BY <1>1, <2>2, <2>3, <2>4, <3>1 DEF Working, FullPage, At, Flagged
    <2> QED BY <1>1, <1>2, <1>6, <2>5 DEF Coming
  <1>10. CASE /\ Len(work.page) + 1 = PageSize
              /\ Deliver(Page(work.kind, work.conn, 0, page, PageNo(n + 1), FALSE, work.flags))
              /\ work' = [work EXCEPT !.rows = Tail(work.rows), !.n = n + 1, !.page = <<>>, !.flags = f]
              /\ (n + 1) % PageSize = 0
    <2> DEFINE m == Page(work.kind, work.conn, 0, page, PageNo(n + 1), FALSE, work.flags)
    <2>1. m \in Message
      BY <1>1, RowMessages DEF page
    <2>2. m.kind = work.kind /\ m.code = 0 /\ m.rows = page /\ m.no = PageNo(n + 1) /\ m.flags = work.flags
      BY DEF Page
    <2>3. m.last = FALSE
      BY DEF Page
    <2> HIDE DEF m
    <2>4. Deliver(m)
      BY <1>10 DEF m
    <2>5. Off(k + 1) = o + PageSize /\ n + 1 = Off(k + 1) /\ n > 0 /\ o < n + 1 /\ (k + 1) - 1 = k /\ n + 1 \in Nat
      <3>1. Off(k + 1) = o + PageSize
        BY <1>3, Offsets
      <3>2. l + 1 = PageSize /\ PageSize \in Nat /\ PageSize > 1
        BY <1>10, SelectAssumption
      <3>3. n \in Nat /\ l \in Nat /\ o \in Nat /\ k \in Nat /\ n = o + l
        BY <1>3, <1>4
      <3> HIDE DEF n, l, o, k
      <3> QED BY <3>1, <3>2, <3>3
    <2>6. PageNo(n + 1) = k + 1
      <3> DEFINE x == n + 1
      <3>1. x \in Nat /\ Off(k) < x /\ x <= Off(k + 1) /\ x <= Off(PageWrap - 1) /\ k \in Nat
        <4>1. PageWrap - 1 \in Nat
          BY SelectAssumption
        <4>2. Off(PageWrap - 1) \in Nat
          BY <4>1, Offsets
        <4> QED BY <1>3, <1>4, <2>5, <4>2
      <3> HIDE DEF x, k, n
      <3>2. PageNo(x) = k + 1
        BY <3>1, PageNumber
      <3> QED BY <3>2 DEF x
    <2>7. FullPage(m, k + 1)
      BY <1>1, <1>3, <1>5, <1>10, <2>2, <2>3, <2>5, <2>6 DEF FullPage
    <2>8. \A i \in 1..Len(wire') : FullPage(wire'[i], p + i)
      <3>1. \A i \in 1..Len(wire') : i < Len(wire') \/ i = Len(wire')
        BY <1>3, <1>7, <2>1, <2>4
      <3> QED BY <1>7, <2>1, <2>4, <2>7, <3>1
    <2>9. Flagged(f)
      <3>1. work.kind = "scores" => f = FlagsOf(work.record)
        BY <1>10 DEF f, FlagsAfter
      <3> QED BY <1>5, <3>1 DEF Flagged
    <2> DEFINE none == <<>>
    <2>10. At(none, Off(k + 1)) /\ Len(none) = 0
      BY DEF At
    <2>11. Sending(none, k + 1)
      <3>1. p + Len(wire') = k + 1
        BY <1>7, <2>1, <2>4
      <3>2. n + 1 = Off(k + 1) + Len(none)
        BY <2>5, <2>10, <1>3
      <3> QED BY <1>10, <2>8, <2>9, <2>10, <3>1, <3>2
    <2> HIDE DEF none, Sending
    <2> QED BY <1>2, <1>9, <2>11
  <1>11. CASE /\ UNCHANGED wire
              /\ work' = [work EXCEPT !.rows = Tail(work.rows), !.n = n + 1, !.page = page, !.flags = f]
              /\ (n + 1) % PageSize = Len(work.page) + 1
    <2>1. Flagged(f)
      <3>1. CASE work.kind = "scores" /\ n + 1 = 1
        BY <1>5, <3>1 DEF f, FlagsAfter
      <3>2. CASE work.kind = "scores" /\ n + 1 # 1
        <4>1. n > 0 /\ (n + 1) % PageSize # 0
          BY <1>3, <1>11, <3>2
        <4>2. f = work.flags
          BY <3>2, <4>1 DEF f, FlagsAfter
        <4> QED BY <1>5, <4>1, <4>2
      <3>3. CASE work.kind # "scores"
        BY <1>5, <3>3 DEF Flagged
      <3> QED BY <3>1, <3>2, <3>3
    <2>2. Sending(page, k)
      <3>1. k = p + Len(wire') /\ \A i \in 1..Len(wire') : FullPage(wire'[i], p + i)
        BY <1>5, <1>11
      <3>2. n + 1 = Off(k) + Len(page)
        BY <1>1, <1>3, <1>4
      <3> QED BY <1>3, <1>11, <2>1, <3>1, <3>2
    <2> HIDE DEF Sending
    <2> QED BY <1>2, <1>9, <2>2
  <1> HIDE DEF Sending
  <1> QED BY <1>2, <1>8, <1>10, <1>11, RowShape DEF page, f

LEMMA ListedEnds ==
    ASSUME Typed, Placed, Listed, ReplyEnds PROVE Listed'
  <1> DEFINE m == Page(work.kind, work.conn, 0, work.page, PageNo(work.n), TRUE, work.flags)
  <1>1. /\ UNCHANGED <<live, queue, stmts, client, list, cut>> /\ work.kind \in Kinds /\ work.rows = <<>>
        /\ work' = Idle /\ Deliver(m) /\ m \in Message /\ Len(work.page) < PageSize
    BY EndShape
  <1> SUFFICES ASSUME live, client.acct # Nobody, ~cut PROVE client.oper \in Kinds /\ Coming'
    BY <1>1, Blank, ListedElse DEF UnderWay
  <1>2. client.oper \in Kinds /\ queue = <<>> /\ stmts = <<>> /\ \E p \in Nat : Filled(p) /\ Working(p)
    BY <1>1, OnTheWay, Blank
  <1> PICK p \in Nat : Filled(p) /\ Working(p)
    BY <1>2
  <1> DEFINE k == p + Len(wire)
             o == Off(k)
             n == work.n
             l == Len(work.page)
  <1>3. /\ n = o + l /\ Len(list) = n + Len(work.rows) /\ At(work.page, o) /\ work.kind = client.oper /\ list # <<>>
        /\ \A i \in 1..Len(wire) : FullPage(wire[i], p + i)
        /\ (n > 0 => Flagged(work.flags))
    BY DEF Working
  <1>4. n \in Nat /\ l \in Nat /\ Len(wire) \in Nat /\ k \in Nat /\ work.page \in Seq(Shown) /\ PageSize \in Nat
    BY SelectAssumption DEF Typed, Work
  <1>5. o \in Nat /\ Off(k + 1) = o + PageSize
    <2> HIDE DEF k
    <2> QED BY <1>4, Offsets
  <1>6. Len(list) = n /\ n <= Off(PageWrap - 1) /\ Off(PageWrap - 1) \in Nat
    <2>1. Len(work.rows) = 0
      BY <1>1
    <2>2. PageWrap - 1 \in Nat
      BY SelectAssumption
    <2>3. Off(PageWrap - 1) \in Nat
      BY <2>2, Offsets
    <2> QED BY <1>3, <1>4, <2>1, <2>3 DEF Listed, ListTyped
  <1>7. work.page # <<>> => PageNo(n) = k + 1 /\ n > 0
    <2> SUFFICES ASSUME work.page # <<>> PROVE PageNo(n) = k + 1 /\ n > 0
      OBVIOUS
    <2>1. l > 0
      BY <1>4
    <2>2. l < PageSize
      BY <1>1
    <2>3. o < n /\ n <= Off(k + 1) /\ n > 0
      <3> HIDE DEF n, l, o, k
      <3> QED BY <1>3, <1>4, <1>5, <2>1, <2>2
    <2> HIDE DEF n, l, k
    <2> QED BY <1>4, <1>6, <2>3, PageNumber
  <1>8. /\ m.kind = work.kind /\ m.code = 0 /\ m.rows = work.page /\ m.no = PageNo(n) /\ m.flags = work.flags
    BY DEF Page
  <1>9. m.last = TRUE
    BY DEF Page
  <1> HIDE DEF m
  <1>10. (k + 1) - 1 = k
    BY <1>4
  <1>11. EndPage(m, k + 1)
    <2>1. list # <<>> /\ At(m.rows, Off((k + 1) - 1)) /\ Len(list) = Off((k + 1) - 1) + Len(m.rows)
      BY <1>3, <1>6, <1>8, <1>10
    <2> HIDE DEF k, n
    <2> QED BY <1>3, <1>7, <1>8, <1>9, <2>1 DEF EndPage
  <1>12. /\ wire' \in Seq(Message) /\ Len(wire') = Len(wire) + 1 /\ wire'[Len(wire) + 1] = m
         /\ \A i \in 1..Len(wire) : wire'[i] = wire[i]
    BY <1>1, Delivered DEF Typed
  <1>13. wire' # <<>> /\ wire'[Len(wire')] = m /\ p + Len(wire') = k + 1
    BY <1>4, <1>12
  <1>14. \A i \in 1..Len(wire') : i < Len(wire') => FullPage(wire'[i], p + i)
    <2>1. \A i \in 1..Len(wire') : i < Len(wire') => i \in 1..Len(wire)
      BY <1>4, <1>12
    <2> QED BY <1>3, <1>12, <2>1
  <1>15. Sent(p)'
    <2>1. EndPage(wire'[Len(wire')], p + Len(wire')) /\ work'.kind = "none"
      BY <1>1, <1>11, <1>13, Blank
    <2> QED BY <1>1, <1>13, <1>14, <2>1 DEF Sent, EndPage, FullPage, At, Flagged
  <1>16. Filled(p)'
    BY <1>1 DEF Filled, At
  <1> QED BY <1>1, <1>2, <1>15, <1>16 DEF Coming

\* What is on the console, and the rows of the next message.
LEMMA ShownGrows ==
    ASSUME Typed, ListTyped, NEW p \in Nat, Filled(p), NEW rows \in Seq(Shown), At(rows, Off(p))
    PROVE  /\ At(client.shown \o rows, 0) /\ Len(client.shown \o rows) = Off(p) + Len(rows)
           /\ Off(p) \in Nat /\ Len(rows) \in Nat
  <1> DEFINE x == client.shown
             r == x \o rows
  <1>1. x \in Seq(Shown) /\ Len(x) \in Nat /\ Len(rows) \in Nat
    BY DEF Typed, Client
  <1>2. Len(x) = Off(p) /\ At(x, 0)
    BY DEF Filled
  <1> HIDE DEF x
  <1>3. /\ Len(r) = Len(x) + Len(rows)
        /\ \A i \in 1..Len(r) : r[i] = IF i <= Len(x) THEN x[i] ELSE rows[i - Len(x)]
    <2>1. /\ r \in Seq(Shown) /\ Len(r) = Len(x) + Len(rows)
          /\ \A i \in 1..(Len(x) + Len(rows)) : r[i] = IF i <= Len(x) THEN x[i] ELSE rows[i - Len(x)]
      BY <1>1, ConcatProperties
    <2> QED BY <2>1
  <1> HIDE DEF r
  <1>4. ASSUME NEW i \in 1..Len(r) PROVE 0 + i <= Len(list) /\ r[i].acct = list[0 + i]
    <2>1. CASE i <= Len(x)
      <3>1. i \in 1..Len(x) /\ r[i] = x[i]
        BY <1>1, <1>3, <2>1
      <3> QED BY <1>2, <3>1 DEF At
    <2>2. CASE ~(i <= Len(x))
      <3>1. i - Len(x) \in 1..Len(rows) /\ r[i] = rows[i - Len(x)] /\ Len(x) + (i - Len(x)) = 0 + i
        BY <1>1, <1>3, <2>2
      <3>2. \A j \in 1..Len(rows) : Len(x) + j <= Len(list) /\ rows[j].acct = list[Len(x) + j]
        BY <1>2 DEF At
      <3>3. Len(x) + (i - Len(x)) <= Len(list) /\ rows[i - Len(x)].acct = list[Len(x) + (i - Len(x))]
        BY <3>1, <3>2
      <3> QED BY <3>1, <3>3
    <2> QED BY <2>1, <2>2
  <1>5. At(r, 0)
    BY <1>4 DEF At
  <1> QED BY <1>1, <1>2, <1>3, <1>5 DEF r, x

LEMMA ListedTake ==
    ASSUME Typed, Placed, Listed, RecvThread PROVE Listed'
  <1> DEFINE m == wire[1]
             sh == client.shown \o m.rows
             he == IF Header(m) THEN client.heads + 1 ELSE client.heads
             to == IF m.last /\ m.rows # <<>> THEN (m.no - 1) * PageSize + Len(m.rows) ELSE client.total
             op == IF m.last THEN "none" ELSE client.oper
             en == IF m.last THEN "ok" ELSE client.end
             failed == IF client.oper \in Kinds THEN "failed" ELSE client.end
  <1>1. /\ UNCHANGED <<live, conn, session, queue, stmts, work, list>> /\ client \in Client /\ live
        /\ wire # <<>> /\ 1 \in 1..Len(wire) /\ wire \in Seq(Message) /\ Len(wire) \in Nat /\ m \in Message
        /\ cut' \in BOOLEAN /\ (~cut' => ~cut /\ wire' = Tail(wire))
    BY TakeShape, ReceivedWire DEF Typed
  <1>2. \/ /\ Ours(m) /\ m.code = 0
           /\ client' = [client EXCEPT !.shown = sh, !.heads = he, !.total = to, !.oper = op, !.end = en]
        \/ /\ m.kind = "login" /\ client.oper = "login"
           /\ client' = [client EXCEPT !.oper = "none",
                                       !.acct = IF m.code = 0 THEN client.typed ELSE client.acct,
                                       !.may = (m.code = 0 /\ m.may),
                                       !.typed = IF m.code = 0 THEN client.typed ELSE Nobody]
        \/ /\ ~(Ours(m) /\ m.code = 0)
           /\ \/ client' = [client EXCEPT !.oper = "none", !.end = failed]
              \/ m.kind = "junk" /\ UNCHANGED client
    BY TakeShape
  <1> SUFFICES ASSUME ~cut' PROVE Shows' /\ UnderWay'
    BY <1>1 DEF Listed, ListTyped
  <1>3. ~cut /\ UNCHANGED cut /\ Shows /\ ListTyped /\ wire' = Tail(wire)
    BY <1>1 DEF Typed, Listed
  <1>4. Len(wire') = Len(wire) - 1 /\ wire' \in Seq(Message) /\ \A i \in 1..Len(wire') : i + 1 \in 1..Len(wire) /\ wire'[i] = wire[i + 1]
    BY <1>1, <1>3, TailOf
  <1>5. 1 = Len(wire) => wire' = <<>>
    <2> SUFFICES ASSUME 1 = Len(wire) PROVE wire' = <<>>
      OBVIOUS
    <2> DEFINE n == Len(wire')
               l == Len(wire)
    <2>1. n = l - 1 /\ l \in Nat /\ l = 1
      BY <1>1, <1>4
    <2> HIDE DEF n, l
    <2>2. n = 0
      BY <2>1
    <2> QED BY <1>4, <2>2, EmptySeq DEF n
  <1>6. CASE client.acct = Nobody
    <2>1. client.oper \notin Kinds /\ failed = client.end
      BY <1>6 DEF Placed, ClientPlaced
    <2> HIDE DEF sh, he, to, op, en, failed
    <2>2. CASE /\ m.kind = "login" /\ client.oper = "login"
               /\ client' = [client EXCEPT !.oper = "none",
                                           !.acct = IF m.code = 0 THEN client.typed ELSE client.acct,
                                           !.may = (m.code = 0 /\ m.may),
                                           !.typed = IF m.code = 0 THEN client.typed ELSE Nobody]
      <3>1. LoginPlaced(1)
        BY <1>1, <2>2 DEF Placed, WirePlaced
      <3>2. 1 = Len(wire) /\ queue = <<>> /\ stmts = <<>> /\ work.kind = "none"
        BY <3>1 DEF LoginPlaced
      <3>3. Nothing'
        BY <1>1, <1>5, <3>2 DEF Nothing
      <3>4. /\ client'.shown = client.shown /\ client'.heads = client.heads /\ client'.total = client.total
            /\ client'.end = client.end /\ client'.oper = "none"
        BY <1>1, <2>2 DEF Client
      <3>5. UnderWay'
        BY <3>3, <3>4, Blank DEF UnderWay
      <3>6. Listed'
        BY <1>1, <1>3, <3>4, <3>5, Blank, ListedElse
      <3> QED BY <3>6 DEF Listed
    <2>3. CASE client' = [client EXCEPT !.oper = "none", !.end = failed] \/ UNCHANGED client
      <3>1. /\ client'.shown = client.shown /\ client'.heads = client.heads /\ client'.total = client.total
            /\ client'.end = client.end /\ client'.oper \notin Kinds /\ client'.acct = client.acct
        BY <1>1, <2>1, <2>3, Blank DEF Client
      <3>2. Listed'
        BY <1>1, <1>3, <1>6, <3>1, ListedElse
      <3> QED BY <3>2 DEF Listed
    <2>4. ~Ours(m)
      BY <2>1 DEF Ours
    <2> QED BY <1>2, <2>2, <2>3, <2>4
  <1>7. CASE client.acct # Nobody
    <2>1. /\ client.oper \in Kinds /\ client.end = "none" /\ queue = <<>> /\ stmts = <<>>
          /\ \E p \in Nat : Filled(p) /\ (Working(p) \/ Sent(p))
      BY <1>1, <1>3, <1>7, OnTheWay
    <2> PICK p \in Nat : Filled(p) /\ (Working(p) \/ Sent(p))
      BY <2>1
    <2>2. /\ Off(p) \in Nat /\ Off(p + 1) = Off(p) + PageSize /\ (p + 1) - 1 = p /\ PageSize \in Nat /\ PageSize > 1
          /\ p > 0 => Off(p) >= PageSize
      BY Offsets, SelectAssumption
    <2>3. client.heads = (IF p = 0 THEN 0 ELSE 1) /\ client.total = 0
      BY DEF Filled
    <2>4. ASSUME m.kind = client.oper, m.code = 0
          PROVE  /\ client'.shown = sh /\ client'.heads = he /\ client'.total = to /\ client'.oper = op /\ client'.end = en
                 /\ client'.acct = client.acct /\ client'.asked = client.asked
                 /\ m.rows \in Seq(Shown) /\ m.no \in Nat
      <3>1. Ours(m) /\ m.kind # "login"
        BY <2>1, <2>4, Blank DEF Ours
      <3>2. client' = [client EXCEPT !.shown = sh, !.heads = he, !.total = to, !.oper = op, !.end = en]
        BY <1>2, <2>4, <3>1
      <3>3. m.rows \in Seq(Shown) /\ m.no \in Nat
        BY <1>1, <3>1, MessageIs, SelectAssumption
      <3> HIDE DEF sh, he, to, op, en
      <3> QED BY <1>1, <3>2, <3>3 DEF Client
    <2>5. CASE FullPage(m, p + 1)
      <3>1. /\ m.kind = client.oper /\ m.code = 0 /\ Len(m.rows) = PageSize /\ m.no = p + 1 /\ At(m.rows, Off(p))
        BY <2>2, <2>5 DEF FullPage
      <3>2. m.last = FALSE
        BY <2>5 DEF FullPage
      <3>3. m.rows # <<>> /\ (Header(m) <=> p = 0)
        BY <2>2, <3>1 DEF Header
      <3>4. /\ client'.shown = sh /\ client'.heads = 1 /\ client'.total = 0 /\ client'.oper = client.oper
            /\ client'.end = "none" /\ client'.acct = client.acct /\ client'.asked = client.asked
        <4>1. he = 1
          BY <2>3, <3>3
        <4>2. to = 0 /\ op = client.oper /\ en = "none"
          BY <2>1, <2>3, <3>2
        <4> HIDE DEF sh, he, to, op, en
        <4> QED BY <2>4, <3>1, <4>1, <4>2
      <3>5. At(sh, 0) /\ Len(sh) = Off(p + 1)
        <4>1. m.rows \in Seq(Shown)
          BY <2>4, <3>1
        <4> DEFINE rows == m.rows
        <4> HIDE DEF rows
        <4>2. At(client.shown \o rows, 0) /\ Len(client.shown \o rows) = Off(p) + Len(rows)
          BY <1>3, <3>1, <4>1, ShownGrows DEF rows
        <4> QED BY <2>2, <3>1, <4>2 DEF rows
      <3> HIDE DEF sh, he, to, op, en, failed
      <3>6. Filled(p + 1)'
        <4>1. ~(p + 1 = 0)
          OBVIOUS
        <4> QED BY <1>1, <3>4, <3>5, <4>1 DEF Filled, At
      <3>7. /\ (p + 1) + Len(wire') = p + Len(wire)
            /\ \A i \in 1..Len(wire') : (p + 1) + i = p + (i + 1) /\ (i < Len(wire') => i + 1 < Len(wire))
        BY <1>1, <1>4
      <3>8. CASE Working(p)
        <4>1. \A i \in 1..Len(wire') : FullPage(wire'[i], (p + 1) + i)
          BY <1>4, <3>7, <3>8 DEF Working
        <4>2. Working(p + 1)'
          <5>1. /\ work.kind = client.oper /\ list # <<>>
                /\ At(work.page, Off(p + Len(wire))) /\ work.n = Off(p + Len(wire)) + Len(work.page)
                /\ Len(list) = work.n + Len(work.rows)
                /\ \A j \in 1..Len(work.rows) : work.rows[j] = list[work.n + j]
                /\ Flagged(FlagsOf(work.record)) /\ (work.n > 0 => Flagged(work.flags))
            BY <3>8 DEF Working
          <5> QED BY <1>1, <3>4, <3>7, <4>1, <5>1 DEF Working, FullPage, At, Flagged
        <4> QED BY <1>1, <2>1, <3>4, <3>6, <4>2, Blank DEF Coming, UnderWay, Shows, Filled, At
      <3>9. CASE Sent(p) /\ ~Working(p)
        <4>1. Len(wire) # 1
          <5> SUFFICES ASSUME Len(wire) = 1 PROVE FALSE
            OBVIOUS
          <5>1. EndPage(m, p + 1)
            BY <3>9 DEF Sent
          <5>2. m.last = TRUE
            BY <5>1 DEF EndPage
          <5> QED BY <3>2, <5>2
        <4>2. wire' # <<>> /\ wire'[Len(wire')] = wire[Len(wire)]
          <5>1. Len(wire') \in 1..Len(wire') /\ Len(wire') + 1 = Len(wire)
            BY <1>1, <1>4, <4>1
          <5> QED BY <1>4, <5>1
        <4>3. \A i \in 1..Len(wire') : i < Len(wire') => FullPage(wire'[i], (p + 1) + i)
          BY <1>4, <3>7, <3>9 DEF Sent
        <4>4. work'.kind = "none" /\ EndPage(wire'[Len(wire')], (p + 1) + Len(wire'))
          BY <1>1, <3>7, <3>9, <4>2 DEF Sent
        <4>5. Sent(p + 1)'
          BY <1>1, <3>4, <4>2, <4>3, <4>4 DEF Sent, FullPage, EndPage, At, Flagged
        <4> QED BY <1>1, <2>1, <3>4, <3>6, <4>5, Blank DEF Coming, UnderWay, Shows, Filled, At
      <3> QED BY <3>8, <3>9
    <2>6. CASE EndPage(m, p + 1) /\ Sent(p) /\ 1 = Len(wire)
      <3>1. m.kind = client.oper
        BY <2>6 DEF EndPage
      <3>2. m.last = TRUE
        BY <2>6 DEF EndPage
      <3>3. Nothing'
        BY <1>1, <1>5, <2>1, <2>6 DEF Nothing, Sent
      <3>4. CASE m.code = 0
        <4>1. /\ At(m.rows, Off(p)) /\ Len(list) = Off(p) + Len(m.rows) /\ list # <<>>
              /\ m.rows # <<>> => m.no = p + 1
          BY <2>2, <2>6, <3>4 DEF EndPage
        <4>2. m.rows \in Seq(Shown) /\ m.no \in Nat
          BY <2>4, <3>1, <3>4
        <4>3. At(sh, 0) /\ Len(sh) = Len(list)
          <5> DEFINE rows == m.rows
          <5> HIDE DEF rows
          <5>1. At(client.shown \o rows, 0) /\ Len(client.shown \o rows) = Off(p) + Len(rows)
            BY <1>3, <4>1, <4>2, ShownGrows DEF rows
          <5> QED BY <4>1, <5>1 DEF rows
        <4>4. op = "none" /\ en = "ok"
          BY <3>2
        <4>5. he = 1 /\ (to = Len(list) \/ (to = 0 /\ Len(list) % PageSize = 0))
          <5>1. CASE m.rows # <<>>
            <6>1. Header(m) <=> p = 0
              BY <2>2, <4>1, <5>1 DEF Header
            <6>2. he = 1
              BY <2>3, <6>1
            <6>3. (m.no - 1) * PageSize = Off(p)
              <7> DEFINE k == m.no - 1
              <7>1. k = p
                BY <2>2, <4>1, <5>1
              <7> HIDE DEF k
              <7>2. k * PageSize = Off(p)
                BY <7>1, SelectAssumption DEF Off
              <7> QED BY <7>2 DEF k
            <6>4. to = Len(list)
              BY <3>2, <4>1, <5>1, <6>3
            <6> QED BY <6>2, <6>4
          <5>2. CASE m.rows = <<>>
            <6>1. Len(m.rows) = 0 /\ ~Header(m)
              BY <5>2 DEF Header
            <6>2. Len(list) = Off(p)
              BY <2>2, <4>1, <6>1
            <6>3. p # 0
              <7> SUFFICES ASSUME p = 0 PROVE FALSE
                OBVIOUS
              <7>1. Off(0) = 0
                BY Offsets
              <7>2. Len(list) = 0
                BY <6>2, <7>1
              <7> QED BY <1>3, <4>1, <7>2, EmptySeq DEF ListTyped
            <6>4. he = 1 /\ to = 0
              BY <2>3, <5>2, <6>1, <6>3
            <6>5. Off(p) % PageSize = 0
              <7> DEFINE x == Off(p)
              <7>1. x \in Int /\ x = PageSize * p + 0 /\ 0 \in 0..PageSize - 1 /\ p \in Int
                BY <2>2 DEF Off
              <7> HIDE DEF x
              <7>2. x % PageSize = 0
                BY <2>2, <7>1, DivOf
              <7> QED BY <7>2 DEF x
            <6> QED BY <6>2, <6>4, <6>5
          <5> QED BY <5>1, <5>2
        <4>6. /\ client'.shown = sh /\ client'.heads = he /\ client'.total = to /\ client'.oper = op
              /\ client'.end = en /\ client'.acct = client.acct
          BY <2>4, <3>1, <3>4
        <4> HIDE DEF sh, he, to, op, en, failed
        <4>7. Shows'
          BY <1>1, <4>3, <4>4, <4>5, <4>6, Blank DEF Shows, At
        <4> QED BY <3>3, <4>4, <4>6, <4>7, Blank DEF UnderWay
      <3>5. CASE m.code # 0
        <4>1. failed = "failed" /\ m.kind # "login" /\ m.kind # "junk"
          BY <2>1, <3>1, Blank
        <4>2. client' = [client EXCEPT !.oper = "none", !.end = failed]
          BY <1>2, <3>5, <4>1
        <4> HIDE DEF sh, he, to, op, en, failed
        <4>3. client'.oper = "none" /\ client'.end = "failed"
          BY <1>1, <4>1, <4>2 DEF Client
        <4> QED BY <3>3, <4>3, Blank DEF UnderWay, Shows
      <3> QED BY <3>4, <3>5
    <2>7. FullPage(m, p + 1) \/ (EndPage(m, p + 1) /\ Sent(p) /\ 1 = Len(wire))
      <3>1. CASE Working(p)
        BY <1>1, <3>1 DEF Working
      <3>2. CASE Sent(p) /\ 1 < Len(wire)
        BY <1>1, <3>2 DEF Sent
      <3>3. CASE Sent(p) /\ 1 = Len(wire)
        BY <3>3 DEF Sent
      <3>4. 1 < Len(wire) \/ 1 = Len(wire)
        <4> DEFINE l == Len(wire)
        <4>1. l \in Nat /\ 1 \in 1..l
          BY <1>1
        <4> HIDE DEF l
        <4>2. 1 < l \/ 1 = l
          BY <4>1
        <4> QED BY <4>2 DEF l
      <3> QED BY <3>1, <3>2, <3>3, <3>4
    <2> QED BY <2>5, <2>6, <2>7
  <1> QED BY <1>6, <1>7

LEMMA ListedEnvironment == ASSUME Typed, Placed, Listed, Environment PROVE Listed'
  <1>1. CASE Connect
    <2>1. live' = TRUE /\ client' = NewClient /\ list' = <<>> /\ UNCHANGED cut
      BY <1>1 DEF Connect
    <2>2. client'.acct = Nobody /\ client'.oper = "none" /\ client'.end = "none"
      BY <2>1 DEF NewClient
    <2>3. ListTyped'
      <3>1. Len(list') = 0 /\ list' \in Seq(Accts)
        BY <2>1
      <3>2. PageWrap - 1 \in Nat
        BY SelectAssumption
      <3>3. Off(PageWrap - 1) \in Nat
        BY <3>2, Offsets
      <3> QED BY <3>1, <3>3 DEF ListTyped
    <2> QED BY <2>2, <2>3, Blank DEF Listed, Shows, UnderWay
  <1>2. CASE Disconnect
    BY <1>2, ListedElse DEF Disconnect
  <1>3. ASSUME NEW a \in Accts, EditAuthority(a) \/ AddUser(a) \/ DeleteUser(a) PROVE Listed'
    <2>1. UNCHANGED <<live, queue, stmts, work, wire, client, list, cut>>
      BY <1>3 DEF EditAuthority, AddUser, DeleteUser, Others, server
    <2> QED BY <2>1, ListedUnchanged
  <1> QED BY <1>1, <1>2, <1>3 DEF Environment

LEMMA ListedNext ==
    ASSUME PagesFit, Typed, Placed, Listed, [Next]_vars PROVE Listed'
  <1>1. CASE UNCHANGED vars
    <2>1. UNCHANGED <<live, queue, stmts, work, wire, client, list, cut>>
      BY <1>1 DEF vars, server
    <2> QED BY <2>1, ListedUnchanged
  <1>2. CASE Mysql
    <2>1. CASE \E k \in Kinds : SelectReplyBegins(k)
      BY <2>1, ListedBegins
    <2> QED BY <1>2, <2>1, ListedLoginReply, ListedRow, ListedEnds DEF Mysql
  <1> QED BY <1>1, <1>2, ListedRecv, ListedTake, ListedUsers, ListedEnvironment DEF Next

\* What the rows say, put side by side with the list.
LEMMA AcctsOfRows ==
    ASSUME ListTyped, NEW rows \in Seq(Shown), At(rows, 0)
    PROVE  /\ IsPrefix(AcctsOf(rows), list)
           /\ Len(rows) = Len(list) => AcctsOf(rows) = list
  <1> DEFINE s == AcctsOf(rows)
             n == Len(rows)
  <1>1. n \in Nat /\ Len(list) \in Nat /\ list \in Seq(Accts)
    BY DEF ListTyped
  <1>2. \A j \in 1..n : j <= Len(list) /\ rows[j].acct = list[j]
    BY <1>1 DEF At
  <1>3. s \in Seq(Accts) /\ Len(s) = n /\ \A j \in 1..n : s[j] = list[j]
    <2>1. s = [j \in 1..n |-> rows[j].acct]
      BY DEF AcctsOf
    <2>2. \A j \in 1..n : rows[j].acct \in Accts
      <3>1. \A j \in 1..n : rows[j] \in Shown
        OBVIOUS
      <3> QED BY <3>1 DEF Shown
    <2>3. s \in [1..n -> Accts]
      BY <2>1, <2>2
    <2> HIDE DEF n
    <2>4. s \in Seq(Accts)
      BY <1>1, <2>3
    <2>5. Len(s) = n
      BY <1>1, <2>1
    <2> QED BY <1>2, <2>1, <2>4, <2>5
  <1>4. n <= Len(list)
    <2>1. CASE n = 0
      BY <1>1, <2>1
    <2>2. CASE n # 0
      <3> HIDE DEF n
      <3>1. n \in 1..n
        BY <1>1, <2>2
      <3> QED BY <1>2, <3>1
    <2> QED BY <2>1, <2>2
  <1> HIDE DEF s, n
  <1>5. IsPrefix(s, list)
    <2> DEFINE x == SubSeq(s, 1, n)
               y == SubSeq(list, 1, n)
    <2>1. x \in Seq(Accts) /\ Len(x) = n /\ \A j \in 1..n : x[j] = s[j]
      BY <1>1, <1>3
    <2>2. y \in Seq(Accts) /\ Len(y) = n /\ \A j \in 1..n : y[j] = list[j]
      BY <1>1, <1>4
    <2> HIDE DEF x, y
    <2>3. x = y
      BY <1>3, <2>1, <2>2, SeqEqual
    <2> QED BY <1>3, <1>4, <2>3 DEF IsPrefix, x, y
  <1>6. ASSUME n = Len(list) PROVE s = list
    BY <1>1, <1>3, <1>6, SeqEqual
  <1> QED BY <1>5, <1>6 DEF s, n

LEMMA FlagsOfListed ==
    ASSUME Typed, Placed, Listed, ~cut PROVE FlagsOnEveryPage
  <1> SUFFICES ASSUME client.oper = "scores", NEW i \in DOMAIN wire,
                      wire[i].kind = "scores", wire[i].code = 0, wire[i].rows # <<>>
               PROVE  wire[i].flags = client.asked
    BY DEF FlagsOnEveryPage
  <1>1. live /\ client.acct # Nobody /\ wire # <<>> /\ wire \in Seq(Message) /\ i \in 1..Len(wire) /\ Len(wire) \in Nat
    <2>1. wire \in Seq(Message) /\ i \in 1..Len(wire) /\ Len(wire) \in Nat
      BY DEF Typed
    <2>2. wire # <<>>
      BY <2>1
    <2> QED BY <2>1, <2>2 DEF Placed, ClientPlaced, Kinds
  <1>2. PICK p \in Nat : Working(p) \/ Sent(p)
    BY <1>1, OnTheWay
  <1>3. CASE FullPage(wire[i], p + i)
    BY <1>3 DEF FullPage, Flagged
  <1>4. CASE EndPage(wire[i], p + i)
    BY <1>4 DEF EndPage, Flagged
  <1>5. i < Len(wire) \/ i = Len(wire)
    BY <1>1
  <1> QED BY <1>1, <1>2, <1>3, <1>4, <1>5 DEF Working, Sent

LEMMA ListOfListed ==
    ASSUME Typed, Placed, Listed PROVE ListShownUncut
  <1> SUFFICES ASSUME ~cut PROVE ListShown
    BY FlagsOfListed DEF ListShownUncut
  <1>1. Shows /\ ListTyped /\ client.shown \in Seq(Shown)
    BY DEF Listed, Typed, Client
  <1>2. client.oper \in Kinds => IsPrefix(AcctsOf(client.shown), list)
    BY <1>1, AcctsOfRows DEF Shows
  <1>3. client.end = "ok" => AcctsOf(client.shown) = list
    BY <1>1, AcctsOfRows DEF Shows
  <1> QED BY <1>1, <1>2, <1>3 DEF ListShown, Shows

\* As long as recv returns one message at a time, a selection that ends well has
\* shown the result of its statement, every row once and in its order, under one
\* header, with the number of them; one that has not ended has shown the beginning;
\* and every message of scores says what its rows are.  It is so for every number
\* of users whose pages a byte can count, for every size of the page, and however
\* the table, the rights and the connections change meanwhile.
THEOREM ListsAreShown == PagesFit => (Spec => []ListShownUncut)
  <1> SUFFICES ASSUME PagesFit PROVE Spec => []ListShownUncut
    OBVIOUS
  <1>1. Init => Typed /\ Placed /\ Listed
    BY TypedInit, PlacedInit, ListedInit
  <1>2. (Typed /\ Placed /\ Listed) /\ [Next]_vars => (Typed /\ Placed /\ Listed)'
    BY TypedNext, PlacedNext, ListedNext
  <1>3. Typed /\ Placed /\ Listed => ListShownUncut
    BY ListOfListed
  <1> QED BY <1>1, <1>2, <1>3, PTL DEF Spec
==============================================================================
