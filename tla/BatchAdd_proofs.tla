---------------------------- MODULE BatchAdd_proofs ----------------------------
(***************************************************************************)
(* Proofs about BatchAdd, for files of any rows, parts of any size and any *)
(* number of batches: the types, that a reply ends its part, and that the  *)
(* counts of the server, of the client and of the database agree.          *)
(*                                                                         *)
(* An addition of users has one part at most on its way, as a request, as  *)
(* statements of which only the last may carry the mark, or as a reply.    *)
(* Scores can have several, because every row that fails is answered; what *)
(* bounds their counts is that no two parts have one tag.                  *)
(***************************************************************************)
EXTENDS BatchAdd, Ordering_proofs

------------------------------------------------------------------------------
(* The inductive invariant *)

\* The parts that are sent.
Parts == (0..MaxBatch) \X (1..MaxPart)

Requests == {r \in Request : Len(r.recs) <= Chunk /\ r.tag \in Parts}
Items == {it \in Item : it.tag \in Parts}

Typed ==
    /\ oper \in {"userInfo", "single", "score"}
    /\ state \in {"menu", "wait", "gone"} /\ file \in Seq(Rows)
    /\ sum \in Nat /\ succ \in Nat /\ sent \in Seq(Rows) /\ tag \in Tags
    /\ ended \in {"none", "done", "failed"}
    /\ recvQueue \in Seq(Requests) /\ mysqlQueue \in Seq(Items) /\ out \in Seq(Ack)
    /\ tmp = <<>> \/ tmp \in Nat \X (0..Chunk)
    /\ added \in [Tags -> 0..Chunk]

\* Part t has been begun when u is the last one begun.
UpTo(t, u) == t[1] < u[1] \/ (t[1] = u[1] /\ t[2] <= u[2])

\* Parts have tags of their own, given in order; of one whose request is still
\* queued nothing has been added.
Fresh ==
    /\ \A i \in 1..Len(recvQueue) :
          UpTo(recvQueue[i].tag, tag) /\ added[recvQueue[i].tag] = 0
    /\ \A i, j \in 1..Len(recvQueue) : recvQueue[i].tag = recvQueue[j].tag => i = j
    /\ \A i \in 1..Len(recvQueue), j \in 1..Len(mysqlQueue) :
          recvQueue[i].tag # mysqlQueue[j].tag
    /\ \A i \in 1..Len(mysqlQueue) : UpTo(mysqlQueue[i].tag, tag)
    /\ \A t \in Tags : ~UpTo(t, tag) => added[t] = 0

\* What has been added of a part and what is queued of it are no more than a part.
Room ==
    \A i, j \in 1..Len(mysqlQueue) :
        i <= j /\ mysqlQueue[i].tag = mysqlQueue[j].tag
            => added[mysqlQueue[i].tag] + (j - i + 1) <= Chunk

\* While rows are left, the parts sent were full ones.
Position == file # <<>> => sum = tag[2] * Chunk /\ sum + Len(file) <= MaxPart * Chunk

\* One part at most is on its way, and it is the one the client waits for.
OnePlace ==
    /\ state = "menu" => recvQueue = <<>> /\ mysqlQueue = <<>> /\ out = <<>>
    /\ state = "gone" => out = <<>>
    /\ Len(recvQueue) <= 1 /\ Len(out) <= 1
    /\ recvQueue # <<>> => mysqlQueue = <<>> /\ out = <<>>
    /\ mysqlQueue # <<>> => out = <<>>
    /\ \A i \in 1..Len(recvQueue) : recvQueue[i].tag = tag
    /\ \A i \in 1..Len(mysqlQueue) :
          mysqlQueue[i].tag = tag /\ (mysqlQueue[i].last => i = Len(mysqlQueue))

\* One user is one row, one request and one statement.
OneRow ==
    /\ file = <<>>
    /\ \A i \in 1..Len(recvQueue) : Len(recvQueue[i].recs) = 1
    /\ Len(mysqlQueue) <= 1
    /\ mysqlQueue # <<>> => added[tag] = 0

\* A reply on its way is about the part waited for, and true.
Reply ==
    out # <<>> =>
        /\ Head(out).tag = tag
        /\ Head(out).ok <=> added[tag] > 0
        /\ oper = "userInfo" => Head(out).n = added[tag]

\* The second number of strTmpData counts the part worked on.
PartCount ==
    IF oper = "userInfo" /\ state # "gone"
    THEN mysqlQueue # <<>> => tmp # <<>> /\ tmp[2] = added[tag]
    ELSE tmp = <<>>

\* The client's count lacks the part it waits for.
Counts ==
    \A b \in 0..MaxBatch : b = tag[1] =>
        /\ state = "wait" => succ + added[tag] = AddedIn(b)
        /\ state = "menu" /\ ended = "done" => succ = AddedIn(b)

IInv ==
    /\ Typed /\ Fresh /\ Room /\ Position /\ PartCount
    /\ oper # "score" => OnePlace /\ Reply
    /\ oper = "single" => OneRow
    /\ oper = "userInfo" => Counts

\* The first number of strTmpData counts the batch, from one part to the next,
\* as long as the number of a part fits its byte.
Totals ==
    /\ tag[2] >= 1 /\ (tag[2] = 1 => succ = 0)
    /\ \A i \in 1..Len(recvQueue) :
          (recvQueue[i].end <=> file = <<>>) /\ recvQueue[i].no = tag[2]
    /\ \A i \in 1..Len(mysqlQueue) : mysqlQueue[i].end <=> file = <<>>
    /\ recvQueue # <<>> /\ tag[2] > 1 => tmp # <<>> /\ tmp[1] = succ
    /\ \A b \in 0..MaxBatch : b = tag[1] =>
          /\ mysqlQueue # <<>> => tmp[1] = AddedIn(b)
          /\ out # <<>> /\ Head(out).ok /\ file # <<>> => tmp # <<>> /\ tmp[1] = AddedIn(b)

TInv == oper = "userInfo" /\ state = "wait" => Totals

------------------------------------------------------------------------------
(* What is sent: a part of the file *)

LEMMA Quotient ==
    ASSUME NEW c \in Nat \ {0}, NEW k \in Nat, NEW a \in Nat, k * c <= a, a < (k + 1) * c
    PROVE  a \div c = k
  OBVIOUS

\* bRecordNO before it is cut to a byte: the p-th part has number p.
LEMMA PartNumber ==
    ASSUME NEW p \in 1..MaxPart, NEW k \in 0..Chunk, k > 0 \/ p = 1,
           NEW total, total = (p - 1) * Chunk + k
    PROVE  (IF total > 0 THEN total - 1 ELSE 0) \div Chunk + 1 = p
  <1>1. Chunk \in Nat \ {0} /\ p \in Nat /\ p - 1 \in Nat
    BY BatchAssumption
  <1>2. CASE k > 0
    <2>1. (p - 1) * Chunk \in Nat /\ (p - 1 + 1) * Chunk = (p - 1) * Chunk + Chunk
      BY <1>1
    <2>2. /\ total > 0 /\ total - 1 \in Nat
          /\ (p - 1) * Chunk <= total - 1 /\ total - 1 < (p - 1 + 1) * Chunk
      BY <1>1, <1>2, <2>1
    <2>3. (total - 1) \div Chunk = p - 1
      BY <1>1, <2>2, Quotient
    <2> QED BY <1>1, <2>2, <2>3
  <1>3. CASE k = 0
    <2>1. p = 1 /\ total = 0
      BY <1>1, <1>3
    <2>2. 0 * Chunk <= 0 /\ 0 < (0 + 1) * Chunk
      BY <1>1
    <2>3. 0 \div Chunk = 0
      BY <1>1, <2>2, Quotient
    <2> QED BY <2>1, <2>3
  <1> QED BY <1>2, <1>3

\* The rows are at the end: nothing is sent, the operation has failed.
GivesUp ==
    /\ state' = "menu" /\ ended' = "failed" /\ file' = <<>> /\ sum' = 0 /\ sent' = <<>>
    /\ UNCHANGED recvQueue

\* The rows recs are sent, as part t, and the rest stays.
Sends(r) ==
    /\ r \in Requests /\ (r.end <=> file' = <<>>)
    /\ state' = "wait" /\ ended' = "none"
    /\ file' \in Seq(Rows) /\ sum' \in Nat /\ sent' \in Seq(Rows)
    /\ file' # <<>> => sum' = r.tag[2] * Chunk /\ sum' + Len(file') <= MaxPart * Chunk
    /\ recvQueue' = Append(recvQueue, r)

LEMMA SendShape ==
    ASSUME NEW f \in Seq(Rows), NEW b \in 0..MaxBatch, NEW p \in 1..MaxPart, NEW n \in Nat,
           n = (p - 1) * Chunk, n + Len(f) <= MaxPart * Chunk, f # <<>> \/ p = 1,
           SendData(f, n, <<b, p>>)
    PROVE  \/ GivesUp
           \/ \E r : /\ Sends(r) /\ r.tag = <<b, p>> /\ r.no = p % NumberWrap
                     /\ Len(f) = 1 => Len(r.recs) = 1 /\ file' = <<>>
  <1> DEFINE k == IF Len(f) < Chunk THEN Len(f) ELSE Chunk
             recs == SubSeq(f, 1, k)
             total == n + Len(recs)
             rest == SubSeq(f, Len(recs) + 1, Len(f))
             number == (IF total > 0 THEN total - 1 ELSE 0) \div Chunk + 1
             r == [recs |-> recs, no |-> number % NumberWrap, end |-> rest = <<>>,
                   tag |-> <<b, p>>]
  <1>1. Chunk \in Nat \ {0} /\ NumberWrap \in Nat \ {0} /\ MaxPart \in Nat /\ Len(f) \in Nat
        /\ p \in Nat /\ p - 1 \in Nat
    BY BatchAssumption
  <1>2. k \in 0..Len(f) /\ k \in 0..Chunk
    BY <1>1
  <1>3. recs \in Seq(Rows) /\ Len(recs) = k
    <2> HIDE DEF k
    <2>1. k \in Nat /\ k <= Len(f)
      BY <1>1, <1>2
    <2>2. \A i \in 1..k : f[i] \in Rows
      BY <2>1
    <2> QED BY <2>1, <2>2, SubSeqProperties
  <1>4. rest \in Seq(Rows) /\ Len(rest) = Len(f) - k
    <2>1. \A i \in k + 1..Len(f) : f[i] \in Rows
      BY <1>1, <1>2
    <2> HIDE DEF k, recs
    <2>2. Len(recs) + 1 \in Nat
      BY <1>1, <1>2, <1>3
    <2> QED BY <1>1, <1>2, <1>3, <2>1, <2>2, SubSeqProperties
  <1>5. number = p
    <2>1. k > 0 \/ p = 1
      BY <1>1
    <2> HIDE DEF k, recs, number
    <2>2. total = (p - 1) * Chunk + k
      BY <1>3
    <2> HIDE DEF total
    <2> QED BY <1>2, <2>1, <2>2, PartNumber DEF number
  <1>6. total \in Nat
    <2> HIDE DEF k, recs
    <2> QED BY <1>2, <1>3
  <1>7. rest # <<>> => total = p * Chunk /\ total + Len(rest) <= MaxPart * Chunk
    <2>1. SUFFICES ASSUME rest # <<>> PROVE total = p * Chunk /\ total + Len(rest) <= MaxPart * Chunk
      OBVIOUS
    <2>2. Len(rest) > 0
      <3> HIDE DEF rest
      <3> QED BY <1>4, <2>1
    <2>3. k = Chunk
      <3> HIDE DEF recs, rest
      <3> QED BY <1>1, <1>4, <2>2
    <2>4. total = n + k
      BY <1>3
    <2>6. p * Chunk = (p - 1) * Chunk + Chunk
      BY <1>1
    <2>5. MaxPart * Chunk \in Nat
      BY <1>1
    <2> HIDE DEF k, recs, rest, total
    <2> QED BY <1>1, <1>4, <2>3, <2>4, <2>5, <2>6
  <1>8. r \in Requests
    <2>1. number % NumberWrap \in 0..NumberWrap - 1
      <3> HIDE DEF number
      <3> QED BY <1>1, <1>5
    <2>2. <<b, p>> \in Parts /\ <<b, p>> \in Tags
      BY <1>1 DEF Parts, Tags
    <2> HIDE DEF k, recs, rest, number
    <2>3. r \in Request
      BY <1>3, <2>1, <2>2 DEF Request
    <2>4. Len(r.recs) <= Chunk /\ r.tag \in Parts
      BY <1>1, <1>2, <1>3, <2>2
    <2> HIDE DEF r
    <2> QED BY <2>3, <2>4 DEF Requests
  <1>9. IF \E i \in DOMAIN recs : recs[i] = "unparsed"
        THEN GivesUp
        ELSE /\ state' = "wait" /\ ended' = "none"
             /\ file' = rest /\ sum' = total /\ sent' = recs
             /\ recvQueue' = Append(recvQueue, r)
    BY DEF SendData, GivesUp
  <1>10. r.tag = <<b, p>> /\ r.no = p % NumberWrap /\ r.end = (rest = <<>>)
         /\ (Len(f) = 1 => Len(r.recs) = 1 /\ rest = <<>>)
    <2>1. Len(f) = 1 => k = 1
      BY <1>1
    <2>2. Len(f) = 1 => rest = <<>>
      <3> HIDE DEF k, recs, rest
      <3> QED BY <1>4, <2>1
    <2> HIDE DEF k, recs, rest, number
    <2> QED BY <1>3, <1>5, <2>1, <2>2
  <1> HIDE DEF k, recs, rest, total, number, r
  <1>11. ASSUME ~GivesUp PROVE Sends(r)
    <2>1. /\ state' = "wait" /\ ended' = "none"
          /\ file' = rest /\ sum' = total /\ sent' = recs
          /\ recvQueue' = Append(recvQueue, r)
      BY <1>9, <1>11
    <2>2. r.tag[2] = p
      BY <1>10
    <2>3. file' # <<>> => sum' = r.tag[2] * Chunk /\ sum' + Len(file') <= MaxPart * Chunk
      BY <1>7, <2>1, <2>2
    <2>4. (r.end <=> file' = <<>>) /\ file' \in Seq(Rows) /\ sum' \in Nat /\ sent' \in Seq(Rows)
      BY <1>3, <1>4, <1>6, <1>10, <2>1
    <2> QED BY <1>8, <2>1, <2>3, <2>4 DEF Sends
  <1>12. ~GivesUp => file' = rest
    BY <1>9
  <1> QED BY <1>10, <1>11, <1>12

------------------------------------------------------------------------------
(* What is queued of a part, and what is added of it *)

\* The statements of a request: no more than its rows, and the mark of the last
\* row, if it is queued, is on the last statement.
LEMMA ItemsShape ==
    ASSUME NEW r \in Requests
    PROVE  /\ ItemsOf(r) \in Seq(Items) /\ Len(ItemsOf(r)) <= Len(r.recs)
           /\ \A i \in 1..Len(ItemsOf(r)) :
                 /\ ItemsOf(r)[i].tag = r.tag /\ ItemsOf(r)[i].end = r.end
                 /\ ItemsOf(r)[i].last => i = Len(ItemsOf(r))
  <1> DEFINE n == Len(r.recs)
             A == {i \in 1..n : ~Dropped(r.recs[i])}
             m == Cardinality(A)
             queued == InOrder(A)
             item(i) == [fails |-> r.recs[i] # "new", no |-> r.no, end |-> r.end,
                         last |-> i = n, tag |-> r.tag]
             items == [k \in 1..m |-> item(queued[k])]
  <1>1. /\ n \in Nat /\ r.no \in 0..NumberWrap - 1 /\ r.end \in BOOLEAN
        /\ r.tag \in Tags /\ r.tag \in Parts
    BY DEF Requests, Request
  <1>2. A \in SUBSET Nat /\ A \in SUBSET (1..n) /\ IsFiniteSet(A) /\ m \in Nat /\ m <= n
    <2>1. IsFiniteSet(1..n) /\ Cardinality(1..n) = n
      <3> HIDE DEF n
      <3>1. IsFiniteSet(1..n) /\ Cardinality(1..n) = IF 1 > n THEN 0 ELSE n - 1 + 1
        BY <1>1, FS_Interval
      <3> QED BY <1>1, <3>1
    <2>2. IsFiniteSet(A) /\ Cardinality(A) <= Cardinality(1..n)
      BY <2>1, FS_Subset
    <2> QED BY <1>1, <2>1, <2>2, FS_CardinalityType
  <1>3. queued \in [1..m -> A] /\ Ascending(queued)
    <2> HIDE DEF A
    <2> QED BY <1>2, InOrderOf
  <1>4. ItemsOf(r) = items
    <2>1. Len(queued) = m
      <3> HIDE DEF A, m, queued
      <3> QED BY <1>2, <1>3
    <2> QED BY <2>1 DEF ItemsOf
  <1> HIDE DEF A, m, queued
  <1>5. \A k \in 1..m : queued[k] \in 1..n
    BY <1>2, <1>3
  <1>6. \A k \in 1..m : items[k] \in Items
    <2> TAKE k \in 1..m
    <2> DEFINE it == item(queued[k])
    <2>1. it \in Item /\ it.tag \in Parts
      BY <1>1 DEF Item
    <2> HIDE DEF it
    <2>2. it \in Items
      BY <2>1 DEF Items
    <2> QED BY <2>2 DEF it
  <1>7. items \in Seq(Items) /\ Len(items) = m
    <2>1. items \in [1..m -> Items]
      BY <1>6
    <2> HIDE DEF items
    <2> QED BY <1>2, <2>1, FunctionSeq
  <1>8. \A k \in 1..m : items[k].last => k = m
    <2>1. SUFFICES ASSUME NEW k \in 1..m, queued[k] = n, k # m PROVE FALSE
      OBVIOUS
    <2>2. m \in 1..m /\ k < m
      BY <1>2, <2>1
    <2>3. queued[k] < queued[m]
      BY <1>3, <2>2 DEF Ascending
    <2> QED BY <1>1, <1>5, <2>1, <2>2, <2>3
  <1>9. \A k \in 1..m : items[k].tag = r.tag /\ items[k].end = r.end
    OBVIOUS
  <1> HIDE DEF items
  <1> QED BY <1>2, <1>4, <1>7, <1>8, <1>9

LEMMA TakenFinite ==
    ASSUME NEW b PROVE IsFiniteSet(TakenIn(b)) /\ AddedIn(b) \in Nat
  <1>1. IsFiniteSet(1..MaxPart) /\ IsFiniteSet(1..Chunk)
    BY BatchAssumption, FS_Interval
  <1>2. IsFiniteSet((1..MaxPart) \X (1..Chunk))
    BY <1>1, FS_Product
  <1>3. IsFiniteSet(TakenIn(b))
    BY <1>2, FS_Subset DEF TakenIn
  <1> QED BY <1>3, FS_CardinalityType DEF AddedIn

LEMMA NoneTaken ==
    ASSUME NEW b, \A p \in 1..MaxPart : added[<<b, p>>] = 0 PROVE AddedIn(b) = 0
  <1>1. TakenIn(b) = {}
    BY BatchAssumption DEF TakenIn
  <1> QED BY <1>1, FS_EmptySet DEF AddedIn

\* One more row of a part is one more of its batch.
LEMMA OneTaken ==
    ASSUME added \in [Tags -> 0..Chunk], NEW b \in 0..MaxBatch, NEW p \in 1..MaxPart,
           added[<<b, p>>] < Chunk,
           added' = [added EXCEPT ![<<b, p>>] = @ + 1]
    PROVE  AddedIn(b)' = AddedIn(b) + 1
  <1> DEFINE row == <<p, added[<<b, p>>] + 1>>
  <1>1. Chunk \in Nat /\ MaxPart \in Nat /\ \A q \in 1..MaxPart : <<b, q>> \in Tags
    BY BatchAssumption DEF Tags
  <1>2. added[<<b, p>>] \in 0..Chunk
    BY <1>1
  <1>3. \A q \in 1..MaxPart : added'[<<b, q>>] = IF q = p THEN added[<<b, p>>] + 1
                                                         ELSE added[<<b, q>>]
    BY <1>1
  <1>4. row \in (1..MaxPart) \X (1..Chunk)
    BY <1>1, <1>2
  <1>5. row \notin TakenIn(b)
    BY <1>2 DEF TakenIn
  <1>6. TakenIn(b)' = TakenIn(b) \cup {row}
    <2>1. ASSUME NEW q \in 1..MaxPart, NEW k \in 1..Chunk
          PROVE  k <= added'[<<b, q>>] <=> k <= added[<<b, q>>] \/ <<q, k>> = row
      <3>1. CASE q = p
        BY <1>1, <1>2, <1>3, <3>1
      <3>2. CASE q # p
        BY <1>3, <3>2
      <3> QED BY <3>1, <3>2
    <2>2. \A r \in (1..MaxPart) \X (1..Chunk) :
             r[2] <= added'[<<b, r[1]>>] <=> r[2] <= added[<<b, r[1]>>] \/ r = row
      BY <2>1
    <2> HIDE DEF row
    <2> QED BY <1>4, <2>2 DEF TakenIn
  <1>7. Cardinality(TakenIn(b) \cup {row}) = Cardinality(TakenIn(b)) + 1
    <2> HIDE DEF row
    <2> QED BY <1>5, TakenFinite, FS_AddElement
  <1> HIDE DEF row
  <1> QED BY <1>6, <1>7 DEF AddedIn

------------------------------------------------------------------------------
(* The shape of the steps *)

LEMMA ConcatOf ==
    ASSUME NEW S, NEW p \in Seq(S), NEW q \in Seq(S)
    PROVE  /\ p \o q \in Seq(S) /\ Len(p) \in Nat /\ Len(q) \in Nat
           /\ Len(p \o q) = Len(p) + Len(q)
           /\ \A i \in 1..Len(p) : (p \o q)[i] = p[i]
           /\ \A i \in 1..Len(q) : (p \o q)[Len(p) + i] = q[i]
           /\ \A i \in 1..Len(p \o q) :
                 i \in 1..Len(p) \/ \E k \in 1..Len(q) : i = Len(p) + k
  <1>1. /\ p \o q \in Seq(S) /\ Len(p) \in Nat /\ Len(q) \in Nat
        /\ Len(p \o q) = Len(p) + Len(q)
    OBVIOUS
  <1>2. \A i \in 1..Len(p) : (p \o q)[i] = p[i]
    OBVIOUS
  <1>3. \A i \in 1..Len(q) : (p \o q)[Len(p) + i] = q[i]
    OBVIOUS
  <1>4. ASSUME NEW i \in 1..Len(p \o q), i \notin 1..Len(p)
        PROVE  \E k \in 1..Len(q) : i = Len(p) + k
    <2>1. i - Len(p) \in 1..Len(q) /\ i = Len(p) + (i - Len(p))
      BY <1>1, <1>4
    <2> QED BY <2>1
  <1> QED BY <1>1, <1>2, <1>3, <1>4

\* The client goes on to a later part: it is sent, or a row of it cannot be.
NextPart ==
    /\ tag' \in Parts /\ ~UpTo(tag', tag)
    /\ \/ GivesUp
       \/ \E r : Sends(r) /\ r.tag = tag' /\ r.no = tag'[2] % NumberWrap
                 /\ (oper = "single" => Len(r.recs) = 1 /\ file' = <<>>)

LEMMA ChooseShape ==
    ASSUME Typed, Choose
    PROVE  /\ NextPart /\ tag' = <<tag[1] + 1, 1>> /\ state = "menu" /\ succ' = 0
           /\ UNCHANGED <<oper, mysqlQueue, tmp, out, added>>
  <1>1. PICK f \in Files : (oper = "single" => Len(f) = 1) /\ SendData(f, 0, tag')
    BY DEF Choose
  <1>2. f \in Seq(Rows) /\ Len(f) <= MaxPart * Chunk /\ Chunk \in Nat /\ MaxPart \in Nat \ {0}
        /\ MaxBatch \in Nat
    BY BatchAssumption
  <1>3. tag \in Tags /\ tag[1] < MaxBatch /\ tag' = <<tag[1] + 1, 1>>
    BY DEF Typed, Choose
  <1>4. /\ tag[1] + 1 \in 0..MaxBatch /\ 1 \in 1..MaxPart
        /\ tag' \in Parts /\ ~UpTo(tag', tag)
    BY <1>2, <1>3 DEF Tags, Parts, UpTo
  <1>5. 0 = (1 - 1) * Chunk /\ 0 + Len(f) <= MaxPart * Chunk
    BY <1>2
  <1>6. \/ GivesUp
        \/ \E r : /\ Sends(r) /\ r.tag = <<tag[1] + 1, 1>> /\ r.no = 1 % NumberWrap
                  /\ Len(f) = 1 => Len(r.recs) = 1 /\ file' = <<>>
    <2>1. SendData(f, 0, <<tag[1] + 1, 1>>)
      BY <1>1, <1>3
    <2> QED BY <1>2, <1>4, <1>5, <2>1, SendShape
  <1>7. NextPart
    BY <1>1, <1>3, <1>4, <1>6 DEF NextPart
  <1> QED BY <1>3, <1>7 DEF Choose

LEMMA SuccessShape ==
    ASSUME Typed, Position, oper = "single" => OneRow, RecvSuccess
    PROVE  /\ state = "wait" /\ out # <<>> /\ Head(out).ok /\ out' = Tail(out)
           /\ succ' = succ + Head(out).n
           /\ UNCHANGED <<oper, mysqlQueue, tmp, added>>
           /\ \/ /\ file = <<>> /\ state' = "menu" /\ ended' = "done" /\ sum' = 0 /\ sent' = <<>>
                 /\ UNCHANGED <<file, tag, recvQueue>>
              \/ NextPart /\ tag' = <<tag[1], tag[2] + 1>> /\ file # <<>> /\ oper # "single"
  <1>1. CASE file = <<>> /\ state' = "menu" /\ ended' = "done" /\ sum' = 0 /\ sent' = <<>>
             /\ UNCHANGED <<file, tag, recvQueue>>
    BY <1>1 DEF RecvSuccess
  <1>2. CASE file # <<>> /\ tag' = <<tag[1], tag[2] + 1>> /\ SendData(file, sum, tag')
    <2>1. /\ file \in Seq(Rows) /\ Chunk \in Nat \ {0} /\ MaxPart \in Nat /\ Len(file) \in Nat
          /\ tag[1] \in 0..MaxBatch /\ tag[2] \in 0..MaxPart /\ MaxBatch \in Nat /\ sum \in Nat
          /\ tag = <<tag[1], tag[2]>>
      BY BatchAssumption DEF Typed, Tags
    <2>2. sum = tag[2] * Chunk /\ sum + Len(file) <= MaxPart * Chunk
      BY <1>2 DEF Position
    <2>3. Len(file) > 0
      BY <1>2, <2>1
    <2>4. tag[2] < MaxPart
      <3>1. tag[2] * Chunk < MaxPart * Chunk
        BY <2>1, <2>2, <2>3
      <3>2. ASSUME NEW a \in Nat, NEW c \in Nat, NEW d \in Nat, a * d < c * d PROVE a < c
        BY <3>2
      <3> QED BY <2>1, <3>1, <3>2
    <2>5. /\ tag[2] + 1 \in 1..MaxPart /\ tag' \in Parts /\ ~UpTo(tag', tag)
          /\ sum = (tag[2] + 1 - 1) * Chunk
      BY <1>2, <2>1, <2>2, <2>4 DEF Parts, UpTo
    <2>6. PICK f \in Seq(Rows), n \in Nat, b \in 0..MaxBatch, p \in 1..MaxPart :
             f = file /\ n = sum /\ b = tag[1] /\ p = tag[2] + 1
      BY <2>1, <2>5
    <2>7. \/ GivesUp
          \/ \E r : Sends(r) /\ r.tag = <<b, p>> /\ r.no = p % NumberWrap
      <3>1. n = (p - 1) * Chunk /\ n + Len(f) <= MaxPart * Chunk /\ f # <<>>
        <4>1. n = (p - 1) * Chunk
          <5>1. p - 1 = tag[2]
            BY <2>1, <2>6
          <5> QED BY <5>1, <2>2, <2>6, Zenon
        <4>2. n + Len(f) <= MaxPart * Chunk /\ f # <<>>
          BY <1>2, <2>2, <2>6, Zenon
        <4> QED BY <4>1, <4>2
      <3>2. SendData(f, n, <<b, p>>)
        BY <1>2, <2>6 DEF SendData
      <3> QED BY <3>1, <3>2, SendShape
    <2>8. oper # "single"
      BY <1>2 DEF OneRow
    <2>9. NextPart
      BY <1>2, <2>5, <2>6, <2>7, <2>8 DEF NextPart
    <2> QED BY <1>2, <2>8, <2>9 DEF RecvSuccess
  <1> QED BY <1>1, <1>2 DEF RecvSuccess

LEMMA RecvShape ==
    ASSUME RecvEmpty \/ AddBatchUserInfoRecvHandle \/ AddBatchScoreRecvHandle
           \/ AddSingleUserInfoRecvHandle
    PROVE  /\ recvQueue # <<>> /\ recvQueue' = Tail(recvQueue)
           /\ UNCHANGED <<clientVars, added>>
           /\ \/ UNCHANGED mysqlQueue
              \/ mysqlQueue' = mysqlQueue \o ItemsOf(Head(recvQueue))
  BY DEF RecvEmpty, AddBatchUserInfoRecvHandle, AddBatchScoreRecvHandle,
         AddSingleUserInfoRecvHandle, RecvFront, Queued

LEMMA MysqlShape ==
    ASSUME AddBatchUserInfoReplyHandle \/ AddBatchScoreReplyHandle
           \/ AddSingleUserInfoReplyHandle
    PROVE  MysqlFront
  BY DEF AddBatchUserInfoReplyHandle, AddBatchScoreReplyHandle, AddSingleUserInfoReplyHandle

------------------------------------------------------------------------------
(* Tags of their own, and room for every row *)

LEMMA TagOf ==
    ASSUME NEW t \in Parts
    PROVE  t \in Tags /\ t[1] \in 0..MaxBatch /\ t[2] \in 1..MaxPart /\ t = <<t[1], t[2]>>
  BY BatchAssumption DEF Parts, Tags

LEMMA UpToOrder ==
    ASSUME NEW t \in Tags, NEW u \in Tags, NEW v \in Tags
    PROVE  /\ UpTo(t, t)
           /\ UpTo(t, u) /\ ~UpTo(v, u) => UpTo(t, v) /\ t # v
           /\ ~UpTo(t, v) /\ ~UpTo(v, u) => ~UpTo(t, u)
  BY BatchAssumption DEF UpTo, Tags

LEMMA FreshBegins ==
    ASSUME Typed, Fresh, Room, NextPart, UNCHANGED <<mysqlQueue, added>>
    PROVE  Fresh' /\ Room'
  <1>1. /\ recvQueue \in Seq(Requests) /\ mysqlQueue \in Seq(Items) /\ tag \in Tags
        /\ tag' \in Parts /\ ~UpTo(tag', tag) /\ tag' \in Tags
    BY TagOf DEF Typed, NextPart
  <1>2. /\ \A i \in 1..Len(recvQueue) : recvQueue[i].tag \in Tags
        /\ \A i \in 1..Len(mysqlQueue) : mysqlQueue[i].tag \in Tags
    BY <1>1, TagOf DEF Requests, Items
  <1>3. /\ \A i \in 1..Len(recvQueue) :
              /\ UpTo(recvQueue[i].tag, tag') /\ recvQueue[i].tag # tag'
              /\ added[recvQueue[i].tag] = 0
        /\ \A i \in 1..Len(mysqlQueue) :
              UpTo(mysqlQueue[i].tag, tag') /\ mysqlQueue[i].tag # tag'
        /\ UpTo(tag', tag') /\ added[tag'] = 0
        /\ \A t \in Tags : ~UpTo(t, tag') => added[t] = 0
    BY <1>1, <1>2, UpToOrder DEF Fresh
  <1>4. Room'
    BY DEF Room
  <1>5. CASE UNCHANGED recvQueue
    <2>1. \A i, j \in 1..Len(recvQueue) : recvQueue[i].tag = recvQueue[j].tag => i = j
      BY DEF Fresh
    <2>2. \A i \in 1..Len(recvQueue), j \in 1..Len(mysqlQueue) :
             recvQueue[i].tag # mysqlQueue[j].tag
      BY DEF Fresh
    <2> QED BY <1>3, <1>4, <1>5, <2>1, <2>2 DEF Fresh
  <1>6. ASSUME NEW r \in Requests, r.tag = tag', recvQueue' = Append(recvQueue, r)
        PROVE  Fresh'
    <2>1. /\ Len(recvQueue) \in Nat
          /\ recvQueue'[Len(recvQueue) + 1] = r
          /\ \A i \in 1..Len(recvQueue) : recvQueue'[i] = recvQueue[i]
          /\ \A i \in 1..Len(recvQueue') : i \in 1..Len(recvQueue) \/ i = Len(recvQueue) + 1
      BY <1>1, <1>6, AppendOf
    <2>2. \A i \in 1..Len(recvQueue') : UpTo(recvQueue'[i].tag, tag')
                                        /\ added'[recvQueue'[i].tag] = 0
      BY <1>3, <1>6, <2>1
    <2>3. \A i, j \in 1..Len(recvQueue') : recvQueue'[i].tag = recvQueue'[j].tag => i = j
      <3> SUFFICES ASSUME NEW i \in 1..Len(recvQueue'), NEW j \in 1..Len(recvQueue'),
                          recvQueue'[i].tag = recvQueue'[j].tag
                   PROVE  i = j
        OBVIOUS
      <3>1. CASE i \in 1..Len(recvQueue) /\ j \in 1..Len(recvQueue)
        BY <2>1, <3>1 DEF Fresh
      <3>2. CASE i = Len(recvQueue) + 1 \/ j = Len(recvQueue) + 1
        BY <1>3, <1>6, <2>1, <3>2
      <3> QED BY <2>1, <3>1, <3>2
    <2>4. \A i \in 1..Len(recvQueue'), j \in 1..Len(mysqlQueue') :
             recvQueue'[i].tag # mysqlQueue'[j].tag
      <3> SUFFICES ASSUME NEW i \in 1..Len(recvQueue'), NEW j \in 1..Len(mysqlQueue)
                   PROVE  recvQueue'[i].tag # mysqlQueue[j].tag
        OBVIOUS
      <3>1. CASE i \in 1..Len(recvQueue)
        BY <2>1, <3>1 DEF Fresh
      <3>2. CASE i = Len(recvQueue) + 1
        BY <1>3, <1>6, <2>1, <3>2
      <3> QED BY <2>1, <3>1, <3>2
    <2> QED BY <1>3, <2>2, <2>3, <2>4 DEF Fresh
  <1>7. Fresh'
    BY <1>5, <1>6 DEF NextPart, GivesUp, Sends
  <1> QED BY <1>4, <1>7

\* The requests that are left when the first one is taken.
LEMMA TailFresh ==
    ASSUME Typed, Fresh, recvQueue # <<>>, recvQueue' = Tail(recvQueue)
    PROVE  /\ Head(recvQueue) \in Requests /\ recvQueue' \in Seq(Requests)
           /\ added[Head(recvQueue).tag] = 0
           /\ UpTo(Head(recvQueue).tag, tag)
           /\ \A j \in 1..Len(mysqlQueue) : mysqlQueue[j].tag # Head(recvQueue).tag
           /\ \A i \in 1..Len(recvQueue') :
                 /\ recvQueue'[i].tag # Head(recvQueue).tag
                 /\ UpTo(recvQueue'[i].tag, tag) /\ added[recvQueue'[i].tag] = 0
                 /\ \A j \in 1..Len(recvQueue') : recvQueue'[i].tag = recvQueue'[j].tag => i = j
                 /\ \A j \in 1..Len(mysqlQueue) : recvQueue'[i].tag # mysqlQueue[j].tag
  <1>1. /\ Len(recvQueue) \in Nat /\ 1 \in 1..Len(recvQueue)
        /\ Head(recvQueue) = recvQueue[1] /\ Head(recvQueue) \in Requests
        /\ recvQueue' \in Seq(Requests) /\ Len(recvQueue') = Len(recvQueue) - 1
        /\ \A i \in 1..Len(recvQueue') : i + 1 \in 1..Len(recvQueue)
                                         /\ recvQueue'[i] = recvQueue[i + 1]
    BY TailOf DEF Typed
  <1>2. ASSUME NEW i \in 1..Len(recvQueue')
        PROVE  /\ recvQueue'[i].tag # Head(recvQueue).tag
               /\ UpTo(recvQueue'[i].tag, tag) /\ added[recvQueue'[i].tag] = 0
               /\ \A j \in 1..Len(recvQueue') : recvQueue'[i].tag = recvQueue'[j].tag => i = j
               /\ \A j \in 1..Len(mysqlQueue) : recvQueue'[i].tag # mysqlQueue[j].tag
    <2>1. PICK k \in 1..Len(recvQueue) : k = i + 1 /\ recvQueue'[i] = recvQueue[k]
      BY <1>1
    <2>2. recvQueue[k].tag # recvQueue[1].tag
      <3>1. k # 1
        BY <1>1, <2>1
      <3> QED BY <1>1, <3>1 DEF Fresh
    <2>3. UpTo(recvQueue[k].tag, tag) /\ added[recvQueue[k].tag] = 0
      BY DEF Fresh
    <2>4. ASSUME NEW j \in 1..Len(recvQueue'), recvQueue'[i].tag = recvQueue'[j].tag
          PROVE  i = j
      <3>1. PICK l \in 1..Len(recvQueue) : l = j + 1 /\ recvQueue'[j] = recvQueue[l]
        BY <1>1
      <3>2. k = l
        BY <2>1, <2>4, <3>1 DEF Fresh
      <3> QED BY <1>1, <2>1, <3>1, <3>2
    <2>5. \A j \in 1..Len(mysqlQueue) : recvQueue[k].tag # mysqlQueue[j].tag
      BY DEF Fresh
    <2> QED BY <1>1, <2>1, <2>2, <2>3, <2>4, <2>5
  <1>3. /\ added[recvQueue[1].tag] = 0 /\ UpTo(recvQueue[1].tag, tag)
        /\ \A j \in 1..Len(mysqlQueue) : mysqlQueue[j].tag # recvQueue[1].tag
    BY <1>1 DEF Fresh
  <1> QED BY <1>1, <1>2, <1>3

LEMMA FreshRecv ==
    ASSUME Typed, Fresh, Room, recvQueue # <<>>, recvQueue' = Tail(recvQueue),
           UNCHANGED <<tag, added>>,
           \/ UNCHANGED mysqlQueue
           \/ mysqlQueue' = mysqlQueue \o ItemsOf(Head(recvQueue))
    PROVE  Fresh' /\ Room' /\ recvQueue' \in Seq(Requests) /\ mysqlQueue' \in Seq(Items)
  <1> DEFINE r == Head(recvQueue)
             new == ItemsOf(r)
  <1>1. /\ r \in Requests /\ recvQueue' \in Seq(Requests)
        /\ added[r.tag] = 0
        /\ UpTo(r.tag, tag)
        /\ \A j \in 1..Len(mysqlQueue) : mysqlQueue[j].tag # r.tag
        /\ \A i \in 1..Len(recvQueue') :
              /\ recvQueue'[i].tag # r.tag
              /\ UpTo(recvQueue'[i].tag, tag) /\ added[recvQueue'[i].tag] = 0
              /\ \A j \in 1..Len(recvQueue') : recvQueue'[i].tag = recvQueue'[j].tag => i = j
              /\ \A j \in 1..Len(mysqlQueue) : recvQueue'[i].tag # mysqlQueue[j].tag
    BY TailFresh
  <1>2. CASE UNCHANGED mysqlQueue
    <2>1. Fresh'
      BY <1>1, <1>2 DEF Fresh
    <2>2. Room'
      BY <1>2 DEF Room
    <2> QED BY <1>1, <1>2, <2>1, <2>2 DEF Typed
  <1>3. CASE mysqlQueue' = mysqlQueue \o new
    <2> HIDE DEF r
    <2>1. /\ new \in Seq(Items) /\ Len(new) <= Len(r.recs)
          /\ \A i \in 1..Len(new) : new[i].tag = r.tag
      BY <1>1, ItemsShape
    <2>2. Len(new) <= Chunk
      <3>1. Len(r.recs) <= Chunk /\ Len(r.recs) \in Nat
        BY <1>1 DEF Requests, Request
      <3> HIDE DEF new
      <3> QED BY <2>1, <3>1, BatchAssumption
    <2> HIDE DEF new
    <2>3. mysqlQueue \in Seq(Items)
      BY DEF Typed
    <2>4. /\ mysqlQueue' \in Seq(Items) /\ Len(mysqlQueue) \in Nat /\ Len(new) \in Nat
          /\ \A i \in 1..Len(mysqlQueue) : mysqlQueue'[i] = mysqlQueue[i]
          /\ \A i \in 1..Len(new) : mysqlQueue'[Len(mysqlQueue) + i] = new[i]
          /\ \A i \in 1..Len(mysqlQueue') :
                i \in 1..Len(mysqlQueue) \/ \E k \in 1..Len(new) : i = Len(mysqlQueue) + k
      BY <1>3, <2>1, <2>3, ConcatOf
    <2>5. \A i \in 1..Len(mysqlQueue') :
             \/ /\ i \in 1..Len(mysqlQueue) /\ mysqlQueue'[i] = mysqlQueue[i]
                /\ mysqlQueue'[i].tag # r.tag
             \/ \E k \in 1..Len(new) : i = Len(mysqlQueue) + k /\ mysqlQueue'[i].tag = r.tag
      <3> TAKE i \in 1..Len(mysqlQueue')
      <3>1. CASE i \in 1..Len(mysqlQueue)
        BY <1>1, <2>4, <3>1
      <3>2. ASSUME NEW k \in 1..Len(new), i = Len(mysqlQueue) + k
            PROVE  mysqlQueue'[i].tag = r.tag
        BY <2>1, <2>4, <3>2
      <3> QED BY <2>4, <3>1, <3>2
    <2>8. Len(mysqlQueue) \in Nat /\ Len(new) \in Nat /\ Len(new) <= Chunk /\ Chunk \in Nat
      BY <2>2, <2>4, BatchAssumption
    <2>6. Fresh'
      <3>1. \A i \in 1..Len(recvQueue'), j \in 1..Len(mysqlQueue') :
               recvQueue'[i].tag # mysqlQueue'[j].tag
        BY <1>1, <2>5
      <3>2. \A i \in 1..Len(mysqlQueue') : UpTo(mysqlQueue'[i].tag, tag)
        BY <1>1, <2>5 DEF Fresh
      <3>3. \A t \in Tags : ~UpTo(t, tag) => added[t] = 0
        BY DEF Fresh
      <3> QED BY <1>1, <3>1, <3>2, <3>3 DEF Fresh
    <2>7. Room'
      <3> SUFFICES ASSUME NEW i \in 1..Len(mysqlQueue'), NEW j \in 1..Len(mysqlQueue'), i <= j,
                          mysqlQueue'[i].tag = mysqlQueue'[j].tag
                   PROVE  added[mysqlQueue'[i].tag] + (j - i + 1) <= Chunk
        BY DEF Room
      <3>1. CASE /\ i \in 1..Len(mysqlQueue) /\ mysqlQueue'[i] = mysqlQueue[i]
                 /\ mysqlQueue'[i].tag # r.tag
        <4>1. j \in 1..Len(mysqlQueue) /\ mysqlQueue'[j] = mysqlQueue[j]
          BY <2>5, <3>1
        <4> QED BY <3>1, <4>1 DEF Room
      <3>2. ASSUME NEW k \in 1..Len(new), i = Len(mysqlQueue) + k, mysqlQueue'[i].tag = r.tag
            PROVE  added[mysqlQueue'[i].tag] + (j - i + 1) <= Chunk
        <4>1. PICK l \in 1..Len(new) : j = Len(mysqlQueue) + l
          BY <2>5, <3>2
        <4>2. j - i + 1 = l - k + 1
          BY <2>8, <3>2, <4>1
        <4>3. 0 + (l - k + 1) <= Chunk
          BY <2>8
        <4> QED BY <1>1, <3>2, <4>2, <4>3
      <3> QED BY <2>5, <3>1, <3>2
    <2> QED BY <1>1, <2>4, <2>6, <2>7
  <1> QED BY <1>2, <1>3

LEMMA FreshMysql ==
    ASSUME Typed, Fresh, Room, MysqlFront
    PROVE  /\ Fresh' /\ Room' /\ mysqlQueue' \in Seq(Items) /\ added' \in [Tags -> 0..Chunk]
           /\ Head(mysqlQueue) \in Items /\ added[Head(mysqlQueue).tag] < Chunk
  <1> DEFINE it == Head(mysqlQueue)
  <1>1. /\ Len(mysqlQueue) \in Nat /\ 1 \in 1..Len(mysqlQueue) /\ it = mysqlQueue[1]
        /\ it \in Items /\ mysqlQueue' \in Seq(Items) /\ Len(mysqlQueue') = Len(mysqlQueue) - 1
        /\ \A i \in 1..Len(mysqlQueue') : i + 1 \in 1..Len(mysqlQueue)
                                          /\ mysqlQueue'[i] = mysqlQueue[i + 1]
    BY TailOf DEF Typed, MysqlFront
  <1>2. it.tag \in Tags /\ it.tag \in Parts
    BY <1>1, TagOf DEF Items
  <1>3. /\ UNCHANGED <<recvQueue, tag>>
        /\ added' = IF it.fails THEN added ELSE [added EXCEPT ![it.tag] = @ + 1]
    BY DEF MysqlFront, clientVars
  <1> HIDE DEF it
  <1>4. added \in [Tags -> 0..Chunk] /\ Chunk \in Nat /\ tag \in Tags
    BY BatchAssumption DEF Typed
  <1>5. added[it.tag] + (1 - 1 + 1) <= Chunk
    BY <1>1 DEF Room
  <1>6. added[it.tag] < Chunk /\ added[it.tag] \in 0..Chunk
    BY <1>2, <1>4, <1>5
  <1>7. /\ added' \in [Tags -> 0..Chunk]
        /\ added'[it.tag] <= added[it.tag] + 1
        /\ \A t \in Tags : t # it.tag => added'[t] = added[t]
    BY <1>2, <1>3, <1>4, <1>6
  <1>8. UpTo(it.tag, tag) /\ \A i \in 1..Len(recvQueue) : recvQueue[i].tag # it.tag
    BY <1>1 DEF Fresh
  <1>9. Fresh'
    <2>1. \A i \in 1..Len(recvQueue) : recvQueue[i].tag \in Tags
      BY TagOf DEF Typed, Requests
    <2>2. \A i \in 1..Len(recvQueue) :
             UpTo(recvQueue[i].tag, tag) /\ added'[recvQueue[i].tag] = 0
      BY <1>7, <1>8, <2>1 DEF Fresh
    <2>3. \A i, j \in 1..Len(recvQueue) : recvQueue[i].tag = recvQueue[j].tag => i = j
      BY DEF Fresh
    <2>4. ASSUME NEW j \in 1..Len(mysqlQueue')
          PROVE  /\ UpTo(mysqlQueue'[j].tag, tag)
                 /\ \A i \in 1..Len(recvQueue) : recvQueue[i].tag # mysqlQueue'[j].tag
      <3>1. PICK k \in 1..Len(mysqlQueue) : mysqlQueue'[j] = mysqlQueue[k]
        BY <1>1
      <3> QED BY <3>1 DEF Fresh
    <2>5. \A t \in Tags : ~UpTo(t, tag) => added'[t] = 0
      BY <1>7, <1>8 DEF Fresh
    <2> QED BY <1>3, <2>2, <2>3, <2>4, <2>5 DEF Fresh
  <1>10. Room'
    <2> SUFFICES ASSUME NEW i \in 1..Len(mysqlQueue'), NEW j \in 1..Len(mysqlQueue'), i <= j,
                        mysqlQueue'[i].tag = mysqlQueue'[j].tag
                 PROVE  added'[mysqlQueue'[i].tag] + (j - i + 1) <= Chunk
      BY DEF Room
    <2>1. PICK k \in 1..Len(mysqlQueue) : k = i + 1 /\ mysqlQueue'[i] = mysqlQueue[k]
      BY <1>1
    <2>2. PICK l \in 1..Len(mysqlQueue) : l = j + 1 /\ mysqlQueue'[j] = mysqlQueue[l]
      BY <1>1
    <2>3. mysqlQueue[k].tag = mysqlQueue[l].tag /\ mysqlQueue[k].tag \in Tags
      <3>1. mysqlQueue[k] \in Items
        BY DEF Typed
      <3> QED BY <2>1, <2>2, <3>1, TagOf DEF Items
    <2>4. k <= l /\ l - k = j - i /\ k > 1 /\ k \in Nat /\ l \in Nat
      BY <1>1, <2>1, <2>2
    <2>5. CASE mysqlQueue[k].tag = it.tag
      <3>1. added[it.tag] + (l - 1 + 1) <= Chunk
        <4>1. 1 <= l /\ mysqlQueue[1].tag = mysqlQueue[l].tag
          BY <1>1, <2>3, <2>5
        <4> QED BY <1>1, <4>1 DEF Room
      <3>2. added'[it.tag] \in 0..Chunk
        BY <1>2, <1>7
      <3>3. added'[it.tag] + (l - k + 1) <= Chunk
        BY <1>4, <1>6, <1>7, <2>4, <3>1, <3>2
      <3> QED BY <2>1, <2>4, <2>5, <3>3
    <2>6. CASE mysqlQueue[k].tag # it.tag
      <3>1. added[mysqlQueue[k].tag] + (l - k + 1) <= Chunk
        BY <2>3, <2>4 DEF Room
      <3> QED BY <1>7, <2>1, <2>3, <2>4, <2>6, <3>1
    <2> QED BY <2>5, <2>6
  <1> QED BY <1>1, <1>6, <1>7, <1>9, <1>10 DEF it

------------------------------------------------------------------------------
(* The steps of the client *)

LEMMA TypedBegins ==
    ASSUME Typed, NextPart
    PROVE  /\ state' \in {"menu", "wait"} /\ file' \in Seq(Rows) /\ sum' \in Nat
           /\ sent' \in Seq(Rows) /\ tag' \in Tags /\ ended' \in {"none", "failed"}
           /\ recvQueue' \in Seq(Requests) /\ Position'
           /\ state' = "menu" => ended' = "failed"
  <1>1. tag' \in Tags /\ recvQueue \in Seq(Requests)
    BY TagOf DEF NextPart, Typed
  <1>2. CASE GivesUp
    BY <1>1, <1>2 DEF GivesUp, Position
  <1>3. ASSUME NEW r, Sends(r), r.tag = tag'
        PROVE  /\ state' = "wait" /\ file' \in Seq(Rows) /\ sum' \in Nat
               /\ sent' \in Seq(Rows) /\ ended' = "none"
               /\ recvQueue' \in Seq(Requests) /\ Position'
    <2>1. recvQueue' \in Seq(Requests)
      BY <1>1, <1>3 DEF Sends
    <2>2. Position'
      BY <1>3 DEF Sends, Position
    <2> QED BY <1>3, <2>1, <2>2 DEF Sends
  <1> QED BY <1>1, <1>2, <1>3 DEF NextPart

LEMMA NoneOnWay ==
    ASSUME recvQueue' = <<>>, mysqlQueue' = <<>>, out' = <<>> PROVE OnePlace' /\ Reply'
  <1>1. Len(recvQueue') = 0 /\ Len(mysqlQueue') = 0 /\ Len(out') = 0
    OBVIOUS
  <1>2. 1..0 = {}
    OBVIOUS
  <1> QED BY <1>1, <1>2 DEF OnePlace, Reply

\* A part that begins when nothing else is on its way is the only one.
LEMMA OnlyPart ==
    ASSUME Typed, NextPart, recvQueue = <<>>, mysqlQueue' = <<>>, out' = <<>>, UNCHANGED oper
    PROVE  OnePlace' /\ Reply' /\ (oper = "single" => OneRow')
  <1>1. state' \in {"menu", "wait"} /\ state' = "menu" => ended' = "failed"
    BY TypedBegins
  <1>2. Reply' /\ Len(out') = 0 /\ Len(mysqlQueue') = 0
    BY DEF Reply
  <1>3. CASE GivesUp
    <2>1. recvQueue' = <<>> /\ file' = <<>> /\ Len(recvQueue') = 0
      BY <1>3 DEF GivesUp
    <2>2. OnePlace' /\ OneRow'
      BY <1>2, <2>1, <1>3 DEF OnePlace, OneRow, GivesUp
    <2> QED BY <1>2, <2>2
  <1>4. ASSUME NEW r, Sends(r), r.tag = tag', oper = "single" => Len(r.recs) = 1 /\ file' = <<>>
        PROVE  OnePlace' /\ (oper = "single" => OneRow')
    <2>1. recvQueue' = <<r>> /\ state' = "wait" /\ Len(recvQueue') = 1
          /\ \A i \in 1..Len(recvQueue') : recvQueue'[i] = r
      BY <1>4 DEF Sends
    <2>2. OnePlace'
      BY <1>2, <1>4, <2>1 DEF OnePlace
    <2>3. oper = "single" => OneRow'
      BY <1>2, <1>4, <2>1 DEF OneRow
    <2> QED BY <2>2, <2>3
  <1> QED BY <1>2, <1>3, <1>4 DEF NextPart

LEMMA ChooseGood ==
    ASSUME IInv, Choose PROVE IInv'
  <1>1. /\ NextPart /\ tag' = <<tag[1] + 1, 1>> /\ state = "menu" /\ succ' = 0
        /\ UNCHANGED <<oper, mysqlQueue, tmp, out, added>>
    BY ChooseShape DEF IInv
  <1>2. Typed /\ Fresh /\ Room /\ PartCount /\ (oper # "score" => OnePlace)
    BY DEF IInv
  <1>3. /\ state' \in {"menu", "wait"} /\ file' \in Seq(Rows) /\ sum' \in Nat
        /\ sent' \in Seq(Rows) /\ tag' \in Tags /\ ended' \in {"none", "failed"}
        /\ recvQueue' \in Seq(Requests) /\ Position'
        /\ state' = "menu" => ended' = "failed"
    BY <1>1, <1>2, TypedBegins
  <1>4. Typed'
    BY <1>1, <1>2, <1>3 DEF Typed
  <1>5. Fresh' /\ Room'
    BY <1>1, <1>2, FreshBegins
  <1>6. oper # "score" => recvQueue = <<>> /\ mysqlQueue = <<>> /\ out = <<>>
    BY <1>1, <1>2 DEF OnePlace
  <1>7. PartCount'
    BY <1>1, <1>2, <1>3, <1>6 DEF PartCount
  <1>8. oper # "score" => OnePlace' /\ Reply' /\ (oper = "single" => OneRow')
    BY <1>1, <1>2, <1>6, OnlyPart
  <1>9. Counts'
    <2> SUFFICES ASSUME NEW b \in 0..MaxBatch, b = tag'[1], state' = "wait"
                 PROVE  succ' + added'[tag'] = AddedIn(b)'
      BY <1>3 DEF Counts
    <2>1. AddedIn(b)' = AddedIn(b)
      BY <1>1 DEF AddedIn, TakenIn
    <2>2. \A p \in 1..MaxPart : added[<<b, p>>] = 0
      <3> TAKE p \in 1..MaxPart
      <3>1. <<b, p>> \in Tags /\ ~UpTo(<<b, p>>, tag)
        BY <1>1, <1>2, BatchAssumption DEF Tags, UpTo, Typed
      <3> QED BY <1>2, <3>1 DEF Fresh
    <2>3. AddedIn(b) = 0
      BY <2>2, NoneTaken
    <2>4. added[tag'] = 0
      BY <1>1, <1>2, <1>3 DEF Fresh, NextPart
    <2> QED BY <1>1, <2>1, <2>3, <2>4
  <1> QED BY <1>1, <1>3, <1>4, <1>5, <1>7, <1>8, <1>9 DEF IInv

\* A reply that is taken was the only thing on its way.
LEMMA LastReply ==
    ASSUME Typed, OnePlace, out # <<>>, out' = Tail(out)
    PROVE  recvQueue = <<>> /\ mysqlQueue = <<>> /\ out' = <<>>
  <1>1. out \in Seq(Ack) /\ Len(out) <= 1
    BY DEF Typed, OnePlace
  <1>2. out' = <<>>
    BY <1>1, TailOne
  <1> QED BY <1>2 DEF OnePlace

LEMMA SuccessGood ==
    ASSUME IInv, RecvSuccess PROVE IInv'
  <1>1. /\ Typed /\ Fresh /\ Room /\ Position /\ PartCount
        /\ oper # "score" => OnePlace /\ Reply
        /\ oper = "single" => OneRow
        /\ oper = "userInfo" => Counts
    BY DEF IInv
  <1>2. /\ state = "wait" /\ out # <<>> /\ out' = Tail(out)
        /\ succ' = succ + Head(out).n
        /\ UNCHANGED <<oper, mysqlQueue, tmp, added>>
    BY <1>1, SuccessShape
  <1>3. out' \in Seq(Ack) /\ Head(out) \in Ack /\ succ' \in Nat
    <2>1. out' \in Seq(Ack) /\ Head(out) \in Ack
      BY <1>1, <1>2, TailOf DEF Typed
    <2>2. Head(out).n \in Nat /\ succ \in Nat
      BY <1>1, <2>1, BatchAssumption DEF Typed, Ack
    <2> QED BY <1>2, <2>1, <2>2
  <1>4. oper # "score" => recvQueue = <<>> /\ mysqlQueue = <<>> /\ out' = <<>>
    BY <1>1, <1>2, LastReply
  <1>5. oper = "userInfo" => \A b \in 0..MaxBatch : b = tag[1] => succ' = AddedIn(b)'
    <2> SUFFICES ASSUME oper = "userInfo", NEW b \in 0..MaxBatch, b = tag[1]
                 PROVE  succ' = AddedIn(b)'
      OBVIOUS
    <2>1. AddedIn(b)' = AddedIn(b)
      BY <1>2 DEF AddedIn, TakenIn
    <2>2. succ + added[tag] = AddedIn(b) /\ Head(out).n = added[tag]
      BY <1>1, <1>2 DEF Counts, Reply
    <2> QED BY <1>2, <2>1, <2>2
  <1>6. CASE /\ file = <<>> /\ state' = "menu" /\ ended' = "done" /\ sum' = 0 /\ sent' = <<>>
             /\ UNCHANGED <<file, tag, recvQueue>>
    <2>1. Typed'
      BY <1>1, <1>2, <1>3, <1>6 DEF Typed
    <2>2. Fresh' /\ Room' /\ Position'
      BY <1>1, <1>2, <1>6 DEF Fresh, Room, Position
    <2>3. PartCount'
      BY <1>1, <1>2, <1>4, <1>6 DEF PartCount
    <2>4. oper # "score" => OnePlace' /\ Reply'
      BY <1>2, <1>4, <1>6, NoneOnWay
    <2>5. oper = "single" => OneRow'
      BY <1>1, <1>2, <1>6 DEF OneRow
    <2>6. oper = "userInfo" => Counts'
      BY <1>5, <1>6 DEF Counts
    <2> QED BY <1>2, <2>1, <2>2, <2>3, <2>4, <2>5, <2>6 DEF IInv
  <1>7. CASE NextPart /\ tag' = <<tag[1], tag[2] + 1>> /\ file # <<>> /\ oper # "single"
    <2>1. /\ state' \in {"menu", "wait"} /\ file' \in Seq(Rows) /\ sum' \in Nat
          /\ sent' \in Seq(Rows) /\ tag' \in Tags /\ ended' \in {"none", "failed"}
          /\ recvQueue' \in Seq(Requests) /\ Position'
          /\ state' = "menu" => ended' = "failed"
      BY <1>1, <1>7, TypedBegins
    <2>2. Typed'
      BY <1>1, <1>2, <1>3, <2>1 DEF Typed
    <2>3. Fresh' /\ Room'
      BY <1>1, <1>2, <1>7, FreshBegins
    <2>4. PartCount'
      BY <1>1, <1>2, <1>4, <2>1 DEF PartCount
    <2>5. oper # "score" => OnePlace' /\ Reply'
      BY <1>1, <1>2, <1>4, <1>7, OnlyPart
    <2>6. oper = "userInfo" => Counts'
      <3>1. added'[tag'] = 0
        BY <1>1, <1>2, <1>7, <2>1 DEF Fresh, NextPart
      <3>2. succ' + added'[tag'] = succ'
        <4>1. \A n \in Nat : n + 0 = n
          OBVIOUS
        <4> QED BY <1>3, <3>1, <4>1, Zenon
      <3> QED BY <1>5, <1>7, <2>1, <3>2 DEF Counts
    <2> QED BY <1>2, <1>7, <2>1, <2>2, <2>3, <2>4, <2>5, <2>6 DEF IInv
  <1> QED BY <1>1, <1>6, <1>7, SuccessShape

\* A failure ends the batch, a stray reply changes nothing but its place.
LEMMA ReplyTakenGood ==
    ASSUME IInv, RecvFailure \/ RecvStray PROVE IInv'
  <1>1. /\ Typed /\ Fresh /\ Room /\ Position /\ PartCount
        /\ oper # "score" => OnePlace /\ Reply
        /\ oper = "single" => OneRow
        /\ oper = "userInfo" => Counts
    BY DEF IInv
  <1>2. /\ out # <<>> /\ out' = Tail(out)
        /\ UNCHANGED <<oper, succ, tag, recvQueue, mysqlQueue, tmp, added>>
        /\ \/ state' = "menu" /\ ended' = "failed" /\ file' = <<>> /\ sum' = 0 /\ sent' = <<>>
           \/ state = "menu" /\ UNCHANGED <<state, ended, file, sum, sent>>
    BY DEF RecvFailure, RecvStray, clientVars
  <1>3. out' \in Seq(Ack)
    BY <1>1, <1>2, TailOf DEF Typed
  <1>4. oper # "score" => recvQueue = <<>> /\ mysqlQueue = <<>> /\ out' = <<>>
    BY <1>1, <1>2, LastReply
  <1>5. Typed'
    <2>1. /\ state' \in {"menu", "wait", "gone"} /\ ended' \in {"none", "done", "failed"}
          /\ file' \in Seq(Rows) /\ sum' \in Nat /\ sent' \in Seq(Rows)
      <3>1. CASE /\ state' = "menu" /\ ended' = "failed"
                 /\ file' = <<>> /\ sum' = 0 /\ sent' = <<>>
        BY <3>1
      <3>2. CASE state = "menu" /\ UNCHANGED <<state, ended, file, sum, sent>>
        BY <1>1, <3>2 DEF Typed
      <3> QED BY <1>2, <3>1, <3>2
    <2> QED BY <1>1, <1>2, <1>3, <2>1 DEF Typed
  <1>6. Fresh' /\ Room' /\ Position'
    BY <1>1, <1>2 DEF Fresh, Room, Position
  <1>7. PartCount'
    BY <1>1, <1>2, <1>4 DEF PartCount
  <1>8. oper # "score" => OnePlace' /\ Reply'
    BY <1>2, <1>4, NoneOnWay
  <1>9. oper = "single" => OneRow'
    BY <1>1, <1>2 DEF OneRow
  <1>10. oper = "userInfo" => Counts'
    <2>1. \A b \in 0..MaxBatch : AddedIn(b)' = AddedIn(b)
      BY <1>2 DEF AddedIn, TakenIn
    <2> QED BY <1>1, <1>2, <2>1 DEF Counts
  <1> QED BY <1>2, <1>5, <1>6, <1>7, <1>8, <1>9, <1>10 DEF IInv

LEMMA DisconnectGood ==
    ASSUME IInv, Disconnect PROVE IInv'
  <1>1. /\ Typed /\ Fresh /\ Room /\ Position /\ PartCount
        /\ oper # "score" => OnePlace /\ Reply
        /\ oper = "single" => OneRow
    BY DEF IInv
  <1>2. /\ state' = "gone" /\ tmp' = <<>> /\ out' = <<>>
        /\ UNCHANGED <<oper, file, sum, succ, sent, tag, ended, recvQueue, mysqlQueue, added>>
    BY DEF Disconnect
  <1>3. Typed' /\ Fresh' /\ Room' /\ Position' /\ PartCount'
    BY <1>1, <1>2 DEF Typed, Fresh, Room, Position, PartCount
  <1>4. oper # "score" => OnePlace' /\ Reply'
    <2>1. Len(out') = 0
      BY <1>2
    <2> QED BY <1>1, <1>2, <2>1 DEF OnePlace, Reply
  <1>5. oper = "single" => OneRow'
    BY <1>1, <1>2 DEF OneRow
  <1>6. Counts'
    BY <1>2 DEF Counts
  <1> QED BY <1>2, <1>3, <1>4, <1>5, <1>6 DEF IInv

------------------------------------------------------------------------------
(* The steps of the server *)

LEMMA SendOf ==
    ASSUME Typed, UNCHANGED state, NEW ok \in BOOLEAN, NEW n \in 0..Chunk, NEW t \in Tags,
           Send(ok, n, t)
    PROVE  /\ out' \in Seq(Ack)
           /\ state = "gone" => out' = <<>>
           /\ state # "gone" /\ out = <<>> => out' = <<[ok |-> ok, n |-> n, tag |-> t]>>
  <1> DEFINE a == [ok |-> ok, n |-> n, tag |-> t]
  <1>1. a \in Ack
    BY DEF Ack
  <1>2. out \in Seq(Ack)
    BY DEF Typed
  <1>3. out' = IF state # "gone" THEN Append(out, a) ELSE <<>>
    BY DEF Send, Connected
  <1> HIDE DEF a
  <1>4. out' \in Seq(Ack)
    BY <1>1, <1>2, <1>3
  <1>5. out = <<>> => Append(out, a) = <<a>>
    OBVIOUS
  <1> QED BY <1>3, <1>4, <1>5 DEF a

\* One reply is on its way when it is the only thing that is.
LEMMA OneReply ==
    ASSUME state \in {"wait", "gone"}, UNCHANGED <<oper, state, tag>>,
           recvQueue' = <<>>, mysqlQueue' = <<>>,
           NEW a \in Ack, a.tag = tag, a.ok <=> added'[tag] > 0,
           oper = "userInfo" => a.n = added'[tag],
           IF state = "gone" THEN out' = <<>> ELSE out' = <<a>>
    PROVE  OnePlace' /\ Reply'
  <1>1. CASE out' = <<>>
    BY <1>1, NoneOnWay
  <1>2. CASE out' = <<a>> /\ state = "wait"
    <2>1. /\ Len(recvQueue') = 0 /\ Len(mysqlQueue') = 0 /\ Len(out') = 1 /\ Head(out') = a
          /\ 1..0 = {}
      BY <1>2
    <2>2. OnePlace'
      BY <1>2, <2>1 DEF OnePlace
    <2>3. Reply'
      BY <1>2, <2>1 DEF Reply
    <2> QED BY <2>2, <2>3
  <1> QED BY <1>1, <1>2

\* The request taken was the only thing on its way.
LEMMA OneRequest ==
    ASSUME Typed, Fresh, OnePlace, recvQueue # <<>>, recvQueue' = Tail(recvQueue)
    PROVE  /\ recvQueue' = <<>> /\ mysqlQueue = <<>> /\ out = <<>> /\ state # "menu"
           /\ Head(recvQueue) \in Requests /\ Head(recvQueue) = recvQueue[1]
           /\ 1 \in 1..Len(recvQueue)
           /\ Head(recvQueue).tag = tag /\ added[tag] = 0
  <1>1. recvQueue \in Seq(Requests) /\ Len(recvQueue) <= 1
    BY DEF Typed, OnePlace
  <1>2. recvQueue' = <<>>
    BY <1>1, TailOne
  <1>3. /\ 1 \in 1..Len(recvQueue) /\ Head(recvQueue) = recvQueue[1]
        /\ Head(recvQueue) \in Requests
    BY <1>1, TailOf
  <1>4. Head(recvQueue).tag = tag
    BY <1>3 DEF OnePlace
  <1>5. added[Head(recvQueue).tag] = 0
    BY TailFresh
  <1> QED BY <1>2, <1>3, <1>4, <1>5 DEF OnePlace

\* A part that is queued is then the only one.
LEMMA OnlyItems ==
    ASSUME Typed, Fresh, OnePlace, recvQueue # <<>>, recvQueue' = Tail(recvQueue),
           mysqlQueue' = mysqlQueue \o ItemsOf(Head(recvQueue)),
           UNCHANGED <<oper, state, tag, added, out>>
    PROVE  /\ OnePlace' /\ Reply'
           /\ mysqlQueue' = ItemsOf(Head(recvQueue))
  <1> DEFINE r == Head(recvQueue)
             new == ItemsOf(r)
  <1>1. /\ recvQueue' = <<>> /\ mysqlQueue = <<>> /\ out = <<>> /\ state # "menu"
        /\ r \in Requests /\ r.tag = tag
    BY OneRequest
  <1> HIDE DEF r
  <1>2. /\ new \in Seq(Items)
        /\ \A i \in 1..Len(new) : new[i].tag = r.tag /\ (new[i].last => i = Len(new))
    BY <1>1, ItemsShape
  <1> HIDE DEF new
  <1>3. mysqlQueue' = new
    BY <1>1, <1>2 DEF new, r
  <1>4. Len(recvQueue') = 0 /\ Len(out') = 0 /\ 1..0 = {}
    <2>1. recvQueue' = <<>> /\ out' = <<>>
      BY <1>1
    <2>2. Len(<<>>) = 0 /\ 1..0 = {}
      OBVIOUS
    <2> QED BY <2>1, <2>2, Zenon
  <1>5. OnePlace'
    BY <1>1, <1>2, <1>3, <1>4 DEF OnePlace
  <1>6. Reply'
    BY <1>1 DEF Reply
  <1> QED BY <1>3, <1>5, <1>6 DEF new, r

\* Nothing of what is counted changes when a request is taken.
LEMMA CountsStay ==
    ASSUME UNCHANGED <<state, ended, tag, succ, added>>, Counts PROVE Counts'
  <1>1. \A b \in 0..MaxBatch : AddedIn(b)' = AddedIn(b)
    BY DEF AddedIn, TakenIn
  <1> QED BY <1>1 DEF Counts

\* What the handlers of a request have in common.
LEMMA RecvCommon ==
    ASSUME IInv,
           RecvEmpty \/ AddBatchUserInfoRecvHandle \/ AddBatchScoreRecvHandle
           \/ AddSingleUserInfoRecvHandle
    PROVE  /\ recvQueue # <<>> /\ recvQueue' = Tail(recvQueue)
           /\ UNCHANGED <<clientVars, added>>
           /\ Fresh' /\ Room' /\ Position'
           /\ oper = "userInfo" => Counts'
           /\ out' \in Seq(Ack) /\ (tmp' = <<>> \/ tmp' \in Nat \X (0..Chunk)) => Typed'
           /\ Head(recvQueue) \in Requests
  <1>1. /\ recvQueue # <<>> /\ recvQueue' = Tail(recvQueue)
        /\ UNCHANGED <<clientVars, added>>
        /\ \/ UNCHANGED mysqlQueue
           \/ mysqlQueue' = mysqlQueue \o ItemsOf(Head(recvQueue))
    BY RecvShape
  <1>2. UNCHANGED <<oper, state, file, sum, succ, sent, tag, ended, added>>
    BY <1>1 DEF clientVars
  <1>3. Fresh' /\ Room' /\ recvQueue' \in Seq(Requests) /\ mysqlQueue' \in Seq(Items)
    BY <1>1, <1>2, FreshRecv DEF IInv
  <1>4. Position'
    BY <1>2 DEF IInv, Position
  <1>5. oper = "userInfo" => Counts'
    BY <1>2, CountsStay DEF IInv
  <1>6. out' \in Seq(Ack) /\ (tmp' = <<>> \/ tmp' \in Nat \X (0..Chunk)) => Typed'
    BY <1>2, <1>3 DEF IInv, Typed
  <1>7. Head(recvQueue) \in Requests
    BY <1>1, TailFresh DEF IInv
  <1> QED BY <1>1, <1>3, <1>4, <1>5, <1>6, <1>7

LEMMA RecvEmptyGood ==
    ASSUME IInv, RecvEmpty PROVE IInv'
  <1>1. /\ recvQueue # <<>> /\ recvQueue' = Tail(recvQueue)
        /\ UNCHANGED <<clientVars, added>>
        /\ Fresh' /\ Room' /\ Position' /\ (oper = "userInfo" => Counts')
        /\ out' \in Seq(Ack) /\ (tmp' = <<>> \/ tmp' \in Nat \X (0..Chunk)) => Typed'
    BY RecvCommon
  <1>2. /\ UNCHANGED <<mysqlQueue, tmp, out>>
        /\ UNCHANGED <<oper, state, file, sum, succ, sent, tag, ended, added>>
    BY DEF RecvEmpty, RecvFront, clientVars
  <1>3. Typed'
    BY <1>1, <1>2 DEF IInv, Typed
  <1>4. PartCount'
    BY <1>2 DEF IInv, PartCount
  <1>5. oper # "score" => recvQueue' = <<>> /\ mysqlQueue' = <<>> /\ out' = <<>>
    BY <1>1, <1>2, OneRequest DEF IInv
  <1>6. oper # "score" => OnePlace' /\ Reply'
    BY <1>5, NoneOnWay
  <1>7. oper = "single" => OneRow'
    <2>1. oper = "single" => Len(recvQueue') = 0 /\ 1..0 = {}
      BY <1>5
    <2> QED BY <1>2, <2>1 DEF IInv, OneRow
  <1> QED BY <1>1, <1>2, <1>3, <1>4, <1>6, <1>7 DEF IInv

LEMMA UserInfoRecvGood ==
    ASSUME IInv, AddBatchUserInfoRecvHandle PROVE IInv'
  <1> DEFINE r == Head(recvQueue)
  <1>1. /\ recvQueue # <<>> /\ recvQueue' = Tail(recvQueue)
        /\ Fresh' /\ Room' /\ Position' /\ (oper = "userInfo" => Counts')
        /\ out' \in Seq(Ack) /\ (tmp' = <<>> \/ tmp' \in Nat \X (0..Chunk)) => Typed'
        /\ r \in Requests
    BY RecvCommon
  <1>2. /\ oper = "userInfo"
        /\ UNCHANGED <<oper, state, file, sum, succ, sent, tag, ended, added>>
    BY DEF AddBatchUserInfoRecvHandle, RecvFront, clientVars
  <1>3. Typed /\ Fresh /\ OnePlace /\ PartCount
    BY <1>2 DEF IInv
  <1>4. /\ recvQueue' = <<>> /\ mysqlQueue = <<>> /\ out = <<>> /\ state \in {"wait", "gone"}
        /\ r.tag = tag /\ added[tag] = 0
    BY <1>1, <1>3, OneRequest DEF Typed
  <1>5. state = "gone" => tmp = <<>>
    BY <1>3 DEF PartCount
  <1>6. ASSUME NEW v \in Nat \X {0}, SetTmp(v), Queued, UNCHANGED out PROVE IInv'
    <2>1. tmp' = IF state # "gone" THEN v ELSE <<>>
      BY <1>6 DEF SetTmp, Connected
    <2>2. v \in Nat \X (0..Chunk) /\ v # <<>> /\ v[2] = 0
      BY BatchAssumption
    <2>3. Typed'
      BY <1>1, <1>3, <1>6, <2>1, <2>2 DEF Typed
    <2>4. OnePlace' /\ Reply'
      BY <1>1, <1>2, <1>3, <1>6, OnlyItems DEF Queued
    <2>5. PartCount'
      BY <1>2, <1>4, <2>1, <2>2 DEF PartCount
    <2> QED BY <1>1, <1>2, <2>3, <2>4, <2>5 DEF IInv
  <1>7. CASE SetTmp(<<0, 0>>) /\ Queued /\ UNCHANGED out
    <2>1. <<0, 0>> \in Nat \X {0}
      OBVIOUS
    <2> QED BY <1>6, <1>7, <2>1
  <1>8. CASE tmp # <<>> /\ SetTmp(PartBegins(tmp)) /\ Queued /\ UNCHANGED out
    <2>1. PartBegins(tmp) \in Nat \X {0}
      BY <1>3, <1>8 DEF Typed, PartBegins
    <2>2. PICK v \in Nat \X {0} : SetTmp(v)
      BY <1>8, <2>1 DEF SetTmp
    <2> QED BY <1>6, <1>8, <2>2
  <1>9. CASE Send(FALSE, 0, r.tag) /\ UNCHANGED <<mysqlQueue, tmp>>
    <2>1. tag \in Tags /\ 0 \in 0..Chunk /\ FALSE \in BOOLEAN
      BY <1>3, BatchAssumption DEF Typed
    <2>2. PICK t \in Tags : t = tag
      BY <2>1
    <2>3. Send(FALSE, 0, t)
      BY <1>4, <1>9, <2>2 DEF Send
    <2> DEFINE a == [ok |-> FALSE, n |-> 0, tag |-> t]
    <2>4. out' \in Seq(Ack) /\ (state = "gone" => out' = <<>>) /\ (state # "gone" => out' = <<a>>)
      BY <1>2, <1>3, <1>4, <2>1, <2>3, SendOf
    <2>5. a \in Ack /\ a.tag = tag /\ (a.ok <=> added'[tag] > 0) /\ a.n = added'[tag]
      BY <1>2, <1>4, <2>1, <2>2 DEF Ack
    <2> HIDE DEF a
    <2>6. mysqlQueue' = <<>>
      BY <1>4, <1>9
    <2>7. OnePlace' /\ Reply'
      BY <1>2, <1>4, <2>4, <2>5, <2>6, OneReply
    <2>8. Typed'
      BY <1>1, <1>3, <1>9, <2>4 DEF Typed
    <2>9. PartCount'
      BY <1>2, <1>5, <1>9, <2>6 DEF PartCount
    <2> QED BY <1>1, <1>2, <2>7, <2>8, <2>9 DEF IInv
  <1> QED BY <1>7, <1>8, <1>9 DEF AddBatchUserInfoRecvHandle

LEMMA ScoreRecvGood ==
    ASSUME IInv, AddBatchScoreRecvHandle PROVE IInv'
  <1>1. /\ Fresh' /\ Room' /\ Position'
        /\ out' \in Seq(Ack) /\ (tmp' = <<>> \/ tmp' \in Nat \X (0..Chunk)) => Typed'
    BY RecvCommon
  <1>2. /\ oper = "score" /\ UNCHANGED <<oper, state, tmp, out>>
    BY DEF AddBatchScoreRecvHandle, RecvFront, clientVars
  <1>3. Typed' /\ PartCount'
    BY <1>1, <1>2 DEF IInv, Typed, PartCount
  <1> QED BY <1>1, <1>2, <1>3 DEF IInv

LEMMA SingleRecvGood ==
    ASSUME IInv, AddSingleUserInfoRecvHandle PROVE IInv'
  <1> DEFINE r == Head(recvQueue)
  <1>1. /\ recvQueue # <<>> /\ recvQueue' = Tail(recvQueue)
        /\ Fresh' /\ Room' /\ Position'
        /\ out' \in Seq(Ack) /\ (tmp' = <<>> \/ tmp' \in Nat \X (0..Chunk)) => Typed'
        /\ r \in Requests
    BY RecvCommon
  <1>2. /\ oper = "single"
        /\ UNCHANGED <<oper, state, file, sum, succ, sent, tag, ended, added, tmp>>
    BY DEF AddSingleUserInfoRecvHandle, RecvFront, clientVars
  <1>3. Typed /\ Fresh /\ OnePlace /\ PartCount /\ OneRow
    BY <1>2 DEF IInv
  <1>4. /\ recvQueue' = <<>> /\ mysqlQueue = <<>> /\ out = <<>> /\ state \in {"wait", "gone"}
        /\ r.tag = tag /\ added[tag] = 0 /\ r = recvQueue[1] /\ 1 \in 1..Len(recvQueue)
    BY <1>1, <1>3, OneRequest DEF Typed
  <1>5. PartCount'
    BY <1>2, <1>3 DEF PartCount
  <1>6. CASE Queued /\ UNCHANGED out
    <2>1. OnePlace' /\ Reply' /\ mysqlQueue' = ItemsOf(r)
      BY <1>1, <1>2, <1>3, <1>6, OnlyItems DEF Queued
    <2>2. Typed'
      BY <1>1, <1>2, <1>3, <1>6 DEF Typed
    <2>3. Len(mysqlQueue') <= 1
      <3>1. Len(r.recs) = 1
        BY <1>3, <1>4 DEF OneRow
      <3>2. Len(ItemsOf(r)) <= Len(r.recs)
        BY <1>1, ItemsShape
      <3> HIDE DEF r
      <3> QED BY <2>1, <3>1, <3>2
    <2>4. OneRow'
      <3>1. Len(recvQueue') = 0 /\ 1..0 = {}
        BY <1>4
      <3> QED BY <1>2, <1>3, <1>4, <2>3, <3>1 DEF OneRow
    <2> QED BY <1>1, <1>2, <1>5, <2>1, <2>2, <2>4 DEF IInv
  <1>7. CASE Send(FALSE, 0, r.tag) /\ UNCHANGED mysqlQueue
    <2>1. tag \in Tags /\ 0 \in 0..Chunk /\ FALSE \in BOOLEAN
      BY <1>3, BatchAssumption DEF Typed
    <2>2. PICK t \in Tags : t = tag
      BY <2>1
    <2>3. Send(FALSE, 0, t)
      BY <1>4, <1>7, <2>2 DEF Send
    <2> DEFINE a == [ok |-> FALSE, n |-> 0, tag |-> t]
    <2>4. out' \in Seq(Ack) /\ (state = "gone" => out' = <<>>) /\ (state # "gone" => out' = <<a>>)
      BY <1>2, <1>3, <1>4, <2>1, <2>3, SendOf
    <2>5. a \in Ack /\ a.tag = tag /\ (a.ok <=> added'[tag] > 0)
      BY <1>2, <1>4, <2>1, <2>2 DEF Ack
    <2> HIDE DEF a
    <2>6. mysqlQueue' = <<>>
      BY <1>4, <1>7
    <2>7. OnePlace' /\ Reply'
      BY <1>2, <1>4, <2>4, <2>5, <2>6, OneReply
    <2>8. Typed'
      BY <1>1, <1>2, <1>3, <2>4 DEF Typed
    <2>9. OneRow'
      <3>1. Len(recvQueue') = 0 /\ Len(mysqlQueue') = 0 /\ 1..0 = {}
        BY <1>4, <2>6
      <3> QED BY <1>2, <1>3, <1>4, <2>6, <3>1 DEF OneRow
    <2> QED BY <1>1, <1>2, <1>5, <2>7, <2>8, <2>9 DEF IInv
  <1> QED BY <1>6, <1>7 DEF AddSingleUserInfoRecvHandle

\* What the handlers of a result have in common.
LEMMA ReplyCommon ==
    ASSUME IInv, MysqlFront
    PROVE  /\ UNCHANGED <<oper, state, file, sum, succ, sent, tag, ended, recvQueue>>
           /\ Fresh' /\ Room' /\ Position'
           /\ out' \in Seq(Ack) /\ (tmp' = <<>> \/ tmp' \in Nat \X (0..Chunk)) => Typed'
           /\ Head(mysqlQueue) \in Items /\ mysqlQueue # <<>>
           /\ added[Head(mysqlQueue).tag] \in 0..Chunk
           /\ added'[Head(mysqlQueue).tag] = added[Head(mysqlQueue).tag]
                                             + IF Head(mysqlQueue).fails THEN 0 ELSE 1
           /\ added'[Head(mysqlQueue).tag] \in 0..Chunk
  <1> DEFINE it == Head(mysqlQueue)
  <1>1. UNCHANGED <<oper, state, file, sum, succ, sent, tag, ended, recvQueue>>
    BY DEF MysqlFront, clientVars
  <1>2. /\ Fresh' /\ Room' /\ mysqlQueue' \in Seq(Items) /\ added' \in [Tags -> 0..Chunk]
        /\ it \in Items /\ mysqlQueue # <<>>
    BY FreshMysql DEF IInv, MysqlFront
  <1>3. added' = IF it.fails THEN added ELSE [added EXCEPT ![it.tag] = @ + 1]
    BY DEF MysqlFront
  <1>4. it.tag \in Tags /\ added \in [Tags -> 0..Chunk]
    BY <1>2, TagOf DEF IInv, Typed, Items
  <1>5. Position'
    BY <1>1 DEF IInv, Position
  <1>6. out' \in Seq(Ack) /\ (tmp' = <<>> \/ tmp' \in Nat \X (0..Chunk)) => Typed'
    BY <1>1, <1>2 DEF IInv, Typed
  <1> HIDE DEF it
  <1>7. /\ added[it.tag] \in 0..Chunk /\ added'[it.tag] \in 0..Chunk
        /\ added'[it.tag] = added[it.tag] + IF it.fails THEN 0 ELSE 1
    BY <1>2, <1>3, <1>4
  <1> QED BY <1>1, <1>2, <1>5, <1>6, <1>7 DEF it

\* The statement executed belongs to the only part on its way.
LEMMA OnePart ==
    ASSUME Typed, OnePlace, MysqlFront
    PROVE  /\ recvQueue = <<>> /\ out = <<>> /\ state \in {"wait", "gone"}
           /\ Head(mysqlQueue).tag = tag
           /\ Head(mysqlQueue).last => mysqlQueue' = <<>>
           /\ out' = <<>> => OnePlace' /\ Reply'
  <1>1. /\ Len(mysqlQueue) \in Nat /\ 1 \in 1..Len(mysqlQueue) /\ Head(mysqlQueue) = mysqlQueue[1]
        /\ mysqlQueue' \in Seq(Items) /\ Len(mysqlQueue') = Len(mysqlQueue) - 1
        /\ \A i \in 1..Len(mysqlQueue') : i + 1 \in 1..Len(mysqlQueue)
                                          /\ mysqlQueue'[i] = mysqlQueue[i + 1]
    BY TailOf DEF Typed, MysqlFront
  <1>2. recvQueue = <<>> /\ out = <<>> /\ state \in {"wait", "gone"}
    BY DEF Typed, OnePlace, MysqlFront
  <1>3. Head(mysqlQueue).tag = tag /\ (Head(mysqlQueue).last => 1 = Len(mysqlQueue))
    BY <1>1 DEF OnePlace
  <1>4. Head(mysqlQueue).last => mysqlQueue' = <<>>
    BY <1>1, <1>3
  <1>5. ASSUME out' = <<>> PROVE OnePlace' /\ Reply'
    <2>1. UNCHANGED <<oper, state, tag, recvQueue>>
      BY DEF MysqlFront, clientVars
    <2>2. \A i \in 1..Len(mysqlQueue') :
             mysqlQueue'[i].tag = tag /\ (mysqlQueue'[i].last => i = Len(mysqlQueue'))
      <3> TAKE i \in 1..Len(mysqlQueue')
      <3>1. PICK k \in 1..Len(mysqlQueue) : k = i + 1 /\ mysqlQueue'[i] = mysqlQueue[k]
        BY <1>1
      <3>2. mysqlQueue[k].tag = tag /\ (mysqlQueue[k].last => k = Len(mysqlQueue))
        BY DEF OnePlace
      <3> QED BY <1>1, <3>1, <3>2
    <2>3. recvQueue' = <<>> /\ Len(<<>>) = 0 /\ 1..0 = {}
      BY <1>2, <2>1
    <2>4. OnePlace'
      BY <1>2, <1>5, <2>1, <2>2, <2>3 DEF OnePlace
    <2>5. Reply'
      BY <1>5 DEF Reply
    <2> QED BY <2>4, <2>5
  <1> QED BY <1>2, <1>3, <1>4, <1>5

\* A row that is taken is one more for the part and for its batch.
LEMMA CountsReply ==
    ASSUME IInv, oper = "userInfo", MysqlFront PROVE Counts'
  <1> DEFINE it == Head(mysqlQueue)
  <1>1. Typed /\ Fresh /\ Room /\ OnePlace /\ Counts
    BY DEF IInv
  <1>2. UNCHANGED <<state, succ, tag>> /\ state # "menu" /\ it.tag = tag
    BY <1>1, OnePart DEF MysqlFront, clientVars
  <1>3. /\ it \in Items /\ added[it.tag] < Chunk
        /\ added' = IF it.fails THEN added ELSE [added EXCEPT ![it.tag] = @ + 1]
    BY <1>1, FreshMysql DEF MysqlFront
  <1>4. /\ added'[tag] = added[tag] + (IF it.fails THEN 0 ELSE 1) /\ added[tag] \in 0..Chunk
    BY <1>2, ReplyCommon
  <1>5. PICK p \in 1..MaxPart : tag = <<tag[1], p>> /\ tag[1] \in 0..MaxBatch
    BY <1>2, <1>3, TagOf DEF Items
  <1> HIDE DEF it
  <1>6. ASSUME NEW b \in 0..MaxBatch, b = tag[1], state = "wait"
        PROVE  succ + added'[tag] = AddedIn(b)'
    <2>1. succ + added[tag] = AddedIn(b) /\ succ \in Nat
      BY <1>1, <1>6 DEF Counts, Typed
    <2>2. CASE it.fails
      <3>1. AddedIn(b)' = AddedIn(b)
        BY <1>3, <2>2 DEF AddedIn, TakenIn
      <3> QED BY <1>4, <2>1, <2>2, <3>1
    <2>3. CASE ~it.fails
      <3>1. tag = <<b, p>> /\ added[<<b, p>>] < Chunk
            /\ added' = [added EXCEPT ![<<b, p>>] = @ + 1] /\ added \in [Tags -> 0..Chunk]
        BY <1>1, <1>2, <1>3, <1>5, <1>6, <2>3 DEF Typed
      <3>2. AddedIn(b)' = AddedIn(b) + 1
        BY <3>1, OneTaken
      <3> QED BY <1>4, <2>1, <2>3, <3>2
    <2> QED BY <2>2, <2>3
  <1> QED BY <1>2, <1>6 DEF Counts

LEMMA ScoreReplyGood ==
    ASSUME IInv, AddBatchScoreReplyHandle PROVE IInv'
  <1> DEFINE it == Head(mysqlQueue)
  <1>1. MysqlFront /\ oper = "score" /\ UNCHANGED tmp
        /\ (Send(~it.fails, 0, it.tag) \/ UNCHANGED out)
    BY DEF AddBatchScoreReplyHandle
  <1>2. /\ UNCHANGED <<oper, state>> /\ Fresh' /\ Room' /\ Position' /\ it \in Items
        /\ out' \in Seq(Ack) /\ (tmp' = <<>> \/ tmp' \in Nat \X (0..Chunk)) => Typed'
    BY <1>1, ReplyCommon
  <1>3. it.fails \in BOOLEAN /\ it.tag \in Tags /\ 0 \in 0..Chunk
    BY <1>2, TagOf, BatchAssumption DEF Items, Item
  <1> HIDE DEF it
  <1>4. out' \in Seq(Ack)
    <2>1. CASE Send(~it.fails, 0, it.tag)
      <3>1. PICK ok \in BOOLEAN, t \in Tags : Send(ok, 0, t)
        BY <1>3, <2>1 DEF Send
      <3> QED BY <1>2, <1>3, <3>1, SendOf DEF IInv
    <2> QED BY <1>1, <2>1 DEF IInv, Typed
  <1>5. Typed' /\ PartCount'
    BY <1>1, <1>2, <1>4 DEF IInv, Typed, PartCount
  <1> QED BY <1>1, <1>2, <1>5 DEF IInv

LEMMA SingleReplyGood ==
    ASSUME IInv, AddSingleUserInfoReplyHandle PROVE IInv'
  <1> DEFINE it == Head(mysqlQueue)
  <1>1. MysqlFront /\ oper = "single" /\ UNCHANGED tmp /\ Send(~it.fails, 0, it.tag)
    BY DEF AddSingleUserInfoReplyHandle
  <1>2. /\ UNCHANGED <<oper, state, file, tag, recvQueue>> /\ Fresh' /\ Room' /\ Position'
        /\ out' \in Seq(Ack) /\ (tmp' = <<>> \/ tmp' \in Nat \X (0..Chunk)) => Typed'
        /\ it \in Items
        /\ added'[it.tag] = added[it.tag] + IF it.fails THEN 0 ELSE 1
    BY <1>1, ReplyCommon
  <1>3. Typed /\ OnePlace /\ PartCount /\ OneRow
    BY <1>1 DEF IInv
  <1>4. /\ recvQueue = <<>> /\ out = <<>> /\ state \in {"wait", "gone"} /\ it.tag = tag
    BY <1>1, <1>3, OnePart
  <1>5. mysqlQueue' = <<>> /\ added[tag] = 0
    <2>1. mysqlQueue \in Seq(Items) /\ mysqlQueue # <<>> /\ mysqlQueue' = Tail(mysqlQueue)
          /\ Len(mysqlQueue) <= 1
      BY <1>1, <1>3 DEF Typed, MysqlFront, OneRow
    <2>2. Tail(mysqlQueue) = <<>>
      BY <2>1, TailOne
    <2> QED BY <1>3, <2>1, <2>2 DEF OneRow
  <1>6. it.fails \in BOOLEAN /\ tag \in Tags /\ 0 \in 0..Chunk
    BY <1>2, <1>3, BatchAssumption DEF Items, Item, Typed
  <1> HIDE DEF it
  <1>7. PICK ok \in BOOLEAN, t \in Tags : ok = ~it.fails /\ t = tag
    BY <1>6
  <1>8. Send(ok, 0, t)
    BY <1>1, <1>4, <1>7 DEF Send
  <1> DEFINE a == [ok |-> ok, n |-> 0, tag |-> t]
  <1>9. out' \in Seq(Ack) /\ (state = "gone" => out' = <<>>) /\ (state # "gone" => out' = <<a>>)
    BY <1>2, <1>3, <1>4, <1>6, <1>8, SendOf
  <1>10. a \in Ack /\ a.tag = tag /\ (a.ok <=> added'[tag] > 0)
    <2>1. a \in Ack /\ a.tag = tag /\ a.ok = ok
      BY <1>6, <1>7 DEF Ack
    <2>2. added'[tag] = IF it.fails THEN 0 ELSE 1
      BY <1>2, <1>4, <1>5
    <2>3. added'[tag] > 0 <=> ~it.fails
      BY <1>6, <2>2
    <2> QED BY <1>7, <2>1, <2>3, Zenon
  <1> HIDE DEF a
  <1>11. OnePlace' /\ Reply'
    BY <1>1, <1>2, <1>4, <1>5, <1>9, <1>10, OneReply
  <1>12. Typed' /\ PartCount'
    BY <1>1, <1>2, <1>3, <1>9 DEF Typed, PartCount
  <1>13. OneRow'
    <2>1. Len(recvQueue') = 0 /\ Len(mysqlQueue') = 0
      BY <1>2, <1>4, <1>5
    <2> QED BY <1>2, <1>3, <1>5, <2>1 DEF OneRow
  <1> QED BY <1>1, <1>2, <1>11, <1>12, <1>13 DEF IInv

\* While the client waits strTmpData is not lost: after a statement it holds c,
\* unless the statement was the last of its part.
LEMMA UserInfoReplyShape ==
    ASSUME IInv, AddBatchUserInfoReplyHandle, state = "wait"
    PROVE  LET it == Head(mysqlQueue)
               k == IF it.fails THEN 0 ELSE 1
           IN \E c \in Nat \X (0..Chunk) :
                 /\ tmp # <<>> /\ c = <<tmp[1] + k, tmp[2] + k>> /\ c[2] = added'[tag]
                 /\ IF it.last
                    THEN /\ out' = <<[ok |-> c[2] # 0, n |-> c[2], tag |-> tag]>>
                         /\ tmp' = IF c[2] = 0 \/ it.end THEN <<>> ELSE c
                    ELSE tmp' = c /\ out' = <<>>
  <1> DEFINE it == Head(mysqlQueue)
             k == IF it.fails THEN 0 ELSE 1
             c == <<tmp[1] + k, tmp[2] + k>>
  <1>1. MysqlFront /\ oper = "userInfo"
    BY DEF AddBatchUserInfoReplyHandle
  <1>2. /\ UNCHANGED state /\ it \in Items /\ mysqlQueue # <<>>
        /\ added[it.tag] \in 0..Chunk
        /\ added'[it.tag] = added[it.tag] + k
        /\ added'[it.tag] \in 0..Chunk
    BY <1>1, ReplyCommon
  <1>3. out = <<>> /\ it.tag = tag
    BY <1>1, OnePart DEF IInv
  <1>4. tmp # <<>> /\ tmp[2] = added[tag] /\ tmp \in Nat \X (0..Chunk)
    BY <1>1, <1>2 DEF IInv, PartCount, Typed
  <1>5. it.fails \in BOOLEAN /\ it.last \in BOOLEAN
    BY <1>2 DEF Items, Item
  <1>6. k \in {0, 1} /\ (it.fails => k = 0) /\ (~it.fails => k = 1)
    OBVIOUS
  <1> DEFINE counted == IF it.fails \/ (~it.fails /\ tmp = <<>>) THEN tmp
                                                                 ELSE <<tmp[1] + 1, tmp[2] + 1>>
             ok == ~(~it.fails /\ tmp = <<>>) /\ ~(counted # <<>> /\ counted[2] = 0)
  <1>7. IF it.last \/ (~it.fails /\ tmp = <<>>)
        THEN /\ Send(ok, IF counted = <<>> THEN 0 ELSE counted[2], it.tag)
             /\ SetTmp(IF ~ok \/ it.end THEN <<>> ELSE counted)
        ELSE SetTmp(counted) /\ UNCHANGED out
    BY DEF AddBatchUserInfoReplyHandle, ReplyDue
  <1> HIDE DEF it, k
  <1>8. c \in Nat \X (0..Chunk) /\ c[2] = added'[tag] /\ c # <<>>
    <2>1. tmp[1] + k \in Nat /\ tmp[2] + k = added'[tag]
      BY <1>2, <1>3, <1>4, <1>6
    <2> QED BY <1>2, <1>3, <2>1
  <1>9. counted = c
    <2>1. CASE it.fails
      <3>1. tmp[1] + k = tmp[1] /\ tmp[2] + k = tmp[2] /\ tmp = <<tmp[1], tmp[2]>>
        BY <1>4, <1>6, <2>1
      <3> QED BY <2>1, <3>1
    <2>2. CASE ~it.fails
      BY <1>4, <1>6, <2>2
    <2> QED BY <2>1, <2>2
  <1> HIDE DEF c, counted
  <1>10. ok <=> c[2] # 0
    BY <1>4, <1>8, <1>9
  <1>11. state' # "gone" /\ state # "gone"
    BY <1>2
  <1>12. CASE it.last
    <2>1. Send(ok, c[2], tag) /\ SetTmp(IF ~ok \/ it.end THEN <<>> ELSE c)
      BY <1>3, <1>7, <1>8, <1>9, <1>12
    <2>2. tmp' = IF c[2] = 0 \/ it.end THEN <<>> ELSE c
      BY <1>10, <1>11, <2>1 DEF SetTmp, Connected
    <2>3. ok = (c[2] # 0)
      BY <1>10
    <2>4. Send(c[2] # 0, c[2], tag)
      BY <2>1, <2>3
    <2>5. out' = <<[ok |-> c[2] # 0, n |-> c[2], tag |-> tag]>>
      <3>1. \A a : Append(<<>>, a) = <<a>>
        OBVIOUS
      <3> QED BY <1>3, <1>11, <2>4, <3>1 DEF Send, Connected
    <2> QED BY <1>4, <1>8, <1>12, <2>2, <2>5 DEF c, k, it
  <1>13. CASE ~it.last
    <2>1. tmp' = c /\ out' = <<>>
      BY <1>3, <1>4, <1>7, <1>9, <1>11, <1>13 DEF SetTmp, Connected
    <2> QED BY <1>4, <1>8, <1>13, <2>1 DEF c, k, it
  <1> QED BY <1>12, <1>13

LEMMA UserInfoReplyGood ==
    ASSUME IInv, AddBatchUserInfoReplyHandle PROVE IInv'
  <1> DEFINE it == Head(mysqlQueue)
  <1>1. MysqlFront /\ oper = "userInfo"
    BY DEF AddBatchUserInfoReplyHandle
  <1>2. /\ UNCHANGED <<oper, state, tag, recvQueue>> /\ Fresh' /\ Room' /\ Position'
        /\ out' \in Seq(Ack) /\ (tmp' = <<>> \/ tmp' \in Nat \X (0..Chunk)) => Typed'
        /\ added'[it.tag] \in 0..Chunk
    BY <1>1, ReplyCommon
  <1>3. Typed /\ OnePlace /\ PartCount
    BY <1>1 DEF IInv
  <1>4. /\ recvQueue = <<>> /\ out = <<>> /\ state \in {"wait", "gone"} /\ it.tag = tag
        /\ it.last => mysqlQueue' = <<>>
        /\ out' = <<>> => OnePlace' /\ Reply'
    BY <1>1, <1>3, OnePart
  <1>5. Counts'
    BY <1>1, CountsReply
  <1>6. CASE state = "gone"
    <2>1. tmp' = <<>> /\ out' = <<>>
      BY <1>2, <1>3, <1>4, <1>6 DEF AddBatchUserInfoReplyHandle, SetTmp, Send, Connected
    <2>2. Typed' /\ PartCount'
      BY <1>2, <1>6, <2>1 DEF PartCount
    <2> QED BY <1>1, <1>2, <1>4, <1>5, <2>1, <2>2 DEF IInv
  <1>7. CASE state = "wait"
    <2>1. PICK c \in Nat \X (0..Chunk) :
             /\ c[2] = added'[tag]
             /\ IF it.last
                THEN /\ out' = <<[ok |-> c[2] # 0, n |-> c[2], tag |-> tag]>>
                     /\ tmp' = IF c[2] = 0 \/ it.end THEN <<>> ELSE c
                ELSE tmp' = c /\ out' = <<>>
      BY <1>7, UserInfoReplyShape
    <2>2. c # <<>> /\ c[2] \in 0..Chunk
      OBVIOUS
    <2> HIDE DEF it
    <2>3. CASE it.last
      <3>1. tag \in Tags /\ added'[tag] \in 0..Chunk
        BY <1>2, <1>3, <1>4 DEF Typed
      <3> DEFINE a == [ok |-> c[2] # 0, n |-> c[2], tag |-> tag]
      <3>2. a \in Ack
        <4>1. (c[2] # 0) \in BOOLEAN
          OBVIOUS
        <4> QED BY <2>2, <3>1, <4>1 DEF Ack
      <3>3. a.tag = tag /\ a.n = added'[tag]
        BY <2>1
      <3>4. a.ok <=> added'[tag] > 0
        <4>1. a.ok = (added'[tag] # 0)
          BY <2>1
        <4>2. added'[tag] > 0 <=> added'[tag] # 0
          BY <3>1
        <4> QED BY <4>1, <4>2
      <3>5. out' = <<a>> /\ (tmp' = <<>> \/ tmp' \in Nat \X (0..Chunk))
        BY <2>1, <2>3
      <3> HIDE DEF a
      <3>6. mysqlQueue' = <<>> /\ recvQueue' = <<>>
        BY <1>2, <1>4, <2>3
      <3>7. OnePlace' /\ Reply'
        <4>1. PICK b \in Ack : b = a
          BY <3>2
        <4> QED BY <1>2, <1>4, <1>7, <3>3, <3>4, <3>5, <3>6, <4>1, OneReply
      <3>8. Typed'
        BY <1>2, <3>2, <3>5
      <3>9. PartCount'
        BY <1>1, <1>2, <1>7, <3>6 DEF PartCount
      <3> QED BY <1>1, <1>2, <1>5, <3>7, <3>8, <3>9 DEF IInv
    <2>4. CASE ~it.last
      <3>1. tmp' = c /\ out' = <<>>
        BY <2>1, <2>4
      <3>2. Typed'
        BY <1>2, <3>1
      <3>3. PartCount'
        BY <1>1, <1>2, <1>7, <2>1, <2>2, <3>1 DEF PartCount
      <3> QED BY <1>1, <1>2, <1>4, <1>5, <3>1, <3>2, <3>3 DEF IInv
    <2> QED BY <2>3, <2>4
  <1> QED BY <1>4, <1>6, <1>7

------------------------------------------------------------------------------
(* The types, the replies and the counts *)

LEMMA InitGood == Init => IInv
  <1> SUFFICES ASSUME Init PROVE IInv
    OBVIOUS
  <1>1. Chunk \in Nat /\ MaxBatch \in Nat /\ MaxPart \in Nat
    BY BatchAssumption
  <1>2. Len(<<>>) = 0 /\ 1..0 = {}
    OBVIOUS
  <1>3. Typed
    <2>1. tag \in Tags /\ added \in [Tags -> 0..Chunk]
      BY <1>1 DEF Init, Tags
    <2> QED BY <2>1 DEF Init, Typed
  <1>4. Fresh /\ Room
    BY <1>2 DEF Init, Fresh, Room
  <1>5. Position /\ PartCount /\ Counts
    BY DEF Init, Position, PartCount, Counts
  <1>6. OnePlace /\ Reply /\ OneRow
    BY <1>2 DEF Init, OnePlace, Reply, OneRow
  <1> QED BY <1>3, <1>4, <1>5, <1>6 DEF IInv

LEMMA NextGood == IInv /\ [Next]_vars => IInv'
  <1> SUFFICES ASSUME IInv, [Next]_vars PROVE IInv'
    OBVIOUS
  <1>1. CASE Choose
    BY <1>1, ChooseGood
  <1>2. CASE RecvSuccess
    BY <1>2, SuccessGood
  <1>3. CASE RecvFailure \/ RecvStray
    BY <1>3, ReplyTakenGood
  <1>4. CASE Disconnect
    BY <1>4, DisconnectGood
  <1>5. CASE RecvEmpty
    BY <1>5, RecvEmptyGood
  <1>6. CASE AddBatchUserInfoRecvHandle
    BY <1>6, UserInfoRecvGood
  <1>7. CASE AddBatchScoreRecvHandle
    BY <1>7, ScoreRecvGood
  <1>8. CASE AddSingleUserInfoRecvHandle
    BY <1>8, SingleRecvGood
  <1>9. CASE AddBatchUserInfoReplyHandle
    BY <1>9, UserInfoReplyGood
  <1>10. CASE AddBatchScoreReplyHandle
    BY <1>10, ScoreReplyGood
  <1>11. CASE AddSingleUserInfoReplyHandle
    BY <1>11, SingleReplyGood
  <1>12. CASE UNCHANGED vars
    <2>1. UNCHANGED <<oper, state, file, sum, succ, sent, tag, ended, recvQueue, mysqlQueue,
                      tmp, out, added>>
      BY <1>12 DEF vars, clientVars, serverVars
    <2>2. Typed' /\ Fresh' /\ Room' /\ Position' /\ PartCount'
      BY <2>1 DEF IInv, Typed, Fresh, Room, Position, PartCount
    <2>3. oper # "score" => OnePlace' /\ Reply'
      BY <2>1 DEF IInv, OnePlace, Reply
    <2>4. oper = "single" => OneRow'
      BY <2>1 DEF IInv, OneRow
    <2>5. oper = "userInfo" => Counts'
      BY <2>1, CountsStay DEF IInv
    <2> QED BY <2>1, <2>2, <2>3, <2>4, <2>5 DEF IInv
  <1> QED BY <1>1, <1>2, <1>3, <1>4, <1>5, <1>6, <1>7, <1>8, <1>9, <1>10, <1>11, <1>12
             DEF Next, Client, MsgQueueThread

LEMMA Kept == Spec => []IInv
  BY InitGood, NextGood, PTL DEF Spec

\* Every variable keeps its kind, however many batches a client adds and gives
\* up: no part counts more rows than it has, in strTmpData or in the tables.
THEOREM AdditionsTypeCorrect == Spec => []TypeOK
  <1>1. IInv => TypeOK
    <2> SUFFICES ASSUME IInv PROVE TypeOK
      OBVIOUS
    <2>1. Typed
      BY DEF IInv
    <2>2. recvQueue \in Seq(Request) /\ mysqlQueue \in Seq(Item)
      <3>1. Requests \subseteq Request /\ Items \subseteq Item
        BY DEF Requests, Items
      <3> QED BY <2>1, <3>1 DEF Typed
    <2> QED BY <2>1, <2>2 DEF Typed, TypeOK
  <1> QED BY <1>1, Kept, PTL

\* A reply to users that are added is sent once, when all statements of its part
\* have been executed, to the client that waits for this part, and tells how many
\* rows of it the database took.
THEOREM RepliesEndParts == Spec => []ReplyEndsPart
  <1>1. IInv => ReplyEndsPart
    <2> SUFFICES ASSUME IInv, oper # "score", out # <<>> PROVE ReplyEndsPart
      BY DEF ReplyEndsPart
    <2>1. Typed /\ OnePlace /\ Reply
      BY DEF IInv
    <2>2. Len(out) = 1
      <3>1. out \in Seq(Ack) /\ Len(out) <= 1
        BY <2>1 DEF Typed, OnePlace
      <3> QED BY <3>1
    <2>3. mysqlQueue = <<>> /\ state = "wait"
      BY <2>1 DEF Typed, OnePlace
    <2> QED BY <2>1, <2>2, <2>3 DEF Reply, ReplyEndsPart
  <1> QED BY <1>1, Kept, PTL

\* The number of users the client reports when a batch has ended is the number
\* the database took, also when there are more parts than a byte can number.
THEOREM BatchCountsAgree == Spec => []CountsAgree
  <1>1. IInv => CountsAgree
    <2> SUFFICES ASSUME IInv, oper = "userInfo", ended = "done", state = "menu"
                 PROVE  succ = AddedIn(tag[1])
      BY DEF CountsAgree
    <2>1. tag[1] \in 0..MaxBatch
      BY DEF IInv, Typed, Tags
    <2> QED BY <2>1 DEF IInv, Counts, AddedIn, TakenIn
  <1> QED BY <1>1, Kept, PTL

------------------------------------------------------------------------------
(* The totals in strTmpData, while the number of a part fits its byte *)

LEMMA TotalsBegin ==
    ASSUME IInv, NextPart, MaxPart < NumberWrap, state' = "wait",
           recvQueue = <<>>, mysqlQueue' = <<>>, out' = <<>>,
           tag'[2] = 1 => succ' = 0,
           tag'[2] > 1 => tmp' # <<>> /\ tmp'[1] = succ'
    PROVE  Totals'
  <1>1. tag' \in Parts
    BY DEF NextPart
  <1>2. tag'[2] \in 1..MaxPart
    BY <1>1, TagOf
  <1>3. tag'[2] % NumberWrap = tag'[2]
    BY <1>2, BatchAssumption
  <1>4. PICK r : Sends(r) /\ r.no = tag'[2] % NumberWrap
    BY DEF NextPart, GivesUp
  <1>5. /\ recvQueue' = <<r>> /\ (r.end <=> file' = <<>>) /\ Len(recvQueue') = 1
        /\ \A i \in 1..Len(recvQueue') : recvQueue'[i] = r
    BY <1>4 DEF Sends
  <1>6. Len(mysqlQueue') = 0 /\ 1..0 = {}
    OBVIOUS
  <1> QED BY <1>2, <1>3, <1>4, <1>5, <1>6 DEF Totals

LEMMA TotalsClient ==
    ASSUME IInv, TInv, MaxPart < NumberWrap, Choose \/ RecvSuccess,
           oper = "userInfo", state' = "wait"
    PROVE  Totals'
  <1>1. Typed /\ Position /\ OnePlace /\ Reply /\ Counts
    BY DEF IInv, Choose, RecvSuccess
  <1>2. CASE Choose
    <2>1. /\ NextPart /\ tag' = <<tag[1] + 1, 1>> /\ state = "menu" /\ succ' = 0
          /\ UNCHANGED <<mysqlQueue, out>>
      BY <1>1, <1>2, ChooseShape
    <2>2. recvQueue = <<>> /\ mysqlQueue' = <<>> /\ out' = <<>> /\ tag'[2] = 1
      BY <1>1, <2>1 DEF OnePlace
    <2> QED BY <2>1, <2>2, TotalsBegin
  <1>3. CASE RecvSuccess
    <2>1. /\ state = "wait" /\ out # <<>> /\ Head(out).ok /\ out' = Tail(out)
          /\ succ' = succ + Head(out).n
          /\ UNCHANGED <<mysqlQueue, tmp, added>>
          /\ NextPart /\ tag' = <<tag[1], tag[2] + 1>> /\ file # <<>>
      BY <1>1, <1>3, SuccessShape DEF IInv
    <2>2. recvQueue = <<>> /\ mysqlQueue' = <<>> /\ out' = <<>>
      BY <1>1, <2>1, LastReply
    <2>3. Totals
      BY <2>1 DEF TInv
    <2>4. PICK b \in 0..MaxBatch : b = tag[1]
      BY <1>1 DEF Typed, Tags
    <2>5. tmp # <<>> /\ tmp[1] = AddedIn(b)
      BY <2>1, <2>3, <2>4 DEF Totals
    <2>6. succ' = AddedIn(b)
      BY <1>1, <2>1, <2>4 DEF Counts, Reply
    <2>7. tag'[2] > 1
      BY <1>1, <2>1, <2>3 DEF Totals, Typed, Tags
    <2> QED BY <2>1, <2>2, <2>5, <2>6, <2>7, TotalsBegin
  <1> QED BY <1>2, <1>3

LEMMA TotalsRecv ==
    ASSUME IInv, TInv, MaxPart < NumberWrap,
           RecvEmpty \/ AddBatchUserInfoRecvHandle, oper = "userInfo", state' = "wait"
    PROVE  Totals'
  <1> DEFINE r == Head(recvQueue)
  <1>1. UNCHANGED <<state, file, succ, tag, added>>
    BY DEF RecvEmpty, AddBatchUserInfoRecvHandle, RecvFront, clientVars
  <1>2. Typed /\ Fresh /\ OnePlace /\ PartCount /\ Counts /\ Totals
    BY <1>1 DEF IInv, TInv
  <1>3. recvQueue # <<>> /\ recvQueue' = Tail(recvQueue) /\ r \in Requests
    BY RecvCommon
  <1>4. /\ recvQueue' = <<>> /\ mysqlQueue = <<>> /\ out = <<>>
        /\ r = recvQueue[1] /\ 1 \in 1..Len(recvQueue) /\ added[tag] = 0
    BY <1>2, <1>3, OneRequest
  <1>5. (r.end <=> file = <<>>) /\ r.no = tag[2]
    BY <1>2, <1>4 DEF Totals
  <1>6. tag[2] \in Nat /\ tag[2] >= 1 /\ (tag[2] = 1 => succ = 0) /\ tag[1] \in 0..MaxBatch
        /\ succ \in Nat
    BY <1>2, BatchAssumption DEF Totals, Typed, Tags
  <1>7. Len(recvQueue') = 0 /\ Len(<<>>) = 0 /\ 1..0 = {}
    <2>1. Len(<<>>) = 0 /\ 1..0 = {}
      OBVIOUS
    <2> QED BY <1>4, <2>1, Zenon
  <1>8. CASE RecvEmpty
    <2>1. mysqlQueue' = <<>> /\ out' = <<>>
      BY <1>4, <1>8 DEF RecvEmpty
    <2> QED BY <1>1, <1>4, <1>6, <1>7, <2>1 DEF Totals
  <1>9. ASSUME Queued, UNCHANGED out, tmp' # <<>>, tmp'[1] = succ
        PROVE  Totals'
    <2>1. mysqlQueue' = ItemsOf(r)
      BY <1>1, <1>2, <1>3, <1>9, OnlyItems DEF Queued, AddBatchUserInfoRecvHandle, RecvEmpty,
                                                RecvFront, clientVars
    <2>2. \A i \in 1..Len(mysqlQueue') : mysqlQueue'[i].end = r.end
      BY <1>3, <2>1, ItemsShape
    <2>3. ASSUME NEW b \in 0..MaxBatch, b = tag[1] PROVE tmp'[1] = AddedIn(b)'
      <3>1. succ + added[tag] = AddedIn(b)
        BY <1>1, <1>2, <2>3 DEF Counts
      <3>2. AddedIn(b)' = AddedIn(b)
        BY <1>1 DEF AddedIn, TakenIn
      <3> QED BY <1>4, <1>6, <1>9, <3>1, <3>2
    <2> HIDE DEF r
    <2> QED BY <1>1, <1>4, <1>5, <1>6, <1>7, <1>9, <2>2, <2>3 DEF Totals
  <1>10. CASE r.no <= 1 /\ SetTmp(<<0, 0>>) /\ Queued /\ UNCHANGED out
    <2>1. succ = 0
      BY <1>5, <1>6, <1>10
    <2>2. tmp' = <<0, 0>>
      BY <1>1, <1>10 DEF SetTmp, Connected
    <2> QED BY <1>9, <1>10, <2>1, <2>2
  <1>11. CASE r.no > 1 /\ tmp # <<>> /\ SetTmp(PartBegins(tmp)) /\ Queued /\ UNCHANGED out
    <2>1. tmp[1] = succ
      BY <1>2, <1>3, <1>5, <1>11 DEF Totals
    <2>2. tmp' = <<tmp[1], 0>>
      BY <1>1, <1>11 DEF SetTmp, Connected, PartBegins
    <2> QED BY <1>9, <1>11, <2>1, <2>2
  <1>12. ~(r.no > 1 /\ tmp = <<>>)
    BY <1>2, <1>3, <1>5 DEF Totals
  <1> QED BY <1>8, <1>10, <1>11, <1>12 DEF AddBatchUserInfoRecvHandle

LEMMA TotalsReply ==
    ASSUME IInv, TInv, AddBatchUserInfoReplyHandle, state' = "wait" PROVE Totals'
  <1> DEFINE it == Head(mysqlQueue)
             k == IF it.fails THEN 0 ELSE 1
  <1>1. MysqlFront /\ oper = "userInfo" /\ UNCHANGED <<state, file, succ, tag, recvQueue>>
    BY DEF AddBatchUserInfoReplyHandle, MysqlFront, clientVars
  <1>2. Typed /\ OnePlace /\ Counts /\ Counts' /\ Totals
    BY <1>1, CountsReply DEF IInv, TInv
  <1>3. recvQueue = <<>> /\ it.tag = tag /\ (it.last => mysqlQueue' = <<>>)
    BY <1>1, <1>2, OnePart
  <1>4. added'[tag] = added[tag] + k /\ added[tag] \in 0..Chunk
    BY <1>1, <1>3, ReplyCommon
  <1>5. PICK c \in Nat \X (0..Chunk) :
             /\ tmp # <<>> /\ c = <<tmp[1] + k, tmp[2] + k>>
             /\ IF it.last
                THEN /\ out' = <<[ok |-> c[2] # 0, n |-> c[2], tag |-> tag]>>
                     /\ tmp' = IF c[2] = 0 \/ it.end THEN <<>> ELSE c
                ELSE tmp' = c /\ out' = <<>>
    BY <1>1, UserInfoReplyShape
  <1>6. /\ Len(mysqlQueue) \in Nat /\ 1 \in 1..Len(mysqlQueue) /\ it = mysqlQueue[1]
        /\ Len(mysqlQueue') = Len(mysqlQueue) - 1
        /\ \A i \in 1..Len(mysqlQueue') : i + 1 \in 1..Len(mysqlQueue)
                                          /\ mysqlQueue'[i] = mysqlQueue[i + 1]
    BY <1>1, <1>2, TailOf DEF Typed, MysqlFront
  <1>7. it.end <=> file = <<>>
    BY <1>2, <1>6 DEF Totals
  <1>8. \A i \in 1..Len(mysqlQueue') : mysqlQueue'[i].end <=> file = <<>>
    <2> TAKE i \in 1..Len(mysqlQueue')
    <2>1. PICK j \in 1..Len(mysqlQueue) : mysqlQueue'[i] = mysqlQueue[j]
      BY <1>6
    <2> QED BY <1>2, <2>1 DEF Totals
  <1>9. mysqlQueue # <<>> /\ succ \in Nat
    BY <1>1, <1>2 DEF MysqlFront, Typed
  <1>10. k \in {0, 1}
    OBVIOUS
  <1> HIDE DEF it, k
  <1>11. ASSUME NEW b \in 0..MaxBatch, b = tag[1] PROVE c # <<>> /\ c[1] = AddedIn(b)'
    <2>1. succ + added[tag] = AddedIn(b) /\ tmp[1] = AddedIn(b)
      BY <1>1, <1>2, <1>9, <1>11 DEF Counts, Totals
    <2>2. succ + added'[tag] = AddedIn(b)'
      BY <1>1, <1>2, <1>11 DEF Counts
    <2>3. AddedIn(b)' = AddedIn(b) + k
      BY <1>4, <1>9, <1>10, <2>1, <2>2
    <2> QED BY <1>5, <2>1, <2>3
  <1>12. ASSUME NEW b \in 0..MaxBatch, b = tag[1]
         PROVE  /\ mysqlQueue' # <<>> => tmp'[1] = AddedIn(b)'
                /\ out' # <<>> /\ Head(out').ok /\ file # <<>>
                      => tmp' # <<>> /\ tmp'[1] = AddedIn(b)'
    <2>1. CASE it.last
      <3>1. mysqlQueue' = <<>>
        BY <1>3, <2>1
      <3>2. Head(out').ok = (c[2] # 0)
        BY <1>5, <2>1
      <3>3. tmp' = IF c[2] = 0 \/ it.end THEN <<>> ELSE c
        BY <1>5, <2>1
      <3> QED BY <1>7, <1>11, <1>12, <3>1, <3>2, <3>3
    <2>2. CASE ~it.last
      <3>1. tmp' = c /\ out' = <<>>
        BY <1>5, <2>2
      <3> QED BY <1>11, <1>12, <3>1
    <2> QED BY <2>1, <2>2
  <1>13. Len(recvQueue') = 0 /\ recvQueue' = <<>> /\ 1..0 = {}
    <2>1. Len(<<>>) = 0 /\ 1..0 = {}
      OBVIOUS
    <2> QED BY <1>1, <1>3, <2>1, Zenon
  <1> QED BY <1>1, <1>2, <1>8, <1>12, <1>13 DEF Totals

LEMMA TotalsNext == MaxPart < NumberWrap => (IInv /\ TInv /\ [Next]_vars => TInv')
  <1> SUFFICES ASSUME MaxPart < NumberWrap, IInv, TInv, [Next]_vars,
                      oper' = "userInfo", state' = "wait"
               PROVE  Totals'
    BY DEF TInv
  <1>1. CASE Choose \/ RecvSuccess
    <2>1. oper = "userInfo"
      BY <1>1 DEF Choose, RecvSuccess
    <2> QED BY <1>1, <2>1, TotalsClient
  <1>2. CASE RecvFailure \/ RecvStray \/ Disconnect
    BY <1>2 DEF RecvFailure, RecvStray, Disconnect, clientVars
  <1>3. CASE RecvEmpty \/ AddBatchUserInfoRecvHandle
    <2>1. oper = "userInfo"
      BY <1>3 DEF RecvEmpty, AddBatchUserInfoRecvHandle, RecvFront, clientVars
    <2> QED BY <1>3, <2>1, TotalsRecv
  <1>4. CASE AddBatchUserInfoReplyHandle
    BY <1>4, TotalsReply
  <1>5. CASE \/ AddBatchScoreRecvHandle \/ AddSingleUserInfoRecvHandle
             \/ AddBatchScoreReplyHandle \/ AddSingleUserInfoReplyHandle
    BY <1>5 DEF AddBatchScoreRecvHandle, AddSingleUserInfoRecvHandle, AddBatchScoreReplyHandle,
                AddSingleUserInfoReplyHandle, RecvFront, MysqlFront, clientVars
  <1>6. CASE UNCHANGED vars
    <2>1. UNCHANGED <<oper, state, file, succ, tag, recvQueue, mysqlQueue, tmp, out, added>>
      BY <1>6 DEF vars, clientVars, serverVars
    <2>2. \A b \in 0..MaxBatch : AddedIn(b)' = AddedIn(b)
      BY <2>1 DEF AddedIn, TakenIn
    <2> QED BY <2>1, <2>2 DEF TInv, Totals
  <1> QED BY <1>1, <1>2, <1>3, <1>4, <1>5, <1>6 DEF Next, Client, MsgQueueThread

\* While a part is worked on strTmpData holds what the database took of the batch
\* and of the part, if every part has a number of its own in bRecordNO: with a
\* wrapped number the total begins anew.
THEOREM TotalsAreKept == MaxPart < NumberWrap => (Spec => []TotalsKept)
  <1>1. Init => TInv
    BY DEF Init, TInv
  <1>2. IInv /\ TInv => TotalsKept
    <2> SUFFICES ASSUME IInv, TInv, mysqlQueue # <<>>, tmp # <<>>
                 PROVE  LET t == Head(mysqlQueue).tag IN tmp = <<AddedIn(t[1]), added[t]>>
      BY DEF TotalsKept
    <2>1. oper = "userInfo" /\ state # "gone" /\ tmp[2] = added[tag]
      BY DEF IInv, PartCount
    <2>2. Typed /\ OnePlace
      BY <2>1 DEF IInv
    <2>3. Head(mysqlQueue).tag = tag
      <3>1. Head(mysqlQueue) = mysqlQueue[1] /\ 1 \in 1..Len(mysqlQueue)
        BY <2>2, TailOf DEF Typed
      <3> QED BY <2>2, <3>1 DEF OnePlace
    <2>4. state = "wait"
      BY <2>1, <2>2 DEF Typed, OnePlace
    <2>5. tmp[1] = AddedIn(tag[1])
      <3>1. tag[1] \in 0..MaxBatch
        BY <2>2 DEF Typed, Tags
      <3> QED BY <2>1, <2>4, <3>1 DEF TInv, Totals, AddedIn, TakenIn
    <2>6. tmp = <<tmp[1], tmp[2]>>
      BY <2>2 DEF Typed
    <2> QED BY <2>1, <2>3, <2>5, <2>6
  <1> SUFFICES ASSUME MaxPart < NumberWrap PROVE Spec => []TotalsKept
    OBVIOUS
  <1>3. TInv /\ IInv /\ [Next]_vars => TInv'
    BY TotalsNext
  <1>4. Spec => []TInv
    BY <1>1, <1>3, Kept, PTL DEF Spec
  <1> QED BY <1>2, <1>4, Kept, PTL
==============================================================================
