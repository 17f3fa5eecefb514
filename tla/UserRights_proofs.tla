------------------------- MODULE UserRights_proofs -------------------------
(***************************************************************************)
(* Proofs about UserRights, for any users, accounts, rights and bounds:    *)
(* its types, that strTmpData serves one operation at a time, that the     *)
(* right to change rights stays with the one administrator, that records   *)
(* and clients follow the rows, and that an edit changes nothing else.     *)
(*                                                                         *)
(* The invariant has five parts.  Pipeline: a connection has at most one   *)
(* request, statement or answer on its way, and a user at most one         *)
(* connection.  Snapshot: what strTmpData holds while a request for a      *)
(* change, or the answer that leads to one, is on its way.  Safe: what     *)
(* rows, records, requests and statements may hold while no account has    *)
(* changed hands; it needs the first two.  Follows: how records, clients,  *)
(* strTmpData and edits agree with the rows as long; it needs the others.  *)
(***************************************************************************)
EXTENDS UserRights, Ordering_proofs

------------------------------------------------------------------------------
(* Sequences, and what an edit makes of the rights *)

LEMMA RemoveFirstKeeps ==
    ASSUME NEW s \in Seq(Rights), NEW e
    PROVE  RemoveFirst(s, e) \in Seq(Rights) /\ Range(RemoveFirst(s, e)) \subseteq Range(s)
  <1>1. CASE ~ \E i \in 1..Len(s): s[i] = e
    BY <1>1 DEF RemoveFirst
  <1>2. CASE \E i \in 1..Len(s): s[i] = e
    <2> DEFINE I == { i \in 1..Len(s) : s[i] = e }
               k == Min(I)
    <2>1. RemoveFirst(s, e) = SubSeq(s, 1, k-1) \o SubSeq(s, k+1, Len(s))
      BY <1>2 DEF RemoveFirst, RemoveAt, SelectInSeq
    <2>2. k \in 1..Len(s)
      <3>0. I \subseteq Nat /\ I # {}
        BY <1>2
      <3>1. \E m \in I : \A n \in I : m <= n
        <4> HIDE DEF I
        <4> QED BY <3>0, Smallest
      <3> QED BY <3>1 DEF Min
    <2> HIDE DEF k
    <2> DEFINE a == SubSeq(s, 1, k-1)
               b == SubSeq(s, k+1, Len(s))
    <2>3. a \in Seq(Rights) /\ b \in Seq(Rights)
      BY <2>2
    <2>4. ASSUME NEW j \in 1..Len(a) PROVE a[j] \in Range(s)
      BY <2>2 DEF Range
    <2>5. ASSUME NEW j \in 1..Len(b) PROVE b[j] \in Range(s)
      <3>1. b[j] = s[k + j] /\ k + j \in 1..Len(s)
        BY <2>2
      <3> HIDE DEF b
      <3> QED BY <3>1, <2>2 DEF Range
    <2>6. a \o b \in Seq(Rights) /\ Range(a \o b) \subseteq Range(s)
      <3> HIDE DEF a, b
      <3>1. \A j \in 1..Len(a \o b) : (a \o b)[j] \in Range(s)
        BY <2>3, <2>4, <2>5
      <3> QED BY <2>3, <3>1 DEF Range
    <2> QED BY <2>1, <2>6
  <1> QED
    BY <1>1, <1>2

\* How often a right is stored is a number, and is added up when two are put together.
LEMMA TimesOfJoined ==
    ASSUME NEW s \in Seq(Rights), NEW t \in Seq(Rights), NEW x
    PROVE  /\ Times(s, x) \in Nat /\ Times(t, x) \in Nat
           /\ Times(s \o t, x) = Times(s, x) + Times(t, x)
  <1> DEFINE n == Len(s)
             At(q) == {i \in DOMAIN q : q[i] = x}
             Moved == {n + j : j \in At(t)}
  <1>1. n \in Nat /\ DOMAIN s = 1..n /\ DOMAIN t = 1..Len(t) /\ Len(t) \in Nat
        /\ DOMAIN (s \o t) = 1..(n + Len(t))
    OBVIOUS
  <1>2. \A q \in Seq(Rights) : IsFiniteSet(At(q)) /\ Cardinality(At(q)) \in Nat
    <2> TAKE q \in Seq(Rights)
    <2>1. DOMAIN q = 1..Len(q) /\ Len(q) \in Nat
      OBVIOUS
    <2>2. IsFiniteSet(1..Len(q))
      <3>1. 1 \in Int /\ Len(q) \in Int
        BY <2>1
      <3> QED BY <3>1, FS_Interval
    <2>3. At(q) \in SUBSET (1..Len(q))
      BY <2>1
    <2> HIDE DEF At
    <2> QED BY <2>2, <2>3, FS_Subset, FS_CardinalityType
  <1>3. IsFiniteSet(Moved) /\ Cardinality(Moved) = Cardinality(At(t))
    <2> DEFINE f == [j \in At(t) |-> n + j]
    <2>1. At(t) \subseteq Nat
      BY <1>1
    <2> HIDE DEF At, n
    <2>2. f \in Bijection(At(t), Moved)
      <3>1. f \in [At(t) -> Moved]
        OBVIOUS
      <3>2. \A i, j \in At(t) : f[i] = f[j] => i = j
        BY <1>1, <2>1
      <3>3. \A m \in Moved : \E j \in At(t) : f[j] = m
        OBVIOUS
      <3> HIDE DEF f, Moved
      <3> QED BY <3>1, <3>2, <3>3 DEF Bijection, Injection, Surjection, IsInjective
    <2>3. ExistsBijection(At(t), Moved)
      BY <2>2 DEF ExistsBijection
    <2> HIDE DEF Moved
    <2> QED BY <1>2, <2>3, FS_Bijection
  <1>4. At(s \o t) = At(s) \cup Moved /\ At(s) \cap Moved = {}
    <2>1. \A i \in 1..n : (s \o t)[i] = s[i] /\ i \in 1..(n + Len(t))
      BY <1>1
    <2>2. \A j \in 1..Len(t) : (s \o t)[n + j] = t[j] /\ n + j \in 1..(n + Len(t)) /\ n + j \notin 1..n
      BY <1>1
    <2>3. \A i \in 1..(n + Len(t)) : i \in 1..n \/ \E j \in 1..Len(t) : i = n + j
      <3> TAKE i \in 1..(n + Len(t))
      <3>1. i \notin 1..n => i - n \in 1..Len(t) /\ i = n + (i - n)
        BY <1>1
      <3> QED BY <3>1
    <2> HIDE DEF n
    <2>4. \A i \in At(s \o t) : i \in At(s) \cup Moved
      BY <1>1, <2>1, <2>2, <2>3
    <2>5. \A i \in At(s) \cup Moved : i \in At(s \o t)
      BY <1>1, <2>1, <2>2
    <2>6. \A i \in At(s) : i \notin Moved
      BY <1>1, <2>2
    <2> HIDE DEF At, Moved
    <2> QED BY <2>4, <2>5, <2>6
  <1>5. Cardinality(At(s) \cup Moved) = Cardinality(At(s)) + Cardinality(Moved)
    <2>1. Cardinality({}) = 0
      BY FS_EmptySet
    <2>2. Cardinality(At(s) \cup Moved) = Cardinality(At(s)) + Cardinality(Moved) - Cardinality(At(s) \cap Moved)
      <3>1. IsFiniteSet(At(s))
        BY <1>2
      <3> HIDE DEF At, Moved
      <3> QED BY <1>3, <3>1, FS_Union
    <2>3. Cardinality(At(s)) \in Nat /\ Cardinality(Moved) \in Nat
      BY <1>2, <1>3
    <2>4. Cardinality(At(s) \cap Moved) = 0
      BY <1>4, <2>1
    <2> DEFINE c == Cardinality(At(s))
               d == Cardinality(Moved)
    <2>5. c \in Nat /\ d \in Nat /\ Cardinality(At(s) \cup Moved) = c + d - 0
      BY <2>2, <2>3, <2>4
    <2> HIDE DEF c, d
    <2>6. Cardinality(At(s) \cup Moved) = c + d
      BY <2>5
    <2> QED BY <2>6 DEF c, d
  <1>6. \A q : Times(q, x) = Cardinality(At(q))
    BY DEF Times
  <1> HIDE DEF At, Moved
  <1> QED BY <1>2, <1>3, <1>4, <1>5, <1>6

LEMMA TimesOfOne ==
    ASSUME NEW e, NEW x
    PROVE  Times(<<>>, x) = 0 /\ Times(<<e>>, x) = IF x = e THEN 1 ELSE 0
  <1>1. {i \in DOMAIN <<>> : <<>>[i] = x} = {}
    OBVIOUS
  <1>2. {i \in DOMAIN <<e>> : <<e>>[i] = x} = IF x = e THEN {1} ELSE {}
    <2>1. DOMAIN <<e>> = {1} /\ <<e>>[1] = e
      OBVIOUS
    <2> QED BY <2>1
  <1>3. Cardinality({}) = 0 /\ Cardinality({1}) = 1
    BY FS_EmptySet, FS_Singleton
  <1> QED BY <1>1, <1>2, <1>3 DEF Times

\* A deletion takes one of its kind, if there is one.
LEMMA TimesAfterRemove ==
    ASSUME NEW s \in Seq(Rights), NEW e \in Rights, NEW x
    PROVE  Times(RemoveFirst(s, e), x) =
              IF x = e /\ Times(s, x) > 0 THEN Times(s, x) - 1 ELSE Times(s, x)
  <1>1. CASE ~ \E i \in 1..Len(s): s[i] = e
    <2>1. RemoveFirst(s, e) = s
      BY <1>1 DEF RemoveFirst
    <2>2. x = e => Times(s, x) = 0
      <3>1. DOMAIN s = 1..Len(s)
        OBVIOUS
      <3>2. x = e => {i \in DOMAIN s : s[i] = x} = {}
        BY <1>1, <3>1
      <3> QED BY <3>2, FS_EmptySet DEF Times
    <2> QED BY <2>1, <2>2
  <1>2. CASE \E i \in 1..Len(s): s[i] = e
    <2> DEFINE I == { i \in 1..Len(s) : s[i] = e }
               k == Min(I)
               a == SubSeq(s, 1, k-1)
               b == SubSeq(s, k+1, Len(s))
    <2>1. RemoveFirst(s, e) = a \o b
      BY <1>2 DEF RemoveFirst, RemoveAt, SelectInSeq
    <2>2. k \in 1..Len(s) /\ s[k] = e
      <3>0. I \subseteq Nat /\ I # {}
        BY <1>2
      <3>1. \E m \in I : \A n \in I : m <= n
        <4> HIDE DEF I
        <4> QED BY <3>0, Smallest
      <3>2. k \in I
        BY <3>1 DEF Min
      <3> HIDE DEF k
      <3> QED BY <3>2
    <2> HIDE DEF k
    <2>3. a \in Seq(Rights) /\ b \in Seq(Rights) /\ <<e>> \in Seq(Rights) /\ a \o <<e>> \in Seq(Rights)
      BY <2>2
    <2>4. s = (a \o <<e>>) \o b
      <3>1. Len(a) = k - 1 /\ \A i \in 1..(k - 1) : a[i] = s[i]
        BY <2>2
      <3>2. Len(b) = Len(s) - k /\ \A i \in 1..(Len(s) - k) : b[i] = s[k + i]
        BY <2>2
      <3> HIDE DEF a, b
      <3>3. Len(a \o <<e>>) = k /\ \A i \in 1..k : (a \o <<e>>)[i] = s[i]
        BY <2>2, <2>3, <3>1
      <3> DEFINE h == a \o <<e>>
                 w == h \o b
      <3>4. h \in Seq(Rights) /\ Len(h) = k
        BY <2>3, <3>3
      <3> HIDE DEF h
      <3>5. ASSUME NEW i \in 1..Len(s) PROVE s[i] = w[i]
        <4>0. i \in Int /\ k \in Int
          BY <2>2
        <4>1. CASE i <= k
          <5>1. w[i] = h[i]
            BY <2>2, <2>3, <3>4, <4>1
          <5> QED BY <2>2, <3>3, <4>1, <5>1 DEF h
        <4>2. CASE i > k
          <5>1. i - k \in 1..(Len(s) - k) /\ k + (i - k) = i
            BY <2>2, <4>2
          <5>2. w[i] = b[i - k]
            BY <2>2, <2>3, <3>2, <3>4, <4>2, <5>1
          <5> QED BY <3>2, <5>1, <5>2
        <4>3. i <= k \/ i > k
          BY <4>0
        <4> HIDE DEF w
        <4> QED BY <4>1, <4>2, <4>3
      <3>7. w \in Seq(Rights) /\ Len(w) = Len(s)
        <4>1. k \in Int /\ Len(s) \in Int /\ b \in Seq(Rights) /\ Len(b) = Len(s) - k
          BY <2>2, <2>3, <3>2
        <4>2. w \in Seq(Rights) /\ Len(w) = Len(h) + Len(b)
          BY <3>4, <4>1
        <4> HIDE DEF w
        <4> QED BY <3>4, <4>1, <4>2
      <3> HIDE DEF w
      <3>6. s = w
        BY <3>5, <3>7
      <3> QED BY <3>6 DEF w, h
    <2> HIDE DEF a, b
    <2>5. /\ Times(a, x) \in Nat /\ Times(b, x) \in Nat
          /\ Times(a \o b, x) = Times(a, x) + Times(b, x)
      BY <2>3, TimesOfJoined
    <2>8. Times(a \o <<e>>, x) = Times(a, x) + Times(<<e>>, x)
      <3> DEFINE o == <<e>>
      <3>1. a \in Seq(Rights) /\ o \in Seq(Rights)
        BY <2>3
      <3> HIDE DEF o
      <3>2. Times(a \o o, x) = Times(a, x) + Times(o, x)
        BY <3>1, TimesOfJoined
      <3> QED BY <3>2 DEF o
    <2>9. Times((a \o <<e>>) \o b, x) = Times(a \o <<e>>, x) + Times(b, x)
      <3> DEFINE h == a \o <<e>>
      <3>1. h \in Seq(Rights) /\ b \in Seq(Rights)
        BY <2>3
      <3> HIDE DEF h
      <3>2. Times(h \o b, x) = Times(h, x) + Times(b, x)
        BY <3>1, TimesOfJoined
      <3> QED BY <3>2 DEF h
    <2>6. Times(s, x) = Times(a, x) + Times(<<e>>, x) + Times(b, x)
      BY <2>4, <2>8, <2>9
    <2>7. Times(<<e>>, x) = IF x = e THEN 1 ELSE 0
      BY TimesOfOne
    <2> QED BY <2>1, <2>5, <2>6, <2>7
  <1> QED BY <1>1, <1>2

\* A deletion goes through what it was asked for, one at a time.
LEMMA EditedSteps ==
    ASSUME NEW rights \in Seq(Rights), NEW asked \in Seq(Rights)
    PROVE  \E left \in [0..Len(asked) -> Seq(Rights)] :
              /\ left[0] = rights
              /\ \A k \in 1..Len(asked) : left[k] = RemoveFirst(left[k - 1], asked[k])
              /\ Edited(rights, 1, asked) = left[Len(asked)]
  <1> DEFINE n == Len(asked)
             Step(f, m) == [k \in 0..m |-> IF k = 0 THEN rights ELSE RemoveFirst(f[k - 1], asked[k])]
             left == CHOOSE f : f = Step(f, n)
             Good == Seq(Rights)
             Bad == {m \in 0..n : ~\E f \in [0..m -> Good] : f = Step(f, m)}
  <1>1. Edited(rights, 1, asked) = left[n]
    BY DEF Edited
  <1>2. \A t \in Good : \A e : RemoveFirst(t, e) \in Good
    BY RemoveFirstKeeps
  <1>3. rights \in Good
    OBVIOUS
  <1> HIDE DEF Good
  <1>4. Bad = {}
    <2>1. SUFFICES ASSUME NEW m \in Bad, \A k \in Bad : m <= k
                   PROVE  FALSE
      <3>1. Bad \in SUBSET Nat
        OBVIOUS
      <3> HIDE DEF Bad
      <3> QED BY <3>1, Smallest
    <2>2. m # 0
      <3>1. [k \in 0..0 |-> rights] = Step([k \in 0..0 |-> rights], 0)
        OBVIOUS
      <3>2. [k \in 0..0 |-> rights] \in [0..0 -> Good]
        BY <1>3
      <3> QED BY <3>1, <3>2
    <2>3. PICK g \in [0..(m - 1) -> Good] : g = Step(g, m - 1)
      <3>1. m - 1 \in 0..n /\ m - 1 < m
        BY <2>2
      <3>2. m - 1 \notin Bad
        <4>1. m \in Nat /\ ~(m <= m - 1)
          OBVIOUS
        <4> HIDE DEF Bad
        <4> QED BY <2>1, <4>1
      <3> QED BY <3>1, <3>2
    <2> DEFINE f == [k \in 0..m |-> IF k = m THEN RemoveFirst(g[m - 1], asked[m]) ELSE g[k]]
    <2>4. f \in [0..m -> Good]
      BY <1>2, <2>2
    <2>5. \A k \in 0..m : f[k] = IF k = 0 THEN rights ELSE RemoveFirst(f[k - 1], asked[k])
      <3> TAKE k \in 0..m
      <3>1. CASE k = m
        BY <3>1, <2>2
      <3>2. CASE k # m
        <4>1. k \in 0..(m - 1)
          BY <3>2
        <4>2. g[k] = IF k = 0 THEN rights ELSE RemoveFirst(g[k - 1], asked[k])
          BY <2>3, <4>1
        <4>3. k # 0 => k - 1 \in 0..m /\ k - 1 # m
          BY <4>1
        <4> QED BY <3>2, <4>1, <4>2, <4>3
      <3> QED BY <3>1, <3>2
    <2>6. f = Step(f, m)
      <3> HIDE DEF f
      <3> QED BY <2>4, <2>5
    <2> QED BY <2>4, <2>6
  <1>5. PICK f \in [0..n -> Good] : f = Step(f, n)
    BY <1>4
  <1>6. left = Step(left, n)
    BY <1>5
  \* There is only one such function.
  <1>7. \A k \in 0..n : left[k] \in Good
    <2> HIDE DEF left
    <2> DEFINE Out == {k \in 0..n : left[k] \notin Good}
    <2>1. SUFFICES ASSUME NEW m \in Out, \A k \in Out : m <= k
                   PROVE  FALSE
      <3>1. Out \in SUBSET Nat
        OBVIOUS
      <3>2. Out # {} => \E m \in Out : \A k \in Out : m <= k
        <4> HIDE DEF Out
        <4> QED BY <3>1, Smallest
      <3> QED BY <3>2
    <2>2. left[m] = IF m = 0 THEN rights ELSE RemoveFirst(left[m - 1], asked[m])
      BY <1>6
    <2>3. CASE m = 0
      BY <1>3, <2>2, <2>3
    <2>4. CASE m # 0
      <3>1. left[m - 1] \in Good
        BY <2>1, <2>4
      <3> QED BY <1>2, <2>2, <2>4, <3>1
    <2> QED BY <2>3, <2>4
  <1> HIDE DEF left
  <1>8. left \in [0..n -> Good] /\ left[0] = rights
        /\ \A k \in 1..n : left[k] = RemoveFirst(left[k - 1], asked[k])
    <2>1. left = [k \in 0..n |-> left[k]]
      <3>1. \E h : left = [k \in 0..n |-> h[k]]
        <4>1. left = [k \in 0..n |-> Step(left, n)[k]]
          BY <1>6
        <4> QED BY <4>1
      <3> QED BY <3>1
    <2>2. left[0] = rights
      <3>1. 0 \in 0..n
        OBVIOUS
      <3> QED BY <1>6, <3>1
    <2>3. ASSUME NEW k \in 1..n PROVE left[k] = RemoveFirst(left[k - 1], asked[k])
      <3>1. k \in 0..n /\ k # 0
        OBVIOUS
      <3> QED BY <1>6, <3>1
    <2> HIDE DEF n
    <2> QED BY <1>7, <2>1, <2>2, <2>3
  <1> QED BY <1>1, <1>8 DEF Good

LEMMA EditedKeeps ==
    ASSUME NEW rights \in Seq(Rights), NEW type, NEW asked \in Seq(Rights)
    PROVE  /\ Edited(rights, type, asked) \in Seq(Rights)
           /\ Range(Edited(rights, type, asked)) \subseteq Range(rights) \cup Range(asked)
           /\ type = 1 => Range(Edited(rights, type, asked)) \subseteq Range(rights)
  <1>1. CASE type # 1
    <2>1. Edited(rights, type, asked) = rights \o asked
      BY <1>1 DEF Edited
    <2> QED BY <1>1, <2>1 DEF Range
  <1>2. CASE type = 1
    <2>1. PICK left \in [0..Len(asked) -> Seq(Rights)] :
              /\ left[0] = rights
              /\ \A k \in 1..Len(asked) : left[k] = RemoveFirst(left[k - 1], asked[k])
              /\ Edited(rights, 1, asked) = left[Len(asked)]
      BY EditedSteps
    <2> DEFINE Out == {k \in 0..Len(asked) : ~(Range(left[k]) \subseteq Range(rights))}
    <2>2. Out = {}
      <3>1. SUFFICES ASSUME NEW m \in Out, \A k \in Out : m <= k
                     PROVE  FALSE
        <4>1. Out \in SUBSET Nat
          OBVIOUS
        <4> HIDE DEF Out
        <4> QED BY <4>1, Smallest
      <3>2. m # 0
        BY <2>1
      <3>3. m - 1 \in 0..Len(asked) /\ m \in 1..Len(asked) /\ ~(m <= m - 1)
        BY <3>2
      <3>4. Range(left[m - 1]) \subseteq Range(rights)
        BY <3>1, <3>3
      <3>5. Range(RemoveFirst(left[m - 1], asked[m])) \subseteq Range(left[m - 1])
        BY <3>3, RemoveFirstKeeps
      <3> QED BY <2>1, <3>3, <3>4, <3>5
    <2>3. Len(asked) \in 0..Len(asked)
      OBVIOUS
    <2> QED BY <1>2, <2>1, <2>2, <2>3
  <1> QED BY <1>1, <1>2

\* An edit adds what was asked for, or takes it away as far as it is there.
LEMMA EditedCounts ==
    ASSUME NEW rights \in Seq(Rights), NEW type \in 1..2, NEW asked \in Seq(Rights), NEW x
    PROVE  LET n == Times(rights, x)
               k == Times(asked, x)
           IN Times(Edited(rights, type, asked), x) =
                 IF type = 2 THEN n + k ELSE IF k < n THEN n - k ELSE 0
  <1> DEFINE n == Times(rights, x)
  <1>1. n \in Nat
    BY TimesOfJoined
  <1>2. CASE type = 2
    <2>1. Edited(rights, type, asked) = rights \o asked
      BY <1>2 DEF Edited
    <2> QED BY <1>2, <2>1, TimesOfJoined
  <1>3. CASE type = 1
    <2>1. PICK left \in [0..Len(asked) -> Seq(Rights)] :
              /\ left[0] = rights
              /\ \A k \in 1..Len(asked) : left[k] = RemoveFirst(left[k - 1], asked[k])
              /\ Edited(rights, 1, asked) = left[Len(asked)]
      BY EditedSteps
    <2> DEFINE C(k) == Times(SubSeq(asked, 1, k), x)
               Less(k) == IF C(k) < n THEN n - C(k) ELSE 0
               Out == {k \in 0..Len(asked) : Times(left[k], x) # Less(k)}
    <2>2. C(0) = 0
      <3>1. SubSeq(asked, 1, 0) = <<>>
        OBVIOUS
      <3> QED BY <3>1, TimesOfOne
    <2>3. ASSUME NEW k \in 1..Len(asked)
          PROVE  C(k - 1) \in Nat /\ C(k) = C(k - 1) + IF x = asked[k] THEN 1 ELSE 0
      <3> DEFINE s == SubSeq(asked, 1, k - 1)
                 o == <<asked[k]>>
      <3>1. s \in Seq(Rights) /\ o \in Seq(Rights) /\ SubSeq(asked, 1, k) = s \o o
        OBVIOUS
      <3>2. Times(o, x) = IF x = asked[k] THEN 1 ELSE 0
        BY TimesOfOne
      <3> HIDE DEF s, o
      <3>3. Times(s, x) \in Nat /\ Times(s \o o, x) = Times(s, x) + Times(o, x)
        BY <3>1, TimesOfJoined
      <3> QED BY <3>1, <3>2, <3>3 DEF s
    <2> HIDE DEF C, n
    <2>4. Out = {}
      <3>1. SUFFICES ASSUME NEW m \in Out, \A k \in Out : m <= k
                     PROVE  FALSE
        <4>1. Out \in SUBSET Nat
          OBVIOUS
        <4> HIDE DEF Out
        <4> QED BY <4>1, Smallest
      <3>2. m # 0
        <4>1. Less(0) = n
          BY <1>1, <2>2
        <4> QED BY <2>1, <4>1 DEF n
      <3>3. m - 1 \in 0..Len(asked) /\ m \in 1..Len(asked) /\ ~(m <= m - 1)
        BY <3>2
      <3>4. Times(left[m - 1], x) = Less(m - 1)
        BY <3>1, <3>3
      <3>5. Times(left[m], x) = IF x = asked[m] /\ Times(left[m - 1], x) > 0
                                THEN Times(left[m - 1], x) - 1 ELSE Times(left[m - 1], x)
        <4>1. left[m - 1] \in Seq(Rights) /\ asked[m] \in Rights
          BY <3>3
        <4> QED BY <2>1, <3>3, <4>1, TimesAfterRemove
      <3>6. C(m - 1) \in Nat /\ C(m) = C(m - 1) + IF x = asked[m] THEN 1 ELSE 0
        BY <2>3, <3>3
      <3>7. Times(left[m], x) = Less(m)
        <4>1. CASE x = asked[m]
          BY <1>1, <3>4, <3>5, <3>6, <4>1
        <4>2. CASE x # asked[m]
          BY <1>1, <3>4, <3>5, <3>6, <4>2
        <4> QED BY <4>1, <4>2
      <3> QED BY <3>7
    <2>5. Times(left[Len(asked)], x) = Less(Len(asked))
      <3>1. Len(asked) \in 0..Len(asked)
        OBVIOUS
      <3> QED BY <2>4, <3>1
    <2>6. SubSeq(asked, 1, Len(asked)) = asked
      OBVIOUS
    <2> QED BY <1>3, <2>1, <2>5, <2>6 DEF C, n
  <1> QED BY <1>2, <1>3
------------------------------------------------------------------------------
(* The types *)

\* TypeOK without the length of inbox.
Typed ==
    /\ table \in [Users -> Row]
    /\ \A u, v \in Users : table[u].acct = table[v].acct => u = v
    /\ sess \in [Socks -> Session] /\ client \in [Socks -> Client]
    /\ \A s \in Socks : ~LoggedIn(s) => sess[s] = Nobody /\ inbox[s] = <<>>
    /\ \A s \in Socks : client[s].state = "off" <=> sess[s].user = NoUser
    /\ queue \in Seq(Message) /\ stmts \in Seq(Message)
    /\ inbox \in [Socks -> Seq(Ack)]
    /\ reqs \in 0..MaxReq /\ faults \in 0..MaxFaults
    /\ touched \subseteq Users /\ renamed \in BOOLEAN

LEMMA Empties ==
    /\ <<>> \in Seq(Rights) /\ NoTmp \in Tmp /\ NoChange \in Change
    /\ Nobody \in Session /\ Off \in Client
  <1>1. <<>> \in Seq(Rights)
    OBVIOUS
  <1> QED BY <1>1 DEF NoTmp, Tmp, NoChange, Change, Nobody, Session, Off, Client

LEMMA SendTyped ==
    ASSUME Typed, NEW s \in Socks, NEW a \in Ack, Send(s, a)
    PROVE  /\ inbox' \in [Socks -> Seq(Ack)]
           /\ \A t \in Socks : t # s \/ ~LoggedIn(s) => inbox'[t] = inbox[t]
           /\ LoggedIn(s) /\ inbox[s] = <<>> => inbox'[s] = <<a>>
  <1>1. Append(inbox[s], a) \in Seq(Ack)
    BY DEF Typed
  <1>2. inbox' \in [Socks -> Seq(Ack)] /\ \A t \in Socks : t # s \/ ~LoggedIn(s) => inbox'[t] = inbox[t]
    BY <1>1 DEF Typed, Send
  <1>3. ASSUME LoggedIn(s), inbox[s] = <<>> PROVE inbox'[s] = <<a>>
    <2>1. inbox'[s] = Append(inbox[s], a)
      BY <1>3 DEF Typed, Send
    <2> QED BY <1>3, <2>1
  <1> QED BY <1>2, <1>3

LEMMA SetTmpTyped ==
    ASSUME Typed, NEW s \in Socks, NEW v \in Tmp, SetTmp(s, v)
    PROVE  /\ sess' \in [Socks -> Session]
           /\ \A t \in Socks : /\ sess'[t].user = sess[t].user /\ sess'[t].acct = sess[t].acct
                               /\ sess'[t].ident = sess[t].ident
                               /\ sess'[t].rights = sess[t].rights
                               /\ t # s => sess'[t] = sess[t]
           /\ ~LoggedIn(s) => sess' = sess
           /\ LoggedIn(s) => sess'[s].tmp = v
  <1>1. \A t \in Socks : sess[t] \in Session
    BY DEF Typed
  <1>2. CASE ~LoggedIn(s)
    <2>1. sess' = sess
      BY <1>2 DEF SetTmp
    <2> QED BY <1>1, <1>2, <2>1 DEF Typed
  <1>3. CASE LoggedIn(s)
    <2> DEFINE x == [sess[s] EXCEPT !.tmp = v]
    <2>1. /\ x \in Session /\ x.user = sess[s].user /\ x.acct = sess[s].acct
          /\ x.ident = sess[s].ident /\ x.rights = sess[s].rights /\ x.tmp = v
      BY <1>1 DEF Session
    <2>2. sess' = [sess EXCEPT ![s] = x]
      BY <1>3 DEF SetTmp, Typed
    <2> HIDE DEF x
    <2>3. sess' \in [Socks -> Session] /\ sess'[s] = x /\ \A t \in Socks : t # s => sess'[t] = sess[t]
      BY <1>1, <2>1, <2>2 DEF Typed
    <2> QED BY <1>3, <2>1, <2>3
  <1> QED BY <1>2, <1>3

LEMMA AnswerTyped ==
    ASSUME NEW m \in Message, NEW ok \in BOOLEAN
    PROVE  /\ Answer(m, ok) \in Ack
           /\ \A l \in SUBSET Rights : [Answer(m, ok) EXCEPT !.list = l] \in Ack
           /\ \A i \in 1..3 : [Answer(m, ok) EXCEPT !.ident = i] \in Ack
  <1>1. Answer(m, ok) \in Ack
    BY DEF Message, Ack, Answer
  <1>2. \A a \in Ack, l \in SUBSET Rights : [a EXCEPT !.list = l] \in Ack
    BY DEF Ack
  <1>3. \A a \in Ack, i \in 1..3 : [a EXCEPT !.ident = i] \in Ack
    BY DEF Ack
  <1> QED BY <1>1, <1>2, <1>3

LEMMA UserOf ==
    ASSUME Typed, NEW s \in Socks, LoggedIn(s)
    PROVE  sess[s].user \in Users
  <1>1. sess[s] \in Session
    BY DEF Typed
  <1> QED BY <1>1 DEF Session, LoggedIn

LEMMA NewMessageTyped ==
    ASSUME Typed, NEW s \in Socks, LoggedIn(s), NEW kind \in Kinds, NEW a \in Accts
    PROVE  NewMessage(s, kind, a) \in Message
  <1>1. sess[s].user \in Users
    BY UserOf
  <1>2. <<>> \in Seq(Rights) /\ NoChange \in Change
    BY Empties
  <1> QED BY <1>1, <1>2 DEF NewMessage, Message

LEMMA TypedInit ==
    ASSUME RightsAssumption, Init PROVE Typed
  <1>1. <<>> \in Seq(Message) /\ <<>> \in Seq(Ack)
    OBVIOUS
  <1>2. Nobody \in Session /\ Off \in Client /\ Nobody.user = NoUser /\ Off.state = "off"
    BY Empties DEF Nobody, Off
  <1>3. table \in [Users -> Row] /\ \A u, v \in Users : table[u].acct = table[v].acct => u = v
    BY DEF RightsAssumption, Init
  <1>4. sess = [s \in Socks |-> Nobody] /\ client = [s \in Socks |-> Off]
    BY DEF Init
  <1>5. 0 \in 0..MaxReq /\ 0 \in 0..MaxFaults
    BY DEF RightsAssumption
  <1>6. sess \in [Socks -> Session] /\ client \in [Socks -> Client]
    BY <1>2, <1>4
  <1>7. \A s \in Socks : /\ sess[s] = Nobody /\ sess[s].user = NoUser /\ client[s].state = "off"
                         /\ inbox[s] = <<>>
    BY <1>2, <1>4 DEF Init
  <1>8. inbox \in [Socks -> Seq(Ack)] /\ queue \in Seq(Message) /\ stmts \in Seq(Message)
    BY <1>1 DEF Init
  <1>9. reqs \in 0..MaxReq /\ faults \in 0..MaxFaults /\ touched \subseteq Users /\ renamed \in BOOLEAN
    BY <1>5 DEF Init
  <1> QED BY <1>3, <1>6, <1>7, <1>8, <1>9, Zenon DEF Typed

LEMMA ClientTyped ==
    ASSUME NEW c \in Client
    PROVE  /\ [c EXCEPT !.state = "wait"] \in Client
           /\ \A ch \in Change : [c EXCEPT !.change = ch] \in Client
           /\ [c EXCEPT !.state = "idle", !.change = NoChange] \in Client
           /\ \A a \in Accts \cup {NoAcct} :
                [c EXCEPT !.state = "idle", !.change = NoChange, !.acct = a] \in Client
  <1>1. NoChange \in Change
    BY Empties
  <1> QED BY <1>1 DEF Client

LEMMA TypedRequest ==
    ASSUME RightsAssumption, Typed, NEW m \in Message, Request(m)
    PROVE  queue' \in Seq(Message) /\ reqs' \in 0..MaxReq
  <1>1. queue \in Seq(Message) /\ reqs \in 0..MaxReq /\ MaxReq \in Nat
    BY DEF Typed, RightsAssumption
  <1>2. queue' = Append(queue, m) /\ reqs' = reqs + 1 /\ reqs < MaxReq
    BY DEF Request
  <1> QED BY <1>1, <1>2

\* The client's steps.
LEMMA TypedClients ==
    ASSUME RightsAssumption, Typed, NEW s \in Socks,
           \/ \E u \in Users : Login(s, u)
           \/ Leave(s) \/ AskRights(s) \/ AskUser(s)
           \/ EditAuthoritChoose(s) \/ EditAuthoritAnswer(s) \/ UpdateChoose(s) \/ UpdateAnswer(s)
    PROVE  Typed'
  <1>1. ASSUME NEW u \in Users, Login(s, u) PROVE Typed'
    <2> DEFINE rec == [user |-> u, acct |-> table[u].acct, ident |-> table[u].ident,
                       rights |-> table[u].rights, tmp |-> NoTmp]
               cl == [state |-> "idle", acct |-> table[u].acct, ident |-> table[u].ident,
                      rights |-> table[u].rights, change |-> NoChange]
    <2>1. table[u] \in Row /\ u # NoUser
      BY DEF Typed, RightsAssumption
    <2>2. rec \in Session /\ rec.user # NoUser
      BY <2>1, Empties DEF Session, Row
    <2>3. cl \in Client /\ cl.state # "off"
      BY <2>1, Empties DEF Client, Row
    <2>4. sess' = [sess EXCEPT ![s] = rec] /\ client' = [client EXCEPT ![s] = cl]
      BY <1>1 DEF Login
    <2>5. touched' \subseteq Users /\ UNCHANGED <<table, queue, stmts, inbox, reqs, faults, renamed>>
      BY <1>1 DEF Login, Typed
    <2> HIDE DEF rec, cl
    <2> QED BY <2>2, <2>3, <2>4, <2>5 DEF Typed, LoggedIn
  <1>2. CASE Leave(s)
    <2>1. Nobody.user = NoUser /\ Off.state = "off"
      BY DEF Nobody, Off
    <2>2. inbox' \in [Socks -> Seq(Ack)]
      BY <1>2 DEF Leave, Typed
    <2> QED BY <1>2, <2>1, <2>2, Empties DEF Leave, Typed, LoggedIn
  <1>3. ASSUME NEW m \in Message, Begin(s, m) PROVE Typed'
    <2>1. queue' \in Seq(Message) /\ reqs' \in 0..MaxReq
      BY <1>3, TypedRequest DEF Begin
    <2>2. client' \in [Socks -> Client] /\ \A t \in Socks : client'[t].state = "off" <=> client[t].state = "off"
      <3>1. [client[s] EXCEPT !.state = "wait"] \in Client
        BY ClientTyped DEF Typed
      <3> QED BY <1>3, <3>1 DEF Begin, Typed
    <2> QED BY <1>3, <2>1, <2>2 DEF Begin, Typed, LoggedIn
  <1>4. client[s].state = "idle" => LoggedIn(s)
    BY DEF Typed, LoggedIn
  <1>5. CASE AskRights(s)
    <2>1. PICK a \in Accts, type \in 1..2 : Begin(s, [NewMessage(s, "get", a) EXCEPT !.type = type])
      BY <1>5 DEF AskRights
    <2>2. NewMessage(s, "get", a) \in Message
      BY <1>4, <2>1, NewMessageTyped DEF Begin, Kinds
    <2>3. [NewMessage(s, "get", a) EXCEPT !.type = type] \in Message
      BY <2>2 DEF Message
    <2> QED BY <1>3, <2>1, <2>3
  <1>6. CASE AskUser(s)
    <2>1. PICK a \in Accts, keep \in BOOLEAN : Begin(s, [NewMessage(s, "select", a) EXCEPT !.keep = keep])
      BY <1>6 DEF AskUser
    <2>2. NewMessage(s, "select", a) \in Message
      BY <1>4, <2>1, NewMessageTyped DEF Begin, Kinds
    <2>3. [NewMessage(s, "select", a) EXCEPT !.keep = keep] \in Message
      BY <2>2 DEF Message
    <2> QED BY <1>3, <2>1, <2>3
  <1>7. ASSUME NEW kind, Take(s, kind)
        PROVE  /\ inbox' \in [Socks -> Seq(Ack)] /\ Head(inbox[s]) \in Ack
               /\ \A t \in Socks : inbox[t] = <<>> => inbox'[t] = <<>>
               /\ LoggedIn(s) /\ client[s].state # "off"
    <2>1. inbox[s] \in Seq(Ack) /\ inbox[s] # <<>>
      BY <1>7 DEF Take, Typed
    <2> QED BY <1>7, <2>1 DEF Take, Typed, LoggedIn
  <1>8. ASSUME NEW kind, Take(s, kind), GiveUp(s) PROVE Typed'
    <2>1. [client[s] EXCEPT !.state = "idle", !.change = NoChange] \in Client
      BY ClientTyped DEF Typed
    <2>2. client' = [client EXCEPT ![s] = [client[s] EXCEPT !.state = "idle", !.change = NoChange]]
      BY <1>8 DEF GiveUp, Typed
    <2>3. client' \in [Socks -> Client] /\ \A t \in Socks : client'[t].state = "off" <=> client[t].state = "off"
      BY <1>7, <1>8, <2>1, <2>2 DEF Typed
    <2> QED BY <1>7, <1>8, <2>3 DEF Take, GiveUp, Typed, LoggedIn
  <1>9. ASSUME NEW m \in Message, NEW kind, Take(s, kind), Request(m),
               client' \in [Socks -> Client], \A t \in Socks : client'[t].state = client[t].state
        PROVE  Typed'
    <2>1. queue' \in Seq(Message) /\ reqs' \in 0..MaxReq
      BY <1>9, TypedRequest
    <2> QED BY <1>7, <1>9, <2>1 DEF Take, Typed, LoggedIn
  <1>10. CASE EditAuthoritChoose(s)
    <2> DEFINE ack == Head(inbox[s])
    <2>1. CASE GiveUp(s)
      BY <1>8, <1>10, <2>1 DEF EditAuthoritChoose
    <2>2. ASSUME NEW asked \in Asked, UNCHANGED client,
                 Request([NewMessage(s, "edit", ack.acct) EXCEPT !.type = ack.type, !.asked = asked])
          PROVE  Typed'
      <3>1. asked \in Seq(Rights)
        <4>1. PICK n \in 1..MaxAsk : asked \in [1..n -> Rights]
          BY DEF Asked
        <4>2. CASE MaxAsk \in Int
          BY <4>1, <4>2, SeqDef
        <4> QED BY <4>1, <4>2
      <3>2. ack \in Ack /\ LoggedIn(s)
        BY <1>7, <1>10 DEF EditAuthoritChoose
      <3>3. NewMessage(s, "edit", ack.acct) \in Message /\ ack.type \in 1..2
        BY <3>2, NewMessageTyped DEF Ack, Kinds
      <3>4. [NewMessage(s, "edit", ack.acct) EXCEPT !.type = ack.type, !.asked = asked] \in Message
        BY <3>1, <3>3 DEF Message
      <3> QED BY <1>9, <1>10, <2>2, <3>4 DEF EditAuthoritChoose, Typed
    <2> QED BY <1>10, <2>1, <2>2 DEF EditAuthoritChoose
  <1>11. CASE UpdateChoose(s)
    <2> DEFINE ack == Head(inbox[s])
    <2>1. CASE GiveUp(s)
      BY <1>8, <1>11, <2>1 DEF UpdateChoose
    <2>2. ASSUME NEW change \in Change, client' = [client EXCEPT ![s].change = change],
                 Request([NewMessage(s, "update", ack.acct) EXCEPT !.change = change])
          PROVE  Typed'
      <3>2. ack \in Ack /\ LoggedIn(s)
        BY <1>7, <1>11 DEF UpdateChoose
      <3>3. NewMessage(s, "update", ack.acct) \in Message
        BY <3>2, NewMessageTyped DEF Ack, Kinds
      <3>4. [NewMessage(s, "update", ack.acct) EXCEPT !.change = change] \in Message
        BY <3>3 DEF Message
      <3>5. [client[s] EXCEPT !.change = change] \in Client
        BY ClientTyped DEF Typed
      <3>6. client' \in [Socks -> Client] /\ \A t \in Socks : client'[t].state = client[t].state
        BY <2>2, <3>5 DEF Typed
      <3> QED BY <1>9, <1>11, <2>2, <3>4, <3>6 DEF UpdateChoose
    <2>3. \A identToo \in BOOLEAN : OneField(identToo) \cup FixedFields(identToo) \subseteq Change
      BY Empties DEF OneField, FixedFields, Change
    <2> QED BY <1>11, <2>1, <2>2, <2>3 DEF UpdateChoose
  <1>12. CASE UpdateAnswer(s)
    <2> DEFINE ack == Head(inbox[s])
               acct == IF ack.ok /\ client[s].acct = ack.acct /\ client[s].change.acct # NoAcct
                       THEN client[s].change.acct ELSE client[s].acct
               cl == [client[s] EXCEPT !.state = "idle", !.change = NoChange, !.acct = acct]
    <2>0. client[s] \in Client
      BY DEF Typed
    <2>1. cl \in Client /\ cl.state # "off"
      <3>1. acct \in Accts \cup {NoAcct}
        BY <2>0 DEF Client, Change
      <3>2. cl \in Client
        <4> HIDE DEF acct
        <4> QED BY <2>0, <3>1, ClientTyped
      <3> QED BY <2>0, <3>2 DEF Client
    <2>2. client' = [client EXCEPT ![s] = cl]
      BY <1>12 DEF UpdateAnswer, Typed
    <2>3. client' \in [Socks -> Client] /\ \A t \in Socks : client'[t].state = "off" <=> client[t].state = "off"
      <3>1. client[s].state # "off"
        BY <1>7, <1>12 DEF UpdateAnswer
      <3> HIDE DEF cl
      <3>2. client'[s] = cl /\ \A t \in Socks : t # s => client'[t] = client[t]
        BY <2>2 DEF Typed
      <3>3. client' \in [Socks -> Client]
        BY <2>1, <2>2 DEF Typed
      <3> QED BY <2>1, <3>1, <3>2, <3>3
    <2> QED BY <1>7, <1>12, <2>3 DEF UpdateAnswer, Take, Typed, LoggedIn
  <1> QED BY <1>1, <1>2, <1>5, <1>6, <1>8, <1>10, <1>11, <1>12 DEF EditAuthoritAnswer

LEMMA HeadTail ==
    ASSUME NEW S, NEW q \in Seq(S), q # <<>>
    PROVE  Head(q) \in S /\ Tail(q) \in Seq(S)
  OBVIOUS

\* What a step of the queue thread leaves alone.
LEMMA TypedServerShape ==
    ASSUME Typed,
           table' \in [Users -> Row], \A u, v \in Users : table'[u].acct = table'[v].acct => u = v,
           sess' \in [Socks -> Session], \A t \in Socks : sess'[t].user = sess[t].user,
           \A t \in Socks : ~LoggedIn(t) => sess'[t] = sess[t] /\ inbox'[t] = inbox[t],
           queue' \in Seq(Message), stmts' \in Seq(Message), inbox' \in [Socks -> Seq(Ack)],
           UNCHANGED <<client, reqs>>, faults' \in 0..MaxFaults,
           touched' \subseteq Users, renamed' \in BOOLEAN
    PROVE  Typed'
  BY DEF Typed, LoggedIn

LEMMA TypedRecv ==
    ASSUME RightsAssumption, Typed,
           \/ GetAuthoritRecvHandle \/ EditAuthoritRecvHandle
           \/ SelectSingleUserInfoRecvHandle \/ UpdateSingleUserInfoRecvHandle
    PROVE  Typed'
  <1> DEFINE r == Head(queue)
  <1>1. r \in Message /\ queue' \in Seq(Message) /\ r.sock \in Socks
    <2>1. r \in Message /\ Tail(queue) \in Seq(Message)
      BY HeadTail DEF Typed, GetAuthoritRecvHandle, EditAuthoritRecvHandle,
         SelectSingleUserInfoRecvHandle, UpdateSingleUserInfoRecvHandle, RecvFront
    <2> QED BY <2>1 DEF Message, GetAuthoritRecvHandle, EditAuthoritRecvHandle,
         SelectSingleUserInfoRecvHandle, UpdateSingleUserInfoRecvHandle, RecvFront
  <1>2. UNCHANGED <<table, client, reqs, faults, touched, renamed>>
    BY DEF GetAuthoritRecvHandle, EditAuthoritRecvHandle,
         SelectSingleUserInfoRecvHandle, UpdateSingleUserInfoRecvHandle, RecvFront
  <1>3. ASSUME sess' \in [Socks -> Session], \A t \in Socks : sess'[t].user = sess[t].user,
               \A t \in Socks : ~LoggedIn(t) => sess'[t] = sess[t] /\ inbox'[t] = inbox[t],
               stmts' \in Seq(Message), inbox' \in [Socks -> Seq(Ack)]
        PROVE  Typed'
    <2>1. /\ table' \in [Users -> Row] /\ \A u, v \in Users : table'[u].acct = table'[v].acct => u = v
          /\ faults' \in 0..MaxFaults /\ touched' \subseteq Users /\ renamed' \in BOOLEAN
      BY <1>2 DEF Typed
    <2> QED BY <1>1, <1>2, <1>3, <2>1, TypedServerShape
  <1>4. ASSUME SetTmp(r.sock, NoTmp)
        PROVE  /\ sess' \in [Socks -> Session] /\ (\A t \in Socks : sess'[t].user = sess[t].user)
               /\ \A t \in Socks : ~LoggedIn(t) => sess'[t] = sess[t]
    BY <1>1, <1>4, SetTmpTyped, Empties DEF LoggedIn
  <1>5. ASSUME Send(r.sock, Answer(r, FALSE))
        PROVE  inbox' \in [Socks -> Seq(Ack)] /\ \A t \in Socks : ~LoggedIn(t) => inbox'[t] = inbox[t]
    BY <1>1, <1>5, SendTyped, AnswerTyped
  <1>6. ASSUME UNCHANGED inbox
        PROVE  inbox' \in [Socks -> Seq(Ack)] /\ \A t \in Socks : ~LoggedIn(t) => inbox'[t] = inbox[t]
    BY <1>6 DEF Typed
  <1>7. \A m \in Message : Append(stmts, m) \in Seq(Message)
    BY DEF Typed
  <1>8. ASSUME UNCHANGED sess
        PROVE  /\ sess' \in [Socks -> Session] /\ (\A t \in Socks : sess'[t].user = sess[t].user)
               /\ \A t \in Socks : ~LoggedIn(t) => sess'[t] = sess[t]
    BY <1>8 DEF Typed
  <1>9. CASE GetAuthoritRecvHandle
    BY <1>1, <1>3, <1>6, <1>7, <1>8, <1>9 DEF GetAuthoritRecvHandle
  <1>10. CASE EditAuthoritRecvHandle
    <2> DEFINE tmp == sess[r.sock].tmp
               new == [r EXCEPT !.rights = Edited(tmp.rights, r.type, r.asked), !.user = tmp.user]
    <2>1. new \in Message
      <3>1. tmp \in Tmp /\ r.asked \in Seq(Rights)
        BY <1>1 DEF Typed, Session, Message
      <3>2. tmp.rights \in Seq(Rights) /\ tmp.user \in Users \cup {NoUser}
        BY <3>1 DEF Tmp
      <3>3. Edited(tmp.rights, r.type, r.asked) \in Seq(Rights)
        BY <3>1, <3>2, EditedKeeps
      <3> HIDE DEF r, tmp
      <3> QED BY <1>1, <3>2, <3>3 DEF Message
    <2>2. CASE stmts' = Append(stmts, new) /\ UNCHANGED inbox
      BY <1>3, <1>4, <1>6, <1>7, <1>10, <2>1, <2>2 DEF EditAuthoritRecvHandle
    <2>3. CASE Send(r.sock, Answer(r, FALSE)) /\ UNCHANGED stmts
      BY <1>3, <1>4, <1>5, <1>10, <2>3 DEF EditAuthoritRecvHandle, Typed
    <2> QED BY <1>10, <2>2, <2>3 DEF EditAuthoritRecvHandle
  <1>11. CASE SelectSingleUserInfoRecvHandle
    BY <1>1, <1>3, <1>4, <1>6, <1>7, <1>8, <1>11 DEF SelectSingleUserInfoRecvHandle
  <1>12. CASE UpdateSingleUserInfoRecvHandle
    <2>1. ASSUME NEW own \in BOOLEAN, stmts' = Append(stmts, [r EXCEPT !.own = own]), UNCHANGED inbox
          PROVE Typed'
      <3>1. [r EXCEPT !.own = own] \in Message
        BY <1>1 DEF Message
      <3> QED BY <1>3, <1>4, <1>6, <1>7, <1>12, <2>1, <3>1 DEF UpdateSingleUserInfoRecvHandle
    <2>2. CASE Send(r.sock, Answer(r, FALSE)) /\ UNCHANGED stmts
      BY <1>3, <1>4, <1>5, <1>12, <2>2 DEF UpdateSingleUserInfoRecvHandle, Typed
    <2>3. (sess[r.sock].ident = sess[r.sock].tmp.ident /\ sess[r.sock].acct = sess[r.sock].tmp.acct) \in BOOLEAN
      OBVIOUS
    <2> HIDE DEF r
    <2> QED BY <1>12, <2>1, <2>2, <2>3 DEF UpdateSingleUserInfoRecvHandle, r
  <1> QED BY <1>9, <1>10, <1>11, <1>12

\* What EditAuthoritReplyHandle and UpdateSingleUserInfoReplyHandle make of a row.
LEMMA ChangedTyped ==
    ASSUME RightsAssumption, NEW row \in Row, NEW change \in Change
    PROVE  /\ Changed(row, change) \in Row
           /\ \A rights \in Seq(Rights) : [row EXCEPT !.rights = rights] \in Row
  <1>1. change.ident # 0 => change.ident \in 1..3 /\ DefaultRights[change.ident] \in Seq(Rights)
    BY DEF RightsAssumption, Change
  <1>2. change.acct # NoAcct => change.acct \in Accts
    BY DEF Change
  <1> QED BY <1>1, <1>2 DEF Changed, Row

LEMMA TypedMysql ==
    ASSUME RightsAssumption, Typed,
           \/ GetAuthoritReplyHandle \/ EditAuthoritReplyHandle
           \/ SelectSingleUserInfoReplyHandle \/ UpdateSingleUserInfoReplyHandle \/ ExecFault
    PROVE  Typed'
  <1> DEFINE st == Head(stmts)
  <1>1. st \in Message /\ stmts' \in Seq(Message) /\ st.sock \in Socks
    <2>1. st \in Message /\ Tail(stmts) \in Seq(Message)
      BY HeadTail DEF Typed, GetAuthoritReplyHandle, EditAuthoritReplyHandle,
         SelectSingleUserInfoReplyHandle, UpdateSingleUserInfoReplyHandle, ExecFault, MysqlFront
    <2> QED BY <2>1 DEF Message, GetAuthoritReplyHandle, EditAuthoritReplyHandle,
         SelectSingleUserInfoReplyHandle, UpdateSingleUserInfoReplyHandle, ExecFault, MysqlFront
  <1>2. UNCHANGED <<client, queue, reqs>> /\ queue' \in Seq(Message)
    BY DEF Typed, GetAuthoritReplyHandle, EditAuthoritReplyHandle,
         SelectSingleUserInfoReplyHandle, UpdateSingleUserInfoReplyHandle, ExecFault, MysqlFront
  <1>3. ASSUME sess' \in [Socks -> Session], \A t \in Socks : sess'[t].user = sess[t].user,
               \A t \in Socks : ~LoggedIn(t) => sess'[t] = sess[t],
               table' \in [Users -> Row], \A u, v \in Users : table'[u].acct = table'[v].acct => u = v,
               faults' \in 0..MaxFaults, touched' \subseteq Users, renamed' \in BOOLEAN,
               NEW a \in Ack, Send(st.sock, a)
        PROVE  Typed'
    <2>1. inbox' \in [Socks -> Seq(Ack)] /\ \A t \in Socks : ~LoggedIn(t) => inbox'[t] = inbox[t]
      <3>1. st.sock \in Socks
        BY <1>1
      <3> HIDE DEF st
      <3>2. Send(st.sock, a)
        BY <1>3
      <3> QED BY <3>1, <3>2, SendTyped
    <2> HIDE DEF st
    <2> QED BY <1>1, <1>2, <1>3, <2>1, TypedServerShape
  <1>4. ASSUME NEW tmp \in Tmp, SetTmp(st.sock, tmp)
        PROVE  /\ sess' \in [Socks -> Session] /\ (\A t \in Socks : sess'[t].user = sess[t].user)
               /\ \A t \in Socks : ~LoggedIn(t) => sess'[t] = sess[t]
    BY <1>1, <1>4, SetTmpTyped DEF LoggedIn
  <1>5. ASSUME UNCHANGED sess
        PROVE  /\ sess' \in [Socks -> Session] /\ (\A t \in Socks : sess'[t].user = sess[t].user)
               /\ \A t \in Socks : ~LoggedIn(t) => sess'[t] = sess[t]
    BY <1>5 DEF Typed
  <1>6. ASSUME UNCHANGED table
        PROVE  table' \in [Users -> Row] /\ \A u, v \in Users : table'[u].acct = table'[v].acct => u = v
    BY <1>6 DEF Typed
  <1>7. ASSUME UNCHANGED <<faults, touched, renamed>>
        PROVE  faults' \in 0..MaxFaults /\ touched' \subseteq Users /\ renamed' \in BOOLEAN
    BY <1>7 DEF Typed
  <1>8. ASSUME NEW u \in Users
        PROVE  /\ table[u] \in Row /\ table[u].ident \in 1..3 /\ table[u].ident \in 0..3
               /\ table[u].rights \in Seq(Rights)
    BY DEF Typed, Row
  <1>9. st.acct \in Accts /\ st.change \in Change /\ st.rights \in Seq(Rights) /\ st.own \in BOOLEAN
        /\ \A s \in FirstWith(st.acct) : LoggedIn(s)
    <2>1. st.acct \in Accts /\ st.change \in Change /\ st.rights \in Seq(Rights) /\ st.own \in BOOLEAN
      BY <1>1 DEF Message
    <2> HIDE DEF st
    <2> QED BY <2>1 DEF FirstWith, Typed, Nobody, RightsAssumption
  <1>10. \A ok \in BOOLEAN : Answer(st, ok) \in Ack
    BY <1>1, AnswerTyped
  <1>11. CASE GetAuthoritReplyHandle
    <2>1. CASE UNCHANGED sess /\ Send(st.sock, Answer(st, FALSE))
      BY <1>3, <1>5, <1>6, <1>7, <1>10, <1>11, <2>1 DEF GetAuthoritReplyHandle
    <2>2. ASSUME NEW u \in Users, SetTmp(st.sock, Kept(st, u)),
                 Send(st.sock, [Answer(st, TRUE) EXCEPT !.list = Listed(table[u].rights, st.type)])
          PROVE  Typed'
      <3>1. Kept(st, u) \in Tmp
        <4>1. st.acct \in Accts
          BY <1>9
        <4> HIDE DEF st
        <4> QED BY <1>8, <4>1, Empties DEF Kept, Tmp, NoTmp
      <3>2. [Answer(st, TRUE) EXCEPT !.list = Listed(table[u].rights, st.type)] \in Ack
        <4>1. Listed(table[u].rights, st.type) \in SUBSET Rights
          <5>1. Range(table[u].rights) \subseteq Rights
            BY <1>8 DEF Range
          <5> QED BY <5>1 DEF Listed
        <4> QED BY <1>1, <4>1, AnswerTyped
      <3> HIDE DEF st
      <3> QED BY <1>3, <1>4, <1>6, <1>7, <1>11, <2>2, <3>1, <3>2 DEF GetAuthoritReplyHandle
    <2> QED BY <1>11, <2>1, <2>2 DEF GetAuthoritReplyHandle, Holders
  <1>12. CASE SelectSingleUserInfoReplyHandle
    <2>1. CASE UNCHANGED sess /\ Send(st.sock, Answer(st, FALSE))
      BY <1>3, <1>5, <1>6, <1>7, <1>10, <1>12, <2>1 DEF SelectSingleUserInfoReplyHandle
    <2>2. ASSUME NEW u \in Users,
                 \/ UNCHANGED sess
                 \/ SetTmp(st.sock, [NoTmp EXCEPT !.kind = "user", !.ident = table[u].ident,
                                                  !.acct = st.acct, !.user = u]),
                 Send(st.sock, [Answer(st, TRUE) EXCEPT !.ident = table[u].ident])
          PROVE  Typed'
      <3> DEFINE tmp == [NoTmp EXCEPT !.kind = "user", !.ident = table[u].ident,
                                      !.acct = st.acct, !.user = u]
      <3>1. tmp \in Tmp
        <4>1. st.acct \in Accts
          BY <1>9
        <4> HIDE DEF st
        <4> QED BY <1>8, <4>1, Empties DEF Tmp, NoTmp
      <3>2. [Answer(st, TRUE) EXCEPT !.ident = table[u].ident] \in Ack
        BY <1>1, <1>8, AnswerTyped
      <3>3. /\ sess' \in [Socks -> Session] /\ (\A t \in Socks : sess'[t].user = sess[t].user)
            /\ \A t \in Socks : ~LoggedIn(t) => sess'[t] = sess[t]
        <4> HIDE DEF tmp, st
        <4> QED BY <1>4, <1>5, <2>2, <3>1 DEF tmp, st
      <3> HIDE DEF st, tmp
      <3> QED BY <1>3, <1>6, <1>7, <1>12, <2>2, <3>2, <3>3 DEF SelectSingleUserInfoReplyHandle
    <2> QED BY <1>12, <2>1, <2>2 DEF SelectSingleUserInfoReplyHandle, Holders
  <1>13. CASE EditAuthoritReplyHandle
    <2>1. table' = [u \in Users |-> IF u \in Holders(st.acct)
                                    THEN [table[u] EXCEPT !.rights = st.rights] ELSE table[u]]
          /\ sess' = [s \in Socks |-> IF st.rights # <<>> /\ s \in FirstWith(st.acct)
                                      THEN [sess[s] EXCEPT !.rights = st.rights] ELSE sess[s]]
          /\ Send(st.sock, Answer(st, st.rights # <<>>))
          /\ UNCHANGED <<faults, touched, renamed>>
      BY <1>13 DEF EditAuthoritReplyHandle
    <2> HIDE DEF st
    <2>2. \A u \in Users : table'[u] \in Row /\ table'[u].acct = table[u].acct
      BY <1>8, <1>9, <2>1, ChangedTyped DEF Row
    <2>3. table' \in [Users -> Row] /\ \A u, v \in Users : table'[u].acct = table'[v].acct => u = v
      BY <2>1, <2>2 DEF Typed
    <2>4. \A s \in Socks : [sess[s] EXCEPT !.rights = st.rights] \in Session
      <3>1. st.rights \in Seq(Rights)
        BY <1>9
      <3>2. \A x \in Session, rights \in Seq(Rights) : [x EXCEPT !.rights = rights] \in Session
        BY DEF Session
      <3> QED BY <3>1, <3>2 DEF Typed
    <2>5. sess' \in [Socks -> Session] /\ (\A t \in Socks : sess'[t].user = sess[t].user)
          /\ \A t \in Socks : ~LoggedIn(t) => sess'[t] = sess[t]
      BY <1>9, <2>1, <2>4 DEF Typed, Session
    <2> QED BY <1>3, <1>7, <1>10, <2>1, <2>3, <2>5 DEF st
  <1>14. CASE UpdateSingleUserInfoReplyHandle
    <2>1. CASE Taken(st) /\ Send(st.sock, Answer(st, FALSE)) /\ UNCHANGED <<table, sess, touched, renamed>>
      BY <1>3, <1>5, <1>6, <1>7, <1>10, <1>14, <2>1 DEF UpdateSingleUserInfoReplyHandle
    <2>2. ASSUME ~Taken(st),
                 table' = [u \in Users |-> IF u \in Holders(st.acct)
                                           THEN Changed(table[u], st.change) ELSE table[u]],
                 touched' \subseteq Users, renamed' \in BOOLEAN,
                 sess' = [s \in Socks |-> IF Renamed(st) /\ s \in FirstWith(st.acct)
                                          THEN [sess[s] EXCEPT !.acct = st.change.acct]
                                          ELSE sess[s]],
                 Send(st.sock, Answer(st, TRUE))
          PROVE  Typed'
      <3> HIDE DEF st
      <3>1. table' \in [Users -> Row]
        BY <1>8, <1>9, <2>2, ChangedTyped
      <3>2. ASSUME NEW u \in Users, NEW v \in Users, table'[u].acct = table'[v].acct PROVE u = v
        <4>1. \A x, y \in Users : x \in Holders(st.acct) /\ y \in Holders(st.acct) => x = y
          BY DEF Holders, Typed
        <4>2. \A x \in Users : table'[x].acct = IF x \in Holders(st.acct) /\ st.change.acct # NoAcct
                                                THEN st.change.acct ELSE table[x].acct
          BY <2>2 DEF Changed
        <4>3. \A x \in Users : x \in Holders(st.acct) /\ st.change.acct # NoAcct
                               => \A y \in Users : table[y].acct = st.change.acct => y = x
          BY <2>2, <4>1 DEF Taken, Holders
        <4>4. \A x, y \in Users : table[x].acct = table[y].acct => x = y
          BY DEF Typed
        <4> QED BY <3>2, <4>1, <4>2, <4>3, <4>4
      <3>3. \A s \in Socks : Renamed(st) => [sess[s] EXCEPT !.acct = st.change.acct] \in Session
        <4>1. Renamed(st) => st.change.acct \in Accts
          BY <1>9 DEF Change, Renamed
        <4>2. \A x \in Session, a \in Accts : [x EXCEPT !.acct = a] \in Session
          BY DEF Session
        <4> QED BY <4>1, <4>2 DEF Typed
      <3>4. sess' \in [Socks -> Session] /\ (\A t \in Socks : sess'[t].user = sess[t].user)
            /\ \A t \in Socks : ~LoggedIn(t) => sess'[t] = sess[t]
        BY <1>9, <2>2, <3>3 DEF Typed, Session
      <3>5. faults' \in 0..MaxFaults
        BY <1>14 DEF UpdateSingleUserInfoReplyHandle, Typed
      <3> QED BY <1>3, <1>10, <2>2, <3>1, <3>2, <3>4, <3>5
    <2>3. ~Taken(st) => touched' \subseteq Users /\ renamed' \in BOOLEAN
      <3>1. Holders(st.acct) \subseteq Users
        BY DEF Holders
      <3> HIDE DEF st
      <3> QED BY <1>14, <3>1, <1>9 DEF UpdateSingleUserInfoReplyHandle, Typed, st
    <2> QED BY <1>14, <2>1, <2>2, <2>3 DEF UpdateSingleUserInfoReplyHandle
  <1>15. CASE ExecFault
    <2>1. faults' \in 0..MaxFaults /\ UNCHANGED <<table, sess, touched, renamed>>
          /\ Send(st.sock, Answer(st, FALSE))
      <3>1. faults < MaxFaults /\ faults' = faults + 1 /\ UNCHANGED <<table, sess, touched, renamed>>
            /\ Send(st.sock, Answer(st, FALSE))
        BY <1>15 DEF ExecFault
      <3>2. faults \in 0..MaxFaults /\ MaxFaults \in Nat
        BY DEF Typed, RightsAssumption
      <3>3. faults' \in 0..MaxFaults
        BY <3>1, <3>2
      <3> QED BY <3>1, <3>3
    <2> QED BY <1>3, <1>5, <1>6, <1>7, <1>10, <2>1 DEF Typed
  <1> QED BY <1>11, <1>12, <1>13, <1>14, <1>15

LEMMA TypedNext ==
    ASSUME RightsAssumption, Typed, [Next]_vars PROVE Typed'
  <1>1. CASE Clients
    BY <1>1, TypedClients DEF Clients
  <1>2. CASE MsgQueueThread
    BY <1>2, TypedRecv, TypedMysql DEF MsgQueueThread
  <1>3. CASE UNCHANGED vars
    BY <1>3 DEF vars, Typed, LoggedIn
  <1> QED BY <1>1, <1>2, <1>3 DEF Next

(* One request or answer of a connection at a time *)

Apart(m, n) == m.sock # n.sock /\ m.by # n.by

AllApart(q) == \A i, j \in DOMAIN q : i # j => Apart(q[i], q[j])

\* Requests and statements that have not been answered.
Pending == Range(queue) \cup Range(stmts)

\* The client m is from waits for its answer, unless it has left.
Awaited(m) ==
    /\ LoggedIn(m.sock) => sess[m.sock].user = m.by
    /\ \A t \in Socks : sess[t].user = m.by => t = m.sock
    /\ client[m.sock].state # "idle" /\ inbox[m.sock] = <<>>

Pipeline ==
    /\ AllApart(queue) /\ AllApart(stmts)
    /\ \A m \in Range(queue), n \in Range(stmts) : Apart(m, n)
    /\ \A m \in Pending : Awaited(m)
    /\ \A s \in Socks : client[s].state # "wait" => inbox[s] = <<>>
    /\ \A s \in Socks : Len(inbox[s]) <= 1
    /\ \A s, t \in Socks : LoggedIn(s) /\ sess[s].user = sess[t].user => s = t

LEMMA AppendRange ==
    ASSUME NEW S, NEW q \in Seq(S), NEW m \in S
    PROVE  Range(Append(q, m)) = Range(q) \cup {m}
  <1>1. /\ DOMAIN q = 1..Len(q) /\ DOMAIN Append(q, m) = 1..(Len(q) + 1) /\ Len(q) \in Nat
        /\ \A i \in 1..Len(q) : Append(q, m)[i] = q[i] /\ q[i] \in Range(q)
        /\ Append(q, m)[Len(q) + 1] = m
    BY DEF Range
  <1>2. \A x \in Range(q) : \E i \in 1..Len(q) : Append(q, m)[i] = x
    BY <1>1 DEF Range
  <1>3. Range(q) \cup {m} \subseteq Range(Append(q, m))
    <2>1. Range(Append(q, m)) = {Append(q, m)[i] : i \in 1..(Len(q) + 1)}
      BY <1>1 DEF Range
    <2>2. Len(q) + 1 \in 1..(Len(q) + 1) /\ \A i \in 1..Len(q) : i \in 1..(Len(q) + 1)
      BY <1>1
    <2> QED BY <1>1, <1>2, <2>1, <2>2
  <1>4. \A i \in 1..(Len(q) + 1) : i \in 1..Len(q) \/ i = Len(q) + 1
    BY <1>1
  <1>5. Range(Append(q, m)) \subseteq Range(q) \cup {m}
    BY <1>1, <1>4 DEF Range
  <1> QED BY <1>3, <1>5

LEMMA AppendApart ==
    ASSUME NEW q \in Seq(Message), NEW m \in Message,
           AllApart(q), \A n \in Range(q) : Apart(n, m)
    PROVE  AllApart(Append(q, m)) /\ Range(Append(q, m)) = Range(q) \cup {m}
  <1>1. /\ DOMAIN q = 1..Len(q) /\ DOMAIN Append(q, m) = 1..(Len(q) + 1) /\ Len(q) \in Nat
        /\ \A i \in 1..Len(q) : Append(q, m)[i] = q[i] /\ q[i] \in Range(q)
        /\ Append(q, m)[Len(q) + 1] = m
    BY DEF Range
  <1>2. AllApart(Append(q, m))
    BY <1>1 DEF AllApart, Apart
  <1> QED BY <1>2, AppendRange

LEMMA TailApart ==
    ASSUME NEW q \in Seq(Message), q # <<>>, AllApart(q)
    PROVE  /\ AllApart(Tail(q)) /\ Range(Tail(q)) \subseteq Range(q)
           /\ Head(q) \in Range(q) /\ \A n \in Range(Tail(q)) : Apart(n, Head(q))
  <1>1. /\ DOMAIN q = 1..Len(q) /\ Len(q) \in Nat /\ Len(q) > 0 /\ Head(q) = q[1]
        /\ DOMAIN Tail(q) = 1..(Len(q) - 1)
        /\ \A i \in 1..(Len(q) - 1) : Tail(q)[i] = q[i + 1]
    OBVIOUS
  <1>2. \A i \in 1..(Len(q) - 1) : i + 1 \in 1..Len(q) /\ i + 1 # 1
    BY <1>1
  <1>3. AllApart(Tail(q))
    <2> SUFFICES ASSUME NEW i \in 1..(Len(q) - 1), NEW j \in 1..(Len(q) - 1), i # j
                 PROVE  Apart(Tail(q)[i], Tail(q)[j])
      BY <1>1 DEF AllApart
    <2>1. i + 1 # j + 1 /\ i + 1 \in DOMAIN q /\ j + 1 \in DOMAIN q
      BY <1>1, <1>2
    <2> QED BY <1>1, <2>1 DEF AllApart
  <1>4. \A n \in Range(Tail(q)) : n \in Range(q) /\ Apart(n, Head(q))
    <2> SUFFICES ASSUME NEW i \in 1..(Len(q) - 1)
                 PROVE  Tail(q)[i] \in Range(q) /\ Apart(Tail(q)[i], Head(q))
      BY <1>1 DEF Range
    <2>1. i + 1 \in DOMAIN q /\ 1 \in DOMAIN q /\ i + 1 # 1
      BY <1>1, <1>2
    <2> QED BY <1>1, <2>1 DEF AllApart, Range
  <1>5. Head(q) \in Range(q)
    BY <1>1 DEF Range
  <1> QED BY <1>3, <1>4, <1>5

LEMMA PendingTyped ==
    ASSUME Typed, NEW m \in Pending
    PROVE  m \in Message /\ m.sock \in Socks /\ m.by \in Users
  <1>1. queue \in Seq(Message) /\ stmts \in Seq(Message)
    BY DEF Typed
  <1>2. \A q \in Seq(Message) : Range(q) \subseteq Message
    BY DEF Range
  <1>3. m \in Message
    BY <1>1, <1>2 DEF Pending
  <1> QED BY <1>3 DEF Message

\* A client that sends a request, or a second one after an answer.
LEMMA PipelineRequest ==
    ASSUME Typed, Pipeline, NEW s \in Socks, LoggedIn(s),
           NEW m \in Message, m.sock = s, m.by = sess[s].user, Request(m),
           \A n \in Pending : n.sock # s,
           client' \in [Socks -> Client], client'[s].state = "wait",
           \A t \in Socks : t # s => client'[t] = client[t],
           inbox' \in [Socks -> Seq(Ack)], inbox'[s] = <<>>,
           \A t \in Socks : t # s => inbox'[t] = inbox[t],
           UNCHANGED <<sess, stmts>>
    PROVE  Pipeline'
  <1>1. \A n \in Pending : n \in Message /\ n.sock \in Socks
    BY PendingTyped
  <1>2. \A n \in Pending : Apart(n, m) /\ Apart(m, n)
    BY <1>1 DEF Pipeline, Awaited, Apart
  <1>3. queue' = Append(queue, m)
    BY DEF Request
  <1>4. AllApart(queue') /\ Range(queue') = Range(queue) \cup {m}
    BY <1>2, <1>3, AppendApart DEF Pipeline, Typed, Pending
  <1>5. \A n \in Pending' : n = m \/ n \in Pending
    BY <1>4 DEF Pending
  <1>6. AllApart(stmts)' /\ \A n \in Range(queue'), k \in Range(stmts') : Apart(n, k)
    BY <1>2, <1>4 DEF Pipeline, Pending
  <1>7. \A n \in Pending : Awaited(n)'
    BY <1>1 DEF Pipeline, Awaited, LoggedIn
  <1>8. Awaited(m)'
    BY DEF Pipeline, Awaited, LoggedIn
  <1>9. \A t \in Socks : client'[t].state # "wait" => inbox'[t] = <<>>
    BY DEF Pipeline
  <1>10. \A t \in Socks : Len(inbox'[t]) <= 1
    <2>1. Len(<<>>) = 0 /\ \A t \in Socks : Len(inbox[t]) <= 1
      BY DEF Pipeline
    <2> QED BY <2>1
  <1>11. \A t, u \in Socks : LoggedIn(t)' /\ sess'[t].user = sess'[u].user => t = u
    BY DEF Pipeline, LoggedIn
  <1> QED BY <1>4, <1>5, <1>6, <1>7, <1>8, <1>9, <1>10, <1>11 DEF Pipeline

LEMMA Appended ==
    ASSUME NEW S, NEW q \in Seq(S), NEW m, Append(q, m) \in Seq(S)
    PROVE  m \in S
  <1>1. Append(q, m)[Len(q) + 1] = m /\ Len(q) + 1 \in DOMAIN Append(q, m)
    OBVIOUS
  <1>2. \A r \in Seq(S) : \A i \in DOMAIN r : r[i] \in S
    OBVIOUS
  <1> QED BY <1>1, <1>2

\* A client that takes an answer: nothing else of its connection is pending.
LEMMA Answered ==
    ASSUME Typed, Pipeline, NEW s \in Socks, NEW kind, Take(s, kind)
    PROVE  /\ LoggedIn(s) /\ client[s].state = "wait" /\ \A m \in Pending : m.sock # s
           /\ inbox' \in [Socks -> Seq(Ack)] /\ inbox'[s] = <<>>
           /\ \A t \in Socks : t # s => inbox'[t] = inbox[t]
           /\ Head(inbox[s]) \in Ack /\ Head(inbox[s]).kind = kind
  <1>1. inbox[s] \in Seq(Ack) /\ inbox[s] # <<>> /\ Len(inbox[s]) <= 1
    BY DEF Take, Typed, Pipeline
  <1>2. Tail(inbox[s]) = <<>> /\ Tail(inbox[s]) \in Seq(Ack) /\ Head(inbox[s]) \in Ack
    BY <1>1
  <1>3. client[s].state = "wait" /\ \A m \in Pending : m.sock # s
    BY <1>1 DEF Pipeline, Awaited
  <1> QED BY <1>1, <1>2, <1>3 DEF Take, Typed

LEMMA PipelineClients ==
    ASSUME RightsAssumption, Typed, Pipeline, NEW s \in Socks,
           \/ \E u \in Users : Login(s, u)
           \/ Leave(s) \/ AskRights(s) \/ AskUser(s)
           \/ EditAuthoritChoose(s) \/ EditAuthoritAnswer(s) \/ UpdateChoose(s) \/ UpdateAnswer(s)
    PROVE  Pipeline'
  <1>0. Typed'
    BY TypedClients
  <1>1. ASSUME NEW u \in Users, Login(s, u) PROVE Pipeline'
    <2>1. /\ \A m \in Pending : LoggedIn(m.sock)
          /\ \A t \in Socks : sess[t].user # u
      <3>1. \A q \in {queue, stmts} : \A m \in Range(q) : LoggedIn(m.sock)
        BY <1>1 DEF Login, Range
      <3> QED BY <1>1, <3>1 DEF Login, Pending
    <2>2. ~LoggedIn(s) /\ inbox[s] = <<>>
      BY <1>1 DEF Login, Typed, LoggedIn
    <2>3. /\ sess'[s].user = u /\ client'[s].state = "idle"
          /\ \A t \in Socks : t # s => sess'[t] = sess[t] /\ client'[t] = client[t]
          /\ UNCHANGED <<queue, stmts, inbox>>
      BY <1>1 DEF Login, Typed
    <2>4. ASSUME NEW m \in Pending PROVE Awaited(m)'
      <3>0. m.sock \in Socks /\ LoggedIn(m.sock) /\ Awaited(m)
        BY <2>1, PendingTyped DEF Pipeline
      <3>1. m.sock # s /\ m.by # u
        BY <2>1, <2>2, <3>0 DEF Awaited
      <3> QED BY <2>3, <3>0, <3>1 DEF Awaited, LoggedIn
    <2>5. \A t \in Socks : Len(inbox'[t]) <= 1 /\ (client'[t].state # "wait" => inbox'[t] = <<>>)
      BY <2>2, <2>3 DEF Pipeline
    <2>6. \A t, v \in Socks : LoggedIn(t)' /\ sess'[t].user = sess'[v].user => t = v
      BY <2>1, <2>3 DEF Pipeline, LoggedIn
    <2>7. Pending' = Pending /\ UNCHANGED <<queue, stmts>>
      BY <2>3 DEF Pending
    <2> QED BY <2>4, <2>5, <2>6, <2>7 DEF Pipeline
  <1>2. CASE Leave(s)
    <2>1. /\ sess'[s].user = NoUser /\ client'[s].state = "off" /\ inbox'[s] = <<>>
          /\ \A t \in Socks : t # s => sess'[t] = sess[t] /\ client'[t] = client[t] /\ inbox'[t] = inbox[t]
          /\ UNCHANGED <<queue, stmts>>
      BY <1>2 DEF Leave, Typed, Nobody, Off
    <2>2. ASSUME NEW m \in Pending PROVE Awaited(m)'
      <3>1. m.sock \in Socks /\ m.by # NoUser /\ Awaited(m)
        BY PendingTyped DEF Pipeline, RightsAssumption
      <3> QED BY <2>1, <3>1 DEF Awaited, LoggedIn
    <2>3. \A t \in Socks : Len(inbox'[t]) <= 1 /\ (client'[t].state # "wait" => inbox'[t] = <<>>)
      <3>1. Len(<<>>) = 0 /\ \A t \in Socks : Len(inbox[t]) <= 1
        BY DEF Pipeline
      <3>2. \A t \in Socks : t # s /\ client[t].state # "wait" => inbox[t] = <<>>
        BY DEF Pipeline
      <3> QED BY <2>1, <3>1, <3>2
    <2>4. \A t, v \in Socks : LoggedIn(t)' /\ sess'[t].user = sess'[v].user => t = v
      BY <2>1 DEF Pipeline, LoggedIn
    <2>5. Pending' = Pending /\ UNCHANGED <<queue, stmts>>
      BY <2>1 DEF Pending
    <2> QED BY <2>2, <2>3, <2>4, <2>5 DEF Pipeline
  <1>3. ASSUME NEW m \in Message, m.sock = s, m.by = sess[s].user, Begin(s, m) PROVE Pipeline'
    <2>1. /\ client'[s].state = "wait" /\ \A t \in Socks : t # s => client'[t] = client[t]
          /\ UNCHANGED <<sess, stmts, inbox>> /\ Request(m) /\ client[s].state = "idle"
      BY <1>3 DEF Begin, Typed
    <2>2. inbox[s] = <<>> /\ LoggedIn(s) /\ \A n \in Pending : n.sock # s
      <3>1. inbox[s] = <<>> /\ \A n \in Pending : n.sock # s
        BY <2>1 DEF Pipeline, Awaited
      <3>2. LoggedIn(s)
        BY <2>1 DEF Typed, LoggedIn
      <3> QED BY <3>1, <3>2
    <2>3. client' \in [Socks -> Client] /\ inbox' \in [Socks -> Seq(Ack)]
      BY <1>0 DEF Typed
    <2> QED BY <1>3, <2>1, <2>2, <2>3, PipelineRequest
  <1>4. \A kind \in Kinds, a \in Accts : client[s].state = "idle" \/ LoggedIn(s) =>
            /\ NewMessage(s, kind, a) \in Message
            /\ NewMessage(s, kind, a).sock = s /\ NewMessage(s, kind, a).by = sess[s].user
    <2>1. client[s].state = "idle" => LoggedIn(s)
      BY DEF Typed, LoggedIn
    <2>2. \A kind, a : NewMessage(s, kind, a).sock = s /\ NewMessage(s, kind, a).by = sess[s].user
      BY DEF NewMessage
    <2> QED BY <2>1, <2>2, NewMessageTyped
  <1>5. CASE AskRights(s)
    <2>1. PICK a \in Accts, type \in 1..2 : Begin(s, [NewMessage(s, "get", a) EXCEPT !.type = type])
      BY <1>5 DEF AskRights
    <2>2. /\ [NewMessage(s, "get", a) EXCEPT !.type = type] \in Message
          /\ [NewMessage(s, "get", a) EXCEPT !.type = type].sock = s
          /\ [NewMessage(s, "get", a) EXCEPT !.type = type].by = sess[s].user
      <3>1. /\ NewMessage(s, "get", a) \in Message
            /\ NewMessage(s, "get", a).sock = s /\ NewMessage(s, "get", a).by = sess[s].user
        BY <1>4, <2>1 DEF Begin, Kinds
      <3> QED BY <3>1 DEF Message
    <2> QED BY <1>3, <2>1, <2>2
  <1>6. CASE AskUser(s)
    <2>1. PICK a \in Accts, keep \in BOOLEAN : Begin(s, [NewMessage(s, "select", a) EXCEPT !.keep = keep])
      BY <1>6 DEF AskUser
    <2>2. /\ [NewMessage(s, "select", a) EXCEPT !.keep = keep] \in Message
          /\ [NewMessage(s, "select", a) EXCEPT !.keep = keep].sock = s
          /\ [NewMessage(s, "select", a) EXCEPT !.keep = keep].by = sess[s].user
      <3>1. /\ NewMessage(s, "select", a) \in Message
            /\ NewMessage(s, "select", a).sock = s /\ NewMessage(s, "select", a).by = sess[s].user
        BY <1>4, <2>1 DEF Begin, Kinds
      <3> QED BY <3>1 DEF Message
    <2> QED BY <1>3, <2>1, <2>2
  <1>7. ASSUME NEW kind, Take(s, kind), NEW c, client' = [client EXCEPT ![s] = c], c.state = "idle",
               UNCHANGED queue
        PROVE  Pipeline'
    <2>1. /\ LoggedIn(s) /\ \A m \in Pending : m.sock # s
          /\ inbox'[s] = <<>> /\ \A t \in Socks : t # s => inbox'[t] = inbox[t]
      BY <1>7, Answered
    <2>2. /\ client'[s].state = "idle" /\ \A t \in Socks : t # s => client'[t] = client[t]
          /\ UNCHANGED <<sess, stmts>>
      BY <1>7 DEF Take, Typed
    <2>3. ASSUME NEW m \in Pending PROVE Awaited(m)'
      <3>1. m.sock \in Socks /\ Awaited(m) /\ m.sock # s
        BY <2>1, PendingTyped DEF Pipeline
      <3> QED BY <2>1, <2>2, <3>1 DEF Awaited, LoggedIn
    <2>4. \A t \in Socks : Len(inbox'[t]) <= 1 /\ (client'[t].state # "wait" => inbox'[t] = <<>>)
      <3>1. Len(<<>>) = 0
        OBVIOUS
      <3> QED BY <2>1, <2>2, <3>1 DEF Pipeline
    <2> QED BY <1>7, <2>1, <2>2, <2>3, <2>4 DEF Pipeline, Pending, LoggedIn
  <1>8. ASSUME NEW kind, Take(s, kind), GiveUp(s) PROVE Pipeline'
    <2>1. client' = [client EXCEPT ![s] = [client[s] EXCEPT !.state = "idle", !.change = NoChange]]
      BY <1>8 DEF GiveUp, Typed
    <2>2. [client[s] EXCEPT !.state = "idle", !.change = NoChange].state = "idle"
      BY DEF Typed, Client
    <2> QED BY <1>7, <1>8, <2>1, <2>2 DEF GiveUp
  <1>9. ASSUME NEW kind, Take(s, kind), NEW m \in Message, m.sock = s, m.by = sess[s].user, Request(m),
               client'[s].state = client[s].state, \A t \in Socks : t # s => client'[t] = client[t]
        PROVE  Pipeline'
    <2>1. client' \in [Socks -> Client] /\ UNCHANGED <<sess, stmts>>
      BY <1>0, <1>9 DEF Take, Typed
    <2>2. /\ LoggedIn(s) /\ client'[s].state = "wait" /\ \A n \in Pending : n.sock # s
          /\ inbox' \in [Socks -> Seq(Ack)] /\ inbox'[s] = <<>>
          /\ \A t \in Socks : t # s => inbox'[t] = inbox[t]
      BY <1>9, Answered
    <2> QED BY <1>9, <2>1, <2>2, PipelineRequest
  <1>10. CASE EditAuthoritChoose(s)
    <2> DEFINE ack == Head(inbox[s])
               msg(asked) == [NewMessage(s, "edit", ack.acct) EXCEPT !.type = ack.type, !.asked = asked]
    <2>1. CASE GiveUp(s)
      BY <1>8, <1>10, <2>1 DEF EditAuthoritChoose
    <2>2. ASSUME NEW asked \in Asked, UNCHANGED client, Request(msg(asked)) PROVE Pipeline'
      <3>1. ack \in Ack /\ LoggedIn(s) /\ Take(s, "get")
        BY <1>10, Answered DEF EditAuthoritChoose
      <3>2. NewMessage(s, "edit", ack.acct) \in Message
        BY <3>1, NewMessageTyped DEF Ack, Kinds
      <3>3. msg(asked).sock = s /\ msg(asked).by = sess[s].user
        BY <1>4, <3>2 DEF Message, NewMessage
      <3>4. msg(asked) \in Message
        BY <1>0, <2>2, Appended DEF Request, Typed
      <3> QED BY <1>9, <2>2, <3>1, <3>3, <3>4
    <2> QED BY <1>10, <2>1, <2>2 DEF EditAuthoritChoose
  <1>11. CASE UpdateChoose(s)
    <2> DEFINE ack == Head(inbox[s])
               msg(change) == [NewMessage(s, "update", ack.acct) EXCEPT !.change = change]
    <2>1. CASE GiveUp(s)
      BY <1>8, <1>11, <2>1 DEF UpdateChoose
    <2>2. ASSUME NEW change, client' = [client EXCEPT ![s].change = change], Request(msg(change))
          PROVE  Pipeline'
      <3>1. ack \in Ack /\ LoggedIn(s) /\ Take(s, "select")
        BY <1>11, Answered DEF UpdateChoose
      <3>2. NewMessage(s, "update", ack.acct) \in Message
        BY <3>1, NewMessageTyped DEF Ack, Kinds
      <3>3. msg(change).sock = s /\ msg(change).by = sess[s].user
        BY <1>4, <3>2 DEF Message, NewMessage
      <3>4. msg(change) \in Message
        BY <1>0, <2>2, Appended DEF Request, Typed
      <3>5. client'[s].state = client[s].state /\ \A t \in Socks : t # s => client'[t] = client[t]
        BY <2>2 DEF Typed, Client
      <3> QED BY <1>9, <2>2, <3>1, <3>3, <3>4, <3>5
    <2> QED BY <1>11, <2>1, <2>2 DEF UpdateChoose
  <1>12. CASE UpdateAnswer(s)
    <2> DEFINE ack == Head(inbox[s])
               new == client[s].change.acct
               acct == IF ack.ok /\ client[s].acct = ack.acct /\ new # NoAcct THEN new ELSE client[s].acct
               c == [client[s] EXCEPT !.state = "idle", !.change = NoChange, !.acct = acct]
    <2>1. client' = [client EXCEPT ![s] = c] /\ c.state = "idle"
      <3>1. client[s] \in Client
        BY DEF Typed
      <3>2. c.state = "idle"
        BY <3>1 DEF Client
      <3> QED BY <1>12, <3>2 DEF UpdateAnswer, Typed
    <2> HIDE DEF c
    <2> QED BY <1>7, <1>12, <2>1 DEF UpdateAnswer
  <1> QED BY <1>1, <1>2, <1>5, <1>6, <1>8, <1>10, <1>11, <1>12 DEF EditAuthoritAnswer

\* The answer to the message at the front of a queue.
LEMMA PipelineSend ==
    ASSUME RightsAssumption, Typed, Typed', Pipeline, NEW m \in Pending, NEW a \in Ack, Send(m.sock, a),
           \A t \in Socks : sess'[t].user = sess[t].user, UNCHANGED client,
           AllApart(queue)', AllApart(stmts)', Range(queue') \subseteq Range(queue),
           Range(stmts') \subseteq Range(stmts),
           \A n \in Range(queue') \cup Range(stmts') : Apart(n, m)
    PROVE  Pipeline'
  <1>1. m.sock \in Socks /\ inbox[m.sock] = <<>> /\ client[m.sock].state # "idle"
    BY PendingTyped DEF Pipeline, Awaited
  <1>2. /\ \A t \in Socks : t # m.sock \/ ~LoggedIn(t) => inbox'[t] = inbox[t]
        /\ LoggedIn(m.sock) => inbox'[m.sock] = <<a>>
    <2>1. m.sock \in Socks /\ inbox[m.sock] = <<>>
      BY <1>1
    <2> QED BY <2>1, SendTyped
  <1>3. ASSUME NEW n \in Pending' PROVE Awaited(n)'
    <2>1. n \in Pending /\ Apart(n, m)
      BY <1>3 DEF Pending
    <2>2. n.sock \in Socks /\ Awaited(n) /\ n.sock # m.sock
      BY <2>1, PendingTyped DEF Pipeline, Apart
    <2> QED BY <1>2, <2>2 DEF Awaited, LoggedIn
  <1>4. \A t \in Socks : Len(inbox'[t]) <= 1 /\ (client'[t].state # "wait" => inbox'[t] = <<>>)
    <2>1. Len(<<a>>) = 1 /\ \A t \in Socks : Len(inbox[t]) <= 1
      BY DEF Pipeline
    <2>2. \A t \in Socks : client[t].state # "wait" => inbox[t] = <<>>
      BY DEF Pipeline
    <2>3. LoggedIn(m.sock) => client[m.sock].state = "wait"
      <3>1. LoggedIn(m.sock) => client[m.sock].state # "off" /\ client[m.sock] \in Client
        BY <1>1 DEF Typed, LoggedIn
      <3> QED BY <1>1, <3>1 DEF Client
    <2> TAKE t \in Socks
    <2>4. CASE t = m.sock /\ LoggedIn(t)
      <3>1. inbox'[t] = <<a>> /\ client'[t].state = "wait"
        BY <1>2, <2>3, <2>4
      <3> QED BY <2>1, <3>1
    <2>5. CASE ~(t = m.sock /\ LoggedIn(t))
      <3>1. inbox'[t] = inbox[t] /\ client'[t] = client[t]
        BY <1>2, <2>5
      <3> QED BY <2>1, <2>2, <3>1
    <2> QED BY <2>4, <2>5
  <1>5. \A n \in Range(queue'), k \in Range(stmts') : Apart(n, k)
    BY DEF Pipeline
  <1>6. \A s, t \in Socks : LoggedIn(s)' /\ sess'[s].user = sess'[t].user => s = t
    BY DEF Pipeline, LoggedIn
  <1> QED BY <1>3, <1>4, <1>5, <1>6 DEF Pipeline

\* A request becomes a statement or is refused.
LEMMA PipelineRecv ==
    ASSUME RightsAssumption, Typed, Typed', Pipeline, queue # <<>>, queue' = Tail(queue),
           \A t \in Socks : sess'[t].user = sess[t].user, UNCHANGED client,
           \/ /\ \E m \in Message : /\ m.sock = Head(queue).sock /\ m.by = Head(queue).by
                                    /\ stmts' = Append(stmts, m)
              /\ UNCHANGED inbox
           \/ /\ \E a \in Ack : Send(Head(queue).sock, a)
              /\ UNCHANGED stmts
    PROVE  Pipeline'
  <1> DEFINE r == Head(queue)
  <1>1. /\ AllApart(queue) /\ AllApart(stmts) /\ queue \in Seq(Message) /\ stmts \in Seq(Message)
        /\ \A n \in Range(queue), k \in Range(stmts) : Apart(n, k)
    BY DEF Pipeline, Typed
  <1>2. /\ AllApart(queue') /\ Range(queue') \subseteq Range(queue)
        /\ r \in Range(queue) /\ \A n \in Range(queue') : Apart(n, r)
    BY <1>1, TailApart
  <1> HIDE DEF r
  <1>3. r \in Pending
    BY <1>2 DEF Pending
  <1>4. ASSUME NEW m \in Message, m.sock = r.sock, m.by = r.by, stmts' = Append(stmts, m), UNCHANGED inbox
        PROVE  Pipeline'
    <2>1. \A n \in Range(stmts) : Apart(n, m)
      BY <1>1, <1>2, <1>4 DEF Apart
    <2>2. AllApart(stmts') /\ Range(stmts') = Range(stmts) \cup {m}
      BY <1>1, <1>4, <2>1, AppendApart
    <2>3. \A n \in Range(queue'), k \in Range(stmts') : Apart(n, k)
      BY <1>1, <1>2, <1>4, <2>2 DEF Apart
    <2>4. ASSUME NEW n \in Pending' PROVE Awaited(n)'
      <3>1. n \in Pending \/ n = m
        BY <1>2, <2>2 DEF Pending
      <3>2. PICK k \in Pending : k.sock = n.sock /\ k.by = n.by
        BY <1>3, <1>4, <3>1
      <3>3. Awaited(k) /\ k.sock \in Socks
        BY PendingTyped DEF Pipeline
      <3>4. UNCHANGED <<client, inbox>> /\ \A t \in Socks : sess'[t].user = sess[t].user
        BY <1>4
      <3> QED BY <3>2, <3>3, <3>4 DEF Awaited, LoggedIn
    <2>5. /\ \A t \in Socks : client'[t].state # "wait" => inbox'[t] = <<>>
          /\ \A t \in Socks : Len(inbox'[t]) <= 1
          /\ \A s, t \in Socks : LoggedIn(s)' /\ sess'[s].user = sess'[t].user => s = t
      <3>1. UNCHANGED <<client, inbox>> /\ \A t \in Socks : LoggedIn(t)' <=> LoggedIn(t)
        BY <1>4 DEF LoggedIn
      <3>2. /\ \A t \in Socks : client[t].state # "wait" => inbox[t] = <<>>
            /\ \A t \in Socks : Len(inbox[t]) <= 1
            /\ \A s, t \in Socks : LoggedIn(s) /\ sess[s].user = sess[t].user => s = t
        BY DEF Pipeline
      <3> QED BY <3>1, <3>2
    <2> QED BY <1>2, <2>2, <2>3, <2>4, <2>5 DEF Pipeline
  <1>5. ASSUME NEW a \in Ack, Send(r.sock, a), UNCHANGED stmts PROVE Pipeline'
    <2>1. AllApart(stmts') /\ Range(stmts') \subseteq Range(stmts)
          /\ \A n \in Range(queue') \cup Range(stmts') : Apart(n, r)
      BY <1>1, <1>2, <1>5 DEF Apart
    <2> QED BY <1>2, <1>3, <1>5, <2>1, PipelineSend
  <1> QED BY <1>4, <1>5 DEF r

\* A statement is executed.
LEMMA PipelineExec ==
    ASSUME RightsAssumption, Typed, Typed', Pipeline, stmts # <<>>, stmts' = Tail(stmts), UNCHANGED queue,
           \A t \in Socks : sess'[t].user = sess[t].user, UNCHANGED client,
           \E a \in Ack : Send(Head(stmts).sock, a)
    PROVE  Pipeline'
  <1> DEFINE st == Head(stmts)
  <1>1. /\ AllApart(queue) /\ AllApart(stmts) /\ stmts \in Seq(Message)
        /\ \A n \in Range(queue), k \in Range(stmts) : Apart(n, k)
    BY DEF Pipeline, Typed
  <1>2. /\ AllApart(stmts') /\ Range(stmts') \subseteq Range(stmts)
        /\ st \in Range(stmts) /\ \A n \in Range(stmts') : Apart(n, st)
    BY <1>1, TailApart
  <1>3. PICK a \in Ack : Send(st.sock, a)
    OBVIOUS
  <1> HIDE DEF st
  <1>4. st \in Pending /\ \A n \in Range(queue') \cup Range(stmts') : Apart(n, st)
    BY <1>1, <1>2 DEF Pending
  <1> QED BY <1>1, <1>2, <1>3, <1>4, PipelineSend

LEMMA PipelineNext ==
    ASSUME RightsAssumption, Typed, Pipeline, [Next]_vars PROVE Pipeline'
  <1>0. Typed'
    BY TypedNext
  <1>1. CASE Clients
    BY <1>1, PipelineClients DEF Clients
  <1>2. CASE UNCHANGED vars
    BY <1>2 DEF vars, Pipeline, Pending, Awaited, LoggedIn
  <1>3. CASE GetAuthoritRecvHandle
    <2>1. Head(queue) \in Message
      BY <1>3, HeadTail DEF GetAuthoritRecvHandle, RecvFront, Typed
    <2> QED BY <1>0, <1>3, <2>1, PipelineRecv DEF GetAuthoritRecvHandle, RecvFront
  <1>4. ASSUME EditAuthoritRecvHandle \/ SelectSingleUserInfoRecvHandle \/ UpdateSingleUserInfoRecvHandle
        PROVE  /\ queue # <<>> /\ queue' = Tail(queue) /\ UNCHANGED client
               /\ Head(queue) \in Message /\ Head(queue).sock \in Socks
               /\ \A t \in Socks : sess'[t].user = sess[t].user
    <2>1. queue # <<>> /\ queue' = Tail(queue) /\ UNCHANGED client
      BY <1>4 DEF EditAuthoritRecvHandle, SelectSingleUserInfoRecvHandle,
         UpdateSingleUserInfoRecvHandle, RecvFront
    <2>2. Head(queue) \in Message
      BY <2>1, HeadTail DEF Typed
    <2>3. Head(queue).sock \in Socks
      BY <2>2 DEF Message
    <2>4. SetTmp(Head(queue).sock, NoTmp) \/ UNCHANGED sess
      BY <1>4 DEF EditAuthoritRecvHandle, SelectSingleUserInfoRecvHandle,
         UpdateSingleUserInfoRecvHandle
    <2> QED BY <2>1, <2>2, <2>3, <2>4, SetTmpTyped, Empties
  <1>5. CASE EditAuthoritRecvHandle
    <2> DEFINE r == Head(queue)
               tmp == sess[r.sock].tmp
               new == [r EXCEPT !.rights = Edited(tmp.rights, r.type, r.asked), !.user = tmp.user]
    <2>1. CASE stmts' = Append(stmts, new) /\ UNCHANGED inbox
      <3>1. new \in Message
        BY <1>0, <2>1, Appended DEF Typed
      <3>2. new.sock = r.sock /\ new.by = r.by
        BY <1>4, <1>5 DEF Message
      <3> HIDE DEF new
      <3> QED BY <1>0, <1>4, <1>5, <2>1, <3>1, <3>2, PipelineRecv
    <2>2. CASE Send(r.sock, Answer(r, FALSE)) /\ UNCHANGED stmts
      BY <1>0, <1>4, <1>5, <2>2, AnswerTyped, PipelineRecv
    <2> QED BY <1>5, <2>1, <2>2 DEF EditAuthoritRecvHandle
  <1>6. CASE SelectSingleUserInfoRecvHandle
    BY <1>0, <1>4, <1>6, PipelineRecv DEF SelectSingleUserInfoRecvHandle
  <1>7. CASE UpdateSingleUserInfoRecvHandle
    <2> DEFINE r == Head(queue)
    <2>1. ASSUME NEW own, stmts' = Append(stmts, [r EXCEPT !.own = own]), UNCHANGED inbox
          PROVE  Pipeline'
      <3>1. [r EXCEPT !.own = own] \in Message
        BY <1>0, <2>1, Appended DEF Typed
      <3>2. [r EXCEPT !.own = own].sock = r.sock /\ [r EXCEPT !.own = own].by = r.by
        BY <1>4, <1>7 DEF Message
      <3> QED BY <1>0, <1>4, <1>7, <2>1, <3>1, <3>2, PipelineRecv
    <2>2. CASE Send(r.sock, Answer(r, FALSE)) /\ UNCHANGED stmts
      BY <1>0, <1>4, <1>7, <2>2, AnswerTyped, PipelineRecv
    <2> QED BY <1>7, <2>1, <2>2 DEF UpdateSingleUserInfoRecvHandle
  <1>8. ASSUME \/ GetAuthoritReplyHandle \/ EditAuthoritReplyHandle
               \/ SelectSingleUserInfoReplyHandle \/ UpdateSingleUserInfoReplyHandle \/ ExecFault
        PROVE  Pipeline'
    <2> DEFINE st == Head(stmts)
    <2>1. stmts # <<>> /\ stmts' = Tail(stmts) /\ UNCHANGED <<client, queue>>
      BY <1>8 DEF GetAuthoritReplyHandle, EditAuthoritReplyHandle,
         SelectSingleUserInfoReplyHandle, UpdateSingleUserInfoReplyHandle, ExecFault, MysqlFront
    <2>2. st \in Message /\ st.sock \in Socks
      <3>1. st \in Message
        BY <2>1, HeadTail DEF Typed
      <3> QED BY <3>1 DEF Message
    <2>3. \A u \in Users : table[u].ident \in 1..3 /\ Listed(table[u].rights, st.type) \in SUBSET Rights
      <3>1. \A u \in Users : table[u].ident \in 1..3 /\ table[u].rights \in Seq(Rights)
        BY DEF Typed, Row
      <3>2. \A r \in Seq(Rights) : Range(r) \subseteq Rights
        BY DEF Range
      <3> QED BY <3>1, <3>2 DEF Listed
    <2>4. \E a \in Ack : Send(st.sock, a)
      <3> HIDE DEF st
      <3>1. /\ \A ok \in BOOLEAN : Answer(st, ok) \in Ack
            /\ \A u \in Users : /\ [Answer(st, TRUE) EXCEPT !.list = Listed(table[u].rights, st.type)] \in Ack
                                /\ [Answer(st, TRUE) EXCEPT !.ident = table[u].ident] \in Ack
        BY <2>2, <2>3, AnswerTyped
      <3>2. Holders(st.acct) \subseteq Users
        BY DEF Holders
      <3>3. CASE GetAuthoritReplyHandle
        BY <3>1, <3>2, <3>3 DEF GetAuthoritReplyHandle, st
      <3>4. CASE SelectSingleUserInfoReplyHandle
        BY <3>1, <3>2, <3>4 DEF SelectSingleUserInfoReplyHandle, st
      <3>5. CASE EditAuthoritReplyHandle
        BY <3>1, <3>5 DEF EditAuthoritReplyHandle, st
      <3>6. CASE UpdateSingleUserInfoReplyHandle
        BY <3>1, <3>6 DEF UpdateSingleUserInfoReplyHandle, st
      <3>7. CASE ExecFault
        BY <3>1, <3>7 DEF ExecFault, st
      <3> QED BY <1>8, <3>3, <3>4, <3>5, <3>6, <3>7
    <2>5. \A t \in Socks : sess'[t].user = sess[t].user
      <3> HIDE DEF st
      <3>1. ASSUME NEW v, SetTmp(st.sock, v) PROVE \A t \in Socks : sess'[t].user = sess[t].user
        <4> TAKE t \in Socks
        <4>1. sess[t] \in Session
          BY DEF Typed
        <4>2. sess'[t] = sess[t] \/ sess'[t] = [sess[t] EXCEPT !.tmp = v]
          BY <3>1 DEF SetTmp, Typed
        <4>3. CASE sess'[t] = [sess[t] EXCEPT !.tmp = v]
          BY <4>1, <4>3 DEF Session
        <4> QED BY <4>2, <4>3
      <3>2. CASE GetAuthoritReplyHandle
        BY <3>1, <3>2 DEF GetAuthoritReplyHandle, st
      <3>3. CASE SelectSingleUserInfoReplyHandle
        BY <3>1, <3>3 DEF SelectSingleUserInfoReplyHandle, st
      <3>4. \A t \in Socks : sess[t] \in Session
        BY DEF Typed
      <3>5. CASE EditAuthoritReplyHandle
        BY <3>4, <3>5 DEF EditAuthoritReplyHandle, Session
      <3>6. CASE UpdateSingleUserInfoReplyHandle
        <4>1. UNCHANGED sess \/ sess' = [s \in Socks |-> IF Renamed(st) /\ s \in FirstWith(st.acct)
                                                        THEN [sess[s] EXCEPT !.acct = st.change.acct]
                                                        ELSE sess[s]]
          BY <3>6 DEF UpdateSingleUserInfoReplyHandle, st
        <4>2. \A t \in Socks : \/ sess'[t] = sess[t]
                              \/ sess'[t] = [sess[t] EXCEPT !.acct = st.change.acct]
          BY <4>1, Zenon
        <4> TAKE t \in Socks
        <4>3. sess[t] \in Session
          BY <3>4
        <4>4. CASE sess'[t] = [sess[t] EXCEPT !.acct = st.change.acct]
          BY <4>3, <4>4 DEF Session
        <4> QED BY <4>2, <4>4
      <3>7. CASE ExecFault
        BY <3>7 DEF ExecFault
      <3> QED BY <1>8, <3>2, <3>3, <3>5, <3>6, <3>7
    <2> QED BY <1>0, <2>1, <2>4, <2>5, PipelineExec
  <1> QED BY <1>1, <1>2, <1>3, <1>5, <1>6, <1>7, <1>8 DEF Next, MsgQueueThread

(* strTmpData and what it was read for *)

\* strTmpData is empty, or of this kind and about this account.
Fits(tmp, kind, a) == tmp = NoTmp \/ (tmp.kind = kind /\ tmp.acct = a)

RequestFits(tmp, m) ==
    /\ m.kind = "edit" => Fits(tmp, "rights", m.acct)
    /\ m.kind = "update" => Fits(tmp, "user", m.acct)

\* The client asks for a change only after an answer that gave it the user.
AnswerFits(tmp, ack) ==
    /\ ack.kind = "get" /\ ack.ok => Fits(tmp, "rights", ack.acct)
    /\ ack.kind = "select" /\ ack.ok /\ ack.keep => Fits(tmp, "user", ack.acct)

Snapshot ==
    /\ \A m \in Range(queue) : RequestFits(sess[m.sock].tmp, m)
    /\ \A s \in Socks : inbox[s] # <<>> => AnswerFits(sess[s].tmp, Head(inbox[s]))
    /\ \A m \in Range(stmts) : m.kind = "update" => sess[m.sock].tmp = NoTmp

LEMMA SnapshotShape ==
    ASSUME Snapshot,
           \A m \in Range(queue') :
              \/ RequestFits(sess'[m.sock].tmp, m)
              \/ m \in Range(queue) /\ sess'[m.sock].tmp \in {NoTmp, sess[m.sock].tmp},
           \A s \in Socks :
              \/ inbox'[s] = <<>>
              \/ AnswerFits(sess'[s].tmp, Head(inbox'[s]))
              \/ inbox'[s] = inbox[s] /\ sess'[s].tmp \in {NoTmp, sess[s].tmp},
           \A m \in Range(stmts') : m.kind = "update" =>
              \/ sess'[m.sock].tmp = NoTmp
              \/ m \in Range(stmts) /\ sess'[m.sock].tmp = sess[m.sock].tmp
    PROVE  Snapshot'
  BY DEF Snapshot, RequestFits, AnswerFits, Fits

\* When nothing of a kind that Snapshot is about is added.
LEMMA SnapshotKept ==
    ASSUME Typed, Snapshot,
           \A s \in Socks : sess'[s].tmp \in {NoTmp, sess[s].tmp},
           \A m \in Range(queue') : m \in Range(queue) \/ m.kind \in {"get", "select"},
           \A s \in Socks : inbox'[s] \in {<<>>, inbox[s]} \/ ~Head(inbox'[s]).ok
                            \/ Head(inbox'[s]).kind \in {"edit", "update"},
           \A m \in Range(stmts') : m \in Range(stmts) \/ m.kind # "update"
    PROVE  Snapshot'
  <1>1. \A m \in Pending : sess'[m.sock].tmp \in {NoTmp, sess[m.sock].tmp}
    BY PendingTyped
  <1>2. \A m \in Range(queue') :
              \/ RequestFits(sess'[m.sock].tmp, m)
              \/ m \in Range(queue) /\ sess'[m.sock].tmp \in {NoTmp, sess[m.sock].tmp}
    BY <1>1 DEF Pending, RequestFits
  <1>3. \A s \in Socks :
              \/ inbox'[s] = <<>>
              \/ AnswerFits(sess'[s].tmp, Head(inbox'[s]))
              \/ inbox'[s] = inbox[s] /\ sess'[s].tmp \in {NoTmp, sess[s].tmp}
    BY DEF AnswerFits
  <1>4. \A m \in Range(stmts') : m.kind = "update" =>
              \/ sess'[m.sock].tmp = NoTmp
              \/ m \in Range(stmts) /\ sess'[m.sock].tmp = sess[m.sock].tmp
    BY <1>1 DEF Pending
  <1> QED BY <1>2, <1>3, <1>4, SnapshotShape

LEMMA SendOne ==
    ASSUME Typed, Pipeline, NEW m \in Pending, NEW a \in Ack, Send(m.sock, a)
    PROVE  \A s \in Socks : \/ inbox'[s] = inbox[s]
                            \/ /\ s = m.sock /\ LoggedIn(s) /\ inbox'[s] = <<a>>
                               /\ inbox'[s] # <<>> /\ Head(inbox'[s]) = a
  <1>1. m.sock \in Socks /\ inbox[m.sock] = <<>>
    BY PendingTyped DEF Pipeline, Awaited
  <1>2. <<a>> # <<>> /\ Head(<<a>>) = a
    OBVIOUS
  <1> QED BY <1>1, <1>2, SendTyped

LEMMA SnapshotClients ==
    ASSUME RightsAssumption, Typed, Pipeline, Snapshot, NEW s \in Socks,
           \/ \E u \in Users : Login(s, u)
           \/ Leave(s) \/ AskRights(s) \/ AskUser(s)
           \/ EditAuthoritChoose(s) \/ EditAuthoritAnswer(s) \/ UpdateChoose(s) \/ UpdateAnswer(s)
    PROVE  Snapshot'
  <1>0. Typed'
    BY TypedClients
  <1>1. ASSUME NEW u \in Users, Login(s, u) PROVE Snapshot'
    <2>1. \A t \in Socks : sess'[t].tmp \in {NoTmp, sess[t].tmp}
      BY <1>1 DEF Login, Typed
    <2> QED BY <1>1, <2>1, SnapshotKept DEF Login
  <1>2. CASE Leave(s)
    <2>1. /\ \A t \in Socks : sess'[t].tmp \in {NoTmp, sess[t].tmp}
          /\ \A t \in Socks : inbox'[t] \in {<<>>, inbox[t]}
      BY <1>2 DEF Leave, Typed, Nobody
    <2> QED BY <1>2, <2>1, SnapshotKept DEF Leave
  <1>3. \A m : Request(m) => m \in Message /\ Range(queue') = Range(queue) \cup {m}
    <2>1. queue \in Seq(Message) /\ queue' \in Seq(Message)
      BY <1>0 DEF Typed
    <2> QED BY <2>1, Appended, AppendRange DEF Request
  <1>4. \A kind, a : NewMessage(s, kind, a).kind = kind /\ NewMessage(s, kind, a).acct = a
                      /\ NewMessage(s, kind, a).sock = s
    BY DEF NewMessage
  <1>5. CASE AskRights(s)
    <2>1. PICK a \in Accts, type \in 1..2 : Begin(s, [NewMessage(s, "get", a) EXCEPT !.type = type])
      BY <1>5 DEF AskRights
    <2> DEFINE msg == [NewMessage(s, "get", a) EXCEPT !.type = type]
    <2>2. msg.kind = "get"
      BY <1>4 DEF NewMessage
    <2>3. UNCHANGED <<sess, stmts, inbox>> /\ Request(msg)
      BY <2>1 DEF Begin
    <2> HIDE DEF msg
    <2>4. \A m \in Range(queue') : m \in Range(queue) \/ m.kind \in {"get", "select"}
      BY <1>3, <2>2, <2>3
    <2> QED BY <2>3, <2>4, SnapshotKept
  <1>6. CASE AskUser(s)
    <2>1. PICK a \in Accts, keep \in BOOLEAN : Begin(s, [NewMessage(s, "select", a) EXCEPT !.keep = keep])
      BY <1>6 DEF AskUser
    <2> DEFINE msg == [NewMessage(s, "select", a) EXCEPT !.keep = keep]
    <2>2. msg.kind = "select"
      BY <1>4 DEF NewMessage
    <2>3. UNCHANGED <<sess, stmts, inbox>> /\ Request(msg)
      BY <2>1 DEF Begin
    <2> HIDE DEF msg
    <2>4. \A m \in Range(queue') : m \in Range(queue) \/ m.kind \in {"get", "select"}
      BY <1>3, <2>2, <2>3
    <2> QED BY <2>3, <2>4, SnapshotKept
  <1>7. ASSUME NEW kind, Take(s, kind)
        PROVE  /\ UNCHANGED <<sess, stmts>>
               /\ inbox'[s] = <<>> /\ \A t \in Socks : t # s => inbox'[t] = inbox[t]
    BY <1>7, Answered DEF Take
  <1>8. ASSUME NEW kind, Take(s, kind), UNCHANGED queue PROVE Snapshot'
    <2>1. \A t \in Socks : inbox'[t] \in {<<>>, inbox[t]}
      BY <1>7, <1>8
    <2> QED BY <1>7, <1>8, <2>1, SnapshotKept
  <1>9. ASSUME NEW kind, Take(s, kind), NEW m, Request(m), RequestFits(sess[s].tmp, m), m.sock = s
        PROVE  Snapshot'
    <2>1. UNCHANGED <<sess, stmts>> /\ Range(queue') = Range(queue) \cup {m}
      BY <1>3, <1>7, <1>9
    <2>2. \A t \in Socks : inbox'[t] = <<>> \/ inbox'[t] = inbox[t]
      BY <1>7, <1>9
    <2> QED BY <1>9, <2>1, <2>2, SnapshotShape
  <1>10. CASE EditAuthoritChoose(s)
    <2> DEFINE ack == Head(inbox[s])
               msg(asked) == [NewMessage(s, "edit", ack.acct) EXCEPT !.type = ack.type, !.asked = asked]
    <2>1. CASE UNCHANGED queue
      BY <1>8, <1>10, <2>1 DEF EditAuthoritChoose
    <2>2. ASSUME ack.ok, NEW asked, Request(msg(asked)) PROVE Snapshot'
      <3>1. Take(s, "get") /\ inbox[s] # <<>> /\ ack.kind = "get"
        BY <1>10 DEF EditAuthoritChoose, Take
      <3>2. msg(asked).kind = "edit" /\ msg(asked).acct = ack.acct /\ msg(asked).sock = s
        BY <1>4 DEF NewMessage
      <3>3. Fits(sess[s].tmp, "rights", ack.acct)
        BY <2>2, <3>1 DEF Snapshot, AnswerFits
      <3>4. RequestFits(sess[s].tmp, msg(asked))
        BY <3>2, <3>3 DEF RequestFits
      <3> HIDE DEF msg
      <3> QED BY <1>9, <2>2, <3>1, <3>2, <3>4
    <2> QED BY <1>10, <2>1, <2>2 DEF EditAuthoritChoose, GiveUp
  <1>11. CASE UpdateChoose(s)
    <2> DEFINE ack == Head(inbox[s])
               msg(change) == [NewMessage(s, "update", ack.acct) EXCEPT !.change = change]
    <2>1. CASE UNCHANGED queue
      BY <1>8, <1>11, <2>1 DEF UpdateChoose
    <2>2. ASSUME ack.ok, ack.keep, NEW change, Request(msg(change)) PROVE Snapshot'
      <3>1. Take(s, "select") /\ inbox[s] # <<>> /\ ack.kind = "select"
        BY <1>11 DEF UpdateChoose, Take
      <3>2. msg(change).kind = "update" /\ msg(change).acct = ack.acct /\ msg(change).sock = s
        BY <1>4 DEF NewMessage
      <3>3. Fits(sess[s].tmp, "user", ack.acct)
        BY <2>2, <3>1 DEF Snapshot, AnswerFits
      <3>4. RequestFits(sess[s].tmp, msg(change))
        BY <3>2, <3>3 DEF RequestFits
      <3> HIDE DEF msg
      <3> QED BY <1>9, <2>2, <3>1, <3>2, <3>4
    <2> QED BY <1>11, <2>1, <2>2 DEF UpdateChoose, GiveUp
  <1>12. CASE EditAuthoritAnswer(s)
    BY <1>8, <1>12 DEF EditAuthoritAnswer, GiveUp
  <1>13. CASE UpdateAnswer(s)
    BY <1>8, <1>13 DEF UpdateAnswer
  <1> QED BY <1>1, <1>2, <1>5, <1>6, <1>10, <1>11, <1>12, <1>13


\* What the steps of the queue thread do to its queues, and to strTmpData.
LEMMA RecvStep ==
    ASSUME RightsAssumption, Typed, Pipeline,
           \/ GetAuthoritRecvHandle \/ EditAuthoritRecvHandle
           \/ SelectSingleUserInfoRecvHandle \/ UpdateSingleUserInfoRecvHandle
    PROVE  /\ Head(queue) \in Message /\ Head(queue) \in Pending /\ Head(queue) \in Range(queue)
           /\ Head(queue).sock \in Socks
           /\ Range(queue') \subseteq Range(queue) /\ UNCHANGED <<table, client, renamed>>
           /\ \A n \in Range(queue') \cup Range(stmts) : n.sock # Head(queue).sock
  <1>1. queue # <<>> /\ queue' = Tail(queue) /\ UNCHANGED <<table, client, renamed>>
    BY DEF GetAuthoritRecvHandle, EditAuthoritRecvHandle,
       SelectSingleUserInfoRecvHandle, UpdateSingleUserInfoRecvHandle, RecvFront
  <1>2. queue \in Seq(Message) /\ AllApart(queue)
    BY DEF Typed, Pipeline
  <1>3. /\ Head(queue) \in Range(queue) /\ Range(queue') \subseteq Range(queue)
        /\ \A n \in Range(queue') : Apart(n, Head(queue))
    BY <1>1, <1>2, TailApart
  <1>4. \A n \in Range(stmts) : Apart(Head(queue), n)
    BY <1>3 DEF Pipeline
  <1>5. Head(queue) \in Message /\ Head(queue) \in Pending /\ Head(queue).sock \in Socks
    BY <1>3, PendingTyped DEF Pending
  <1> QED BY <1>1, <1>3, <1>4, <1>5 DEF Apart

LEMMA MysqlStep ==
    ASSUME RightsAssumption, Typed, Pipeline,
           \/ GetAuthoritReplyHandle \/ EditAuthoritReplyHandle
           \/ SelectSingleUserInfoReplyHandle \/ UpdateSingleUserInfoReplyHandle \/ ExecFault
    PROVE  /\ Head(stmts) \in Message /\ Head(stmts) \in Pending /\ Head(stmts) \in Range(stmts)
           /\ Head(stmts).sock \in Socks
           /\ Range(stmts') \subseteq Range(stmts) /\ UNCHANGED <<queue, client>>
           /\ \A n \in Range(queue) \cup Range(stmts') : Apart(n, Head(stmts))
           /\ \A ok \in BOOLEAN : Answer(Head(stmts), ok) \in Ack
           /\ \A u \in Users :
                 /\ [Answer(Head(stmts), TRUE) EXCEPT !.list = Listed(table[u].rights, Head(stmts).type)] \in Ack
                 /\ [Answer(Head(stmts), TRUE) EXCEPT !.ident = table[u].ident] \in Ack
  <1>1. stmts # <<>> /\ stmts' = Tail(stmts) /\ UNCHANGED <<queue, client>>
    BY DEF GetAuthoritReplyHandle, EditAuthoritReplyHandle,
       SelectSingleUserInfoReplyHandle, UpdateSingleUserInfoReplyHandle, ExecFault, MysqlFront
  <1>2. stmts \in Seq(Message) /\ AllApart(stmts)
    BY DEF Typed, Pipeline
  <1>3. /\ Head(stmts) \in Range(stmts) /\ Range(stmts') \subseteq Range(stmts)
        /\ \A n \in Range(stmts') : Apart(n, Head(stmts))
    BY <1>1, <1>2, TailApart
  <1>4. \A n \in Range(queue) : Apart(n, Head(stmts))
    BY <1>3 DEF Pipeline
  <1>5. Head(stmts) \in Message /\ Head(stmts) \in Pending /\ Head(stmts).sock \in Socks
    BY <1>3, PendingTyped DEF Pending
  <1>6. \A u \in Users : table[u].ident \in 1..3 /\ Listed(table[u].rights, Head(stmts).type) \in SUBSET Rights
    <2>1. \A u \in Users : table[u].ident \in 1..3 /\ table[u].rights \in Seq(Rights)
      BY DEF Typed, Row
    <2>2. \A r \in Seq(Rights) : Range(r) \subseteq Rights
      BY DEF Range
    <2> QED BY <2>1, <2>2 DEF Listed
  <1>7. /\ \A ok \in BOOLEAN : Answer(Head(stmts), ok) \in Ack
        /\ \A u \in Users :
              /\ [Answer(Head(stmts), TRUE) EXCEPT !.list = Listed(table[u].rights, Head(stmts).type)] \in Ack
              /\ [Answer(Head(stmts), TRUE) EXCEPT !.ident = table[u].ident] \in Ack
    BY <1>5, <1>6, AnswerTyped
  <1> QED BY <1>1, <1>3, <1>4, <1>5, <1>7

LEMMA SetTmpTo ==
    ASSUME Typed, NEW s \in Socks, NEW v, SetTmp(s, v)
    PROVE  /\ \A t \in Socks : t # s => sess'[t] = sess[t]
           /\ LoggedIn(s) => sess'[s].tmp = v
           /\ ~LoggedIn(s) => sess'[s].tmp = NoTmp
  <1>1. sess[s] \in Session
    BY DEF Typed
  <1>2. CASE LoggedIn(s)
    BY <1>1, <1>2 DEF SetTmp, Typed, Session
  <1>3. CASE ~LoggedIn(s)
    BY <1>3 DEF SetTmp, Typed, Nobody
  <1> QED BY <1>2, <1>3

LEMMA SnapshotRecv ==
    ASSUME RightsAssumption, Typed, Pipeline, Snapshot,
           \/ GetAuthoritRecvHandle \/ EditAuthoritRecvHandle
           \/ SelectSingleUserInfoRecvHandle \/ UpdateSingleUserInfoRecvHandle
    PROVE  Snapshot'
  <1> DEFINE r == Head(queue)
  <1>1. /\ r \in Message /\ r \in Pending /\ r.sock \in Socks /\ Range(queue') \subseteq Range(queue)
        /\ \A n \in Range(queue') \cup Range(stmts) : n.sock # r.sock
    BY RecvStep
  <1>2. Typed'
    BY TypedRecv
  <1>3. \A m : stmts' = Append(stmts, m) => Range(stmts') = Range(stmts) \cup {m}
    <2>1. stmts \in Seq(Message) /\ stmts' \in Seq(Message)
      BY <1>2 DEF Typed
    <2> QED BY <2>1, Appended, AppendRange
  <1>4. ASSUME SetTmp(r.sock, NoTmp)
        PROVE  /\ \A t \in Socks : sess'[t].tmp \in {NoTmp, sess[t].tmp}
               /\ sess'[r.sock].tmp = NoTmp /\ \A t \in Socks : t # r.sock => sess'[t] = sess[t]
    BY <1>1, <1>4, SetTmpTo
  <1>5. ASSUME Send(r.sock, Answer(r, FALSE))
        PROVE  \A s \in Socks : inbox'[s] \in {<<>>, inbox[s]} \/ ~Head(inbox'[s]).ok
    <2>1. Answer(r, FALSE) \in Ack /\ ~Answer(r, FALSE).ok
      BY <1>1, AnswerTyped DEF Answer
    <2> DEFINE a == Answer(r, FALSE)
    <2> HIDE DEF r, a
    <2>2. a \in Ack /\ ~a.ok /\ Send(r.sock, a) /\ r \in Pending
      BY <1>1, <1>5, <2>1 DEF a
    <2>3. \A s \in Socks : inbox'[s] = inbox[s] \/ Head(inbox'[s]) = a
      BY <2>2, SendOne
    <2> QED BY <2>2, <2>3
  <1> HIDE DEF r
  <1>6. CASE GetAuthoritRecvHandle
    <2>1. UNCHANGED <<sess, inbox>> /\ stmts' = Append(stmts, r) /\ r.kind = "get"
      BY <1>6 DEF GetAuthoritRecvHandle, RecvFront, r
    <2> QED BY <1>1, <1>3, <2>1, SnapshotKept
  <1>7. CASE EditAuthoritRecvHandle
    <2>1. SetTmp(r.sock, NoTmp) /\ r.kind = "edit"
      BY <1>7 DEF EditAuthoritRecvHandle, RecvFront, r
    <2>2. ASSUME NEW f, NEW g, stmts' = Append(stmts, [r EXCEPT !.rights = f, !.user = g]), UNCHANGED inbox
          PROVE  Snapshot'
      <3> DEFINE new == [r EXCEPT !.rights = f, !.user = g]
      <3>1. new.kind = "edit"
        BY <1>1, <2>1 DEF Message
      <3>2. stmts' = Append(stmts, new)
        BY <2>2
      <3> HIDE DEF new
      <3> QED BY <1>1, <1>3, <1>4, <2>1, <2>2, <3>1, <3>2, SnapshotKept
    <2>3. CASE Send(r.sock, Answer(r, FALSE)) /\ UNCHANGED stmts
      BY <1>1, <1>4, <1>5, <2>1, <2>3, SnapshotKept
    <2>4. \/ /\ \E f, g : stmts' = Append(stmts, [r EXCEPT !.rights = f, !.user = g])
             /\ UNCHANGED inbox
          \/ Send(r.sock, Answer(r, FALSE)) /\ UNCHANGED stmts
      BY <1>7 DEF EditAuthoritRecvHandle, r
    <2> QED BY <2>2, <2>3, <2>4
  <1>8. CASE SelectSingleUserInfoRecvHandle
    <2>1. UNCHANGED inbox /\ stmts' = Append(stmts, r) /\ r.kind = "select"
          /\ (SetTmp(r.sock, NoTmp) \/ UNCHANGED sess)
      BY <1>8 DEF SelectSingleUserInfoRecvHandle, RecvFront, r
    <2>2. \A t \in Socks : sess'[t].tmp \in {NoTmp, sess[t].tmp}
      BY <1>4, <2>1
    <2> QED BY <1>1, <1>3, <2>1, <2>2, SnapshotKept
  <1>9. CASE UpdateSingleUserInfoRecvHandle
    <2>1. SetTmp(r.sock, NoTmp) /\ r.kind = "update"
      BY <1>9 DEF UpdateSingleUserInfoRecvHandle, RecvFront, r
    <2>2. ASSUME NEW own, stmts' = Append(stmts, [r EXCEPT !.own = own]), UNCHANGED inbox
          PROVE  Snapshot'
      <3> DEFINE new == [r EXCEPT !.own = own]
      <3>1. new.sock = r.sock
        BY <1>1 DEF Message
      <3>2. Range(stmts') = Range(stmts) \cup {new}
        BY <1>3, <2>2
      <3> HIDE DEF new
      <3>3. \A m \in Range(stmts') : m.kind = "update" =>
              \/ sess'[m.sock].tmp = NoTmp
              \/ m \in Range(stmts) /\ sess'[m.sock].tmp = sess[m.sock].tmp
        <4>1. \A m \in Range(stmts) : m.sock \in Socks /\ m.sock # r.sock
          BY <1>1, PendingTyped DEF Pending
        <4> QED BY <1>4, <2>1, <3>1, <3>2, <4>1
      <3>4. \A m \in Range(queue') :
              \/ RequestFits(sess'[m.sock].tmp, m)
              \/ m \in Range(queue) /\ sess'[m.sock].tmp \in {NoTmp, sess[m.sock].tmp}
        <4>1. \A m \in Range(queue') : m.sock \in Socks /\ m \in Range(queue)
          BY <1>1, PendingTyped DEF Pending
        <4> QED BY <1>4, <2>1, <4>1
      <3>5. \A s \in Socks : inbox'[s] = inbox[s] /\ sess'[s].tmp \in {NoTmp, sess[s].tmp}
        BY <1>4, <2>1, <2>2
      <3> QED BY <3>3, <3>4, <3>5, SnapshotShape
    <2>3. CASE Send(r.sock, Answer(r, FALSE)) /\ UNCHANGED stmts
      BY <1>1, <1>4, <1>5, <2>1, <2>3, SnapshotKept
    <2> QED BY <1>9, <2>2, <2>3 DEF UpdateSingleUserInfoRecvHandle, r
  <1> QED BY <1>6, <1>7, <1>8, <1>9

LEMMA SnapshotMysql ==
    ASSUME RightsAssumption, Typed, Pipeline, Snapshot,
           \/ GetAuthoritReplyHandle \/ EditAuthoritReplyHandle
           \/ SelectSingleUserInfoReplyHandle \/ UpdateSingleUserInfoReplyHandle \/ ExecFault
    PROVE  Snapshot'
  <1> DEFINE st == Head(stmts)
  <1>1. /\ st \in Message /\ st \in Pending /\ st.sock \in Socks
        /\ Range(stmts') \subseteq Range(stmts) /\ UNCHANGED queue
        /\ \A n \in Range(queue) \cup Range(stmts') : n.sock # st.sock
    BY MysqlStep DEF Apart
  <1>2. /\ \A ok \in BOOLEAN : Answer(st, ok) \in Ack
        /\ \A u \in Users :
              /\ [Answer(st, TRUE) EXCEPT !.list = Listed(table[u].rights, st.type)] \in Ack
              /\ [Answer(st, TRUE) EXCEPT !.ident = table[u].ident] \in Ack
    BY MysqlStep
  <1>3. Holders(st.acct) \subseteq Users
    BY DEF Holders
  <1>4. \A ok : Answer(st, ok).kind = st.kind /\ Answer(st, ok).ok = ok
                /\ Answer(st, ok).acct = st.acct /\ Answer(st, ok).keep = st.keep
    BY DEF Answer
  <1>5. ASSUME \A s \in Socks : sess'[s].tmp \in {NoTmp, sess[s].tmp},
               NEW a \in Ack, Send(st.sock, a), ~a.ok \/ a.kind \in {"edit", "update"}
        PROVE  Snapshot'
    <2>1. \A s \in Socks : inbox'[s] = inbox[s] \/ Head(inbox'[s]) = a
      BY <1>1, <1>5, SendOne
    <2> QED BY <1>1, <1>5, <2>1, SnapshotKept
  <1>6. ASSUME NEW a \in Ack, Send(st.sock, a),
               \A t \in Socks : t # st.sock => sess'[t] = sess[t],
               LoggedIn(st.sock) => AnswerFits(sess'[st.sock].tmp, a)
        PROVE  Snapshot'
    <2>1. \A s \in Socks : \/ inbox'[s] = inbox[s]
                           \/ s = st.sock /\ LoggedIn(s) /\ inbox'[s] = <<a>> /\ Head(inbox'[s]) = a
      BY <1>1, <1>6, SendOne
    <2>2. inbox[st.sock] = <<>>
      BY <1>1 DEF Pipeline, Awaited
    <2>3. \A n \in Range(queue') \cup Range(stmts') : n.sock \in Socks /\ n.sock # st.sock
      BY <1>1, PendingTyped DEF Pending
    <2> HIDE DEF st
    <2>4. \A m \in Range(queue') : m \in Range(queue) /\ sess'[m.sock].tmp \in {NoTmp, sess[m.sock].tmp}
      BY <1>1, <1>6, <2>3
    <2>5. \A m \in Range(stmts') : m \in Range(stmts) /\ sess'[m.sock].tmp = sess[m.sock].tmp
      BY <1>1, <1>6, <2>3
    <2>6. \A s \in Socks :
              \/ inbox'[s] = <<>>
              \/ AnswerFits(sess'[s].tmp, Head(inbox'[s]))
              \/ inbox'[s] = inbox[s] /\ sess'[s].tmp \in {NoTmp, sess[s].tmp}
      BY <1>6, <2>1, <2>2
    <2> QED BY <2>4, <2>5, <2>6, SnapshotShape
  <1>7. CASE GetAuthoritReplyHandle
    <2>0. st.kind = "get"
      BY <1>7 DEF GetAuthoritReplyHandle, MysqlFront
    <2>1. CASE UNCHANGED sess /\ Send(st.sock, Answer(st, FALSE))
      BY <1>2, <1>4, <1>5, <2>1
    <2>2. ASSUME NEW u \in Users, SetTmp(st.sock, Kept(st, u)),
                 Send(st.sock, [Answer(st, TRUE) EXCEPT !.list = Listed(table[u].rights, st.type)])
          PROVE  Snapshot'
      <3> DEFINE a == [Answer(st, TRUE) EXCEPT !.list = Listed(table[u].rights, st.type)]
      <3>1. a \in Ack /\ a.kind = "get" /\ a.acct = st.acct
        BY <1>2, <2>0 DEF Answer
      <3>2. Fits(Kept(st, u), "rights", st.acct)
        BY DEF Fits, Kept, NoTmp
      <3>3. AnswerFits(Kept(st, u), a)
        <4> HIDE DEF a
        <4> QED BY <3>1, <3>2 DEF AnswerFits
      <3>4. /\ \A t \in Socks : t # st.sock => sess'[t] = sess[t]
            /\ LoggedIn(st.sock) => sess'[st.sock].tmp = Kept(st, u)
        BY <1>1, <2>2, SetTmpTo
      <3> HIDE DEF a
      <3> QED BY <1>6, <2>2, <3>1, <3>3, <3>4 DEF a
    <2> QED BY <1>3, <1>7, <2>1, <2>2 DEF GetAuthoritReplyHandle
  <1>8. CASE SelectSingleUserInfoReplyHandle
    <2>0. st.kind = "select"
      BY <1>8 DEF SelectSingleUserInfoReplyHandle, MysqlFront
    <2>1. CASE UNCHANGED sess /\ Send(st.sock, Answer(st, FALSE))
      BY <1>2, <1>4, <1>5, <2>1
    <2>2. ASSUME NEW u \in Users,
                 IF st.keep
                 THEN SetTmp(st.sock, [NoTmp EXCEPT !.kind = "user", !.ident = table[u].ident,
                                                    !.acct = st.acct, !.user = u])
                 ELSE UNCHANGED sess,
                 Send(st.sock, [Answer(st, TRUE) EXCEPT !.ident = table[u].ident])
          PROVE  Snapshot'
      <3> DEFINE a == [Answer(st, TRUE) EXCEPT !.ident = table[u].ident]
                 tmp == [NoTmp EXCEPT !.kind = "user", !.ident = table[u].ident,
                                      !.acct = st.acct, !.user = u]
      <3>1. a \in Ack /\ a.kind = "select" /\ a.acct = st.acct /\ a.keep = st.keep
        BY <1>2, <2>0 DEF Answer
      <3>2. Fits(tmp, "user", st.acct)
        BY DEF Fits, NoTmp
      <3>3. /\ \A t \in Socks : t # st.sock => sess'[t] = sess[t]
            /\ LoggedIn(st.sock) /\ st.keep => sess'[st.sock].tmp = tmp
        <4> HIDE DEF tmp
        <4> QED BY <1>1, <2>2, SetTmpTo DEF tmp
      <3>4. LoggedIn(st.sock) => AnswerFits(sess'[st.sock].tmp, a)
        <4> HIDE DEF a, tmp
        <4> QED BY <3>1, <3>2, <3>3 DEF AnswerFits
      <3> HIDE DEF a, tmp
      <3> QED BY <1>6, <2>2, <3>1, <3>3, <3>4 DEF a
    <2> QED BY <1>3, <1>8, <2>1, <2>2 DEF SelectSingleUserInfoReplyHandle
  <1>9. CASE EditAuthoritReplyHandle
    <2>1. st.kind = "edit" /\ Send(st.sock, Answer(st, st.rights # <<>>))
      BY <1>9 DEF EditAuthoritReplyHandle, MysqlFront
    <2>2. \A s \in Socks : \/ sess'[s] = sess[s]
                           \/ sess'[s] = [sess[s] EXCEPT !.rights = st.rights]
      BY <1>9 DEF EditAuthoritReplyHandle
    <2>3. \A s \in Socks : sess'[s].tmp = sess[s].tmp
      <3> TAKE s \in Socks
      <3>1. sess[s] \in Session
        BY DEF Typed
      <3>2. CASE sess'[s] = [sess[s] EXCEPT !.rights = st.rights]
        BY <3>1, <3>2 DEF Session
      <3> QED BY <2>2, <3>2
    <2>4. (st.rights # <<>>) \in BOOLEAN
      OBVIOUS
    <2> HIDE DEF st
    <2> QED BY <1>2, <1>4, <1>5, <2>1, <2>3, <2>4
  <1>10. CASE UpdateSingleUserInfoReplyHandle
    <2>1. st.kind = "update" /\ \E ok \in BOOLEAN : Send(st.sock, Answer(st, ok))
      BY <1>10 DEF UpdateSingleUserInfoReplyHandle, MysqlFront
    <2>2. \A s \in Socks : \/ sess'[s] = sess[s]
                           \/ sess'[s] = [sess[s] EXCEPT !.acct = st.change.acct]
      BY <1>10 DEF UpdateSingleUserInfoReplyHandle
    <2>3. \A s \in Socks : sess'[s].tmp = sess[s].tmp
      <3> TAKE s \in Socks
      <3>1. sess[s] \in Session
        BY DEF Typed
      <3>2. CASE sess'[s] = [sess[s] EXCEPT !.acct = st.change.acct]
        BY <3>1, <3>2 DEF Session
      <3> QED BY <2>2, <3>2
    <2> HIDE DEF st
    <2> QED BY <1>2, <1>4, <1>5, <2>1, <2>3
  <1>11. CASE ExecFault
    <2>1. UNCHANGED sess /\ Send(st.sock, Answer(st, FALSE))
      BY <1>11 DEF ExecFault
    <2> QED BY <1>2, <1>4, <1>5, <2>1
  <1> QED BY <1>7, <1>8, <1>9, <1>10, <1>11

LEMMA SnapshotNext ==
    ASSUME RightsAssumption, Typed, Pipeline, Snapshot, [Next]_vars PROVE Snapshot'
  <1>1. CASE Clients
    BY <1>1, SnapshotClients DEF Clients
  <1>2. CASE MsgQueueThread
    BY <1>2, SnapshotRecv, SnapshotMysql DEF MsgQueueThread
  <1>3. CASE UNCHANGED vars
    <2>1. UNCHANGED <<sess, queue, stmts, inbox>>
      BY <1>3 DEF vars
    <2> QED BY <2>1 DEF Snapshot
  <1> QED BY <1>1, <1>2, <1>3 DEF Next

(* Who may do what, until an account changes hands *)

Admin(u) == InitTable[u].ident = 3

\* A row, the record of a connection, and its client.
RowSafe(u) ==
    /\ table[u].ident = 3 <=> Admin(u)
    /\ Grant \in Range(table[u].rights) => Admin(u)

SessSafe(s) ==
    LoggedIn(s) =>
        LET me == sess[s]
        IN /\ me.acct = table[me.user].acct
           /\ me.ident = 3 <=> Admin(me.user)
           /\ Grant \in Range(me.rights) \cup Range(client[s].rights) => Admin(me.user)
           /\ Grant \in Range(me.tmp.rights) => me.tmp.acct = me.acct /\ Admin(me.user)
           /\ me.ident = 3 /\ me.tmp.kind = "user" /\ me.tmp.ident < 3 => me.tmp.acct # me.acct
           /\ inbox[s] # <<>> /\ Head(inbox[s]).kind = "get" => Admin(me.user)

\* A request, and a statement: whoever changes rights is an administrator, a user
\* who changes his own row does not change his identity, and nobody's rights but
\* his own can have Grant among them.
AskerSafe(m) == m.kind \in {"get", "edit"} => Admin(m.by)

StmtSafe(m) ==
    /\ m.kind = "edit" /\ Grant \in Range(m.rights) => m.acct = table[m.by].acct
    /\ m.kind = "update" =>
        /\ m.own => m.acct = table[m.by].acct /\ m.change.ident = 0
        /\ m.change.ident # 0 =>
              Admin(m.by) /\ m.acct # table[m.by].acct /\ m.change.ident \in 1..2

SafeNow ==
    /\ \A u \in Users : RowSafe(u)
    /\ \A s \in Socks : SessSafe(s)
    /\ \A m \in Pending : AskerSafe(m)
    /\ \A m \in Range(stmts) : StmtSafe(m)

Safe == ~renamed => SafeNow

\* A step of a client: the table and the statements are as they were.
LEMMA SafeClientShape ==
    ASSUME Typed, SafeNow, NEW s \in Socks, UNCHANGED <<table, stmts>>,
           \A t \in Socks : t # s => UNCHANGED <<sess[t], client[t], inbox[t]>>,
           SessSafe(s)', \A m \in Range(queue') : m \in Range(queue) \/ AskerSafe(m)
    PROVE  SafeNow'
  <1>1. \A u \in Users : RowSafe(u)'
    BY DEF SafeNow, RowSafe
  <1>2. ASSUME NEW t \in Socks PROVE SessSafe(t)'
    <2>1. CASE t # s
      <3>1. SessSafe(t) /\ UNCHANGED <<table, sess[t], client[t], inbox[t]>>
        BY <2>1 DEF SafeNow
      <3> QED BY <3>1 DEF SessSafe, LoggedIn
    <2> QED BY <2>1
  <1>3. \A m \in Pending' : AskerSafe(m)
    BY DEF Pending, SafeNow
  <1>4. \A m \in Range(stmts') : StmtSafe(m)'
    BY DEF SafeNow, StmtSafe
  <1> QED BY <1>1, <1>2, <1>3, <1>4 DEF SafeNow, AskerSafe

LEMMA SafeClients ==
    ASSUME RightsAssumption, Typed, Pipeline, SafeNow, NEW s \in Socks,
           \/ \E u \in Users : Login(s, u)
           \/ Leave(s) \/ AskRights(s) \/ AskUser(s)
           \/ EditAuthoritChoose(s) \/ EditAuthoritAnswer(s) \/ UpdateChoose(s) \/ UpdateAnswer(s)
    PROVE  SafeNow'
  <1>0. Typed' /\ SessSafe(s)
    BY TypedClients DEF SafeNow
  <1>1. ASSUME NEW u \in Users, Login(s, u) PROVE SafeNow'
    <2>1. /\ sess'[s] = [user |-> u, acct |-> table[u].acct, ident |-> table[u].ident,
                         rights |-> table[u].rights, tmp |-> NoTmp]
          /\ client'[s].rights = table[u].rights
          /\ \A t \in Socks : t # s => sess'[t] = sess[t] /\ client'[t] = client[t]
          /\ UNCHANGED <<table, queue, stmts, inbox>>
      BY <1>1 DEF Login, Typed
    <2>2. RowSafe(u) /\ inbox[s] = <<>>
      BY <1>1 DEF SafeNow, Login, Typed, LoggedIn
    <2>3. Range(NoTmp.rights) = {} /\ NoTmp.kind # "user"
      BY DEF NoTmp, Range
    <2>4. SessSafe(s)'
      BY <2>1, <2>2, <2>3 DEF SessSafe, RowSafe
    <2> QED BY <2>1, <2>4, SafeClientShape
  <1>2. CASE Leave(s)
    <2>1. /\ sess'[s].user = NoUser
          /\ \A t \in Socks : t # s => sess'[t] = sess[t] /\ client'[t] = client[t] /\ inbox'[t] = inbox[t]
          /\ UNCHANGED <<table, queue, stmts>>
      BY <1>2 DEF Leave, Typed, Nobody
    <2>2. SessSafe(s)'
      BY <2>1 DEF SessSafe, LoggedIn
    <2> QED BY <2>1, <2>2, SafeClientShape
  <1>3. \A m : Request(m) => m \in Message /\ Range(queue') = Range(queue) \cup {m}
    <2>1. queue \in Seq(Message) /\ queue' \in Seq(Message)
      BY <1>0 DEF Typed
    <2> QED BY <2>1, Appended, AppendRange DEF Request
  <1>4. ASSUME NEW m, Begin(s, m), AskerSafe(m) PROVE SafeNow'
    <2>1. /\ Range(queue') = Range(queue) \cup {m} /\ UNCHANGED <<table, sess, stmts, inbox>>
          /\ client' = [client EXCEPT ![s].state = "wait"]
      BY <1>3, <1>4 DEF Begin
    <2>2. client'[s].rights = client[s].rights /\ \A t \in Socks : t # s => client'[t] = client[t]
      BY <2>1 DEF Typed, Client
    <2>3. SessSafe(s)'
      BY <1>0, <2>1, <2>2 DEF SessSafe, LoggedIn
    <2> QED BY <1>4, <2>1, <2>2, <2>3, SafeClientShape
  <1>5. \A kind, a : NewMessage(s, kind, a).kind = kind /\ NewMessage(s, kind, a).by = sess[s].user
    BY DEF NewMessage
  <1>6. CASE AskRights(s)
    <2>1. PICK a \in Accts, type \in 1..2 : Begin(s, [NewMessage(s, "get", a) EXCEPT !.type = type])
      BY <1>6 DEF AskRights
    <2> DEFINE msg == [NewMessage(s, "get", a) EXCEPT !.type = type]
    <2>2. msg.by = sess[s].user
      BY <1>5 DEF NewMessage
    <2>3. Admin(sess[s].user)
      <3>1. Grant \in Range(client[s].rights) /\ client[s].state = "idle"
        BY <1>6, <2>1 DEF AskRights, Begin
      <3>2. LoggedIn(s)
        BY <3>1 DEF Typed, LoggedIn
      <3> QED BY <1>0, <3>1, <3>2 DEF SessSafe
    <2>4. Begin(s, msg)
      BY <2>1
    <2> HIDE DEF msg
    <2> QED BY <1>4, <2>2, <2>3, <2>4 DEF AskerSafe
  <1>7. CASE AskUser(s)
    <2>1. PICK a \in Accts, keep \in BOOLEAN : Begin(s, [NewMessage(s, "select", a) EXCEPT !.keep = keep])
      BY <1>7 DEF AskUser
    <2> DEFINE msg == [NewMessage(s, "select", a) EXCEPT !.keep = keep]
    <2>2. msg.kind = "select"
      BY <1>5 DEF NewMessage
    <2>3. Begin(s, msg)
      BY <2>1
    <2> HIDE DEF msg
    <2> QED BY <1>4, <2>2, <2>3 DEF AskerSafe
  <1>8. ASSUME NEW kind, Take(s, kind), client'[s].rights = client[s].rights,
               \A t \in Socks : t # s => client'[t] = client[t],
               \A m \in Range(queue') : m \in Range(queue) \/ AskerSafe(m)
        PROVE  SafeNow'
    <2>1. /\ UNCHANGED <<table, sess, stmts>> /\ inbox'[s] = <<>>
          /\ \A t \in Socks : t # s => inbox'[t] = inbox[t]
      BY <1>8, Answered DEF Take
    <2>2. SessSafe(s)'
      BY <1>0, <1>8, <2>1 DEF SessSafe, LoggedIn
    <2> QED BY <1>8, <2>1, <2>2, SafeClientShape
  <1>9. ASSUME NEW kind, Take(s, kind), GiveUp(s) PROVE SafeNow'
    <2>1. client'[s].rights = client[s].rights /\ \A t \in Socks : t # s => client'[t] = client[t]
      BY <1>9 DEF GiveUp, Typed, Client
    <2> QED BY <1>8, <1>9, <2>1 DEF GiveUp
  <1>10. CASE EditAuthoritChoose(s)
    <2> DEFINE ack == Head(inbox[s])
               msg(asked) == [NewMessage(s, "edit", ack.acct) EXCEPT !.type = ack.type, !.asked = asked]
    <2>1. CASE GiveUp(s)
      BY <1>9, <1>10, <2>1 DEF EditAuthoritChoose
    <2>2. ASSUME NEW asked, Request(msg(asked)), UNCHANGED client PROVE SafeNow'
      <3>1. Take(s, "get") /\ inbox[s] # <<>> /\ ack.kind = "get" /\ LoggedIn(s)
        BY <1>10, Answered DEF EditAuthoritChoose, Take
      <3>2. msg(asked).by = sess[s].user
        BY <1>5 DEF NewMessage
      <3>3. AskerSafe(msg(asked))
        <4> HIDE DEF msg
        <4> QED BY <1>0, <3>1, <3>2 DEF SessSafe, AskerSafe
      <3> HIDE DEF msg
      <3>4. \A m \in Range(queue') : m \in Range(queue) \/ AskerSafe(m)
        BY <1>3, <2>2, <3>3
      <3> QED BY <1>8, <2>2, <3>1, <3>4
    <2> QED BY <1>10, <2>1, <2>2 DEF EditAuthoritChoose
  <1>11. CASE UpdateChoose(s)
    <2> DEFINE ack == Head(inbox[s])
               msg(change) == [NewMessage(s, "update", ack.acct) EXCEPT !.change = change]
    <2>1. CASE GiveUp(s)
      BY <1>9, <1>11, <2>1 DEF UpdateChoose
    <2>2. ASSUME NEW change, Request(msg(change)), client' = [client EXCEPT ![s].change = change]
          PROVE  SafeNow'
      <3>1. msg(change).kind = "update"
        BY <1>5 DEF NewMessage
      <3> HIDE DEF msg
      <3>2. \A m \in Range(queue') : m \in Range(queue) \/ AskerSafe(m)
        BY <1>3, <2>2, <3>1 DEF AskerSafe
      <3>3. client'[s].rights = client[s].rights /\ \A t \in Socks : t # s => client'[t] = client[t]
        BY <2>2 DEF Typed, Client
      <3> QED BY <1>8, <1>11, <3>2, <3>3 DEF UpdateChoose
    <2> QED BY <1>11, <2>1, <2>2 DEF UpdateChoose
  <1>12. CASE UpdateAnswer(s)
    <2>1. client'[s].rights = client[s].rights /\ \A t \in Socks : t # s => client'[t] = client[t]
      BY <1>12 DEF UpdateAnswer, Typed, Client
    <2> QED BY <1>8, <1>12, <2>1 DEF UpdateAnswer
  <1> QED BY <1>1, <1>2, <1>6, <1>7, <1>9, <1>10, <1>11, <1>12 DEF EditAuthoritAnswer


\* A step of the queue thread: a record keeps its account, identity and rights,
\* and loses what is in strTmpData or keeps it.
LEMMA SafeRecvShape ==
    ASSUME Typed, SafeNow, UNCHANGED <<table, client>>,
           \A s \in Socks : /\ sess'[s].user = sess[s].user /\ sess'[s].acct = sess[s].acct
                            /\ sess'[s].ident = sess[s].ident /\ sess'[s].rights = sess[s].rights
                            /\ sess'[s].tmp \in {NoTmp, sess[s].tmp},
           \A s \in Socks : inbox'[s] = inbox[s] \/ Head(inbox'[s]).kind # "get",
           \A m \in Pending' : AskerSafe(m), \A m \in Range(stmts') : StmtSafe(m)
    PROVE  SafeNow'
  <1>1. \A u \in Users : RowSafe(u)'
    BY DEF SafeNow, RowSafe
  <1>2. Range(NoTmp.rights) = {} /\ NoTmp.kind # "user"
    BY DEF NoTmp, Range
  <1>3. ASSUME NEW s \in Socks PROVE SessSafe(s)'
    <2>1. SessSafe(s) /\ UNCHANGED <<table, client[s]>>
      BY DEF SafeNow
    <2> QED BY <1>2, <2>1 DEF SessSafe, LoggedIn
  <1>4. \A m \in Range(stmts') : StmtSafe(m)'
    BY DEF StmtSafe
  <1> QED BY <1>1, <1>3, <1>4 DEF SafeNow, AskerSafe

LEMMA SetTmpEmpty ==
    ASSUME Typed, NEW r \in Socks, SetTmp(r, NoTmp)
    PROVE  \A s \in Socks :
              /\ sess'[s].user = sess[s].user /\ sess'[s].acct = sess[s].acct
              /\ sess'[s].ident = sess[s].ident /\ sess'[s].rights = sess[s].rights
              /\ sess'[s].tmp \in {NoTmp, sess[s].tmp}
  <1> TAKE s \in Socks
  <1>1. sess[s] \in Session
    BY DEF Typed
  <1>2. sess'[s] = sess[s] \/ sess'[s] = [sess[s] EXCEPT !.tmp = NoTmp]
    BY DEF SetTmp, Typed
  <1> QED BY <1>1, <1>2 DEF Session

LEMMA SafeRecv ==
    ASSUME RightsAssumption, Typed, Pipeline, Snapshot, SafeNow,
           \/ GetAuthoritRecvHandle \/ EditAuthoritRecvHandle
           \/ SelectSingleUserInfoRecvHandle \/ UpdateSingleUserInfoRecvHandle
    PROVE  SafeNow'
  <1> DEFINE r == Head(queue)
             me == sess[r.sock]
  <1>1. /\ r \in Message /\ r \in Pending /\ r \in Range(queue) /\ r.sock \in Socks
        /\ Range(queue') \subseteq Range(queue) /\ UNCHANGED <<table, client>>
    BY RecvStep
  <1>2. Typed' /\ AskerSafe(r) /\ Awaited(r) /\ SessSafe(r.sock) /\ RequestFits(me.tmp, r)
    BY <1>1, TypedRecv DEF SafeNow, Pipeline, Snapshot
  <1>3. \A m : stmts' = Append(stmts, m) => Range(stmts') = Range(stmts) \cup {m}
    <2>1. stmts \in Seq(Message) /\ stmts' \in Seq(Message)
      BY <1>2 DEF Typed
    <2> QED BY <2>1, Appended, AppendRange
  <1>4. \A m \in Pending : AskerSafe(m)
    BY DEF SafeNow
  <1>5. \A m \in Range(stmts) : StmtSafe(m)
    BY DEF SafeNow
  <1>6. me \in Session /\ me.tmp \in Tmp
    BY <1>1 DEF Typed, Session
  <1> HIDE DEF r, me
  <1>7. ASSUME SetTmp(r.sock, NoTmp) \/ UNCHANGED sess
        PROVE  \A s \in Socks :
                  /\ sess'[s].user = sess[s].user /\ sess'[s].acct = sess[s].acct
                  /\ sess'[s].ident = sess[s].ident /\ sess'[s].rights = sess[s].rights
                  /\ sess'[s].tmp \in {NoTmp, sess[s].tmp}
    <2>1. CASE UNCHANGED sess
      <3>1. \A s \in Socks : sess'[s] = sess[s]
        BY <2>1
      <3> QED BY <3>1
    <2>2. CASE SetTmp(r.sock, NoTmp)
      BY <1>1, <2>2, SetTmpEmpty
    <2> QED BY <1>7, <2>1, <2>2
  <1>8. ASSUME Send(r.sock, Answer(r, FALSE)), r.kind # "get"
        PROVE  \A s \in Socks : inbox'[s] = inbox[s] \/ Head(inbox'[s]).kind # "get"
    <2>1. Answer(r, FALSE) \in Ack /\ Answer(r, FALSE).kind = r.kind
      BY <1>1, AnswerTyped DEF Answer
    <2> QED BY <1>1, <1>8, <2>1, SendOne
  <1>9. ASSUME SetTmp(r.sock, NoTmp) \/ UNCHANGED sess, UNCHANGED inbox,
               NEW m, stmts' = Append(stmts, m), m.kind = r.kind, m.by = r.by, StmtSafe(m)
        PROVE  SafeNow'
    <2>1. Range(stmts') = Range(stmts) \cup {m}
      BY <1>3, <1>9
    <2>2. AskerSafe(m)
      BY <1>2, <1>9 DEF AskerSafe
    <2>3. \A n \in Pending' : AskerSafe(n)
      BY <1>1, <1>4, <2>1, <2>2 DEF Pending
    <2>4. \A n \in Range(stmts') : StmtSafe(n)
      BY <1>5, <1>9, <2>1
    <2>5. \A s \in Socks : inbox'[s] = inbox[s] \/ Head(inbox'[s]).kind # "get"
      BY <1>9
    <2> QED BY <1>1, <1>7, <1>9, <2>3, <2>4, <2>5, SafeRecvShape
  <1>10. ASSUME SetTmp(r.sock, NoTmp), UNCHANGED stmts, Send(r.sock, Answer(r, FALSE)), r.kind # "get"
         PROVE  SafeNow'
    <2>1. \A n \in Pending' : AskerSafe(n)
      BY <1>1, <1>4, <1>10 DEF Pending
    <2>2. \A n \in Range(stmts') : StmtSafe(n)
      BY <1>5, <1>10
    <2> QED BY <1>1, <1>7, <1>8, <1>10, <2>1, <2>2, SafeRecvShape
  <1>11. CASE GetAuthoritRecvHandle
    <2>1. UNCHANGED <<sess, inbox>> /\ stmts' = Append(stmts, r) /\ r.kind = "get"
      BY <1>11 DEF GetAuthoritRecvHandle, RecvFront, r
    <2> QED BY <1>9, <2>1 DEF StmtSafe
  <1>12. CASE SelectSingleUserInfoRecvHandle
    <2>1. UNCHANGED inbox /\ stmts' = Append(stmts, r) /\ r.kind = "select"
          /\ (SetTmp(r.sock, NoTmp) \/ UNCHANGED sess)
      BY <1>12 DEF SelectSingleUserInfoRecvHandle, RecvFront, r
    <2> QED BY <1>9, <2>1 DEF StmtSafe
  \* Who has left has nothing in strTmpData.
  <1>13. ~LoggedIn(r.sock) => me.tmp = NoTmp
    <2>1. ~LoggedIn(r.sock) => me = Nobody
      BY <1>1 DEF Typed, me
    <2> QED BY <2>1 DEF Nobody
  <1>14. LoggedIn(r.sock) => me.user = r.by /\ me.acct = table[r.by].acct
    BY <1>2 DEF Awaited, SessSafe, me
  <1>15. CASE EditAuthoritRecvHandle
    <2> DEFINE new == [r EXCEPT !.rights = Edited(me.tmp.rights, r.type, r.asked), !.user = me.tmp.user]
    <2>1. SetTmp(r.sock, NoTmp) /\ r.kind = "edit"
      BY <1>15 DEF EditAuthoritRecvHandle, RecvFront, r
    <2>2. ASSUME Range(r.asked) \subseteq Listed(me.tmp.rights, r.type), stmts' = Append(stmts, new),
                 UNCHANGED inbox
          PROVE  SafeNow'
      <3>1. new.kind = "edit" /\ new.by = r.by /\ new.acct = r.acct
            /\ new.rights = Edited(me.tmp.rights, r.type, r.asked)
        BY <1>1, <2>1 DEF Message
      <3> HIDE DEF new
      <3>2. me.tmp.rights \in Seq(Rights) /\ r.asked \in Seq(Rights) /\ r.type \in 1..2
        BY <1>1, <1>6 DEF Tmp, Message
      <3>3. Range(new.rights) \subseteq Range(me.tmp.rights) \cup Range(r.asked)
            /\ (r.type = 1 => Range(new.rights) \subseteq Range(me.tmp.rights))
        BY <3>1, <3>2, EditedKeeps
      <3>4. r.type = 2 => Grant \notin Range(r.asked)
        BY <2>2 DEF Listed
      <3>5. ASSUME Grant \in Range(new.rights) PROVE r.acct = table[r.by].acct
        <4>1. Grant \in Range(me.tmp.rights)
          BY <3>2, <3>3, <3>4, <3>5
        <4>2. me.tmp # NoTmp
          BY <4>1 DEF NoTmp, Range
        <4>3. me.tmp.acct = r.acct
          BY <1>2, <2>1, <4>2 DEF RequestFits, Fits
        <4>4. LoggedIn(r.sock)
          BY <1>13, <4>2
        <4>5. me.tmp.acct = me.acct
          BY <1>2, <4>1, <4>4 DEF SessSafe, me
        <4> QED BY <1>14, <4>3, <4>4, <4>5
      <3>6. StmtSafe(new)
        BY <3>1, <3>5 DEF StmtSafe
      <3> QED BY <1>9, <2>1, <2>2, <3>1, <3>6
    <2>3. CASE Send(r.sock, Answer(r, FALSE)) /\ UNCHANGED stmts
      BY <1>10, <2>1, <2>3
    <2> QED BY <1>15, <2>2, <2>3 DEF EditAuthoritRecvHandle, r, me
  <1>16. CASE UpdateSingleUserInfoRecvHandle
    <2> DEFINE own == me.ident = me.tmp.ident /\ me.acct = me.tmp.acct
               new == [r EXCEPT !.own = own]
    <2>1. SetTmp(r.sock, NoTmp) /\ r.kind = "update"
      BY <1>16 DEF UpdateSingleUserInfoRecvHandle, RecvFront, r
    <2>2. ASSUME me.tmp.kind = "user", MayChange(me.ident, own, me.tmp.ident, r.change),
                 stmts' = Append(stmts, new), UNCHANGED inbox
          PROVE  SafeNow'
      <3>1. new.kind = "update" /\ new.by = r.by /\ new.acct = r.acct /\ new.change = r.change
            /\ (new.own <=> own)
        BY <1>1, <2>1 DEF Message
      <3>2. me.tmp # NoTmp
        BY <2>2 DEF NoTmp
      <3>3. me.tmp.acct = r.acct /\ LoggedIn(r.sock)
        BY <1>2, <1>13, <2>1, <3>2 DEF RequestFits, Fits
      <3>4. own => r.acct = table[r.by].acct /\ r.change.ident = 0
        BY <1>14, <2>2, <3>3 DEF MayChange
      <3>5. ASSUME r.change.ident # 0
            PROVE  Admin(r.by) /\ r.acct # table[r.by].acct /\ r.change.ident \in 1..2
        <4>1. me.ident = 3 /\ ~own /\ r.change.ident # 3 /\ me.ident > me.tmp.ident
          BY <2>2, <3>5 DEF MayChange
        <4>2. me.tmp.ident \in 0..3 /\ r.change.ident \in 0..3
          BY <1>1, <1>6 DEF Tmp, Message, Change
        <4>3. Admin(r.by)
          BY <1>2, <1>14, <3>3, <4>1 DEF SessSafe, me
        <4>4. me.tmp.acct # me.acct
          BY <1>2, <2>2, <3>3, <4>1, <4>2 DEF SessSafe, me
        <4> QED BY <1>14, <3>3, <3>5, <4>1, <4>2, <4>3, <4>4
      <3> HIDE DEF new, own
      <3>6. StmtSafe(new)
        BY <3>1, <3>4, <3>5 DEF StmtSafe
      <3> QED BY <1>9, <2>1, <2>2, <3>1, <3>6
    <2>3. CASE Send(r.sock, Answer(r, FALSE)) /\ UNCHANGED stmts
      BY <1>10, <2>1, <2>3
    <2> QED BY <1>16, <2>2, <2>3 DEF UpdateSingleUserInfoRecvHandle, r, me
  <1> QED BY <1>11, <1>12, <1>15, <1>16

\* Two users are not both administrators, and no two have the same account.
LEMMA OneAdmin ==
    ASSUME RightsAssumption, Typed, NEW u \in Users, NEW v \in Users
    PROVE  /\ Admin(u) /\ Admin(v) => u = v
           /\ table[u].acct = table[v].acct => u = v
  BY DEF RightsAssumption, Admin, Typed

\* An answer to the statement st, with the record of its connection as it is.
LEMMA SafeReply ==
    ASSUME RightsAssumption, Typed, Pipeline, SafeNow, NEW st \in Pending, Awaited(st), AskerSafe(st),
           NEW a \in Ack, Send(st.sock, a), a.kind = st.kind, NEW s \in Socks, LoggedIn(s),
           inbox'[s] # <<>>, Head(inbox'[s]).kind = "get"
    PROVE  Admin(sess[s].user)
  <1>1. \/ inbox'[s] = inbox[s]
        \/ s = st.sock /\ Head(inbox'[s]) = a
    BY SendOne
  <1>2. CASE inbox'[s] = inbox[s]
    BY <1>2 DEF SafeNow, SessSafe
  <1>3. CASE s = st.sock /\ Head(inbox'[s]) = a
    BY <1>3 DEF Awaited, AskerSafe
  <1> QED BY <1>1, <1>2, <1>3

LEMMA SafeRead ==
    ASSUME RightsAssumption, Typed, Pipeline, Snapshot, SafeNow,
           GetAuthoritReplyHandle \/ SelectSingleUserInfoReplyHandle \/ ExecFault
    PROVE  SafeNow'
  <1> DEFINE st == Head(stmts)
  <1>1. /\ st \in Message /\ st \in Pending /\ st.sock \in Socks
        /\ Range(stmts') \subseteq Range(stmts) /\ UNCHANGED <<queue, client>>
        /\ \A ok \in BOOLEAN : Answer(st, ok) \in Ack
        /\ \A u \in Users :
              /\ [Answer(st, TRUE) EXCEPT !.list = Listed(table[u].rights, st.type)] \in Ack
              /\ [Answer(st, TRUE) EXCEPT !.ident = table[u].ident] \in Ack
    BY MysqlStep
  <1>2. Awaited(st) /\ AskerSafe(st) /\ SessSafe(st.sock)
    BY <1>1 DEF SafeNow, Pipeline
  <1>3. UNCHANGED table /\ Holders(st.acct) \subseteq Users /\ \A u \in Holders(st.acct) : table[u].acct = st.acct
    BY DEF GetAuthoritReplyHandle, SelectSingleUserInfoReplyHandle, ExecFault, Holders
  <1>4. ASSUME NEW a \in Ack, Send(st.sock, a), a.kind = st.kind,
               \A t \in Socks : IF t = st.sock THEN SessSafe(t)' ELSE sess'[t] = sess[t],
               \A t \in Socks : sess'[t].user = sess[t].user
        PROVE  SafeNow'
    <2>1. \A u \in Users : RowSafe(u)'
      BY <1>3 DEF SafeNow, RowSafe
    <2>2. ASSUME NEW t \in Socks PROVE SessSafe(t)'
      <3>1. CASE t = st.sock
        BY <1>4, <3>1
      <3>2. CASE t # st.sock
        <4>1. SessSafe(t) /\ UNCHANGED <<table, client, sess[t]>>
          BY <1>1, <1>3, <1>4, <3>2 DEF SafeNow
        <4> HIDE DEF st
        <4>2. LoggedIn(t) /\ inbox'[t] # <<>> /\ Head(inbox'[t]).kind = "get" => Admin(sess[t].user)
          BY <1>1, <1>2, <1>4, SafeReply
        <4> QED BY <4>1, <4>2 DEF SessSafe, LoggedIn
      <3> QED BY <3>1, <3>2
    <2>3. (\A m \in Pending : AskerSafe(m))' /\ (\A m \in Range(stmts) : StmtSafe(m))'
      BY <1>1, <1>3 DEF SafeNow, Pending, StmtSafe, AskerSafe
    <2> QED BY <2>1, <2>2, <2>3 DEF SafeNow
  \* What is put into strTmpData of the connection.
  <1>5. ASSUME NEW v \in Tmp, SetTmp(st.sock, v) \/ UNCHANGED sess,
               NEW a \in Ack, Send(st.sock, a), a.kind = st.kind,
               LoggedIn(st.sock) /\ Grant \in Range(v.rights) =>
                  v.acct = sess[st.sock].acct /\ Admin(sess[st.sock].user),
               LoggedIn(st.sock) /\ sess[st.sock].ident = 3 /\ v.kind = "user" /\ v.ident < 3 =>
                  v.acct # sess[st.sock].acct
        PROVE  SafeNow'
    <2> HIDE DEF st
    <2>1. /\ \A t \in Socks : /\ sess'[t].user = sess[t].user /\ sess'[t].acct = sess[t].acct
                              /\ sess'[t].ident = sess[t].ident /\ sess'[t].rights = sess[t].rights
                              /\ t # st.sock => sess'[t] = sess[t]
          /\ LoggedIn(st.sock) => sess'[st.sock].tmp \in {v, sess[st.sock].tmp}
      <3>1. CASE UNCHANGED sess
        BY <3>1
      <3>2. CASE SetTmp(st.sock, v)
        BY <1>1, <3>2, SetTmpTyped
      <3> QED BY <1>5, <3>1, <3>2
    <2>2. LoggedIn(st.sock) /\ inbox'[st.sock] # <<>> /\ Head(inbox'[st.sock]).kind = "get"
            => Admin(sess[st.sock].user)
      BY <1>1, <1>2, <1>5, SafeReply
    <2>3. ASSUME NEW t \in Socks, t = st.sock PROVE SessSafe(t)'
      <3>1. LoggedIn(t)' => LoggedIn(t)
        BY <2>1 DEF LoggedIn
      <3>2. UNCHANGED <<table, client>> /\ SessSafe(t)
        BY <1>1, <1>2, <1>3, <2>3
      <3>3. CASE sess'[t].tmp = sess[t].tmp
        BY <2>1, <2>2, <2>3, <3>1, <3>2, <3>3 DEF SessSafe
      <3>4. CASE sess'[t].tmp = v
        BY <1>5, <2>1, <2>2, <2>3, <3>1, <3>2, <3>4 DEF SessSafe
      <3>5. CASE ~LoggedIn(t)
        BY <3>1, <3>5 DEF SessSafe
      <3> QED BY <2>1, <2>3, <3>3, <3>4, <3>5
    <2> QED BY <1>4, <1>5, <2>1, <2>3
  <1>6. Range(NoTmp.rights) = {} /\ NoTmp.kind # "user" /\ NoTmp \in Tmp
    BY Empties DEF NoTmp, Range
  <1>7. ASSUME UNCHANGED sess, Send(st.sock, Answer(st, FALSE)) PROVE SafeNow'
    <2>1. Answer(st, FALSE) \in Ack /\ Answer(st, FALSE).kind = st.kind
      BY <1>1 DEF Answer
    <2> HIDE DEF st
    <2> QED BY <1>5, <1>6, <1>7, <2>1
  \* Whose row it is, if it is one's own account.
  <1>8. ASSUME NEW u \in Users, table[u].acct = st.acct, LoggedIn(st.sock)
        PROVE  /\ sess[st.sock].user \in Users
               /\ st.acct = sess[st.sock].acct => u = sess[st.sock].user
    <2>1. sess[st.sock].user \in Users
      BY <1>1, <1>8, UserOf
    <2> HIDE DEF st
    <2> QED BY <1>2, <1>8, <2>1, OneAdmin DEF SessSafe
  <1>9. CASE GetAuthoritReplyHandle
    <2>0. st.kind = "get"
      BY <1>9 DEF GetAuthoritReplyHandle, MysqlFront
    <2>1. CASE UNCHANGED sess /\ Send(st.sock, Answer(st, FALSE))
      BY <1>7, <2>1
    <2>2. ASSUME NEW u \in Users, table[u].acct = st.acct, SetTmp(st.sock, Kept(st, u)),
                 Send(st.sock, [Answer(st, TRUE) EXCEPT !.list = Listed(table[u].rights, st.type)])
          PROVE  SafeNow'
      <3> DEFINE a == [Answer(st, TRUE) EXCEPT !.list = Listed(table[u].rights, st.type)]
                 v == Kept(st, u)
      <3>1. a \in Ack /\ a.kind = st.kind
        BY <1>1 DEF Answer
      <3>2. v \in Tmp /\ v.kind # "user" /\ (v # NoTmp => v.rights = table[u].rights /\ v.acct = st.acct)
        <4>1. table[u].rights \in Seq(Rights) /\ st.acct \in Accts
          BY <1>1 DEF Typed, Row, Message
        <4> HIDE DEF st
        <4> QED BY <4>1, Empties DEF Kept, Tmp, NoTmp
      <3> HIDE DEF st, a, v
      <3>3. LoggedIn(st.sock) /\ Grant \in Range(v.rights) =>
                  v.acct = sess[st.sock].acct /\ Admin(sess[st.sock].user)
        <4> SUFFICES ASSUME LoggedIn(st.sock), Grant \in Range(v.rights)
                     PROVE  v.acct = sess[st.sock].acct /\ Admin(sess[st.sock].user)
          OBVIOUS
        <4>1. v.rights = table[u].rights /\ v.acct = st.acct
          BY <1>6, <3>2
        <4>2. Admin(u)
          BY <4>1 DEF SafeNow, RowSafe
        <4>3. sess[st.sock].user = st.by /\ Admin(st.by)
          BY <1>2, <2>0 DEF Awaited, AskerSafe
        <4>4. u = sess[st.sock].user
          BY <1>8, <2>2, <4>2, <4>3, OneAdmin
        <4> QED BY <1>2, <2>2, <4>1, <4>2, <4>4 DEF SessSafe
      <3> QED BY <1>5, <2>2, <3>1, <3>2, <3>3 DEF a, v
    <2> QED BY <1>3, <1>9, <2>1, <2>2 DEF GetAuthoritReplyHandle
  <1>10. CASE SelectSingleUserInfoReplyHandle
    <2>1. CASE UNCHANGED sess /\ Send(st.sock, Answer(st, FALSE))
      BY <1>7, <2>1
    <2>2. ASSUME NEW u \in Users, table[u].acct = st.acct,
                 \/ SetTmp(st.sock, [NoTmp EXCEPT !.kind = "user", !.ident = table[u].ident,
                                                  !.acct = st.acct, !.user = u])
                 \/ UNCHANGED sess,
                 Send(st.sock, [Answer(st, TRUE) EXCEPT !.ident = table[u].ident])
          PROVE  SafeNow'
      <3> DEFINE a == [Answer(st, TRUE) EXCEPT !.ident = table[u].ident]
                 v == [NoTmp EXCEPT !.kind = "user", !.ident = table[u].ident,
                                    !.acct = st.acct, !.user = u]
      <3>1. a \in Ack /\ a.kind = st.kind
        BY <1>1 DEF Answer
      <3>2. v \in Tmp /\ v.rights = <<>> /\ v.ident = table[u].ident /\ v.acct = st.acct
        <4>1. table[u].ident \in 1..3 /\ st.acct \in Accts
          BY <1>1 DEF Typed, Row, Message
        <4> HIDE DEF st
        <4>2. v.rights = <<>> /\ v.ident = table[u].ident /\ v.acct = st.acct
          BY DEF NoTmp
        <4>3. table[u].ident \in 0..3
          BY <4>1
        <4>4. v \in Tmp
          BY <4>1, <4>3, Empties DEF Tmp, NoTmp
        <4> QED BY <4>2, <4>4
      <3>3. table[u].ident \in 1..3 /\ (table[u].ident = 3 <=> Admin(u))
        BY DEF SafeNow, RowSafe, Typed, Row
      <3> HIDE DEF st, a, v
      <3>4. Grant \notin Range(v.rights)
        BY <3>2 DEF Range
      <3>5. LoggedIn(st.sock) /\ sess[st.sock].ident = 3 /\ v.kind = "user" /\ v.ident < 3 =>
                  v.acct # sess[st.sock].acct
        BY <1>2, <1>8, <2>2, <3>2, <3>3 DEF SessSafe
      <3> QED BY <1>5, <2>2, <3>1, <3>2, <3>4, <3>5 DEF a, v
    <2> QED BY <1>3, <1>10, <2>1, <2>2 DEF SelectSingleUserInfoReplyHandle
  <1>11. CASE ExecFault
    <2>1. UNCHANGED sess /\ Send(st.sock, Answer(st, FALSE))
      BY <1>11 DEF ExecFault
    <2> QED BY <1>7, <2>1
  <1> QED BY <1>9, <1>10, <1>11

\* A change of rights or of a user has been executed.
LEMMA SafeWriteShape ==
    ASSUME RightsAssumption, Typed, Pipeline, SafeNow,
           EditAuthoritReplyHandle \/ UpdateSingleUserInfoReplyHandle,
           \A u \in Users : RowSafe(u)',
           \A u \in Users : u # Head(stmts).by => table'[u].acct = table[u].acct,
           NEW a \in Ack, Send(Head(stmts).sock, a), a.kind # "get",
           \A s \in Socks : LoggedIn(s) =>
              LET me == sess'[s]
              IN /\ me.user = sess[s].user /\ me.acct = table'[me.user].acct
                 /\ me.ident = sess[s].ident
                 /\ Grant \in Range(me.rights) => Admin(me.user)
                 /\ me.tmp = sess[s].tmp
                 /\ me.tmp # NoTmp => me.acct = sess[s].acct,
           \A s \in Socks : sess'[s].user = sess[s].user
    PROVE  SafeNow'
  <1> DEFINE st == Head(stmts)
  <1>1. /\ st \in Pending /\ Range(stmts') \subseteq Range(stmts) /\ UNCHANGED <<queue, client>>
        /\ \A n \in Range(stmts') : n.by # st.by
    BY MysqlStep DEF Apart
  <1>2. \A n \in Range(stmts') : n \in Pending /\ n.by \in Users /\ StmtSafe(n)
    BY <1>1, PendingTyped DEF SafeNow, Pending
  <1> HIDE DEF st
  <1>3. \A n \in Range(stmts') : StmtSafe(n)'
    BY <1>1, <1>2 DEF StmtSafe, st
  <1>4. \A n \in Pending' : AskerSafe(n)
    BY <1>1 DEF Pending, SafeNow
  <1>5. ASSUME NEW s \in Socks PROVE SessSafe(s)'
    <2> SUFFICES ASSUME LoggedIn(s) PROVE SessSafe(s)'
      BY DEF SessSafe, LoggedIn
    <2>1. SessSafe(s) /\ UNCHANGED client
      BY <1>1 DEF SafeNow
    <2>2. inbox'[s] # <<>> /\ Head(inbox'[s]).kind = "get" => Admin(sess[s].user)
      <3>1. inbox'[s] = inbox[s] \/ Head(inbox'[s]) = a
        <4>1. Send(st.sock, a) /\ st \in Pending
          BY <1>1 DEF st
        <4> QED BY <4>1, SendOne
      <3> QED BY <2>1, <3>1 DEF SessSafe
    <2>3. Range(NoTmp.rights) = {} /\ NoTmp.kind # "user"
      BY DEF NoTmp, Range
    <2> QED BY <2>1, <2>2, <2>3 DEF SessSafe
  <1> QED BY <1>3, <1>4, <1>5 DEF SafeNow, AskerSafe

LEMMA SafeEdit ==
    ASSUME RightsAssumption, Typed, Pipeline, SafeNow, EditAuthoritReplyHandle
    PROVE  SafeNow'
  <1> DEFINE st == Head(stmts)
  <1>1. /\ st \in Message /\ st \in Pending /\ st \in Range(stmts) /\ st.kind = "edit"
        /\ Answer(st, st.rights # <<>>) \in Ack /\ Send(st.sock, Answer(st, st.rights # <<>>))
    <2>1. st.kind = "edit" /\ Send(st.sock, Answer(st, st.rights # <<>>))
      BY DEF EditAuthoritReplyHandle, MysqlFront
    <2>2. st \in Message /\ st \in Pending /\ st \in Range(stmts) /\ \A ok \in BOOLEAN : Answer(st, ok) \in Ack
      BY MysqlStep
    <2>3. (st.rights # <<>>) \in BOOLEAN
      OBVIOUS
    <2> QED BY <2>1, <2>2, <2>3
  <1>2. /\ table' = [u \in Users |-> IF u \in Holders(st.acct)
                                     THEN [table[u] EXCEPT !.rights = st.rights] ELSE table[u]]
        /\ sess' = [s \in Socks |-> IF st.rights # <<>> /\ s \in FirstWith(st.acct)
                                    THEN [sess[s] EXCEPT !.rights = st.rights] ELSE sess[s]]
    BY DEF EditAuthoritReplyHandle
  <1>3. AskerSafe(st) /\ StmtSafe(st) /\ st.by \in Users
    BY <1>1, PendingTyped DEF SafeNow
  <1> HIDE DEF st
  <1>4. \A u \in Users : /\ table'[u].acct = table[u].acct /\ table'[u].ident = table[u].ident
                         /\ table'[u].rights = IF u \in Holders(st.acct) THEN st.rights
                                               ELSE table[u].rights
    <2> TAKE u \in Users
    <2>1. table[u] \in Row
      BY DEF Typed
    <2>2. table'[u] = IF u \in Holders(st.acct) THEN [table[u] EXCEPT !.rights = st.rights] ELSE table[u]
      BY <1>2
    <2> QED BY <2>1, <2>2 DEF Row
  <1>5. ASSUME NEW u \in Users, u \in Holders(st.acct), Grant \in Range(st.rights) PROVE Admin(u)
    <2>1. st.acct = table[st.by].acct /\ Admin(st.by)
      BY <1>1, <1>3, <1>5 DEF StmtSafe, AskerSafe
    <2> QED BY <1>3, <1>5, <2>1, OneAdmin DEF Holders
  <1>6. \A u \in Users : RowSafe(u)'
    <2> TAKE u \in Users
    <2>1. RowSafe(u)
      BY DEF SafeNow
    <2> QED BY <1>4, <1>5, <2>1 DEF RowSafe
  <1>7. ASSUME NEW s \in Socks
        PROVE  /\ sess'[s].user = sess[s].user /\ sess'[s].acct = sess[s].acct
               /\ sess'[s].ident = sess[s].ident /\ sess'[s].tmp = sess[s].tmp
               /\ \/ sess'[s].rights = sess[s].rights
                  \/ sess'[s].rights = st.rights /\ sess[s].acct = st.acct
    <2>1. sess[s] \in Session
      BY DEF Typed
    <2>2. \/ sess'[s] = sess[s]
          \/ sess'[s] = [sess[s] EXCEPT !.rights = st.rights] /\ sess[s].acct = st.acct
      BY <1>2 DEF FirstWith
    <2> QED BY <2>1, <2>2 DEF Session
  <1>8. ASSUME NEW s \in Socks, LoggedIn(s)
        PROVE  /\ sess'[s].acct = table'[sess'[s].user].acct
               /\ Grant \in Range(sess'[s].rights) => Admin(sess'[s].user)
    <2>1. sess[s].user \in Users /\ sess[s].acct = table[sess[s].user].acct
          /\ (Grant \in Range(sess[s].rights) => Admin(sess[s].user))
      <3>1. sess[s].user \in Users
        BY <1>8, UserOf
      <3> QED BY <1>8, <3>1 DEF SafeNow, SessSafe
    <2>2. sess[s].acct = st.acct => sess[s].user \in Holders(st.acct)
      BY <2>1 DEF Holders
    <2> QED BY <1>4, <1>5, <1>7, <2>1, <2>2
  <1>9. Answer(st, st.rights # <<>>).kind # "get"
    BY <1>1 DEF Answer
  <1>10. \A u \in Users : u # st.by => table'[u].acct = table[u].acct
    BY <1>4
  <1>11. \A s \in Socks : LoggedIn(s) =>
              LET me == sess'[s]
              IN /\ me.user = sess[s].user /\ me.acct = table'[me.user].acct
                 /\ me.ident = sess[s].ident
                 /\ Grant \in Range(me.rights) => Admin(me.user)
                 /\ me.tmp = sess[s].tmp
                 /\ me.tmp # NoTmp => me.acct = sess[s].acct
    BY <1>7, <1>8
  <1> QED BY <1>1, <1>6, <1>7, <1>9, <1>10, <1>11, SafeWriteShape DEF st

\* Whose account a change of a user changes, as long as it is nobody else's: the
\* asker's, and by himself.
LEMMA OwnAccountOnly ==
    ASSUME RightsAssumption, Typed, Pipeline, SafeNow, UpdateSingleUserInfoReplyHandle,
           ~renamed, ~renamed', NEW u \in Users
    PROVE  \/ table'[u].acct = table[u].acct
           \/ /\ u = Head(stmts).by /\ Renamed(Head(stmts)) /\ table[u].acct = Head(stmts).acct
              /\ table'[u].acct = Head(stmts).change.acct
  <1> DEFINE st == Head(stmts)
             ch == st.change
  <1>1. /\ st \in Message /\ st \in Pending /\ st \in Range(stmts) /\ st.kind = "update"
    <2>1. st.kind = "update"
      BY DEF UpdateSingleUserInfoReplyHandle, MysqlFront
    <2> QED BY <2>1, MysqlStep
  <1>2. \/ UNCHANGED table
        \/ /\ table' = [x \in Users |-> IF x \in Holders(st.acct) THEN Changed(table[x], ch)
                                        ELSE table[x]]
           /\ st.own \/ Holders(st.acct) = {} \/ ch.acct \in {NoAcct, st.acct}
    BY DEF UpdateSingleUserInfoReplyHandle
  <1>3. StmtSafe(st) /\ st.by \in Users
    BY <1>1, PendingTyped DEF SafeNow
  <1> HIDE DEF st, ch
  <1>4. CASE UNCHANGED table
    BY <1>4
  <1>5. CASE u \notin Holders(st.acct)
    BY <1>2, <1>5
  <1>6. CASE u \in Holders(st.acct) /\ table'[u] = Changed(table[u], ch)
             /\ (st.own \/ ch.acct \in {NoAcct, st.acct})
    <2>1. table[u].acct = st.acct
      BY <1>6 DEF Holders
    <2>2. table'[u].acct = IF ch.acct = NoAcct THEN table[u].acct ELSE ch.acct
      BY <1>6 DEF Changed
    <2>3. st.own => u = st.by
      BY <1>1, <1>3, <2>1, OneAdmin DEF StmtSafe
    <2> QED BY <1>6, <2>1, <2>2, <2>3 DEF Renamed, ch, st
  <1> QED BY <1>2, <1>4, <1>5, <1>6

LEMMA SafeUpdate ==
    ASSUME RightsAssumption, Typed, Typed', Pipeline, Snapshot, SafeNow,
           UpdateSingleUserInfoReplyHandle, ~renamed, ~renamed'
    PROVE  SafeNow'
  <1> DEFINE st == Head(stmts)
             ch == st.change
  <1>1. /\ st \in Message /\ st \in Pending /\ st \in Range(stmts) /\ st.kind = "update"
        /\ \E ok \in BOOLEAN : Answer(st, ok) \in Ack /\ Send(st.sock, Answer(st, ok))
    <2>1. st.kind = "update" /\ \E ok \in BOOLEAN : Send(st.sock, Answer(st, ok))
      BY DEF UpdateSingleUserInfoReplyHandle, MysqlFront
    <2>2. st \in Message /\ st \in Pending /\ st \in Range(stmts) /\ \A ok \in BOOLEAN : Answer(st, ok) \in Ack
      BY MysqlStep
    <2> QED BY <2>1, <2>2
  <1>2. \/ UNCHANGED <<table, sess>>
        \/ /\ table' = [u \in Users |-> IF u \in Holders(st.acct) THEN Changed(table[u], ch)
                                        ELSE table[u]]
           /\ st.own \/ Holders(st.acct) = {} \/ ch.acct \in {NoAcct, st.acct}
           /\ sess' = [s \in Socks |-> IF Renamed(st) /\ s \in FirstWith(st.acct)
                                       THEN [sess[s] EXCEPT !.acct = ch.acct] ELSE sess[s]]
    BY DEF UpdateSingleUserInfoReplyHandle
  <1>3. StmtSafe(st) /\ st.by \in Users /\ st.sock \in Socks /\ Awaited(st) /\ sess[st.sock].tmp = NoTmp
    BY <1>1, PendingTyped DEF SafeNow, Pipeline, Snapshot
  <1>4. ch \in Change /\ st.own \in BOOLEAN
    BY <1>1 DEF Message
  <1> HIDE DEF st, ch
  <1>5. \A u \in Users :
           \/ table'[u].acct = table[u].acct
           \/ /\ u = st.by /\ Renamed(st) /\ table[u].acct = st.acct
              /\ table'[u].acct = ch.acct
    BY OwnAccountOnly DEF st, ch
  <1>6. \A u \in Users : RowSafe(u)'
    <2> TAKE u \in Users
    <2>1. RowSafe(u)
      BY DEF SafeNow
    <2>2. CASE table'[u] = table[u]
      BY <2>1, <2>2 DEF RowSafe
    <2>3. CASE u \in Holders(st.acct) /\ table'[u] = Changed(table[u], ch)
      <3>1. CASE ch.ident = 0
        <4>1. table'[u].ident = table[u].ident /\ table'[u].rights = table[u].rights
          BY <2>3, <3>1 DEF Changed
        <4> QED BY <2>1, <4>1 DEF RowSafe
      <3>2. CASE ch.ident # 0
        <4>1. Admin(st.by) /\ st.acct # table[st.by].acct /\ ch.ident \in 1..2
          BY <1>1, <1>3, <3>2 DEF StmtSafe, ch
        <4>2. table'[u].ident = ch.ident /\ table'[u].rights = DefaultRights[ch.ident]
          BY <2>3, <3>2 DEF Changed
        <4>3. ~Admin(u)
          BY <1>3, <2>3, <4>1, OneAdmin DEF Holders
        <4>4. Grant \notin Range(table'[u].rights)
          BY <4>1, <4>2 DEF RightsAssumption
        <4>5. table'[u].ident # 3
          BY <4>1, <4>2
        <4> QED BY <4>3, <4>4, <4>5 DEF RowSafe
      <3> QED BY <3>1, <3>2
    <2> QED BY <1>2, <2>2, <2>3
  <1>7. ASSUME NEW s \in Socks
        PROVE  /\ sess'[s].user = sess[s].user /\ sess'[s].ident = sess[s].ident
               /\ sess'[s].rights = sess[s].rights /\ sess'[s].tmp = sess[s].tmp
               /\ \/ sess'[s].acct = sess[s].acct
                  \/ Renamed(st) /\ s \in FirstWith(st.acct) /\ sess'[s].acct = ch.acct
    <2>1. sess[s] \in Session
      BY DEF Typed
    <2>2. \/ sess'[s] = sess[s]
          \/ /\ Renamed(st) /\ s \in FirstWith(st.acct)
             /\ sess'[s] = [sess[s] EXCEPT !.acct = ch.acct]
      BY <1>2
    <2> QED BY <2>1, <2>2 DEF Session
  <1>8. ASSUME NEW s \in Socks, LoggedIn(s)
        PROVE  /\ sess[s].user \in Users /\ sess[s].acct = table[sess[s].user].acct
               /\ Grant \in Range(sess[s].rights) => Admin(sess[s].user)
    <2>1. sess[s].user \in Users
      BY <1>8, UserOf
    <2> QED BY <1>8, <2>1 DEF SafeNow, SessSafe
  \* Who has an account is logged in, and is the one whose account it is.
  <1>9. ASSUME NEW s \in Socks, sess[s].acct = st.acct, Renamed(st)
        PROVE  s = st.sock /\ LoggedIn(s) /\ sess[s].user = st.by
    <2>1. st.acct \in Accts /\ st.acct = table[st.by].acct
      BY <1>1, <1>3, <1>9 DEF StmtSafe, Renamed, Message
    <2>2. LoggedIn(s)
      <3>1. ~LoggedIn(s) => sess[s].acct = NoAcct
        BY DEF Typed, Nobody
      <3> QED BY <1>9, <2>1, <3>1 DEF RightsAssumption
    <2>3. sess[s].user = st.by
      <3>1. sess[s].user \in Users /\ table[sess[s].user].acct = table[st.by].acct
        BY <1>8, <1>9, <2>1, <2>2
      <3> QED BY <1>3, <3>1, OneAdmin
    <2> QED BY <1>3, <2>2, <2>3 DEF Awaited
  <1>10. ASSUME NEW s \in Socks, LoggedIn(s)
         PROVE  /\ sess'[s].acct = table'[sess'[s].user].acct
                /\ sess'[s].tmp # NoTmp => sess'[s].acct = sess[s].acct
    <2> DEFINE u == sess[s].user
    <2>1. u \in Users /\ sess[s].acct = table[u].acct
      BY <1>8, <1>10
    <2>2. CASE ~Renamed(st) \/ sess[s].acct # st.acct
      <3>1. sess'[s].acct = sess[s].acct
        BY <1>7, <2>2 DEF FirstWith
      <3>2. table'[u].acct = table[u].acct
        BY <1>5, <2>1, <2>2
      <3> QED BY <1>7, <2>1, <3>1, <3>2
    <2>3. CASE Renamed(st) /\ sess[s].acct = st.acct
      <3>1. s = st.sock /\ u = st.by
        BY <1>9, <2>3
      <3>2. s \in FirstWith(st.acct)
        <4>1. \A t \in Socks : sess[t].acct = st.acct => t = s
          BY <1>9, <2>3, <3>1
        <4>2. s <= s
          BY DEF RightsAssumption
        <4> QED BY <2>3, <4>1, <4>2 DEF FirstWith
      <3>3. u \in Holders(st.acct)
        BY <2>1, <2>3 DEF Holders
      <3>4. UNCHANGED <<table, sess>> \/ (sess'[s].acct = ch.acct /\ table'[u].acct = ch.acct)
        <4>1. CASE UNCHANGED <<table, sess>>
          BY <4>1
        <4>2. CASE /\ table'[u] = Changed(table[u], ch)
                   /\ sess'[s] = [sess[s] EXCEPT !.acct = ch.acct]
          <5>1. ch.acct # NoAcct
            BY <2>3 DEF Renamed, ch
          <5>2. table'[u].acct = ch.acct
            BY <4>2, <5>1 DEF Changed
          <5>3. sess'[s].acct = ch.acct
            BY <4>2 DEF Typed, Session
          <5> QED BY <5>2, <5>3
        <4> HIDE DEF u
        <4> QED BY <1>2, <2>1, <2>3, <3>2, <3>3, <4>1, <4>2
      <3>5. sess'[s].tmp = NoTmp /\ sess'[s].user = u
        BY <1>3, <1>7, <3>1
      <3> QED BY <2>1, <3>4, <3>5
    <2> QED BY <2>2, <2>3
  <1>11. PICK a \in Ack : Send(st.sock, a) /\ a.kind # "get"
    BY <1>1 DEF Answer
  <1>12. \A s \in Socks : LoggedIn(s) =>
              LET me == sess'[s]
              IN /\ me.user = sess[s].user /\ me.acct = table'[me.user].acct
                 /\ me.ident = sess[s].ident
                 /\ Grant \in Range(me.rights) => Admin(me.user)
                 /\ me.tmp = sess[s].tmp
                 /\ me.tmp # NoTmp => me.acct = sess[s].acct
    BY <1>7, <1>8, <1>10
  <1>13. \A u \in Users : u # st.by => table'[u].acct = table[u].acct
    BY <1>5
  <1>14. \A s \in Socks : sess'[s].user = sess[s].user
    BY <1>7
  <1> QED BY <1>6, <1>11, <1>12, <1>13, <1>14, SafeWriteShape DEF st

\* Once an account has changed hands it stays so.
LEMMA RenamedStays ==
    ASSUME [Next]_vars, renamed PROVE renamed'
  <1>1. CASE Clients
    BY <1>1 DEF Clients, Login, Leave, AskRights, AskUser, Begin, EditAuthoritChoose,
       EditAuthoritAnswer, UpdateChoose, UpdateAnswer, Take
  <1>2. CASE MsgQueueThread
    BY <1>2 DEF MsgQueueThread, GetAuthoritRecvHandle, EditAuthoritRecvHandle,
       SelectSingleUserInfoRecvHandle, UpdateSingleUserInfoRecvHandle, RecvFront,
       GetAuthoritReplyHandle, EditAuthoritReplyHandle, SelectSingleUserInfoReplyHandle,
       UpdateSingleUserInfoReplyHandle, ExecFault
  <1> QED BY <1>1, <1>2 DEF Next, vars

LEMMA SafeNext ==
    ASSUME RightsAssumption, Typed, Typed', Pipeline, Snapshot, Safe, [Next]_vars PROVE Safe'
  <1> SUFFICES ASSUME ~renamed, ~renamed' PROVE SafeNow'
    BY RenamedStays DEF Safe
  <1>2. SafeNow
    BY DEF Safe
  <1>3. CASE Clients
    BY <1>2, <1>3, SafeClients DEF Clients
  <1>4. CASE MsgQueueThread
    BY <1>2, <1>4, SafeRecv, SafeRead, SafeEdit, SafeUpdate DEF MsgQueueThread
  <1>5. CASE UNCHANGED vars
    <2>1. UNCHANGED <<table, sess, client, queue, stmts, inbox>>
      BY <1>5 DEF vars
    <2> QED BY <1>2, <2>1 DEF SafeNow, RowSafe, SessSafe, AskerSafe, StmtSafe, Pending, LoggedIn
  <1> QED BY <1>3, <1>4, <1>5 DEF Next

------------------------------------------------------------------------------
(* Records and clients follow the rows, until an account changes hands *)

\* The record of a connection, unless somebody else has changed the row.
RecordFollows(s) ==
    LET row == table[sess[s].user]
    IN sess[s].user \notin touched =>
          /\ sess[s].ident = row.ident
          /\ row.rights # <<>> => sess[s].rights = row.rights

\* The client has yet to read that it has a new account.
Renames(s) ==
    /\ inbox[s] # <<>>
    /\ LET ack == Head(inbox[s])
       IN /\ ack.kind = "update" /\ ack.ok
          /\ client[s].acct = ack.acct /\ client[s].change.acct # NoAcct

ClientFollows(s) ==
    table[sess[s].user].acct = IF Renames(s) THEN client[s].change.acct ELSE client[s].acct

\* The rights in strTmpData are those of the row, until they are used.
RightsFresh(s) ==
    LET tmp == sess[s].tmp
    IN tmp.kind = "rights" =>
          /\ Admin(sess[s].user) /\ tmp.user \in Users
          /\ tmp.rights = table[tmp.user].rights

SockFollows(s) == LoggedIn(s) => RecordFollows(s) /\ ClientFollows(s) /\ RightsFresh(s)

\* The client remembers the change it has asked for.
ChangeKnown(m) == m.kind = "update" /\ LoggedIn(m.sock) => client[m.sock].change = m.change

\* What an edit writes back was computed from what the row still is.
EditFresh(m) ==
    m.kind = "edit" =>
        /\ sess[m.sock].tmp = NoTmp
        /\ m.user # NoUser => m.rights = Edited(table[m.user].rights, m.type, m.asked)

FollowsNow ==
    /\ \A s \in Socks : SockFollows(s)
    /\ \A m \in Pending : ChangeKnown(m)
    /\ \A m \in Range(stmts) : EditFresh(m)

Follows == ~renamed => FollowsNow

\* A step of a client: the table and the statements are as they were.
LEMMA FollowsClientShape ==
    ASSUME RightsAssumption, Typed, FollowsNow, NEW s \in Socks, UNCHANGED <<table, stmts>>,
           \A t \in Socks : t # s => UNCHANGED <<sess[t], client[t], inbox[t]>>,
           \A t \in Socks : t # s /\ LoggedIn(t) /\ sess[t].user \notin touched' => sess[t].user \notin touched,
           SockFollows(s)', sess'[s].tmp \in {NoTmp, sess[s].tmp},
           \A m \in Pending : m.sock # s \/ ~LoggedIn(s)',
           \A m \in Range(queue') : m \in Range(queue) \/ ChangeKnown(m)'
    PROVE  FollowsNow'
  <1>1. ASSUME NEW t \in Socks PROVE SockFollows(t)'
    <2>1. CASE t # s
      <3>1. UNCHANGED <<table, sess[t], client[t], inbox[t]>>
        BY <2>1
      <3>2. SockFollows(t) /\ (LoggedIn(t) /\ sess[t].user \notin touched' => sess[t].user \notin touched)
        BY <2>1 DEF FollowsNow
      <3> QED BY <3>1, <3>2 DEF SockFollows, RecordFollows, ClientFollows, RightsFresh, Renames, LoggedIn
    <2> QED BY <2>1
  <1>2. ASSUME NEW m \in Pending PROVE ChangeKnown(m)'
    <2>1. ChangeKnown(m) /\ m.sock \in Socks /\ (m.sock # s \/ ~LoggedIn(s)')
      BY <1>2, PendingTyped DEF FollowsNow
    <2> QED BY <2>1 DEF ChangeKnown, LoggedIn
  <1>3. ASSUME NEW m \in Range(stmts) PROVE EditFresh(m)'
    <2>1. EditFresh(m) /\ m.sock \in Socks
      BY <1>3, PendingTyped DEF FollowsNow, Pending
    <2> QED BY <2>1 DEF EditFresh
  <1>4. \A m \in Pending' : m \in Pending \/ ChangeKnown(m)'
    BY DEF Pending
  <1>5. \A m \in Range(stmts') : EditFresh(m)'
    BY <1>3
  <1> QED BY <1>1, <1>2, <1>4, <1>5 DEF FollowsNow

LEMMA FollowsClients ==
    ASSUME RightsAssumption, Typed, Pipeline, FollowsNow, NEW s \in Socks,
           \/ \E u \in Users : Login(s, u)
           \/ Leave(s) \/ AskRights(s) \/ AskUser(s)
           \/ EditAuthoritChoose(s) \/ EditAuthoritAnswer(s) \/ UpdateChoose(s) \/ UpdateAnswer(s)
    PROVE  FollowsNow'
  <1>0. Typed' /\ SockFollows(s) /\ client[s] \in Client
    BY TypedClients DEF FollowsNow, Typed
  <1>1. ASSUME NEW u \in Users, Login(s, u) PROVE FollowsNow'
    <2>1. /\ sess'[s] = [user |-> u, acct |-> table[u].acct, ident |-> table[u].ident,
                         rights |-> table[u].rights, tmp |-> NoTmp]
          /\ client'[s].acct = table[u].acct
          /\ \A t \in Socks : t # s => sess'[t] = sess[t] /\ client'[t] = client[t]
          /\ UNCHANGED <<table, queue, stmts, inbox>>
      BY <1>1 DEF Login, Typed
    <2>2. inbox[s] = <<>> /\ ~LoggedIn(s)
      BY <1>1 DEF Login, Typed, LoggedIn
    <2>3. NoTmp.kind # "rights"
      BY DEF NoTmp
    <2>4. SockFollows(s)'
      BY <2>1, <2>2, <2>3 DEF SockFollows, RecordFollows, ClientFollows, RightsFresh, Renames
    <2>5. \A m \in Pending : m.sock # s
      <3>1. \A q \in {queue, stmts} : \A m \in Range(q) : LoggedIn(m.sock)
        BY <1>1 DEF Login, Range
      <3> QED BY <2>2, <3>1 DEF Pending
    <2>6. \A t \in Socks : sess[t].user \notin touched' => sess[t].user \notin touched
      BY <1>1 DEF Login
    <2>7. sess'[s].tmp = NoTmp
      BY <2>1
    <2> QED BY <2>1, <2>4, <2>5, <2>6, <2>7, FollowsClientShape
  <1>2. CASE Leave(s)
    <2>1. /\ sess'[s].user = NoUser /\ sess'[s].tmp = NoTmp
          /\ \A t \in Socks : t # s => sess'[t] = sess[t] /\ client'[t] = client[t] /\ inbox'[t] = inbox[t]
          /\ UNCHANGED <<table, queue, stmts, touched>>
      BY <1>2 DEF Leave, Typed, Nobody
    <2>2. ~LoggedIn(s)' /\ SockFollows(s)'
      BY <2>1 DEF SockFollows, LoggedIn
    <2> QED BY <2>1, <2>2, FollowsClientShape
  <1>3. \A m : Request(m) => m \in Message /\ Range(queue') = Range(queue) \cup {m}
    <2>1. queue \in Seq(Message) /\ queue' \in Seq(Message)
      BY <1>0 DEF Typed
    <2> QED BY <2>1, Appended, AppendRange DEF Request
  <1>4. ASSUME NEW m, Begin(s, m), m.kind # "update" PROVE FollowsNow'
    <2>1. /\ Range(queue') = Range(queue) \cup {m} /\ UNCHANGED <<table, sess, stmts, inbox, touched>>
          /\ client' = [client EXCEPT ![s].state = "wait"] /\ client[s].state = "idle"
      BY <1>3, <1>4 DEF Begin
    <2>2. /\ client'[s].acct = client[s].acct /\ client'[s].change = client[s].change
          /\ \A t \in Socks : t # s => client'[t] = client[t]
      BY <1>0, <2>1 DEF Typed, Client
    <2>3. SockFollows(s)'
      BY <1>0, <2>1, <2>2 DEF SockFollows, RecordFollows, ClientFollows, RightsFresh, Renames, LoggedIn
    <2>4. \A n \in Pending : n.sock # s
      BY <2>1 DEF Pipeline, Awaited
    <2>5. \A n \in Range(queue') : n \in Range(queue) \/ ChangeKnown(n)'
      BY <1>4, <2>1 DEF ChangeKnown
    <2> QED BY <2>1, <2>2, <2>3, <2>4, <2>5, FollowsClientShape
  <1>5. \A kind, a : /\ NewMessage(s, kind, a).kind = kind /\ NewMessage(s, kind, a).sock = s
    BY DEF NewMessage
  <1>6. CASE AskRights(s)
    <2>1. PICK a \in Accts, type \in 1..2 : Begin(s, [NewMessage(s, "get", a) EXCEPT !.type = type])
      BY <1>6 DEF AskRights
    <2>2. [NewMessage(s, "get", a) EXCEPT !.type = type].kind = "get"
      BY <1>5 DEF NewMessage
    <2> QED BY <1>4, <2>1, <2>2
  <1>7. CASE AskUser(s)
    <2>1. PICK a \in Accts, keep \in BOOLEAN : Begin(s, [NewMessage(s, "select", a) EXCEPT !.keep = keep])
      BY <1>7 DEF AskUser
    <2>2. [NewMessage(s, "select", a) EXCEPT !.keep = keep].kind = "select"
      BY <1>5 DEF NewMessage
    <2> QED BY <1>4, <2>1, <2>2
  \* An answer is read: the client's account is that of the row.
  <1>8. ASSUME NEW kind, Take(s, kind), LoggedIn(s) => client'[s].acct = table[sess[s].user].acct,
               \A t \in Socks : t # s => client'[t] = client[t],
               \A m \in Range(queue') : m \in Range(queue) \/ ChangeKnown(m)'
        PROVE  FollowsNow'
    <2>1. /\ UNCHANGED <<table, sess, stmts, touched>> /\ inbox'[s] = <<>>
          /\ \A t \in Socks : t # s => inbox'[t] = inbox[t]
          /\ \A m \in Pending : m.sock # s
      BY <1>8, Answered DEF Take
    <2>2. SockFollows(s)'
      BY <1>0, <1>8, <2>1 DEF SockFollows, RecordFollows, ClientFollows, RightsFresh, Renames, LoggedIn
    <2> QED BY <1>8, <2>1, <2>2, FollowsClientShape
  <1>9. ASSUME NEW kind, Take(s, kind), kind # "update"
        PROVE  LoggedIn(s) /\ client[s].acct = table[sess[s].user].acct
    <2>1. LoggedIn(s) /\ Head(inbox[s]).kind # "update"
      BY <1>9, Answered
    <2> QED BY <1>0, <2>1 DEF SockFollows, ClientFollows, Renames
  <1>10. ASSUME NEW kind, Take(s, kind), kind # "update", GiveUp(s) PROVE FollowsNow'
    <2>1. /\ client'[s].acct = client[s].acct /\ \A t \in Socks : t # s => client'[t] = client[t]
          /\ UNCHANGED queue
      BY <1>0, <1>10 DEF GiveUp, Typed, Client
    <2> QED BY <1>8, <1>9, <1>10, <2>1
  <1>11. CASE EditAuthoritChoose(s)
    <2> DEFINE ack == Head(inbox[s])
               msg(asked) == [NewMessage(s, "edit", ack.acct) EXCEPT !.type = ack.type, !.asked = asked]
    <2>1. CASE GiveUp(s)
      BY <1>10, <1>11, <2>1 DEF EditAuthoritChoose
    <2>2. ASSUME NEW asked, Request(msg(asked)), UNCHANGED client PROVE FollowsNow'
      <3>1. msg(asked).kind = "edit"
        BY <1>5 DEF NewMessage
      <3> HIDE DEF msg
      <3>2. \A m \in Range(queue') : m \in Range(queue) \/ ChangeKnown(m)'
        BY <1>3, <2>2, <3>1 DEF ChangeKnown
      <3>3. Take(s, "get")
        BY <1>11 DEF EditAuthoritChoose
      <3> QED BY <1>8, <1>9, <2>2, <3>2, <3>3
    <2> QED BY <1>11, <2>1, <2>2 DEF EditAuthoritChoose
  <1>12. CASE UpdateChoose(s)
    <2> DEFINE ack == Head(inbox[s])
               msg(change) == [NewMessage(s, "update", ack.acct) EXCEPT !.change = change]
    <2>1. CASE GiveUp(s)
      BY <1>10, <1>12, <2>1 DEF UpdateChoose
    <2>2. ASSUME NEW change, Request(msg(change)), client' = [client EXCEPT ![s].change = change]
          PROVE  FollowsNow'
      <3>1. msg(change).sock = s /\ msg(change).change = change
        BY <1>5 DEF NewMessage
      <3>2. /\ client'[s].acct = client[s].acct /\ client'[s].change = change
            /\ \A t \in Socks : t # s => client'[t] = client[t]
        BY <1>0, <2>2 DEF Typed, Client
      <3> HIDE DEF msg
      <3>3. \A m \in Range(queue') : m \in Range(queue) \/ ChangeKnown(m)'
        BY <1>3, <2>2, <3>1, <3>2 DEF ChangeKnown
      <3>4. Take(s, "select")
        BY <1>12 DEF UpdateChoose
      <3> QED BY <1>8, <1>9, <3>2, <3>3, <3>4
    <2> QED BY <1>12, <2>1, <2>2 DEF UpdateChoose
  <1>13. CASE UpdateAnswer(s)
    <2> DEFINE ack == Head(inbox[s])
    <2>1. Take(s, "update") /\ UNCHANGED queue
      BY <1>13 DEF UpdateAnswer
    <2>2. /\ client'[s].acct = IF ack.ok /\ client[s].acct = ack.acct /\ client[s].change.acct # NoAcct
                               THEN client[s].change.acct ELSE client[s].acct
          /\ \A t \in Socks : t # s => client'[t] = client[t]
      BY <1>0, <1>13 DEF UpdateAnswer, Typed, Client
    <2>3. inbox[s] # <<>> /\ ack.kind = "update"
      BY <2>1 DEF Take
    <2>4. LoggedIn(s) => client'[s].acct = table[sess[s].user].acct
      BY <1>0, <2>2, <2>3 DEF SockFollows, ClientFollows, Renames
    <2> QED BY <1>8, <2>1, <2>2, <2>4
  <1> QED BY <1>1, <1>2, <1>6, <1>7, <1>10, <1>11, <1>12, <1>13 DEF EditAuthoritAnswer

\* A step of the queue thread that changes no row: a record keeps its account, identity
\* and rights, and what it has in strTmpData is fresh.
LEMMA FollowsReadShape ==
    ASSUME RightsAssumption, Typed, Pipeline, FollowsNow, NEW m \in Pending,
           UNCHANGED <<table, client, touched>>,
           \A s \in Socks : /\ sess'[s].user = sess[s].user
                            /\ sess'[s].ident = sess[s].ident /\ sess'[s].rights = sess[s].rights
                            /\ LoggedIn(s) => sess'[s].tmp \in {NoTmp, sess[s].tmp} \/ RightsFresh(s)',
           \/ UNCHANGED inbox
           \/ \E a \in Ack : Send(m.sock, a) /\ (a.ok => a.kind # "update"),
           \A n \in Pending' : n \in Pending \/ ChangeKnown(n)',
           \A n \in Range(stmts') : EditFresh(n)'
    PROVE  FollowsNow'
  <1>1. ASSUME NEW s \in Socks, LoggedIn(s)
        PROVE  /\ UNCHANGED <<client[s], table[sess[s].user]>>
               /\ ClientFollows(s)' /\ RecordFollows(s)' /\ RightsFresh(s)'
    <2>1. SockFollows(s) /\ UNCHANGED <<table, client, touched>> /\ sess'[s].user = sess[s].user
      BY DEF FollowsNow
    <2>2. RecordFollows(s)'
      BY <1>1, <2>1 DEF SockFollows, RecordFollows
    <2>3. ClientFollows(s)'
      <3>1. CASE inbox'[s] = inbox[s]
        BY <1>1, <2>1, <3>1 DEF SockFollows, ClientFollows, Renames
      <3>2. ASSUME NEW a \in Ack, Send(m.sock, a), a.ok => a.kind # "update", s = m.sock,
                   Head(inbox'[s]) = a
            PROVE  ClientFollows(s)'
        <4>1. inbox[s] = <<>>
          BY <3>2 DEF Pipeline, Awaited
        <4> QED BY <1>1, <2>1, <3>2, <4>1 DEF SockFollows, ClientFollows, Renames
      <3>3. CASE UNCHANGED inbox
        BY <3>1, <3>3
      <3>4. ASSUME NEW a \in Ack, Send(m.sock, a), a.ok => a.kind # "update" PROVE ClientFollows(s)'
        BY <3>1, <3>2, <3>4, SendOne
      <3> QED BY <3>3, <3>4
    <2>4. RightsFresh(s)'
      <3>1. NoTmp.kind # "rights"
        BY DEF NoTmp
      <3>2. sess'[s].tmp \in {NoTmp, sess[s].tmp} \/ RightsFresh(s)'
        BY <1>1
      <3>3. CASE sess'[s].tmp = NoTmp
        BY <3>1, <3>3 DEF RightsFresh
      <3>4. CASE sess'[s].tmp = sess[s].tmp
        BY <1>1, <2>1, <3>4 DEF SockFollows, RightsFresh
      <3> QED BY <3>2, <3>3, <3>4
    <2> QED BY <2>1, <2>2, <2>3, <2>4
  <1>2. ASSUME NEW s \in Socks PROVE SockFollows(s)'
    <2>1. LoggedIn(s)' => LoggedIn(s)
      BY DEF LoggedIn
    <2> QED BY <1>1, <2>1 DEF SockFollows
  <1>3. ASSUME NEW n \in Pending PROVE ChangeKnown(n)'
    <2>1. ChangeKnown(n) /\ n.sock \in Socks
      BY <1>3, PendingTyped DEF FollowsNow
    <2> QED BY <2>1 DEF ChangeKnown, LoggedIn
  <1> QED BY <1>2, <1>3 DEF FollowsNow

LEMMA FollowsRecv ==
    ASSUME RightsAssumption, Typed, Pipeline, Snapshot, FollowsNow,
           \/ GetAuthoritRecvHandle \/ EditAuthoritRecvHandle
           \/ SelectSingleUserInfoRecvHandle \/ UpdateSingleUserInfoRecvHandle
    PROVE  FollowsNow'
  <1> DEFINE r == Head(queue)
             tmp == sess[r.sock].tmp
  <1>1. /\ r \in Message /\ r \in Pending /\ r \in Range(queue) /\ r.sock \in Socks
        /\ Range(queue') \subseteq Range(queue) /\ UNCHANGED <<table, client>>
        /\ \A n \in Range(stmts) : n.sock # r.sock
    BY RecvStep
  <1>2. Typed' /\ RequestFits(tmp, r) /\ ChangeKnown(r) /\ SockFollows(r.sock)
    BY <1>1, TypedRecv DEF Snapshot, FollowsNow
  <1>3. \A m : stmts' = Append(stmts, m) => Range(stmts') = Range(stmts) \cup {m}
    <2>1. stmts \in Seq(Message) /\ stmts' \in Seq(Message)
      BY <1>2 DEF Typed
    <2> QED BY <2>1, Appended, AppendRange
  <1>4. UNCHANGED touched
    BY DEF GetAuthoritRecvHandle, EditAuthoritRecvHandle,
       SelectSingleUserInfoRecvHandle, UpdateSingleUserInfoRecvHandle, RecvFront
  <1>5. \A s \in Socks : ~LoggedIn(s) => sess[s].tmp = NoTmp
    BY DEF Typed, Nobody
  <1> HIDE DEF r, tmp
  <1>6. ASSUME SetTmp(r.sock, NoTmp) \/ UNCHANGED sess
        PROVE  /\ \A s \in Socks :
                    /\ sess'[s].user = sess[s].user
                    /\ sess'[s].ident = sess[s].ident /\ sess'[s].rights = sess[s].rights
                    /\ sess'[s].tmp \in {NoTmp, sess[s].tmp}
               /\ SetTmp(r.sock, NoTmp) => sess'[r.sock].tmp = NoTmp
    <2>1. CASE UNCHANGED sess /\ ~SetTmp(r.sock, NoTmp)
      <3>1. \A s \in Socks : sess'[s] = sess[s]
        BY <2>1
      <3> QED BY <2>1, <3>1
    <2>2. CASE SetTmp(r.sock, NoTmp)
      BY <1>1, <2>2, SetTmpEmpty, SetTmpTo
    <2> QED BY <1>6, <2>1, <2>2
  <1>7. ASSUME SetTmp(r.sock, NoTmp) \/ UNCHANGED sess, NEW n \in Range(stmts) PROVE EditFresh(n)'
    <2>1. EditFresh(n) /\ n.sock \in Socks
      BY <1>7, PendingTyped DEF FollowsNow, Pending
    <2>2. sess'[n.sock].tmp \in {NoTmp, sess[n.sock].tmp}
      BY <1>6, <1>7, <2>1
    <2> QED BY <1>1, <2>1, <2>2 DEF EditFresh
  <1>8. ASSUME SetTmp(r.sock, NoTmp) \/ UNCHANGED sess, UNCHANGED inbox,
               NEW m, stmts' = Append(stmts, m),
               m.kind = r.kind, m.sock = r.sock, m.change = r.change, EditFresh(m)'
        PROVE  FollowsNow'
    <2>1. Range(stmts') = Range(stmts) \cup {m}
      BY <1>3, <1>8
    <2>2. sess'[r.sock].user = sess[r.sock].user
      BY <1>1, <1>6, <1>8
    <2>3. ChangeKnown(m)'
      BY <1>1, <1>2, <1>8, <2>2 DEF ChangeKnown, LoggedIn
    <2>4. \A n \in Pending' : n \in Pending \/ ChangeKnown(n)'
      BY <1>1, <2>1, <2>3 DEF Pending
    <2>5. \A n \in Range(stmts') : EditFresh(n)'
      BY <1>7, <1>8, <2>1
    <2> QED BY <1>1, <1>4, <1>6, <1>8, <2>4, <2>5, FollowsReadShape
  <1>9. ASSUME SetTmp(r.sock, NoTmp), UNCHANGED stmts, Send(r.sock, Answer(r, FALSE)) PROVE FollowsNow'
    <2>1. Answer(r, FALSE) \in Ack /\ ~Answer(r, FALSE).ok
      BY <1>1, AnswerTyped DEF Answer
    <2>2. \A n \in Pending' : n \in Pending
      BY <1>1, <1>9 DEF Pending
    <2>3. \A n \in Range(stmts') : EditFresh(n)'
      BY <1>7, <1>9
    <2> QED BY <1>1, <1>4, <1>6, <1>9, <2>1, <2>2, <2>3, FollowsReadShape
  <1>10. CASE GetAuthoritRecvHandle
    <2>1. UNCHANGED <<sess, inbox>> /\ stmts' = Append(stmts, r) /\ r.kind = "get"
      BY <1>10 DEF GetAuthoritRecvHandle, RecvFront, r
    <2> QED BY <1>8, <2>1 DEF EditFresh
  <1>11. CASE SelectSingleUserInfoRecvHandle
    <2>1. UNCHANGED inbox /\ stmts' = Append(stmts, r) /\ r.kind = "select"
          /\ (SetTmp(r.sock, NoTmp) \/ UNCHANGED sess)
      BY <1>11 DEF SelectSingleUserInfoRecvHandle, RecvFront, r
    <2> QED BY <1>8, <2>1 DEF EditFresh
  <1>12. CASE EditAuthoritRecvHandle
    <2> DEFINE new == [r EXCEPT !.rights = Edited(tmp.rights, r.type, r.asked), !.user = tmp.user]
    <2>1. SetTmp(r.sock, NoTmp) /\ r.kind = "edit"
      BY <1>12 DEF EditAuthoritRecvHandle, RecvFront, r
    <2>2. ASSUME stmts' = Append(stmts, new), UNCHANGED inbox PROVE FollowsNow'
      <3>1. /\ new.kind = "edit" /\ new.sock = r.sock /\ new.change = r.change /\ new.type = r.type
            /\ new.asked = r.asked /\ new.user = tmp.user
            /\ new.rights = Edited(tmp.rights, r.type, r.asked)
        BY <1>1, <2>1 DEF Message
      <3> HIDE DEF new
      <3>2. tmp.user # NoUser => tmp.rights = table[tmp.user].rights
        <4>1. tmp.user # NoUser => tmp.kind = "rights" /\ LoggedIn(r.sock)
          <5>1. NoTmp.user = NoUser
            BY DEF NoTmp
          <5>2. tmp = NoTmp \/ tmp.kind = "rights"
            BY <1>2, <2>1 DEF RequestFits, Fits
          <5>3. ~LoggedIn(r.sock) => tmp = NoTmp
            BY <1>1, <1>5 DEF tmp
          <5> QED BY <5>1, <5>2, <5>3
        <4> QED BY <1>2, <4>1 DEF SockFollows, RightsFresh, tmp
      <3>3. sess'[r.sock].tmp = NoTmp
        BY <1>6, <2>1
      <3>4. PICK m : m = new
        OBVIOUS
      <3>5. m.user # NoUser => m.rights = Edited(table[m.user].rights, m.type, m.asked)
        BY <3>1, <3>2, <3>4
      <3>6. EditFresh(m)'
        BY <1>1, <3>1, <3>3, <3>4, <3>5 DEF EditFresh
      <3> QED BY <1>8, <2>1, <2>2, <3>1, <3>4, <3>6
    <2>3. CASE Send(r.sock, Answer(r, FALSE)) /\ UNCHANGED stmts
      BY <1>9, <2>1, <2>3
    <2> QED BY <1>12, <2>2, <2>3 DEF EditAuthoritRecvHandle, r, tmp
  <1>13. CASE UpdateSingleUserInfoRecvHandle
    <2>1. SetTmp(r.sock, NoTmp) /\ r.kind = "update"
      BY <1>13 DEF UpdateSingleUserInfoRecvHandle, RecvFront, r
    <2>2. ASSUME NEW own, stmts' = Append(stmts, [r EXCEPT !.own = own]), UNCHANGED inbox
          PROVE  FollowsNow'
      <3> DEFINE new == [r EXCEPT !.own = own]
      <3>1. new.kind = "update" /\ new.sock = r.sock /\ new.change = r.change
        BY <1>1, <2>1 DEF Message
      <3> HIDE DEF new
      <3>2. PICK m : m = new
        OBVIOUS
      <3>3. EditFresh(m)' /\ stmts' = Append(stmts, m)
        BY <2>2, <3>1, <3>2 DEF EditFresh, new
      <3> QED BY <1>8, <2>1, <2>2, <3>1, <3>2, <3>3
    <2>3. CASE Send(r.sock, Answer(r, FALSE)) /\ UNCHANGED stmts
      BY <1>9, <2>1, <2>3
    <2> QED BY <1>13, <2>2, <2>3 DEF UpdateSingleUserInfoRecvHandle, r
  <1> QED BY <1>10, <1>11, <1>12, <1>13

LEMMA FollowsRead ==
    ASSUME RightsAssumption, Typed, Pipeline, SafeNow, FollowsNow,
           GetAuthoritReplyHandle \/ SelectSingleUserInfoReplyHandle \/ ExecFault
    PROVE  FollowsNow'
  <1> DEFINE st == Head(stmts)
  <1>1. /\ st \in Message /\ st \in Pending /\ st.sock \in Socks
        /\ Range(stmts') \subseteq Range(stmts) /\ UNCHANGED <<queue, client>>
        /\ \A n \in Range(stmts') : n.sock # st.sock
    BY MysqlStep DEF Apart
  <1>2. /\ \A ok \in BOOLEAN : Answer(st, ok) \in Ack
        /\ \A u \in Users :
              /\ [Answer(st, TRUE) EXCEPT !.list = Listed(table[u].rights, st.type)] \in Ack
              /\ [Answer(st, TRUE) EXCEPT !.ident = table[u].ident] \in Ack
    BY MysqlStep
  <1>3. UNCHANGED <<table, touched>> /\ Holders(st.acct) \subseteq Users
    BY DEF GetAuthoritReplyHandle, SelectSingleUserInfoReplyHandle, ExecFault, Holders
  <1>4. Awaited(st) /\ AskerSafe(st)
    BY <1>1 DEF Pipeline, SafeNow
  <1>5. ASSUME NEW a \in Ack, Send(st.sock, a), a.ok => a.kind # "update",
               NEW v, UNCHANGED sess \/ SetTmp(st.sock, v),
               LoggedIn(st.sock) /\ v.kind = "rights" =>
                  Admin(sess[st.sock].user) /\ v.user \in Users /\ v.rights = table[v.user].rights
        PROVE  FollowsNow'
    <2> HIDE DEF st
    <2>1. /\ \A t \in Socks : /\ sess'[t].user = sess[t].user
                              /\ sess'[t].ident = sess[t].ident /\ sess'[t].rights = sess[t].rights
                              /\ t # st.sock => sess'[t] = sess[t]
          /\ LoggedIn(st.sock) => sess'[st.sock].tmp \in {v, sess[st.sock].tmp}
      <3>1. CASE UNCHANGED sess
        <4>1. \A t \in Socks : sess'[t] = sess[t]
          BY <3>1
        <4> QED BY <1>1, <4>1
      <3>2. CASE SetTmp(st.sock, v)
        <4>1. sess[st.sock] \in Session
          BY <1>1 DEF Typed
        <4>2. \A t \in Socks : t # st.sock => sess'[t] = sess[t]
          BY <1>1, <3>2, SetTmpTo
        <4>3. sess' = sess \/ sess'[st.sock] = [sess[st.sock] EXCEPT !.tmp = v]
          BY <1>1, <3>2 DEF SetTmp, Typed
        <4>4. CASE sess' = sess
          BY <1>1, <4>4
        <4>5. CASE sess'[st.sock] = [sess[st.sock] EXCEPT !.tmp = v]
          <5>1. /\ sess'[st.sock].user = sess[st.sock].user
                /\ sess'[st.sock].ident = sess[st.sock].ident
                /\ sess'[st.sock].rights = sess[st.sock].rights /\ sess'[st.sock].tmp = v
            BY <4>1, <4>5 DEF Session
          <5> QED BY <4>2, <5>1
        <4> QED BY <4>3, <4>4, <4>5
      <3> QED BY <1>5, <3>1, <3>2
    <2>2. ASSUME NEW s \in Socks, LoggedIn(s)
          PROVE  sess'[s].tmp \in {NoTmp, sess[s].tmp} \/ RightsFresh(s)'
      <3>1. CASE s # st.sock
        BY <2>1, <3>1
      <3>2. CASE s = st.sock /\ sess'[s].tmp = v
        BY <1>3, <1>5, <2>1, <2>2, <3>2 DEF RightsFresh
      <3> QED BY <2>1, <2>2, <3>1, <3>2
    <2>3. ASSUME NEW n \in Range(stmts') PROVE EditFresh(n)'
      <3>1. EditFresh(n) /\ n.sock \in Socks /\ n.sock # st.sock
        BY <1>1, PendingTyped DEF FollowsNow, Pending
      <3>2. sess'[n.sock] = sess[n.sock] /\ UNCHANGED table
        BY <1>3, <2>1, <3>1
      <3> QED BY <3>1, <3>2 DEF EditFresh
    <2>4. \A n \in Pending' : n \in Pending
      BY <1>1 DEF Pending
    <2> QED BY <1>1, <1>3, <1>5, <2>1, <2>2, <2>3, <2>4, FollowsReadShape
  <1>6. ASSUME UNCHANGED sess, Send(st.sock, Answer(st, FALSE)) PROVE FollowsNow'
    <2>1. Answer(st, FALSE) \in Ack /\ ~Answer(st, FALSE).ok
      BY <1>2 DEF Answer
    <2>2. NoTmp.kind # "rights"
      BY DEF NoTmp
    <2> HIDE DEF st
    <2> QED BY <1>5, <1>6, <2>1, <2>2
  <1>7. CASE GetAuthoritReplyHandle
    <2>0. st.kind = "get"
      BY <1>7 DEF GetAuthoritReplyHandle, MysqlFront
    <2>1. CASE UNCHANGED sess /\ Send(st.sock, Answer(st, FALSE))
      BY <1>6, <2>1
    <2>2. ASSUME NEW u \in Users, SetTmp(st.sock, Kept(st, u)),
                 Send(st.sock, [Answer(st, TRUE) EXCEPT !.list = Listed(table[u].rights, st.type)])
          PROVE  FollowsNow'
      <3> DEFINE a == [Answer(st, TRUE) EXCEPT !.list = Listed(table[u].rights, st.type)]
                 v == Kept(st, u)
      <3>1. a \in Ack /\ a.kind = "get"
        BY <1>2, <2>0 DEF Answer
      <3>2. v.kind = "rights" => v.user = u /\ v.rights = table[u].rights
        BY DEF Kept, NoTmp
      <3>3. LoggedIn(st.sock) => Admin(sess[st.sock].user)
        BY <1>4, <2>0 DEF Awaited, AskerSafe
      <3> HIDE DEF st, a, v
      <3> QED BY <1>5, <2>2, <3>1, <3>2, <3>3 DEF a, v
    <2> QED BY <1>3, <1>7, <2>1, <2>2 DEF GetAuthoritReplyHandle
  <1>8. CASE SelectSingleUserInfoReplyHandle
    <2>0. st.kind = "select"
      BY <1>8 DEF SelectSingleUserInfoReplyHandle, MysqlFront
    <2>1. CASE UNCHANGED sess /\ Send(st.sock, Answer(st, FALSE))
      BY <1>6, <2>1
    <2>2. ASSUME NEW u \in Users,
                 \/ SetTmp(st.sock, [NoTmp EXCEPT !.kind = "user", !.ident = table[u].ident,
                                                  !.acct = st.acct, !.user = u])
                 \/ UNCHANGED sess,
                 Send(st.sock, [Answer(st, TRUE) EXCEPT !.ident = table[u].ident])
          PROVE  FollowsNow'
      <3> DEFINE a == [Answer(st, TRUE) EXCEPT !.ident = table[u].ident]
                 v == [NoTmp EXCEPT !.kind = "user", !.ident = table[u].ident,
                                    !.acct = st.acct, !.user = u]
      <3>1. a \in Ack /\ a.kind = "select"
        BY <1>2, <2>0 DEF Answer
      <3>2. v.kind = "user"
        BY DEF NoTmp
      <3> HIDE DEF st, a, v
      <3> QED BY <1>5, <2>2, <3>1, <3>2 DEF a, v
    <2> QED BY <1>3, <1>8, <2>1, <2>2 DEF SelectSingleUserInfoReplyHandle
  <1>9. CASE ExecFault
    <2>1. UNCHANGED sess /\ Send(st.sock, Answer(st, FALSE))
      BY <1>9 DEF ExecFault
    <2> QED BY <1>6, <2>1
  <1> QED BY <1>7, <1>8, <1>9

\* The record that goes by the account of a user's row is his, and he has only one.
LEMMA RecordOfRow ==
    ASSUME RightsAssumption, Typed, Pipeline, SafeNow, NEW s \in Socks, LoggedIn(s), NEW a \in Accts
    PROVE  /\ sess[s].user \in Users /\ sess[s].acct = table[sess[s].user].acct
           /\ sess[s].user \in Holders(a) <=> s \in FirstWith(a)
  <1>1. sess[s].user \in Users
    BY UserOf
  <1>2. sess[s].acct = table[sess[s].user].acct
    BY <1>1 DEF SafeNow, SessSafe
  <1>3. ASSUME sess[s].acct = a PROVE s \in FirstWith(a)
    <2>1. ASSUME NEW t \in Socks, sess[t].acct = a PROVE t = s
      <3>1. LoggedIn(t)
        <4>1. ~LoggedIn(t) => sess[t].acct = NoAcct
          BY DEF Typed, Nobody
        <4> QED BY <2>1, <4>1 DEF RightsAssumption
      <3>2. sess[t].user \in Users
        BY <3>1, UserOf
      <3>3. table[sess[t].user].acct = table[sess[s].user].acct
        BY <1>2, <1>3, <2>1, <3>1, <3>2 DEF SafeNow, SessSafe
      <3>4. sess[t].user = sess[s].user
        BY <1>1, <3>2, <3>3, OneAdmin
      <3> QED BY <3>1, <3>4 DEF Pipeline
    <2>2. s <= s
      BY DEF RightsAssumption
    <2> QED BY <1>3, <2>1, <2>2 DEF FirstWith
  <1>4. s \in FirstWith(a) => sess[s].acct = a
    BY DEF FirstWith
  <1> QED BY <1>1, <1>2, <1>3, <1>4 DEF Holders

LEMMA FollowsEdit ==
    ASSUME RightsAssumption, Typed, Pipeline, SafeNow, FollowsNow, EditAuthoritReplyHandle
    PROVE  FollowsNow'
  <1> DEFINE st == Head(stmts)
  <1>1. /\ st \in Message /\ st \in Pending /\ st \in Range(stmts) /\ st.kind = "edit" /\ st.sock \in Socks
        /\ Range(stmts') \subseteq Range(stmts) /\ UNCHANGED <<queue, client>>
        /\ \A n \in Range(stmts') : n.by # st.by
        /\ Answer(st, st.rights # <<>>) \in Ack /\ Send(st.sock, Answer(st, st.rights # <<>>))
    <2>1. st.kind = "edit" /\ Send(st.sock, Answer(st, st.rights # <<>>))
      BY DEF EditAuthoritReplyHandle, MysqlFront
    <2>2. (st.rights # <<>>) \in BOOLEAN
      OBVIOUS
    <2> QED BY <2>1, <2>2, MysqlStep DEF Apart
  <1>2. /\ table' = [u \in Users |-> IF u \in Holders(st.acct)
                                     THEN [table[u] EXCEPT !.rights = st.rights] ELSE table[u]]
        /\ sess' = [s \in Socks |-> IF st.rights # <<>> /\ s \in FirstWith(st.acct)
                                    THEN [sess[s] EXCEPT !.rights = st.rights] ELSE sess[s]]
        /\ UNCHANGED touched
    BY DEF EditAuthoritReplyHandle
  <1>3. /\ Admin(st.by) /\ st.by \in Users /\ Awaited(st) /\ sess[st.sock].tmp = NoTmp
        /\ st.acct \in Accts
    BY <1>1, PendingTyped DEF SafeNow, AskerSafe, Pipeline, FollowsNow, EditFresh, Message
  <1>4. Answer(st, st.rights # <<>>).kind = "edit"
    BY <1>1 DEF Answer
  <1> HIDE DEF st
  <1>5. ASSUME NEW u \in Users
        PROVE  /\ table'[u].acct = table[u].acct /\ table'[u].ident = table[u].ident
               /\ table'[u].rights = IF u \in Holders(st.acct) THEN st.rights ELSE table[u].rights
    <2>1. table[u] \in Row
      BY DEF Typed
    <2> QED BY <1>2, <2>1 DEF Row
  <1>6. ASSUME NEW s \in Socks
        PROVE  /\ sess'[s].user = sess[s].user /\ sess'[s].ident = sess[s].ident
               /\ sess'[s].tmp = sess[s].tmp
               /\ sess'[s].rights = IF st.rights # <<>> /\ s \in FirstWith(st.acct)
                                    THEN st.rights ELSE sess[s].rights
    <2>1. sess[s] \in Session
      BY DEF Typed
    <2> QED BY <1>2, <2>1 DEF Session
  <1>7. ASSUME NEW s \in Socks PROVE SockFollows(s)'
    <2> SUFFICES ASSUME LoggedIn(s) PROVE RecordFollows(s)' /\ ClientFollows(s)' /\ RightsFresh(s)'
      BY <1>6 DEF SockFollows, LoggedIn
    <2>1. /\ sess[s].user \in Users /\ SockFollows(s)
          /\ sess[s].user \in Holders(st.acct) <=> s \in FirstWith(st.acct)
      BY <1>3, RecordOfRow DEF FollowsNow
    <2>2. RecordFollows(s)'
      <3>1. CASE sess[s].user \in Holders(st.acct)
        BY <1>2, <1>5, <1>6, <2>1, <3>1 DEF SockFollows, RecordFollows
      <3>2. CASE sess[s].user \notin Holders(st.acct)
        BY <1>2, <1>5, <1>6, <2>1, <3>2 DEF SockFollows, RecordFollows
      <3> QED BY <3>1, <3>2
    <2>3. ClientFollows(s)'
      <3>1. table'[sess'[s].user].acct = table[sess[s].user].acct /\ UNCHANGED client
        BY <1>1, <1>5, <1>6, <2>1
      <3>2. \/ inbox'[s] = inbox[s]
            \/ inbox[s] = <<>> /\ Head(inbox'[s]).kind = "edit"
        <4>1. \/ inbox'[s] = inbox[s]
              \/ s = st.sock /\ Head(inbox'[s]) = Answer(st, st.rights # <<>>)
          BY <1>1, SendOne
        <4> QED BY <1>3, <1>4, <4>1 DEF Awaited
      <3> QED BY <2>1, <3>1, <3>2 DEF SockFollows, ClientFollows, Renames
    \* The administrator has asked for this change, so his strTmpData is empty.
    <2>4. RightsFresh(s)'
      <3>1. sess[s].tmp.kind = "rights" => sess[s].user = st.by
        BY <1>3, <2>1, OneAdmin DEF SockFollows, RightsFresh
      <3>2. sess[s].tmp.kind # "rights"
        <4>1. NoTmp.kind # "rights"
          BY DEF NoTmp
        <4> QED BY <1>3, <3>1, <4>1 DEF Awaited
      <3> QED BY <1>6, <3>2 DEF RightsFresh
    <2> QED BY <2>2, <2>3, <2>4
  <1>8. ASSUME NEW n \in Range(stmts') PROVE EditFresh(n)'
    <2>1. n \in Pending /\ n.by \in Users /\ AskerSafe(n) /\ n.by # st.by
      BY <1>1, PendingTyped DEF Pending, SafeNow
    <2>2. n.kind # "edit"
      BY <1>3, <2>1, OneAdmin DEF AskerSafe
    <2> QED BY <2>2 DEF EditFresh
  <1>9. ASSUME NEW n \in Pending' PROVE ChangeKnown(n)'
    <2>1. n \in Pending
      BY <1>1 DEF Pending
    <2>2. ChangeKnown(n) /\ n.sock \in Socks
      BY <2>1, PendingTyped DEF FollowsNow
    <2> QED BY <1>1, <1>6, <2>2 DEF ChangeKnown, LoggedIn
  <1> QED BY <1>7, <1>8, <1>9 DEF FollowsNow

LEMMA FollowsUpdate ==
    ASSUME RightsAssumption, Typed, Pipeline, Snapshot, SafeNow, FollowsNow,
           UpdateSingleUserInfoReplyHandle, ~renamed, ~renamed'
    PROVE  FollowsNow'
  <1> DEFINE st == Head(stmts)
             ch == st.change
  <1>1. /\ st \in Message /\ st \in Pending /\ st \in Range(stmts) /\ st.kind = "update" /\ st.sock \in Socks
        /\ Range(stmts') \subseteq Range(stmts) /\ UNCHANGED <<queue, client>>
        /\ \A n \in Range(stmts') : n.by # st.by /\ n.sock # st.sock
    <2>1. st.kind = "update"
      BY DEF UpdateSingleUserInfoReplyHandle, MysqlFront
    <2> QED BY <2>1, MysqlStep DEF Apart
  <1>2. \/ UNCHANGED <<table, sess, touched>> /\ Send(st.sock, Answer(st, FALSE))
        \/ /\ table' = [u \in Users |-> IF u \in Holders(st.acct) THEN Changed(table[u], ch)
                                        ELSE table[u]]
           /\ touched' = IF st.own \/ ch = NoChange THEN touched ELSE touched \cup Holders(st.acct)
           /\ sess' = [s \in Socks |-> IF Renamed(st) /\ s \in FirstWith(st.acct)
                                       THEN [sess[s] EXCEPT !.acct = ch.acct] ELSE sess[s]]
           /\ Send(st.sock, Answer(st, TRUE))
    BY DEF UpdateSingleUserInfoReplyHandle
  <1>3. /\ StmtSafe(st) /\ ChangeKnown(st) /\ st.by \in Users /\ Awaited(st)
        /\ sess[st.sock].tmp = NoTmp /\ st.acct \in Accts
    BY <1>1, PendingTyped DEF SafeNow, Pipeline, FollowsNow, Snapshot, Message
  <1>4. \A ok \in BOOLEAN : /\ Answer(st, ok) \in Ack /\ Answer(st, ok).kind = "update"
                            /\ Answer(st, ok).ok = ok /\ Answer(st, ok).acct = st.acct
    BY <1>1, AnswerTyped DEF Answer
  <1>5. \A u \in Users : \/ table'[u].acct = table[u].acct
                         \/ u = st.by /\ table[u].acct = st.acct /\ table'[u].acct = ch.acct
    BY OwnAccountOnly
  <1>6. NoChange.ident = 0 /\ NoTmp.kind # "rights"
    BY DEF NoChange, NoTmp
  <1> HIDE DEF st, ch
  \* A change of the identity is the administrator's, and of somebody else.
  <1>7. ASSUME NEW u \in Users, ch.ident = 0
        PROVE  table'[u].ident = table[u].ident /\ table'[u].rights = table[u].rights
    <2>1. table'[u] = table[u] \/ table'[u] = Changed(table[u], ch)
      BY <1>2
    <2>2. CASE table'[u] = Changed(table[u], ch)
      <3> DEFINE t == table[u]
      <3>1. t \in Row
        BY DEF Typed
      <3>2. Changed(t, ch).ident = t.ident /\ Changed(t, ch).rights = t.rights
        <4> HIDE DEF t
        <4> QED BY <1>7, <3>1 DEF Changed
      <3> QED BY <2>2, <3>2
    <2> QED BY <2>1, <2>2
  <1>8. ch.ident # 0 => Admin(st.by)
    BY <1>1, <1>3 DEF StmtSafe, ch
  <1>9. ASSUME NEW s \in Socks
        PROVE  /\ sess'[s].user = sess[s].user /\ sess'[s].ident = sess[s].ident
               /\ sess'[s].tmp = sess[s].tmp /\ sess'[s].rights = sess[s].rights
    <2>1. sess[s] \in Session
      BY DEF Typed
    <2>2. sess'[s] = sess[s] \/ sess'[s] = [sess[s] EXCEPT !.acct = ch.acct]
      BY <1>2
    <2> QED BY <2>1, <2>2 DEF Session
  <1>10. ASSUME NEW s \in Socks PROVE SockFollows(s)'
    <2> SUFFICES ASSUME LoggedIn(s) PROVE RecordFollows(s)' /\ ClientFollows(s)' /\ RightsFresh(s)'
      BY <1>9 DEF SockFollows, LoggedIn
    <2> DEFINE u == sess[s].user
    <2>1. u \in Users /\ SockFollows(s) /\ u = sess'[s].user
      BY <1>9, UserOf DEF FollowsNow
    <2>2. RecordFollows(s)'
      <3>1. u \notin touched' => u \notin touched
        BY <1>2
      <3>2. u \notin touched' => table'[u] = table[u] \/ ch.ident = 0
        <4>1. CASE UNCHANGED table
          BY <4>1
        <4>2. CASE u \notin Holders(st.acct)
          <5> HIDE DEF u
          <5> QED BY <1>2, <2>1, <4>2
        <4>3. CASE u \in Holders(st.acct) /\ (st.own \/ ch = NoChange)
          BY <1>1, <1>3, <1>6, <4>3 DEF StmtSafe, ch
        <4>4. CASE u \in Holders(st.acct) /\ u \in touched'
          BY <4>4
        <4> HIDE DEF u
        <4> QED BY <1>2, <4>1, <4>2, <4>3, <4>4
      <3>3. u \notin touched' => table'[u].ident = table[u].ident /\ table'[u].rights = table[u].rights
        BY <1>7, <2>1, <3>2
      <3> QED BY <1>9, <2>1, <3>1, <3>3 DEF SockFollows, RecordFollows
    <2>3. ClientFollows(s)'
      <3>1. CASE s # st.sock
        <4>1. inbox'[s] = inbox[s]
          BY <1>1, <1>2, <1>4, <3>1, SendOne
        <4>2. u # st.by
          BY <1>3, <3>1 DEF Awaited
        <4>3. table'[u].acct = table[u].acct
          BY <1>5, <2>1, <4>2
        <4> QED BY <1>1, <2>1, <4>1, <4>3 DEF SockFollows, ClientFollows, Renames
      <3>2. CASE s = st.sock
        <4>1. u = st.by /\ inbox[s] = <<>> /\ client[s].change = ch
          BY <1>1, <1>3, <3>2 DEF Awaited, ChangeKnown, ch
        <4>2. client[s].acct = table[u].acct
          BY <2>1, <4>1 DEF SockFollows, ClientFollows, Renames
        <4>3. ASSUME NEW ok \in BOOLEAN, Send(st.sock, Answer(st, ok))
              PROVE  /\ inbox'[s] # <<>> /\ Head(inbox'[s]).kind = "update"
                     /\ Head(inbox'[s]).ok = ok /\ Head(inbox'[s]).acct = st.acct
          <5>1. Answer(st, ok) \in Ack
            BY <1>4
          <5>2. inbox'[s] = <<Answer(st, ok)>>
            BY <1>1, <3>2, <4>1, <4>3, <5>1, SendTyped
          <5>3. <<Answer(st, ok)>> # <<>> /\ Head(<<Answer(st, ok)>>) = Answer(st, ok)
            OBVIOUS
          <5> QED BY <1>4, <5>2, <5>3
        <4>4. CASE UNCHANGED table /\ Send(st.sock, Answer(st, FALSE))
          <5>1. ~Head(inbox'[s]).ok
            BY <4>3, <4>4
          <5> QED BY <1>1, <2>1, <4>2, <4>4, <5>1 DEF ClientFollows, Renames
        <4>5. CASE /\ Send(st.sock, Answer(st, TRUE))
                   /\ table' = [x \in Users |-> IF x \in Holders(st.acct) THEN Changed(table[x], ch)
                                                ELSE table[x]]
          <5>1. Renames(s)' <=> table[u].acct = st.acct /\ ch.acct # NoAcct
            BY <1>1, <4>1, <4>2, <4>3, <4>5 DEF Renames
          <5>2. u \in Holders(st.acct) <=> table[u].acct = st.acct
            BY <2>1 DEF Holders
          <5>3. table'[u].acct = IF table[u].acct = st.acct /\ ch.acct # NoAcct THEN ch.acct ELSE table[u].acct
            <6> HIDE DEF u
            <6>1. CASE u \in Holders(st.acct)
              <7>1. table'[u] = Changed(table[u], ch)
                BY <2>1, <4>5, <6>1
              <7> QED BY <5>2, <6>1, <7>1 DEF Changed
            <6>2. CASE u \notin Holders(st.acct)
              <7>1. table'[u] = table[u]
                BY <2>1, <4>5, <6>2
              <7> QED BY <5>2, <6>2, <7>1
            <6> QED BY <6>1, <6>2
          <5> QED BY <1>1, <2>1, <4>1, <4>2, <5>1, <5>3 DEF ClientFollows
        <4> QED BY <1>2, <4>4, <4>5
      <3> QED BY <3>1, <3>2
    <2>4. RightsFresh(s)'
      <3> SUFFICES ASSUME sess[s].tmp.kind = "rights"
                   PROVE  LET tmp == sess[s].tmp
                          IN Admin(u) /\ tmp.user \in Users /\ tmp.rights = table'[tmp.user].rights
        BY <1>9, <2>1 DEF RightsFresh
      <3>1. Admin(u) /\ sess[s].tmp.user \in Users /\ sess[s].tmp.rights = table[sess[s].tmp.user].rights
        BY <2>1 DEF SockFollows, RightsFresh
      <3>2. ch.ident = 0
        <4>1. ch.ident # 0 => u = st.by
          BY <1>3, <1>8, <2>1, <3>1, OneAdmin
        <4> QED BY <1>3, <1>6, <4>1 DEF Awaited
      <3> QED BY <1>7, <3>1, <3>2
    <2> QED BY <2>2, <2>3, <2>4
  <1>11. ASSUME NEW n \in Range(stmts') PROVE EditFresh(n)'
    <2>1. /\ n \in Pending /\ n \in Message /\ n.by \in Users /\ n.sock \in Socks
          /\ AskerSafe(n) /\ n.by # st.by /\ EditFresh(n)
      BY <1>1, PendingTyped DEF Pending, SafeNow, FollowsNow
    <2>2. n.kind = "edit" => ch.ident = 0
      BY <1>3, <1>8, <2>1, OneAdmin DEF AskerSafe
    <2>3. n.user \in Users \cup {NoUser}
      BY <2>1 DEF Message
    <2>4. n.kind = "edit" /\ n.user # NoUser => table'[n.user].rights = table[n.user].rights
      BY <1>7, <2>2, <2>3
    <2> QED BY <1>9, <2>1, <2>4 DEF EditFresh
  <1>12. ASSUME NEW n \in Pending' PROVE ChangeKnown(n)'
    <2>1. n \in Pending
      BY <1>1 DEF Pending
    <2>2. ChangeKnown(n) /\ n.sock \in Socks
      BY <2>1, PendingTyped DEF FollowsNow
    <2> QED BY <1>1, <1>9, <2>2 DEF ChangeKnown, LoggedIn
  <1> QED BY <1>10, <1>11, <1>12 DEF FollowsNow

LEMMA FollowsNext ==
    ASSUME RightsAssumption, Typed, Pipeline, Snapshot, Safe, Follows, [Next]_vars PROVE Follows'
  <1> SUFFICES ASSUME ~renamed, ~renamed' PROVE FollowsNow'
    BY RenamedStays DEF Follows
  <1>1. SafeNow /\ FollowsNow
    BY DEF Safe, Follows
  <1>2. CASE Clients
    BY <1>1, <1>2, FollowsClients DEF Clients
  <1>3. CASE MsgQueueThread
    BY <1>1, <1>3, FollowsRecv, FollowsRead, FollowsEdit, FollowsUpdate DEF MsgQueueThread
  <1>4. CASE UNCHANGED vars
    <2>1. UNCHANGED <<table, sess, client, queue, stmts, inbox, touched>>
      BY <1>4 DEF vars
    <2> QED BY <1>1, <2>1 DEF FollowsNow, SockFollows, RecordFollows, ClientFollows, Renames, RightsFresh,
         ChangeKnown, EditFresh, Pending, LoggedIn
  <1> QED BY <1>2, <1>3, <1>4 DEF Next

------------------------------------------------------------------------------
(* The theorems *)

\* What every step keeps.
RightsInv == Typed /\ Pipeline /\ Snapshot /\ Safe /\ Follows

LEMMA RightsInit ==
    ASSUME RightsAssumption, Init PROVE RightsInv
  <1>1. Range(queue) = {} /\ Range(stmts) = {} /\ DOMAIN queue = {} /\ DOMAIN stmts = {}
    BY DEF Init, Range
  <1>2. \A s \in Socks : /\ sess[s].user = NoUser /\ inbox[s] = <<>> /\ ~LoggedIn(s)
                         /\ Len(inbox[s]) <= 1
    BY DEF Init, Nobody, LoggedIn
  <1>3. Pipeline /\ Snapshot
    BY <1>1, <1>2 DEF Pipeline, AllApart, Pending, Snapshot
  <1>4. \A u \in Users : RowSafe(u)
    BY DEF RowSafe, Admin, RightsAssumption, Init
  <1>5. Safe
    BY <1>1, <1>2, <1>4 DEF Safe, SafeNow, SessSafe, Pending
  <1>6. Follows
    BY <1>1, <1>2 DEF Follows, FollowsNow, SockFollows, Pending
  <1> QED BY <1>3, <1>5, <1>6, TypedInit DEF RightsInv

LEMMA RightsNext ==
    ASSUME RightsAssumption, RightsInv, [Next]_vars PROVE RightsInv'
  <1>1. Typed' /\ Pipeline' /\ Snapshot'
    BY TypedNext, PipelineNext, SnapshotNext DEF RightsInv
  <1>2. Safe'
    BY <1>1, SafeNext DEF RightsInv
  <1>3. Follows'
    BY FollowsNext DEF RightsInv
  <1> QED BY <1>1, <1>2, <1>3 DEF RightsInv

LEMMA RightsKept ==
    ASSUME RightsAssumption PROVE Spec => []RightsInv
  <1>1. Init => RightsInv
    BY RightsInit
  <1>2. RightsInv /\ [Next]_vars => RightsInv'
    BY RightsNext
  <1> QED BY <1>1, <1>2, PTL DEF Spec

\* Whatever users, accounts, rights and bounds there are, every variable holds
\* values of its kind, accounts stay unique, and no client has two answers waiting.
THEOREM RightsTypeCorrect == Spec => []TypeOK
  <1>1. RightsInv => TypeOK
    BY DEF RightsInv, Typed, Pipeline, TypeOK
  <1> QED BY <1>1, RightsKept, RightsAssumption, PTL

\* What a change of rights or of a user is judged by was read for it: strTmpData is
\* empty, or of its kind and about its account.
THEOREM SnapshotCorrect == Spec => []SnapshotIsOwn
  <1>1. RightsInv => SnapshotIsOwn
    <2> SUFFICES ASSUME RightsInv, queue # <<>> PROVE SnapshotIsOwn
      BY DEF SnapshotIsOwn
    <2>1. Head(queue) \in Range(queue)
      <3>1. queue \in Seq(Message)
        BY DEF RightsInv, Typed
      <3>2. Head(queue) = queue[1] /\ 1 \in DOMAIN queue
        BY <3>1
      <3> QED BY <3>2 DEF Range
    <2>2. RequestFits(sess[Head(queue).sock].tmp, Head(queue))
      BY <2>1 DEF RightsInv, Snapshot
    <2> QED BY <2>2 DEF SnapshotIsOwn, RequestFits, Fits
  <1> QED BY <1>1, RightsKept, RightsAssumption, PTL

\* Until an account changes hands, the right to change rights is the one
\* administrator's, in his row and in the record of his connection, and he stays
\* the only one.
THEOREM GrantStays == Spec => []OnlyAdminGrants
  <1>1. RightsInv => OnlyAdminGrants
    <2> SUFFICES ASSUME RightsInv, ~renamed PROVE OnlyAdminGrants
      BY DEF OnlyAdminGrants
    <2>1. Typed /\ SafeNow
      BY DEF RightsInv, Safe
    <2>2. \A u \in Users : /\ table[u].ident = 3 <=> InitTable[u].ident = 3
                           /\ Grant \in Range(table[u].rights) => table[u].ident = 3
      BY <2>1 DEF SafeNow, RowSafe, Admin
    <2>3. ASSUME NEW s \in Socks, Grant \in Range(sess[s].rights) PROVE sess[s].ident = 3
      <3>1. LoggedIn(s)
        BY <2>1, <2>3 DEF Typed, Nobody, Range
      <3> QED BY <2>1, <2>3, <3>1 DEF SafeNow, SessSafe
    <2> QED BY <2>2, <2>3 DEF OnlyAdminGrants
  <1> QED BY <1>1, RightsKept, RightsAssumption, PTL

\* Until an account changes hands, the record of a connection goes by the account of
\* its user's row, his client does once it has its answers, and identity and rights
\* agree unless somebody else has changed the row.
THEOREM RecordsFollow == Spec => []SessionFollows
  <1>1. RightsInv => SessionFollows
    <2> SUFFICES ASSUME RightsInv, ~renamed, NEW s \in Socks, LoggedIn(s)
                 PROVE  /\ sess[s].acct = table[sess[s].user].acct
                        /\ inbox[s] = <<>> => client[s].acct = table[sess[s].user].acct
                        /\ RecordFollows(s)
      BY DEF SessionFollows, RecordFollows
    <2>1. SafeNow /\ FollowsNow
      BY DEF RightsInv, Safe, Follows
    <2>2. SessSafe(s) /\ SockFollows(s)
      BY <2>1 DEF SafeNow, FollowsNow
    <2> QED BY <2>2 DEF SessSafe, SockFollows, ClientFollows, Renames
  <1> QED BY <1>1, RightsKept, RightsAssumption, PTL

\* Until an account changes hands, writing back all the rights of a user changes how
\* often each right is stored by what was asked for, and by nothing else.
THEOREM EditsKeepOthers == Spec => EditKeepsOthers
  <1> DEFINE Counted(u) ==
        /\ ~renamed /\ table'[u].rights # table[u].rights
        /\ stmts # <<>> /\ Head(stmts).kind = "edit" /\ Head(stmts).user = u
        => \A x \in Rights :
              LET n == Times(table[u].rights, x)
                  k == Times(Head(stmts).asked, x)
              IN Times(table'[u].rights, x) =
                    IF Head(stmts).type = 2 THEN n + k ELSE IF k < n THEN n - k ELSE 0
  <1>1. RightsInv /\ [Next]_vars => [\A u \in Users : Counted(u)]_vars
    <2> SUFFICES ASSUME RightsInv, [Next]_vars, NEW u \in Users,
                        ~renamed, table'[u].rights # table[u].rights,
                        stmts # <<>>, Head(stmts).kind = "edit", Head(stmts).user = u
                 PROVE  \A x \in Rights :
                          LET n == Times(table[u].rights, x)
                              k == Times(Head(stmts).asked, x)
                          IN Times(table'[u].rights, x) =
                                IF Head(stmts).type = 2 THEN n + k ELSE IF k < n THEN n - k ELSE 0
      OBVIOUS
    <2> DEFINE st == Head(stmts)
    <2>1. Typed /\ SafeNow /\ FollowsNow
      BY DEF RightsInv, Safe, Follows
    <2>2. EditAuthoritReplyHandle
      <3>1. ~UNCHANGED table
        OBVIOUS
      <3>2. CASE Clients
        BY <3>1, <3>2 DEF Clients, Login, Leave, AskRights, AskUser, Begin, EditAuthoritChoose,
           EditAuthoritAnswer, UpdateChoose, UpdateAnswer, Take
      <3>3. CASE MsgQueueThread
        BY <3>1, <3>3 DEF MsgQueueThread, GetAuthoritRecvHandle, EditAuthoritRecvHandle,
           SelectSingleUserInfoRecvHandle, UpdateSingleUserInfoRecvHandle, RecvFront,
           GetAuthoritReplyHandle, SelectSingleUserInfoReplyHandle,
           UpdateSingleUserInfoReplyHandle, MysqlFront, ExecFault
      <3> QED BY <3>1, <3>2, <3>3 DEF Next, vars
    <2>3. st \in Message /\ st \in Range(stmts) /\ u # NoUser
      <3>1. stmts \in Seq(Message) /\ u # NoUser
        BY <2>1, RightsAssumption DEF Typed
      <3> QED BY <3>1, HeadTail DEF Range
    <2>4. table'[u].rights = st.rights
      BY <2>1, <2>2 DEF EditAuthoritReplyHandle, Typed, Row
    <2>5. st.rights = Edited(table[u].rights, st.type, st.asked)
      BY <2>1, <2>3 DEF FollowsNow, EditFresh
    <2>6. table[u].rights \in Seq(Rights) /\ st.asked \in Seq(Rights) /\ st.type \in 1..2
      BY <2>1, <2>3 DEF Typed, Row, Message
    <2> QED BY <2>4, <2>5, <2>6, EditedCounts
  <1> QED BY <1>1, RightsKept, RightsAssumption, PTL DEF Spec, EditKeepsOthers, Counted

------------------------------------------------------------------------------
==============================================================================
