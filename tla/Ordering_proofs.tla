---------------------------- MODULE Ordering_proofs ----------------------------
(***************************************************************************)
(* What the other proofs need of numbers and sequences: a set of numbers   *)
(* has a least one, a finite one can be put in order, and what Tail and    *)
(* Append leave in a queue.                                                *)
(***************************************************************************)
EXTENDS Ordering, FiniteSetTheorems, SequenceTheorems, WellFoundedInduction, TLAPS

------------------------------------------------------------------------------
(* Numbers *)

LEMMA Smallest ==
    ASSUME NEW S \in SUBSET Nat, S # {}
    PROVE  \E m \in S : \A n \in S : m <= n
  <1> DEFINE T == {1..n : n \in S}
  <1>0. \A n \in S : 1..n \in FiniteSubsetsOf(Nat)
    <2> TAKE n \in S
    <2>1. IsFiniteSet(1..n)
      BY FS_Interval
    <2> QED BY <2>1 DEF FiniteSubsetsOf
  <1>1. T \subseteq FiniteSubsetsOf(Nat) /\ T # {}
    BY <1>0
  <1>2. PICK x \in T : \A y \in T : ~(<<y, x>> \in StrictSubsetOrdering(Nat))
    <2> HIDE DEF T
    <2> QED BY <1>1, FS_StrictSubsetOrderingWellFounded, WFMin
  <1>3. PICK m \in S : x = 1..m
    OBVIOUS
  <1>4. ASSUME NEW n \in S, n < m PROVE FALSE
    <2>1. 1..n \subseteq 1..m /\ m \in 1..m /\ m \notin 1..n /\ 1..m \subseteq Nat
      BY <1>4
    <2>2. <<1..n, 1..m>> \in StrictSubsetOrdering(Nat)
      BY <2>1 DEF StrictSubsetOrdering
    <2> QED BY <2>2, <1>2, <1>3
  <1> QED
    BY <1>4

\* A finite set of numbers can be put in order.
LEMMA SortedExists ==
    ASSUME NEW A \in SUBSET Nat, IsFiniteSet(A)
    PROVE  \E q \in [1..Cardinality(A) -> A] : Ascending(q)
  <1> DEFINE Sortable(S) == \E q \in [1..Cardinality(S) -> S] : Ascending(q)
             Bad == {n \in Nat : \E S \in SUBSET A : Cardinality(S) = n /\ ~Sortable(S)}
  <1>1. Bad = {}
    <2>1. SUFFICES ASSUME NEW n \in Bad, \A k \in Bad : n <= k
                   PROVE  FALSE
      <3>1. Bad \in SUBSET Nat
        OBVIOUS
      <3> HIDE DEF Bad
      <3> QED BY <3>1, Smallest
    <2>2. PICK S \in SUBSET A : Cardinality(S) = n /\ ~Sortable(S)
      OBVIOUS
    <2>3. IsFiniteSet(S) /\ S \in SUBSET Nat
      BY FS_Subset
    <2>4. S # {}
      <3>1. ASSUME S = {} PROVE FALSE
        <4>1. Cardinality(S) = 0
          BY <3>1, FS_EmptySet
        <4>2. <<>> \in [1..Cardinality(S) -> S] /\ Ascending(<<>>)
          BY <4>1, <3>1 DEF Ascending
        <4> QED BY <4>2, <2>2
      <3> QED BY <3>1
    <2>5. PICK m \in S : \A k \in S : m <= k
      BY <2>3, <2>4, Smallest
    <2>6. IsFiniteSet(S \ {m}) /\ Cardinality(S \ {m}) = n - 1 /\ n # 0 /\ n \in Nat
      BY <2>2, <2>3, <2>4, FS_RemoveElement, FS_EmptySet
    <2>7. PICK q \in [1..(n - 1) -> S \ {m}] : Ascending(q)
      <3>1. n - 1 \in Nat /\ ~(n <= n - 1)
        BY <2>6
      <3>2. n - 1 \notin Bad
        <4> HIDE DEF Bad
        <4> QED BY <3>1, <2>1
      <3>3. Sortable(S \ {m})
        BY <3>1, <3>2, <2>6
      <3> QED BY <3>3, <2>6
    <2> DEFINE p == [i \in 1..n |-> IF i = 1 THEN m ELSE q[i - 1]]
    <2>8. p \in [1..n -> S]
      BY <2>7, <2>6
    <2>9. Ascending(p)
      <3>1. SUFFICES ASSUME NEW i \in 1..n, NEW j \in 1..n, i < j PROVE p[i] < p[j]
        BY DEF Ascending
      <3>2. j - 1 \in 1..(n - 1) /\ q[j - 1] \in S /\ q[j - 1] # m
        BY <3>1, <2>6, <2>7
      <3>3. CASE i = 1
        <4>1. p[i] = m /\ p[j] = q[j - 1]
          BY <3>1, <3>3
        <4>2. m <= q[j - 1] /\ m \in Nat /\ q[j - 1] \in Nat
          BY <3>2, <2>3, <2>5
        <4> QED BY <4>1, <4>2, <3>2
      <3>4. CASE i # 1
        <4>1. i - 1 \in 1..(n - 1) /\ i - 1 < j - 1
          BY <3>1, <3>4, <2>6
        <4>2. q[i - 1] < q[j - 1]
          BY <4>1, <3>2, <2>7 DEF Ascending
        <4> QED BY <4>2, <3>4, <3>1
      <3> QED BY <3>3, <3>4
    <2> HIDE DEF p
    <2> QED BY <2>2, <2>8, <2>9
  <1>2. Cardinality(A) \in Nat
    BY FS_CardinalityType
  <1>3. Cardinality(A) \notin Bad
    <2> HIDE DEF Bad
    <2> QED BY <1>1
  <1> QED BY <1>2, <1>3

LEMMA InOrderOf ==
    ASSUME NEW A \in SUBSET Nat, IsFiniteSet(A)
    PROVE  InOrder(A) \in [1..Cardinality(A) -> A] /\ Ascending(InOrder(A))
  BY SortedExists DEF InOrder

------------------------------------------------------------------------------
(* Sequences *)

LEMMA FunctionSeq ==
    ASSUME NEW S, NEW n \in Nat, NEW f \in [1..n -> S]
    PROVE  f \in Seq(S) /\ Len(f) = n
  OBVIOUS

LEMMA TailOf ==
    ASSUME NEW S, NEW q \in Seq(S), q # <<>>
    PROVE  /\ Len(q) \in Nat /\ 1 \in 1..Len(q) /\ Head(q) = q[1] /\ Head(q) \in S
           /\ Tail(q) \in Seq(S) /\ Len(Tail(q)) = Len(q) - 1
           /\ \A i \in 1..Len(Tail(q)) : i + 1 \in 1..Len(q) /\ Tail(q)[i] = q[i + 1]
  <1>1. Len(q) \in Nat /\ 1 \in 1..Len(q) /\ Head(q) = q[1]
    OBVIOUS
  <1>2. Tail(q) \in Seq(S) /\ Len(Tail(q)) = Len(q) - 1
        /\ \A i \in 1..Len(Tail(q)) : Tail(q)[i] = q[i + 1]
    BY HeadTailProperties
  <1> QED BY <1>1, <1>2

LEMMA AppendOf ==
    ASSUME NEW S, NEW q \in Seq(S), NEW e \in S
    PROVE  /\ Append(q, e) \in Seq(S) /\ Len(q) \in Nat /\ Len(Append(q, e)) = Len(q) + 1
           /\ Append(q, e)[Len(q) + 1] = e
           /\ \A i \in 1..Len(q) : Append(q, e)[i] = q[i]
           /\ \A i \in 1..Len(Append(q, e)) : i \in 1..Len(q) \/ i = Len(q) + 1
  OBVIOUS

LEMMA TailOne ==
    ASSUME NEW S, NEW q \in Seq(S), Len(q) <= 1
    PROVE  Tail(q) = <<>> \/ q = <<>>
  <1>1. SUFFICES ASSUME q # <<>> PROVE Tail(q) = <<>>
    OBVIOUS
  <1>2. Tail(q) \in Seq(S) /\ Len(Tail(q)) = 0
    <2>1. /\ Tail(q) \in Seq(S) /\ Len(Tail(q)) = Len(q) - 1
          /\ Len(q) \in Nat /\ 1 \in 1..Len(q)
      BY <1>1, TailOf
    <2> QED BY <2>1
  <1> QED BY <1>2
==============================================================================
