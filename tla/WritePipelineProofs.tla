------------------------- MODULE WritePipelineProofs -------------------------
(***************************************************************************)
(* Theorems about the write pipeline, for any users, any number of writes, *)
(* waits and disruptions and a pipeline of any size.                       *)
(*                                                                         *)
(* The argument has four parts.  The queue of a user, a set of batches, is *)
(* a sequence by id, which grows at its end and shrinks at its front.      *)
(* Each operator on the client is given by what it changes, while no       *)
(* assertion fails.  Each step of the specification keeps the invariant of *)
(* the client (ClientOK) and has one of four effects on the rest: it keeps *)
(* the queues, adds a batch, settles the front of the pipeline, or is the  *)
(* server's.  And each effect keeps the invariant of what the app and the  *)
(* server end up with (Outcomes, WaitersOK).                               *)
(***************************************************************************)
EXTENDS WritePipeline, FiniteSetTheorems, SequenceTheorems, WellFoundedInduction, TLAPS

(* The elements of a queue.                                                *)
Elements(s) == {s[i] : i \in 1..Len(s)}

(* One more element at the end.                                            *)
LEMMA ElementsAppend ==
    ASSUME NEW S, NEW s \in Seq(S), NEW x \in S
    PROVE  /\ Append(s, x) \in Seq(S)
           /\ Elements(Append(s, x)) = Elements(s) \cup {x}
BY DEF Elements

(* A set of natural numbers that is not empty has a least one.             *)
LEMMA LeastOf ==
    ASSUME NEW T \in SUBSET Nat, T # {}
    PROVE  \E n \in T : \A m \in T : n <= m
<1> DEFINE R == OpToRel(<, Nat)
<1>1. IsWellFoundedOn(R, Nat)
  BY NatLessThanWellFounded
<1>2. ASSUME NEW x \in Nat, NEW y \in Nat, x < y PROVE <<x, y>> \in R
  BY <1>2 DEF OpToRel
<1> HIDE DEF R
<1>3. PICK n \in T : \A m \in T : ~(<<m, n>> \in R)
  BY <1>1, WFMin
<1>4. ASSUME NEW m \in T PROVE n <= m
  <2>1. ~(m < n)
    BY <1>2, <1>3
  <2> QED
    BY <2>1
<1> QED
  BY <1>4

-----------------------------------------------------------------------------
(* The persisted queue: batches with different ids have one order by id.   *)

Distinct(B) == /\ IsFiniteSet(B) /\ B \subseteq Batches
               /\ \A b, c \in B : b.id = c.id => b = c

InOrder(q, B) == /\ q \in [1..Cardinality(B) -> B]
                 /\ \A i, j \in 1..Cardinality(B) : i < j => q[i].id < q[j].id

(* A sequence is a function.                                               *)
LEMMA SeqFunction ==
    ASSUME NEW S, NEW s \in Seq(S)
    PROVE  s \in [1..Len(s) -> S]
BY LenProperties

(* What it is to be a prefix, element by element.                          *)
LEMMA PrefixElements ==
    ASSUME NEW S, NEW p \in Seq(S), NEW q \in Seq(S)
    PROVE  IsPrefix(p, q) <=> Len(p) <= Len(q) /\ \A i \in 1..Len(p) : p[i] = q[i]
<1> DEFINE l == Len(p)
<1>1. l \in Nat /\ Len(q) \in Nat
  OBVIOUS
<1>2. /\ SubSeq(p, 1, l) \in Seq(S) /\ Len(SubSeq(p, 1, l)) = l
      /\ \A i \in 1..l : SubSeq(p, 1, l)[i] = p[i]
  BY <1>1
<1>3. CASE l <= Len(q)
  <2>1. /\ SubSeq(q, 1, l) \in Seq(S) /\ Len(SubSeq(q, 1, l)) = l
        /\ \A i \in 1..l : SubSeq(q, 1, l)[i] = q[i]
    BY <1>1, <1>3
  <2>2. SubSeq(p, 1, l) = SubSeq(q, 1, l) <=> \A i \in 1..l : p[i] = q[i]
    BY <1>2, <2>1, SeqEqual
  <2> QED
    BY <1>3, <2>2 DEF IsPrefix
<1>4. CASE ~(l <= Len(q))
  BY <1>4 DEF IsPrefix
<1> QED
  BY <1>3, <1>4

(* Nothing is a prefix of every sequence.                                  *)
LEMMA EmptyPrefix ==
    ASSUME NEW S, NEW q \in Seq(S)
    PROVE  IsPrefix(<<>>, q)
<1>1. PICK p \in Seq(S) : p = <<>>
  <2>1. <<>> \in Seq(S)
    BY EmptySeq
  <2> QED
    BY <2>1, Zenon
<1>2. Len(p) = 0 /\ Len(q) \in Nat
  BY <1>1
<1>3. Len(p) <= Len(q) /\ \A i \in 1..Len(p) : p[i] = q[i]
  BY <1>2
<1>4. IsPrefix(p, q)
  BY <1>3, PrefixElements
<1> QED
  BY <1>1, <1>4

(* A part of such a set is such a set.                                     *)
LEMMA DistinctPart ==
    ASSUME NEW B, Distinct(B), NEW C \in SUBSET B
    PROVE  Distinct(C) /\ Cardinality(C) \in Nat
BY FS_Subset, FS_CardinalityType DEF Distinct

(* Without one of its elements it is smaller by one.                       *)
LEMMA RemoveOne ==
    ASSUME NEW B, Distinct(B), NEW b \in B
    PROVE  /\ Cardinality(B) \in Nat /\ Cardinality(B \ {b}) = Cardinality(B) - 1
           /\ Cardinality(B) - 1 \in Nat
<1>1. IsFiniteSet(B) /\ IsFiniteSet(B \ {b})
  BY FS_RemoveElement DEF Distinct
<1>2. Cardinality(B) \in Nat /\ Cardinality(B \ {b}) \in Nat
  BY <1>1, FS_CardinalityType
<1>3. Cardinality(B \ {b}) = Cardinality(B) - 1
  BY <1>1, FS_RemoveElement
<1> QED
  BY <1>2, <1>3

(* An order by id reaches every batch.                                     *)
LEMMA OrderReaches ==
    ASSUME NEW B, Distinct(B), NEW q, InOrder(q, B), NEW b \in B
    PROVE  \E i \in 1..Cardinality(B) : q[i] = b
<1> DEFINE n == Cardinality(B)
<1>1. n \in Nat /\ IsFiniteSet(B) /\ B \subseteq Batches
  BY FS_CardinalityType DEF Distinct
<1>2. IsFiniteSet(1..n) /\ Cardinality(1..n) = n
  BY <1>1, FS_Interval
<1>3. \A i, j \in 1..n : q[i] = q[j] => i = j
  <2> SUFFICES ASSUME NEW i \in 1..n, NEW j \in 1..n, i < j PROVE q[i] # q[j]
    BY <1>1
  <2>1. q[i] \in B /\ q[j] \in B /\ q[i].id < q[j].id
    BY DEF InOrder
  <2>2. q[i].id \in Nat
    BY <2>1, <1>1 DEF Batches
  <2> QED
    BY <2>1, <2>2
<1>4. q \in Injection(1..n, B)
  BY <1>3 DEF InOrder, Injection, IsInjective
<1>5. q \in Surjection(1..n, B)
  BY <1>1, <1>2, <1>4, FS_Injection
<1> QED
  BY <1>5 DEF Surjection

(* There is no other order than one.                                       *)
LEMMA OrderUnique ==
    ASSUME NEW B, Distinct(B), NEW p, InOrder(p, B), NEW q, InOrder(q, B)
    PROVE  p = q
<1> DEFINE n == Cardinality(B)
           T == {i \in 1..n : p[i] # q[i]}
<1>1. n \in Nat /\ B \subseteq Batches
  BY FS_CardinalityType DEF Distinct
<1>2. p \in [1..n -> B] /\ q \in [1..n -> B]
  BY DEF InOrder
<1>3. T = {}
  <2> SUFFICES ASSUME T # {} PROVE FALSE
    OBVIOUS
  <2> T \in SUBSET Nat
    BY <1>1
  <2>1. PICK i \in T : \A j \in T : i <= j
    <3> HIDE DEF T
    <3> QED
      BY LeastOf
  <2>2. i \in 1..n /\ p[i] # q[i] /\ \A j \in 1..n : j < i => p[j] = q[j]
    BY <2>1, <1>1
  <2>3. p[i] \in B /\ q[i] \in B
    BY <1>2, <2>2
  <2>4. PICK j \in 1..n : q[j] = p[i]
    BY <2>3, OrderReaches
  <2>5. PICK k \in 1..n : p[k] = q[i]
    BY <2>3, OrderReaches
  <2>6. i < j
    <3>1. ~(j < i)
      <4>1. ASSUME j < i PROVE p[j].id < p[i].id
        BY <2>2, <4>1 DEF InOrder
      <4>2. p[i].id \in Nat
        BY <2>3, <1>1 DEF Batches
      <4> QED
        BY <4>1, <4>2, <2>2, <2>4
    <3> QED
      BY <3>1, <2>2, <2>4, <1>1
  <2>7. i < k
    <3>1. ~(k < i)
      <4>1. ASSUME k < i PROVE q[k].id < q[i].id
        BY <2>2, <4>1 DEF InOrder
      <4>2. q[i].id \in Nat
        BY <2>3, <1>1 DEF Batches
      <4> QED
        BY <4>1, <4>2, <2>2, <2>5
    <3> QED
      BY <3>1, <2>2, <2>5, <1>1
  <2>8. q[i].id < p[i].id /\ p[i].id < q[i].id
    BY <2>2, <2>4, <2>5, <2>6, <2>7 DEF InOrder
  <2>9. p[i].id \in Nat /\ q[i].id \in Nat
    BY <2>3, <1>1 DEF Batches
  <2> QED
    BY <2>8, <2>9
<1>4. \A i \in 1..n : p[i] = q[i]
  BY <1>3
<1> HIDE DEF n, T
<1> QED
  BY <1>1, <1>2, <1>4

(* The batch with the least id first, then the others in their order.      *)
LEMMA OrderFirst ==
    ASSUME NEW B, Distinct(B), NEW b \in B, \A c \in B : b.id <= c.id,
           NEW q, InOrder(q, B \ {b})
    PROVE  InOrder([i \in 1..Cardinality(B) |-> IF i = 1 THEN b ELSE q[i - 1]], B)
<1> DEFINE n == Cardinality(B)
           p == [i \in 1..n |-> IF i = 1 THEN b ELSE q[i - 1]]
<1>1. n \in Nat /\ Cardinality(B \ {b}) = n - 1 /\ n - 1 \in Nat /\ B \subseteq Batches
  BY RemoveOne DEF Distinct
<1>2. q \in [1..(n - 1) -> B \ {b}]
  BY <1>1 DEF InOrder
<1>3. \A i \in 1..n : p[i] \in B /\ (i # 1 => i - 1 \in 1..(n - 1) /\ p[i] = q[i - 1] /\ p[i] # b)
  BY <1>1, <1>2
<1>4. ASSUME NEW i \in 1..n, NEW j \in 1..n, i < j PROVE p[i].id < p[j].id
  <2>1. CASE i = 1
    <3>1. p[i] = b /\ p[j] \in B /\ p[j] # b
      BY <1>1, <1>3, <1>4, <2>1
    <3>2. b.id <= p[j].id /\ b.id # p[j].id
      BY <3>1 DEF Distinct
    <3>3. b.id \in Nat /\ p[j].id \in Nat
      BY <3>1, <1>1 DEF Batches
    <3> QED
      BY <3>1, <3>2, <3>3
  <2>2. CASE i # 1
    <3>1. i - 1 \in 1..(n - 1) /\ j - 1 \in 1..(n - 1) /\ i - 1 < j - 1
      BY <1>1, <1>4, <2>2
    <3>2. p[i] = q[i - 1] /\ p[j] = q[j - 1]
      BY <1>3, <1>4, <2>2, <3>1
    <3> QED
      BY <3>1, <3>2, <1>1 DEF InOrder
  <2> QED
    BY <2>1, <2>2
<1>5. p \in [1..n -> B]
  BY <1>3
<1> QED
  BY <1>4, <1>5 DEF InOrder

(* There is an order.                                                      *)
LEMMA OrderExists ==
    ASSUME NEW B, Distinct(B)
    PROVE  \E q : InOrder(q, B)
<1> DEFINE Bad(n) == \E C \in SUBSET B : Cardinality(C) = n /\ ~\E q : InOrder(q, C)
           T == {n \in Nat : Bad(n)}
<1>1. \A C \in SUBSET B : Distinct(C) /\ Cardinality(C) \in Nat
  BY DistinctPart
<1>2. T = {}
  <2> SUFFICES ASSUME T # {} PROVE FALSE
    OBVIOUS
  <2>1. PICK n \in T : \A m \in T : n <= m
    BY LeastOf
  <2>2. n \in Nat /\ \A m \in Nat : m < n => ~Bad(m)
    BY <2>1
  <2>3. PICK C \in SUBSET B : Cardinality(C) = n /\ ~\E q : InOrder(q, C)
    BY <2>1
  <2>4. Distinct(C) /\ C \subseteq Batches
    BY <1>1 DEF Distinct
  <2>5. CASE C = {}
    <3>1. Cardinality(C) = 0
      BY <2>5, FS_EmptySet
    <3>2. InOrder(<<>>, C)
      BY <3>1 DEF InOrder
    <3> QED
      BY <3>2, <2>3
  <2>6. CASE C # {}
    <3> DEFINE I == {c.id : c \in C}
    <3>1. I \in SUBSET Nat /\ I # {}
      BY <2>4, <2>6 DEF Batches
    <3>2. PICK i \in I : \A j \in I : i <= j
      BY <3>1, LeastOf
    <3>3. PICK b \in C : b.id = i
      BY <3>2
    <3>4. \A c \in C : b.id <= c.id
      BY <3>2, <3>3
    <3>5. Cardinality(C \ {b}) = n - 1 /\ n - 1 \in Nat
      BY <2>3, <2>4, RemoveOne
    <3>6. PICK q : InOrder(q, C \ {b})
      BY <2>2, <3>5
    <3> QED
      BY <2>3, <2>4, <3>3, <3>4, <3>6, OrderFirst
  <2> QED
    BY <2>5, <2>6
<1>3. Cardinality(B) \in Nat
  BY <1>1
<1> QED
  BY <1>2, <1>3

(* So ById orders the batches by id, and nothing else does.                *)
LEMMA ByIdOrders ==
    ASSUME NEW B, Distinct(B)
    PROVE  InOrder(ById(B), B)
<1> DEFINE S == [1..Cardinality(B) -> B]
           P(q) == \A i, j \in DOMAIN q : i < j => q[i].id < q[j].id
<1>1. PICK q : InOrder(q, B)
  BY OrderExists
<1>2. q \in S /\ P(q)
  BY <1>1 DEF InOrder
<1>3. ById(B) = CHOOSE p \in S : P(p)
  BY DEF ById
<1>4. ById(B) \in S /\ P(ById(B))
  <2> HIDE DEF S, P
  <2> QED
    BY <1>2, <1>3
<1> QED
  BY <1>4 DEF InOrder

(* Whatever puts the batches in order is their order.                      *)
LEMMA ByIdIs ==
    ASSUME NEW B, Distinct(B), NEW q, InOrder(q, B)
    PROVE  ById(B) = q
BY ByIdOrders, OrderUnique

(* What the order says of the sequence.                                    *)
LEMMA ByIdType ==
    ASSUME NEW B, Distinct(B)
    PROVE  /\ ById(B) \in Seq(B) /\ ById(B) \in Seq(Batches)
           /\ Len(ById(B)) = Cardinality(B) /\ Cardinality(B) \in Nat
           /\ (B = {}) <=> (ById(B) = <<>>)
           /\ \A b \in B : \E i \in 1..Len(ById(B)) : ById(B)[i] = b
           /\ \A i, j \in 1..Len(ById(B)) : i < j => ById(B)[i].id < ById(B)[j].id
           /\ \A i \in 1..Len(ById(B)) : ById(B)[i] \in B
<1>1. Cardinality(B) \in Nat /\ (Cardinality(B) = 0 <=> B = {}) /\ B \subseteq Batches
  BY FS_CardinalityType, FS_EmptySet DEF Distinct
<1>2. InOrder(ById(B), B)
  BY ByIdOrders
<1>3. ById(B) \in [1..Cardinality(B) -> B]
  BY <1>2 DEF InOrder
<1>4. ById(B) \in Seq(B) /\ ById(B) \in Seq(Batches) /\ Len(ById(B)) = Cardinality(B)
  BY <1>1, <1>3
<1>5. (B = {}) <=> (ById(B) = <<>>)
  BY <1>1, <1>4
<1>6. \A b \in B : \E i \in 1..Len(ById(B)) : ById(B)[i] = b
  BY <1>2, <1>4, OrderReaches
<1>7. \A i, j \in 1..Len(ById(B)) : i < j => ById(B)[i].id < ById(B)[j].id
  BY <1>2, <1>4 DEF InOrder
<1> QED
  BY <1>1, <1>3, <1>4, <1>5, <1>6, <1>7

(* A batch with a larger id comes last.                                    *)
LEMMA ByIdAdd ==
    ASSUME NEW B, Distinct(B), NEW b \in Batches, \A c \in B : c.id < b.id
    PROVE  /\ Distinct(B \cup {b}) /\ b \notin B
           /\ ById(B \cup {b}) = Append(ById(B), b)
<1> DEFINE n == Cardinality(B)
           q == ById(B)
           C == B \cup {b}
<1>1. B \subseteq Batches /\ IsFiniteSet(B) /\ n \in Nat
  BY FS_CardinalityType DEF Distinct
<1>2. b.id \in Nat /\ \A c \in B : c.id \in Nat /\ c.id # b.id
  BY <1>1 DEF Batches
<1>3. b \notin B
  BY <1>2
<1>4. Distinct(C)
  <2>1. IsFiniteSet(C)
    BY <1>1, FS_AddElement
  <2>2. \A c, d \in C : c.id = d.id => c = d
    BY <1>2 DEF Distinct
  <2> QED
    BY <1>1, <2>1, <2>2 DEF Distinct
<1>5. Cardinality(C) = n + 1
  BY <1>1, <1>3, FS_AddElement
<1>6. q \in Seq(B) /\ Len(q) = n
  BY ByIdType
<1>7. \A i, j \in 1..n : i < j => q[i].id < q[j].id
  BY <1>6, ByIdType
<1> HIDE DEF q, n, C
<1>8. Append(q, b) \in Seq(C) /\ Len(Append(q, b)) = n + 1
  BY <1>1, <1>6 DEF C
<1>9. Append(q, b) \in [1..(n + 1) -> C]
  BY <1>8, SeqFunction
<1>10. \A i \in 1..n : Append(q, b)[i] = q[i] /\ q[i] \in B
  BY <1>1, <1>6
<1>11. Append(q, b)[n + 1] = b
  BY <1>1, <1>6
<1>12. ASSUME NEW i \in 1..(n + 1), NEW j \in 1..(n + 1), i < j
       PROVE  Append(q, b)[i].id < Append(q, b)[j].id
  <2>1. i \in 1..n
    BY <1>1, <1>12
  <2>2. CASE j = n + 1
    BY <2>1, <2>2, <1>10, <1>11
  <2>3. CASE j # n + 1
    <3>1. j \in 1..n
      BY <2>3, <1>1
    <3> QED
      BY <3>1, <2>1, <1>7, <1>10, <1>12
  <2> QED
    BY <2>2, <2>3
<1>13. InOrder(Append(q, b), C)
  BY <1>5, <1>9, <1>12 DEF InOrder
<1>14. ById(C) = Append(q, b)
  BY <1>4, <1>13, ByIdIs
<1> QED
  BY <1>3, <1>4, <1>14 DEF q, C

(* The first batch has the least id; the others follow in their order.     *)
LEMMA ByIdRemoveFirst ==
    ASSUME NEW B, Distinct(B), B # {}
    PROVE  /\ Head(ById(B)) \in B
           /\ \A c \in B \ {Head(ById(B))} : Head(ById(B)).id < c.id
           /\ Distinct(B \ {Head(ById(B))})
           /\ ById(B \ {Head(ById(B))}) = Tail(ById(B))
<1> DEFINE n == Cardinality(B)
           q == ById(B)
           h == Head(q)
           C == B \ {h}
<1>1. q \in Seq(B) /\ Len(q) = n /\ n \in Nat /\ q # <<>> /\ B \subseteq Batches
  BY ByIdType DEF Distinct
<1>2. \A i, j \in 1..n : i < j => q[i].id < q[j].id
  BY <1>1, ByIdType
<1>3. \A c \in B : \E i \in 1..n : q[i] = c
  BY <1>1, ByIdType
<1> HIDE DEF q, n
<1>4. h = q[1] /\ h \in B /\ n >= 1 /\ n - 1 \in Nat
  BY <1>1
<1>5. \A i \in 1..n : i # 1 => h.id < q[i].id
  BY <1>1, <1>2, <1>4
<1>6. \A c \in C : h.id < c.id
  BY <1>3, <1>4, <1>5
<1>7. Distinct(C)
  BY DistinctPart
<1>8. Cardinality(C) = n - 1
  BY <1>4, RemoveOne DEF n
<1>9. Tail(q) \in Seq(B) /\ Len(Tail(q)) = n - 1 /\ \A i \in 1..(n - 1) : Tail(q)[i] = q[i + 1]
  BY <1>1
<1>10. \A i \in 1..(n - 1) : q[i + 1] \in C
  <2> SUFFICES ASSUME NEW i \in 1..(n - 1) PROVE q[i + 1] # h /\ q[i + 1] \in B
    OBVIOUS
  <2>1. i + 1 \in 1..n /\ i + 1 # 1
    BY <1>1
  <2>2. q[i + 1] \in B /\ h.id < q[i + 1].id /\ h.id \in Nat
    BY <2>1, <1>1, <1>4, <1>5 DEF Batches
  <2> QED
    BY <2>2
<1>11. Tail(q) \in [1..(n - 1) -> C]
  <2>1. Tail(q) \in [1..(n - 1) -> B]
    BY <1>9, SeqFunction
  <2> QED
    BY <2>1, <1>9, <1>10
<1>12. ASSUME NEW i \in 1..(n - 1), NEW j \in 1..(n - 1), i < j
       PROVE  Tail(q)[i].id < Tail(q)[j].id
  <2>1. i + 1 \in 1..n /\ j + 1 \in 1..n /\ i + 1 < j + 1
    BY <1>1, <1>12
  <2> QED
    BY <2>1, <1>2, <1>9
<1>13. InOrder(Tail(q), C)
  BY <1>8, <1>11, <1>12 DEF InOrder
<1>14. ById(C) = Tail(q)
  BY <1>7, <1>13, ByIdIs
<1> QED
  BY <1>4, <1>6, <1>7, <1>14 DEF q

(* The id of the last of a sequence, or less than any.                     *)
LastId(p) == IF p = <<>> THEN -1 ELSE Last(p).id

(* The batches behind a front of the queue are the rest of it.             *)
LEMMA ByIdAfter ==
    ASSUME NEW B, Distinct(B), NEW p, IsPrefix(p, ById(B)), p \in Seq(Batches)
    PROVE  /\ Len(p) <= Len(ById(B))
           /\ Distinct({b \in B : b.id > LastId(p)})
           /\ ById({b \in B : b.id > LastId(p)}) = SubSeq(ById(B), Len(p) + 1, Len(ById(B)))
<1> DEFINE n == Cardinality(B)
           q == ById(B)
           l == Len(p)
           C == {b \in B : b.id > LastId(p)}
           r == [i \in 1..(n - l) |-> q[l + i]]
<1>1. q \in Seq(B) /\ Len(q) = n /\ n \in Nat /\ B \subseteq Batches /\ IsFiniteSet(B)
  BY ByIdType DEF Distinct
<1>2. \A i, j \in 1..n : i < j => q[i].id < q[j].id
  BY <1>1, ByIdType
<1>3. \A c \in B : \E i \in 1..n : q[i] = c
  BY <1>1, ByIdType
<1>4. l \in Nat /\ l <= n /\ n - l \in Nat
  BY <1>1 DEF IsPrefix
<1>5. \A i \in 1..l : p[i] = q[i]
  <2>1. q \in Seq(Batches)
    BY ByIdType
  <2> QED
    BY <2>1, PrefixElements
<1>6. \A i \in 1..n : q[i] \in B /\ q[i].id \in Nat
  BY <1>1 DEF Batches
<1> HIDE DEF q, n
<1>7. ASSUME NEW i \in 1..n PROVE q[i] \in C <=> i > l
  <2>1. CASE p = <<>>
    <3>1. l = 0 /\ LastId(p) = -1
      BY <2>1 DEF LastId
    <3>2. i > l /\ q[i].id > -1
      BY <3>1, <1>6
    <3> QED
      BY <3>1, <3>2, <1>6
  <2>2. CASE p # <<>>
    <3>1. l \in 1..n /\ LastId(p) = q[l].id
      BY <2>2, <1>1, <1>4, <1>5 DEF LastId, Last
    <3>2. i > l => q[l].id < q[i].id
      BY <3>1, <1>2
    <3>3. i < l => q[i].id < q[l].id
      BY <3>1, <1>2
    <3>4. q[i].id \in Nat /\ q[l].id \in Nat /\ q[i] \in B
      BY <3>1, <1>6
    <3>5. i > l <=> q[i].id > q[l].id
      BY <3>1, <3>2, <3>3, <3>4
    <3> QED
      BY <3>1, <3>4, <3>5
  <2> QED
    BY <2>1, <2>2
<1>8. Distinct(C)
  BY DistinctPart
<1> HIDE DEF l, C
<1>9. \A i \in 1..(n - l) : l + i \in 1..n /\ l + i > l
  BY <1>1, <1>4
<1>10. r \in [1..(n - l) -> C]
  BY <1>7, <1>9
<1>11. ASSUME NEW i \in 1..(n - l), NEW j \in 1..(n - l), i < j PROVE r[i].id < r[j].id
  BY <1>2, <1>4, <1>9, <1>11
<1>12. ASSUME NEW c \in C PROVE \E i \in 1..(n - l) : r[i] = c
  <2>1. PICK j \in 1..n : q[j] = c
    BY <1>3, <1>12 DEF C
  <2>2. j > l
    BY <2>1, <1>7, <1>12
  <2>3. j - l \in 1..(n - l) /\ l + (j - l) = j
    BY <2>2, <1>1, <1>4
  <2> QED
    BY <2>1, <2>3
<1>13. \A i, j \in 1..(n - l) : r[i] = r[j] => i = j
  <2> SUFFICES ASSUME NEW i \in 1..(n - l), NEW j \in 1..(n - l), i < j PROVE r[i] # r[j]
    BY <1>4
  <2>1. r[i].id < r[j].id
    BY <1>11
  <2>2. r[i].id \in Nat
    BY <1>6, <1>9
  <2> QED
    BY <2>1, <2>2
<1>14. Cardinality(C) = n - l
  <2>1. r \in Injection(1..(n - l), C)
    BY <1>10, <1>13 DEF Injection, IsInjective
  <2>2. r \in Surjection(1..(n - l), C)
    BY <1>10, <1>12 DEF Surjection
  <2>3. IsFiniteSet(1..(n - l)) /\ Cardinality(1..(n - l)) = n - l
    BY <1>4, FS_Interval
  <2>4. ExistsBijection(1..(n - l), C)
    BY <2>1, <2>2 DEF Bijection, ExistsBijection
  <2> HIDE DEF r
  <2>5. Cardinality(1..(n - l)) = Cardinality(C)
    BY <2>3, <2>4, FS_Bijection
  <2> QED
    BY <2>3, <2>5
<1>15. InOrder(r, C)
  BY <1>10, <1>11, <1>14 DEF InOrder
<1>16. ById(C) = r
  BY <1>8, <1>15, ByIdIs
<1>17. SubSeq(q, l + 1, n) = r
  <2>1. SubSeq(q, l + 1, n) \in Seq(B) /\ Len(SubSeq(q, l + 1, n)) = n - l
    BY <1>1, <1>4
  <2>2. \A i \in 1..(n - l) : SubSeq(q, l + 1, n)[i] = q[l + i]
    BY <1>1, <1>4
  <2>3. r \in Seq(B) /\ Len(r) = n - l
    BY <1>4, <1>6, <1>9
  <2> HIDE DEF r
  <2>4. \A i \in 1..(n - l) : r[i] = q[l + i]
    BY DEF r
  <2> QED
    BY <2>1, <2>2, <2>3, <2>4, SeqEqual
<1> QED
  BY <1>1, <1>4, <1>8, <1>16, <1>17 DEF q, l, C

-----------------------------------------------------------------------------
(* What the operators on the client do, while no assertion fails.          *)

Fields == {"db", "user", "next", "callbacks", "told", "waiters", "woken", "network",
           "pipeline", "state", "closes", "handshake", "idle", "backoff", "health",
           "requests", "call", "out", "in", "sound"}
IsClient(s) == s = [f \in Fields |-> s[f]]
Running(s) == IsClient(s) /\ s.sound = TRUE

(* An assertion that holds changes nothing.                                *)
LEMMA Asserted ==
    ASSUME NEW s, Running(s), NEW c, c = TRUE
    PROVE  HardAssert(s, c) = s
<1>1. (s.sound /\ c) = TRUE
  BY DEF Running
<1>2. HardAssert(s, c) = [s EXCEPT !.sound = TRUE]
  BY <1>1 DEF HardAssert
<1> QED
  BY <1>2 DEF Running, IsClient, Fields

(* The requests made of batches are requests.                              *)
LEMMA RequestsType ==
    ASSUME NEW bs \in Seq(Batches)
    PROVE  /\ Requests(bs) \in Seq(AllRequests) /\ Len(Requests(bs)) = Len(bs)
           /\ \A i \in 1..Len(bs) : Requests(bs)[i] = [kind |-> "writes", batch |-> bs[i]]
           /\ (bs = <<>>) <=> (Requests(bs) = <<>>)
<1>1. DOMAIN bs = 1..Len(bs) /\ Len(bs) \in Nat /\ \A i \in 1..Len(bs) : bs[i] \in Batches
  OBVIOUS
<1>2. \A i \in 1..Len(bs) : [kind |-> "writes", batch |-> bs[i]] \in AllRequests
  BY <1>1 DEF AllRequests
<1>3. Requests(bs) \in [1..Len(bs) -> AllRequests]
  BY <1>1, <1>2 DEF Requests
<1>4. Requests(bs) \in Seq(AllRequests) /\ Len(Requests(bs)) = Len(bs)
  BY <1>1, <1>3
<1>5. \A i \in 1..Len(bs) : Requests(bs)[i] = [kind |-> "writes", batch |-> bs[i]]
  BY <1>1 DEF Requests
<1>6. (bs = <<>>) <=> (Requests(bs) = <<>>)
  BY <1>1, <1>4
<1> QED
  BY <1>4, <1>5, <1>6

(* Messages are written to an open stream.                                 *)
LEMMA WriteDoes ==
    ASSUME NEW s, Running(s), IsOpen(s), NEW ms, ms # <<>>
    PROVE  Write(s, ms) = [s EXCEPT !.idle = FALSE, !.out = s.out \o ms]
<1>1. HardAssert(s, IsOpen(s)) = s
  BY Asserted
<1> QED
  BY <1>1 DEF Write, Running, IsClient, Fields

(* On an open stream after the handshake the requests are sent.            *)
LEMMA WriteMutationsDoes ==
    ASSUME NEW s, Running(s), NEW bs \in Seq(Batches),
           bs # <<>> => IsOpen(s) /\ s.handshake
    PROVE  WriteMutations(s, bs) =
             IF bs = <<>> THEN s
             ELSE [s EXCEPT !.idle = FALSE, !.out = s.out \o Requests(bs)]
<1>1. HardAssert(s, bs = <<>> \/ s.handshake) = s
  <2>1. (bs = <<>> \/ s.handshake) = TRUE
    OBVIOUS
  <2> QED
    BY <2>1, Asserted
<1>2. (bs = <<>>) <=> (Requests(bs) = <<>>)
  BY RequestsType
<1>3. WriteMutations(s, bs) = Write(s, Requests(bs))
  BY <1>1 DEF WriteMutations
<1>4. CASE bs = <<>>
  BY <1>2, <1>3, <1>4 DEF Write
<1>5. CASE bs # <<>>
  BY <1>2, <1>3, <1>5, WriteDoes
<1> QED
  BY <1>4, <1>5

(* A batch enters the pipeline, and is sent at once if it can be.          *)
LEMMA AddDoes ==
    ASSUME NEW s, Running(s), s.pipeline \in Seq(Batches), NEW bs \in Seq(Batches),
           bs # <<>> => s.network /\ Len(s.pipeline) + Len(bs) <= kMaxPendingWrites
    PROVE  AddToWritePipeline(s, bs) =
             IF bs = <<>> THEN s
             ELSE IF IsOpen(s) /\ s.handshake
             THEN [s EXCEPT !.pipeline = s.pipeline \o bs, !.idle = FALSE,
                            !.out = s.out \o Requests(bs)]
             ELSE [s EXCEPT !.pipeline = s.pipeline \o bs]
<1> DEFINE fits == s.network /\ Len(s.pipeline) + Len(bs) <= kMaxPendingWrites
           t == [s EXCEPT !.pipeline = s.pipeline \o bs]
<1>1. HardAssert(s, bs = <<>> \/ fits) = s
  <2>1. (bs = <<>> \/ fits) = TRUE
    OBVIOUS
  <2> QED
    BY <2>1, Asserted
<1>2. AddToWritePipeline(s, bs) =
        IF IsOpen(t) /\ t.handshake THEN WriteMutations(t, bs) ELSE t
  BY <1>1 DEF AddToWritePipeline
<1>3. /\ Running(t) /\ t.state = s.state /\ t.handshake = s.handshake /\ t.out = s.out
      /\ IsOpen(t) <=> IsOpen(s)
  BY DEF Running, IsClient, Fields, IsOpen
<1>4. CASE bs = <<>>
  <2>1. s.pipeline \o bs = s.pipeline
    BY <1>4, ConcatEmptySeq
  <2>2. t = s
    BY <2>1 DEF Running, IsClient, Fields
  <2>3. IsOpen(t) /\ t.handshake => WriteMutations(t, bs) = t
    BY <1>3, <1>4, WriteMutationsDoes
  <2> QED
    BY <1>2, <1>4, <2>2, <2>3
<1>5. CASE bs # <<>> /\ IsOpen(s) /\ s.handshake
  <2>1. WriteMutations(t, bs) = [t EXCEPT !.idle = FALSE, !.out = t.out \o Requests(bs)]
    BY <1>3, <1>5, WriteMutationsDoes
  <2> QED
    BY <1>2, <1>3, <1>5, <2>1 DEF Running, IsClient, Fields
<1>6. CASE bs # <<>> /\ ~(IsOpen(s) /\ s.handshake)
  BY <1>2, <1>3, <1>6
<1> QED
  BY <1>4, <1>5, <1>6

(* The client between two calls: a queue and its front in the pipeline,    *)
(* and a stream that waits for a token or a timer only in the states that  *)
(* stand for it.                                                           *)
QueuesOK(s) == /\ s.user \in Users /\ s.db \in [Users -> SUBSET Batches]
               /\ \A u \in Users : Distinct(s.db[u])
PipeOK(s) == /\ s.user \in Users /\ s.db \in [Users -> SUBSET Batches]
             /\ \A u \in Users : Distinct(s.db[u])
             /\ s.pipeline \in Seq(Batches) /\ Len(s.pipeline) <= kMaxPendingWrites
             /\ IsPrefix(s.pipeline, ById(s.db[s.user]))

StreamOK(s) == /\ s.state \in {"Starting", "Backoff", "Open", "Healthy"} \cup Closed
               /\ s.closes \in Nat /\ s.requests \subseteq 0..s.closes
               /\ s.closes \in s.requests <=> s.state = "Starting"
               /\ s.backoff => s.state = "Backoff"

(* What the loop adds keeps the pipeline a front of the queue, and leaves  *)
(* room only if there is nothing more.                                     *)
LEMMA FittingDoes ==
    ASSUME NEW s, PipeOK(s)
    PROVE  /\ Fitting(s) \in Seq(Batches)
           /\ Fitting(s) # <<>> =>
                s.network /\ Len(s.pipeline) + Len(Fitting(s)) <= kMaxPendingWrites
           /\ s.pipeline \o Fitting(s) \in Seq(Batches)
           /\ IsPrefix(s.pipeline \o Fitting(s), ById(s.db[s.user]))
           /\ Len(s.pipeline \o Fitting(s)) <= kMaxPendingWrites
           /\ s.network => \/ Len(s.pipeline \o Fitting(s)) = kMaxPendingWrites
                           \/ s.pipeline \o Fitting(s) = ById(s.db[s.user])
<1> DEFINE B == s.db[s.user]
           q == ById(B)
           n == Len(q)
           p == s.pipeline
           l == Len(p)
           more == ById({b \in B : b.id > LastId(p)})
           room == IF s.network THEN kMaxPendingWrites - l ELSE 0
           m == IF Len(more) < room THEN Len(more) ELSE room
           f == Fitting(s)
<1>1. Distinct(B) /\ p \in Seq(Batches) /\ l <= kMaxPendingWrites /\ IsPrefix(p, q)
  BY DEF PipeOK
<1>2. q \in Seq(Batches) /\ n \in Nat /\ l \in Nat /\ kMaxPendingWrites \in Nat \ {0}
  BY <1>1, ByIdType, PipelineAssumption
<1>3. f = SubSeq(more, 1, m)
  BY DEF Fitting, LastId
<1>4. l <= n /\ more = SubSeq(q, l + 1, n)
  BY <1>1, ByIdAfter
<1> HIDE DEF q, p, f, B, more
<1>6. more \in Seq(Batches) /\ Len(more) = n - l /\ \A i \in 1..(n - l) : more[i] = q[l + i]
  BY <1>2, <1>4
<1>7. m \in Nat /\ m <= n - l /\ room \in Nat
  BY <1>1, <1>2, <1>4, <1>6
<1>8. f \in Seq(Batches) /\ Len(f) = m /\ \A i \in 1..m : f[i] = q[l + i]
  BY <1>3, <1>6, <1>7
<1>9. f # <<>> => s.network /\ l + Len(f) <= kMaxPendingWrites
  BY <1>1, <1>2, <1>7, <1>8
<1>10. \A i \in 1..l : p[i] = q[i]
  BY <1>1, <1>2, PrefixElements
<1> DEFINE r == p \o f
<1> HIDE DEF r
<1> HIDE DEF m, room
<1>11. /\ r \in Seq(Batches) /\ Len(r) = l + m
       /\ \A i \in 1..(l + m) : r[i] = IF i <= l THEN p[i] ELSE f[i - l]
  BY <1>1, <1>8, ConcatProperties DEF r
<1>12. \A i \in 1..(l + m) : r[i] = q[i]
  <2> SUFFICES ASSUME NEW i \in 1..(l + m) PROVE r[i] = q[i]
    OBVIOUS
  <2>1. CASE i <= l
    <3>1. i \in 1..l /\ r[i] = p[i]
      BY <2>1, <1>2, <1>7, <1>11
    <3> QED
      BY <3>1, <1>10
  <2>2. CASE i > l
    <3>1. i - l \in 1..m /\ l + (i - l) = i
      BY <2>2, <1>2, <1>7
    <3>2. r[i] = f[i - l]
      BY <2>2, <1>2, <1>7, <1>11
    <3> QED
      BY <3>1, <3>2, <1>8
  <2> QED
    BY <2>1, <2>2, <1>2
<1>13. IsPrefix(r, q)
  <2>1. l + m <= n
    BY <1>2, <1>7
  <2> QED
    BY <2>1, <1>2, <1>11, <1>12, PrefixElements
<1>14. l + m <= kMaxPendingWrites
  BY <1>1, <1>2, <1>7 DEF m, room
<1>15. s.network => l + m = kMaxPendingWrites \/ l + m = n
  BY <1>2, <1>6 DEF m, room
<1>16. l + m = n => r = q
  BY <1>2, <1>11, <1>12, SeqEqual
<1> QED
  BY <1>8, <1>9, <1>11, <1>13, <1>14, <1>15, <1>16 DEF r, q, p, f, B

(* A stream that is started waits for its token or for its backoff timer.  *)
LEMMA StartDoes ==
    ASSUME NEW s, Running(s), StreamOK(s), ~IsStarted(s)
    PROVE  /\ Running(Start(s)) /\ StreamOK(Start(s))
           /\ IsStarted(Start(s)) /\ ~IsOpen(Start(s))
           /\ \A f \in Fields \ {"state", "backoff", "requests"} : Start(s)[f] = s[f]
<1>1. s.state \in Closed
  BY DEF StreamOK, IsStarted, IsOpen, Closed
<1>2. CASE s.state = "Error"
  <2>1. Start(s) = [s EXCEPT !.state = "Backoff", !.backoff = TRUE]
    BY <1>2 DEF Start
  <2>2. /\ Running(Start(s)) /\ Start(s).state = "Backoff" /\ Start(s).closes = s.closes
        /\ Start(s).requests = s.requests
        /\ \A f \in Fields \ {"state", "backoff", "requests"} : Start(s)[f] = s[f]
    BY <2>1 DEF Running, IsClient, Fields
  <2> QED
    BY <2>2, <1>2 DEF StreamOK, IsStarted, IsOpen
<1>3. CASE s.state = "Initial"
  <2>1. HardAssert(s, s.state = "Initial") = s
    BY <1>3, Asserted
  <2>2. Start(s) = [s EXCEPT !.state = "Starting", !.requests = s.requests \cup {s.closes}]
    BY <1>3, <2>1 DEF Start, RequestCredentials, Running, IsClient, Fields
  <2>3. /\ Running(Start(s)) /\ Start(s).state = "Starting" /\ Start(s).closes = s.closes
        /\ Start(s).requests = s.requests \cup {s.closes} /\ Start(s).backoff = s.backoff
        /\ \A f \in Fields \ {"state", "backoff", "requests"} : Start(s)[f] = s[f]
    BY <2>2 DEF Running, IsClient, Fields
  <2> QED
    BY <2>3, <1>3 DEF StreamOK, IsStarted, IsOpen
<1> QED
  BY <1>1, <1>2, <1>3 DEF Closed

(* A backoff that is given up.                                             *)
LEMMA InhibitDoes ==
    ASSUME NEW s, Running(s), StreamOK(s), ~IsStarted(s)
    PROVE  /\ Running(InhibitBackoff(s)) /\ StreamOK(InhibitBackoff(s))
           /\ ~IsStarted(InhibitBackoff(s))
           /\ \A f \in Fields \ {"state"} : InhibitBackoff(s)[f] = s[f]
<1> DEFINE t == [s EXCEPT !.state = "Initial"]
<1>1. HardAssert(s, ~IsStarted(s)) = s
  BY Asserted
<1>2. InhibitBackoff(s) = t
  BY <1>1 DEF InhibitBackoff
<1>3. Running(t) /\ t.state = "Initial" /\ \A f \in Fields \ {"state"} : t[f] = s[f]
  BY DEF Running, IsClient, Fields
<1>4. StreamOK(t) /\ ~IsStarted(t)
  <2>1. t.closes = s.closes /\ t.requests = s.requests /\ t.backoff = s.backoff
    BY <1>3 DEF Fields
  <2> QED
    BY <1>3, <2>1 DEF StreamOK, IsStarted, IsOpen, Closed
<1> QED
  BY <1>2, <1>3, <1>4

(* Filling the pipeline: the requests of an open call follow it, the idle  *)
(* timer is set only when there is nothing to write, and the stream is     *)
(* started when there is.                                                  *)
LEMMA FillDoes ==
    ASSUME NEW s, Running(s), PipeOK(s), StreamOK(s)
    PROVE  LET t == FillWritePipeline(s)
               more == Fitting(s)
           IN /\ Running(t) /\ PipeOK(t) /\ StreamOK(t)
              /\ \A f \in Fields \ {"pipeline", "out", "idle", "state", "backoff", "requests"} :
                   t[f] = s[f]
              /\ t.pipeline = s.pipeline \o more
              /\ s.network /\ t.pipeline = <<>> => s.db[s.user] = {}
              /\ t.idle => \/ s.idle /\ ~(more # <<>> /\ IsOpen(s) /\ s.handshake)
                           \/ IsOpen(s) /\ s.network /\ t.pipeline = <<>>
              /\ t.out = IF more # <<>> /\ IsOpen(s) /\ s.handshake
                         THEN s.out \o Requests(more) ELSE s.out
              /\ IsOpen(t) <=> IsOpen(s)
              /\ IsStarted(s) => IsStarted(t) /\ t.state = s.state
              /\ IsStarted(t) => IsStarted(s) \/ s.network
              /\ s.network /\ t.pipeline # <<>> => IsStarted(t)
<1> DEFINE more == Fitting(s)
           sent == more # <<>> /\ IsOpen(s) /\ s.handshake
           p == s.pipeline \o more
           filled == AddToWritePipeline(s, more)
           quiet == CanAddToWritePipeline(filled) /\ filled.pipeline = <<>>
           u == IF quiet THEN MarkIdle(filled) ELSE filled
           t == FillWritePipeline(s)
           Changed == {"pipeline", "out", "idle", "state", "backoff", "requests"}
<1>1. s.pipeline \in Seq(Batches) /\ more \in Seq(Batches)
  BY FittingDoes DEF PipeOK
<1>2. /\ p \in Seq(Batches) /\ IsPrefix(p, ById(s.db[s.user])) /\ Len(p) <= kMaxPendingWrites
      /\ s.network => Len(p) = kMaxPendingWrites \/ p = ById(s.db[s.user])
  BY FittingDoes
<1>3. more # <<>> => s.network /\ Len(s.pipeline) + Len(more) <= kMaxPendingWrites
  BY FittingDoes
<1> HIDE DEF more
<1>4. filled = IF more = <<>> THEN s
               ELSE IF IsOpen(s) /\ s.handshake
               THEN [s EXCEPT !.pipeline = p, !.idle = FALSE, !.out = s.out \o Requests(more)]
               ELSE [s EXCEPT !.pipeline = p]
  BY <1>1, <1>3, AddDoes
<1>5. more = <<>> => p = s.pipeline
  BY <1>1, ConcatEmptySeq
<1> HIDE DEF p
<1>6. /\ Running(filled) /\ filled.pipeline = p
      /\ \A f \in Fields \ {"pipeline", "out", "idle"} : filled[f] = s[f]
      /\ filled.out = IF sent THEN s.out \o Requests(more) ELSE s.out
      /\ filled.idle => s.idle /\ ~sent
  <2>1. CASE more = <<>>
    BY <1>4, <1>5, <2>1 DEF Running, IsClient, Fields
  <2>2. CASE more # <<>> /\ IsOpen(s) /\ s.handshake
    BY <1>4, <2>2 DEF Running, IsClient, Fields
  <2>3. CASE more # <<>> /\ ~(IsOpen(s) /\ s.handshake)
    BY <1>4, <2>3 DEF Running, IsClient, Fields
  <2> QED
    BY <2>1, <2>2, <2>3
<1> HIDE DEF filled
<1>7. IsOpen(filled) <=> IsOpen(s)
  BY <1>6 DEF Fields, IsOpen
<1>8. quiet => s.network /\ p = <<>>
  BY <1>6 DEF CanAddToWritePipeline, Fields
<1>9. /\ Running(u) /\ u.pipeline = p /\ u.out = filled.out
      /\ \A f \in Fields \ {"pipeline", "out", "idle"} : u[f] = s[f]
      /\ u.idle => (s.idle /\ ~sent) \/ (IsOpen(s) /\ s.network /\ p = <<>>)
  <2>1. CASE quiet /\ IsOpen(filled)
    <3>1. u = [filled EXCEPT !.idle = TRUE]
      BY <2>1 DEF MarkIdle
    <3>2. \A f \in Fields \ {"idle"} : u[f] = filled[f]
      BY <3>1, <1>6 DEF Running, IsClient, Fields
    <3>3. Running(u)
      BY <3>1, <1>6 DEF Running, IsClient, Fields
    <3>4. u.pipeline = p /\ u.out = filled.out
      BY <3>2, <1>6 DEF Fields
    <3> QED
      BY <3>2, <3>3, <3>4, <1>6, <1>7, <1>8, <2>1
  <2>2. CASE ~(quiet /\ IsOpen(filled))
    <3>1. u = filled
      BY <2>2 DEF MarkIdle
    <3> QED
      BY <3>1, <1>6
  <2> QED
    BY <2>1, <2>2
<1>10. t = IF ShouldStartWriteStream(u) THEN Start(u) ELSE u
  BY DEF FillWritePipeline, filled, more
<1> HIDE DEF u, t, quiet
<1>11. /\ u.state = s.state /\ u.closes = s.closes /\ u.requests = s.requests
       /\ u.backoff = s.backoff /\ u.network = s.network /\ u.user = s.user /\ u.db = s.db
  BY <1>9 DEF Fields
<1>12. StreamOK(u) /\ (IsStarted(u) <=> IsStarted(s)) /\ (IsOpen(u) <=> IsOpen(s))
  BY <1>11 DEF StreamOK, IsStarted, IsOpen
<1>13. ShouldStartWriteStream(u) <=> s.network /\ ~IsStarted(s) /\ p # <<>>
  BY <1>9, <1>11, <1>12 DEF ShouldStartWriteStream
<1>14. /\ Running(t) /\ StreamOK(t) /\ t.pipeline = p /\ t.out = filled.out /\ t.idle = u.idle
       /\ \A f \in Fields \ Changed : t[f] = s[f]
       /\ IsOpen(t) <=> IsOpen(s)
       /\ IsStarted(s) => IsStarted(t) /\ t.state = s.state
       /\ IsStarted(t) => IsStarted(s) \/ s.network
       /\ s.network /\ p # <<>> => IsStarted(t)
  <2>1. CASE ShouldStartWriteStream(u)
    <3>1. /\ Running(t) /\ StreamOK(t) /\ IsStarted(t) /\ ~IsOpen(t)
          /\ \A f \in Fields \ {"state", "backoff", "requests"} : t[f] = u[f]
      BY <1>9, <1>10, <1>12, <1>13, <2>1, StartDoes
    <3>2. t.pipeline = p /\ t.out = filled.out /\ t.idle = u.idle
      BY <3>1, <1>9 DEF Fields
    <3>3. \A f \in Fields \ Changed : t[f] = s[f]
      BY <3>1, <1>9
    <3>4. ~IsOpen(s)
      BY <1>13, <2>1 DEF IsStarted
    <3> QED
      BY <3>1, <3>2, <3>3, <3>4, <1>13, <2>1
  <2>2. CASE ~ShouldStartWriteStream(u)
    <3>1. t = u
      BY <1>10, <2>2
    <3> QED
      BY <3>1, <1>9, <1>11, <1>12, <1>13, <2>2
  <2> QED
    BY <2>1, <2>2
<1>15. PipeOK(t)
  <2>1. t.user = s.user /\ t.db = s.db
    BY <1>14 DEF Fields
  <2> QED
    BY <2>1, <1>2, <1>14 DEF PipeOK
<1>16. s.network /\ p = <<>> => s.db[s.user] = {}
  <2>1. Distinct(s.db[s.user])
    BY DEF PipeOK
  <2>2. p = <<>> => Len(p) # kMaxPendingWrites
    BY PipelineAssumption
  <2> QED
    BY <2>1, <2>2, <1>2, ByIdType
<1> QED
  BY <1>6, <1>9, <1>14, <1>15, <1>16 DEF t, p, more

(* The batch at the front of the pipeline is settled: it leaves the queue, *)
(* its callback is called, and those who wait for it are woken.            *)
Called(s, id) == {c \in s.callbacks : c.user = s.user /\ c.id = id}
ToldOf(s, id, ok) ==
  IF Called(s, id) = {} THEN s.told
  ELSE Append(s.told, [write |-> (CHOOSE c \in Called(s, id) : TRUE).write, ok |-> ok])
WokenOf(s, id) ==
  s.woken \cup {[number |-> c.number, ok |-> TRUE] : c \in {d \in s.waiters : d.id = id}}

Settles(s, t, ok) ==
  LET b == Head(s.pipeline)
  IN /\ s.pipeline # <<>> /\ t.user = s.user /\ t.next = s.next
     /\ t.db = [s.db EXCEPT ![s.user] = @ \ {b}]
     /\ t.callbacks = s.callbacks \ Called(s, b.id) /\ t.told = ToldOf(s, b.id, ok)
     /\ t.waiters = {c \in s.waiters : c.id # b.id} /\ t.woken = WokenOf(s, b.id)

Outcome == {"db", "user", "next", "callbacks", "told", "waiters", "woken"}
SettleFields == {"db", "callbacks", "told", "waiters", "woken"}

(* The front of the pipeline is the front of the queue.                    *)
LEMMA PipelineHead ==
    ASSUME NEW s, PipeOK(s), s.pipeline # <<>>
    PROVE  LET B == s.db[s.user]
               b == Head(s.pipeline)
           IN /\ b \in B /\ b \in Batches /\ b = Head(ById(B)) /\ B # {}
              /\ \A c \in B \ {b} : b.id < c.id
              /\ {c \in B : c.id # b.id} = B \ {b}
              /\ Distinct(B \ {b}) /\ ById(B \ {b}) = Tail(ById(B))
              /\ Tail(s.pipeline) \in Seq(Batches) /\ IsPrefix(Tail(s.pipeline), ById(B \ {b}))
              /\ Len(Tail(s.pipeline)) = Len(s.pipeline) - 1
<1> DEFINE B == s.db[s.user]
           p == s.pipeline
           q == ById(B)
           l == Len(p)
<1>1. Distinct(B) /\ p \in Seq(Batches) /\ IsPrefix(p, q) /\ p # <<>>
  BY DEF PipeOK
<1>2. q \in Seq(Batches) /\ (B = {} <=> q = <<>>) /\ B \subseteq Batches
  BY <1>1, ByIdType DEF Distinct
<1> HIDE DEF p, q, B
<1>3. l \in Nat \ {0} /\ l <= Len(q)
  BY <1>1 DEF IsPrefix
<1>4. \A i \in 1..l : p[i] = q[i]
  BY <1>1, <1>2, PrefixElements
<1>5. Head(p) = p[1] /\ Head(q) = q[1] /\ q # <<>> /\ Head(p) = Head(q)
  BY <1>1, <1>2, <1>3, <1>4
<1>6. /\ Head(p) \in B /\ \A c \in B \ {Head(p)} : Head(p).id < c.id
      /\ Distinct(B \ {Head(p)}) /\ ById(B \ {Head(p)}) = Tail(q)
  <2>1. B # {}
    BY <1>2, <1>5
  <2> QED
    BY <2>1, <1>1, <1>5, ByIdRemoveFirst DEF q
<1>7. {c \in B : c.id # Head(p).id} = B \ {Head(p)}
  <2>1. \A c \in B : c.id = Head(p).id => c = Head(p)
    BY <1>1, <1>6 DEF Distinct
  <2> QED
    BY <2>1
<1>8. IsPrefix(Tail(p), Tail(q))
  <2>1. /\ Tail(p) \in Seq(Batches) /\ Len(Tail(p)) = l - 1
        /\ \A i \in 1..(l - 1) : Tail(p)[i] = p[i + 1]
    BY <1>1
  <2>2. /\ Tail(q) \in Seq(Batches) /\ Len(Tail(q)) = Len(q) - 1
        /\ \A i \in 1..(Len(q) - 1) : Tail(q)[i] = q[i + 1]
    BY <1>2, <1>5
  <2>3. \A i \in 1..(l - 1) : i + 1 \in 1..l /\ Tail(p)[i] = Tail(q)[i]
    BY <1>2, <1>3, <1>4, <2>1, <2>2
  <2>4. Len(Tail(p)) <= Len(Tail(q))
    BY <1>2, <1>3, <2>1, <2>2
  <2> QED
    BY <2>1, <2>2, <2>3, <2>4, PrefixElements
<1>9. Tail(p) \in Seq(Batches) /\ Len(Tail(p)) = l - 1
  BY <1>1
<1> QED
  BY <1>2, <1>5, <1>6, <1>7, <1>8, <1>9 DEF p, q, B

(* The three parts of settling a batch.                                    *)
LEMMA NotifyDoes ==
    ASSUME NEW s, Running(s), NEW id, NEW ok
    PROVE  LET t == NotifyUser(s, id, ok)
           IN /\ Running(t) /\ \A f \in Fields \ {"callbacks", "told"} : t[f] = s[f]
              /\ t.callbacks = s.callbacks \ Called(s, id) /\ t.told = ToldOf(s, id, ok)
<1> DEFINE c == CHOOSE d \in Called(s, id) : TRUE
           t == NotifyUser(s, id, ok)
<1>1. t = IF Called(s, id) = {} THEN s
          ELSE [s EXCEPT !.callbacks = s.callbacks \ Called(s, id),
                         !.told = Append(s.told, [write |-> c.write, ok |-> ok])]
  BY DEF NotifyUser, Called
<1> HIDE DEF t, c
<1>2. CASE Called(s, id) = {}
  <2>1. t = s /\ s.callbacks \ Called(s, id) = s.callbacks
    BY <1>1, <1>2
  <2> QED
    BY <1>2, <2>1 DEF ToldOf, t
<1>3. CASE Called(s, id) # {}
  <2>1. t = [s EXCEPT !.callbacks = s.callbacks \ Called(s, id),
                      !.told = Append(s.told, [write |-> c.write, ok |-> ok])]
    BY <1>1, <1>3
  <2>2. /\ Running(t) /\ \A f \in Fields \ {"callbacks", "told"} : t[f] = s[f]
        /\ t.callbacks = s.callbacks \ Called(s, id)
        /\ t.told = Append(s.told, [write |-> c.write, ok |-> ok])
    BY <2>1 DEF Running, IsClient, Fields
  <2> QED
    BY <2>2, <1>3 DEF ToldOf, c, t
<1> QED
  BY <1>2, <1>3 DEF t

(* Who waits for this id is woken; the client is otherwise as it was.      *)
LEMMA TriggerDoes ==
    ASSUME NEW s, Running(s), NEW id
    PROVE  LET t == TriggerPendingWriteCallbacks(s, id)
           IN /\ Running(t) /\ \A f \in Fields \ {"waiters", "woken"} : t[f] = s[f]
              /\ t.waiters = {c \in s.waiters : c.id # id} /\ t.woken = WokenOf(s, id)
<1> DEFINE called == {c \in s.waiters : c.id = id}
           t == TriggerPendingWriteCallbacks(s, id)
<1>1. t = [s EXCEPT !.waiters = s.waiters \ called, !.woken = WokenOf(s, id)]
  BY DEF TriggerPendingWriteCallbacks, WokenOf, Running, IsClient, Fields
<1>2. s.waiters \ called = {c \in s.waiters : c.id # id}
  OBVIOUS
<1> HIDE DEF t, called
<1>3. /\ Running(t) /\ \A f \in Fields \ {"waiters", "woken"} : t[f] = s[f]
      /\ t.waiters = s.waiters \ called /\ t.woken = WokenOf(s, id)
  BY <1>1 DEF Running, IsClient, Fields
<1> QED
  BY <1>2, <1>3 DEF t

(* The batch leaves the queue of the user, and nothing else changes.       *)
LEMMA RemoveDoes ==
    ASSUME NEW s, Running(s), NEW id, id \in Ids(s.db[s.user])
    PROVE  LET t == RemoveMutationBatch(s, id)
           IN /\ Running(t) /\ \A f \in Fields \ {"db"} : t[f] = s[f]
              /\ t.db = [s.db EXCEPT ![s.user] = {b \in @ : b.id # id}]
<1> DEFINE t == RemoveMutationBatch(s, id)
           db == [s.db EXCEPT ![s.user] = {b \in @ : b.id # id}]
<1>1. HardAssert(s, id \in Ids(s.db[s.user])) = s
  BY Asserted
<1>2. t = [s EXCEPT !.db[s.user] = {b \in @ : b.id # id}]
  BY <1>1 DEF RemoveMutationBatch
<1>3. t = [s EXCEPT !.db = db]
  BY <1>2
<1> HIDE DEF t, db
<1>4. Running(t) /\ (\A f \in Fields \ {"db"} : t[f] = s[f]) /\ t.db = db
  BY <1>3 DEF Running, IsClient, Fields
<1> QED
  BY <1>4 DEF t, db

(* Both ways of settling the front of the pipeline, which has been taken   *)
(* out of it before.                                                       *)
LEMMA SettleDoes ==
    ASSUME NEW s, PipeOK(s), s.pipeline # <<>>,
           NEW r, Running(r), r.pipeline = Tail(s.pipeline),
           \A f \in Outcome : r[f] = s[f],
           NEW ok \in BOOLEAN,
           NEW t, t = IF ok THEN HandleSuccessfulWrite(r, Head(s.pipeline).id)
                            ELSE HandleRejectedWrite(r, Head(s.pipeline).id)
    PROVE  /\ Running(t) /\ PipeOK(t) /\ Settles(s, t, ok)
           /\ \A f \in Fields \ SettleFields : t[f] = r[f]
<1> DEFINE B == s.db[s.user]
           b == Head(s.pipeline)
           id == b.id
           db == [s.db EXCEPT ![s.user] = {c \in @ : c.id # id}]
<1>1. /\ b \in B /\ {c \in B : c.id # id} = B \ {b}
      /\ Distinct(B \ {b}) /\ ById(B \ {b}) = Tail(ById(B))
      /\ Tail(s.pipeline) \in Seq(Batches) /\ IsPrefix(Tail(s.pipeline), ById(B \ {b}))
      /\ Len(Tail(s.pipeline)) = Len(s.pipeline) - 1
  BY PipelineHead
<1>2. /\ r.db = s.db /\ r.user = s.user /\ r.next = s.next /\ r.callbacks = s.callbacks
      /\ r.told = s.told /\ r.waiters = s.waiters /\ r.woken = s.woken
  BY DEF Outcome
<1>3. id \in Ids(r.db[r.user])
  BY <1>1, <1>2 DEF Ids
<1>4. /\ Called(r, id) = Called(s, id) /\ ToldOf(r, id, ok) = ToldOf(s, id, ok)
      /\ WokenOf(r, id) = WokenOf(s, id)
  BY <1>2 DEF Called, ToldOf, WokenOf
<1> HIDE DEF id
<1>5. /\ Running(t) /\ \A f \in Fields \ SettleFields : t[f] = r[f]
      /\ t.db = db /\ t.callbacks = s.callbacks \ Called(s, id) /\ t.told = ToldOf(s, id, ok)
      /\ t.waiters = {c \in s.waiters : c.id # id} /\ t.woken = WokenOf(s, id)
  <2>1. CASE ok
    <3> DEFINE n == NotifyUser(r, id, ok)
               w == TriggerPendingWriteCallbacks(n, id)
    <3>1. /\ Running(n) /\ \A f \in Fields \ {"callbacks", "told"} : n[f] = r[f]
          /\ n.callbacks = r.callbacks \ Called(r, id) /\ n.told = ToldOf(r, id, ok)
      BY NotifyDoes
    <3> HIDE DEF n
    <3>2. /\ Running(w) /\ \A f \in Fields \ {"waiters", "woken"} : w[f] = n[f]
          /\ w.waiters = {c \in n.waiters : c.id # id} /\ w.woken = WokenOf(n, id)
      BY <3>1, TriggerDoes
    <3> HIDE DEF w
    <3> ok = TRUE
      BY <2>1
    <3>3. t = RemoveMutationBatch(w, id)
      BY <2>1 DEF HandleSuccessfulWrite, n, w, id
    <3>4. w.db = r.db /\ w.user = r.user /\ n.waiters = r.waiters /\ n.woken = r.woken
      BY <3>1, <3>2 DEF Fields
    <3>5. /\ Running(t) /\ \A f \in Fields \ {"db"} : t[f] = w[f]
          /\ t.db = [w.db EXCEPT ![w.user] = {c \in @ : c.id # id}]
      BY <3>2, <3>3, <3>4, <1>3, RemoveDoes
    <3>6. \A f \in Fields \ SettleFields : t[f] = r[f]
      BY <3>1, <3>2, <3>5 DEF SettleFields
    <3>7. t.db = db
      BY <3>4, <3>5, <1>2 DEF id
    <3>8. /\ t.callbacks = n.callbacks /\ t.told = n.told /\ t.waiters = w.waiters
          /\ t.woken = w.woken
      BY <3>2, <3>5 DEF Fields
    <3>9. WokenOf(n, id) = WokenOf(r, id)
      BY <3>4 DEF WokenOf
    <3> QED
      BY <3>1, <3>2, <3>4, <3>5, <3>6, <3>7, <3>8, <3>9, <1>2, <1>4, <2>1 DEF id
  <2>2. CASE ~ok
    <3> DEFINE m == RemoveMutationBatch(r, id)
               n == NotifyUser(m, id, ok)
    <3>1. /\ Running(m) /\ \A f \in Fields \ {"db"} : m[f] = r[f]
          /\ m.db = [r.db EXCEPT ![r.user] = {c \in @ : c.id # id}]
      BY <1>3, RemoveDoes
    <3> HIDE DEF m
    <3>2. /\ Running(n) /\ \A f \in Fields \ {"callbacks", "told"} : n[f] = m[f]
          /\ n.callbacks = m.callbacks \ Called(m, id) /\ n.told = ToldOf(m, id, ok)
      BY <3>1, NotifyDoes
    <3> HIDE DEF n
    <3> ok = FALSE
      BY <2>2
    <3>3. t = TriggerPendingWriteCallbacks(n, id)
      BY <2>2 DEF HandleRejectedWrite, n, m, id
    <3>4. /\ m.callbacks = r.callbacks /\ m.told = r.told /\ m.user = r.user
          /\ n.waiters = r.waiters /\ n.woken = r.woken /\ n.db = m.db
      BY <3>1, <3>2 DEF Fields
    <3>5. /\ Running(t) /\ \A f \in Fields \ {"waiters", "woken"} : t[f] = n[f]
          /\ t.waiters = {c \in n.waiters : c.id # id} /\ t.woken = WokenOf(n, id)
      BY <3>2, <3>3, TriggerDoes
    <3>6. \A f \in Fields \ SettleFields : t[f] = r[f]
      BY <3>1, <3>2, <3>5 DEF SettleFields
    <3>7. t.db = n.db /\ t.callbacks = n.callbacks /\ t.told = n.told
      BY <3>5 DEF Fields
    <3>8. t.db = db
      BY <3>1, <3>4, <3>7, <1>2 DEF id
    <3>9. Called(m, id) = Called(r, id) /\ ToldOf(m, id, ok) = ToldOf(r, id, ok)
      BY <3>4 DEF Called, ToldOf
    <3>10. WokenOf(n, id) = WokenOf(r, id)
      BY <3>4 DEF WokenOf
    <3> QED
      BY <3>2, <3>4, <3>5, <3>6, <3>7, <3>8, <3>9, <3>10, <1>2, <1>4 DEF id
  <2> QED
    BY <2>1, <2>2
<1>6. t.user = s.user /\ t.next = s.next /\ t.pipeline = Tail(s.pipeline)
  BY <1>2, <1>5 DEF Fields, SettleFields
<1>7. t.db = [s.db EXCEPT ![s.user] = B \ {b}]
  BY <1>1, <1>5 DEF id
<1>8. Settles(s, t, ok)
  BY <1>5, <1>6, <1>7 DEF Settles, id
<1>9. PipeOK(t)
  <2>1. s.user \in Users /\ s.db \in [Users -> SUBSET Batches] /\ \A u \in Users : Distinct(s.db[u])
    BY DEF PipeOK
  <2>2. t.db[t.user] = B \ {b}
    BY <1>6, <1>7, <2>1
  <2>3. t.db \in [Users -> SUBSET Batches] /\ \A u \in Users : Distinct(t.db[u])
    BY <1>1, <1>7, <2>1
  <2>4. Len(Tail(s.pipeline)) <= kMaxPendingWrites
    BY <1>1, PipelineAssumption DEF PipeOK
  <2> QED
    BY <1>1, <1>6, <2>1, <2>2, <2>3, <2>4 DEF PipeOK
<1> QED
  BY <1>5, <1>8, <1>9

(* A stream that is not open: nothing is under way, no handshake is done.  *)
Counted(s) == s.closes \in Nat /\ s.requests \subseteq 0..s.closes
Silent(s) == /\ ~s.handshake /\ ~s.idle /\ ~s.call /\ s.out = <<>> /\ s.in = <<>>
             /\ ~IsOpen(s)

(* What Close does to the stream itself.                                   *)
Cut(s, state) == [s EXCEPT !.idle = FALSE, !.backoff = FALSE, !.health = FALSE,
                           !.closes = s.closes + 1, !.call = FALSE, !.out = <<>>,
                           !.in = <<>>, !.state = state]
CutFields == {"idle", "backoff", "health", "closes", "call", "out", "in", "state"}
Hung(s) == [s EXCEPT !.handshake = FALSE]

(* Close is the end of the stream, the call back into the RemoteStore and  *)
(* the reset of the handshake, in this order.                              *)
LEMMA CloseIsCut ==
    ASSUME NEW s, Running(s), IsStarted(s), NEW status
    PROVE  Close(s, status) =
             Hung(OnWriteStreamClose(
               Cut(s, IF status = "ok" THEN "Initial" ELSE "Error"), status))
<1>1. HardAssert(s, IsStarted(s)) = s
  BY Asserted
<1> DEFINE t == [s EXCEPT !.idle = FALSE, !.backoff = FALSE, !.health = FALSE,
                   !.closes = @ + 1, !.call = FALSE, !.out = <<>>, !.in = <<>>,
                   !.state = IF status = "ok" THEN "Initial" ELSE "Error"]
<1>2. Close(s, status) = [OnWriteStreamClose(t, status) EXCEPT !.handshake = FALSE]
  BY <1>1 DEF Close
<1>3. t = Cut(s, IF status = "ok" THEN "Initial" ELSE "Error")
  BY DEF Cut
<1> QED
  BY <1>2, <1>3 DEF Hung

(* What had been asked for or was under way is void, whatever its state.   *)
LEMMA CutDoes ==
    ASSUME NEW s, Running(s), Counted(s), NEW state \in Closed
    PROVE  LET t == Cut(s, state)
           IN /\ Running(t) /\ (PipeOK(s) => PipeOK(t)) /\ StreamOK(t) /\ ~IsStarted(t)
              /\ ~t.idle /\ ~t.call /\ t.out = <<>> /\ t.in = <<>> /\ t.state = state
              /\ \A f \in Fields \ CutFields : t[f] = s[f]
<1> DEFINE t == Cut(s, state)
<1>1. /\ Running(t) /\ ~t.idle /\ ~t.call /\ t.out = <<>> /\ t.in = <<>> /\ t.state = state
      /\ t.closes = s.closes + 1 /\ ~t.backoff
      /\ \A f \in Fields \ CutFields : t[f] = s[f]
  BY DEF Cut, CutFields, Running, IsClient, Fields
<1> HIDE DEF t
<1>2. /\ t.requests = s.requests /\ t.user = s.user /\ t.db = s.db /\ t.pipeline = s.pipeline
  BY <1>1 DEF Fields, CutFields
<1>3. PipeOK(s) => PipeOK(t)
  BY <1>2 DEF PipeOK
<1>4. t.requests \subseteq 0..t.closes /\ t.closes \notin t.requests /\ t.closes \in Nat
  BY <1>1, <1>2 DEF Counted
<1>5. StreamOK(t) /\ ~IsStarted(t)
  BY <1>1, <1>4 DEF StreamOK, Closed, IsStarted, IsOpen
<1> QED
  BY <1>1, <1>3, <1>5 DEF t

(* After the callback only the handshake is left to be reset.              *)
LEMMA HungDoes ==
    ASSUME NEW s, Running(s), StreamOK(s), ~IsOpen(s),
           ~s.idle, ~s.call, s.out = <<>>, s.in = <<>>
    PROVE  LET t == Hung(s)
           IN /\ Running(t) /\ (PipeOK(s) => PipeOK(t)) /\ StreamOK(t) /\ Silent(t)
              /\ IsStarted(t) <=> IsStarted(s)
              /\ \A f \in Fields \ {"handshake"} : t[f] = s[f]
<1> DEFINE t == Hung(s)
<1>1. Running(t) /\ ~t.handshake /\ \A f \in Fields \ {"handshake"} : t[f] = s[f]
  BY DEF Hung, Running, IsClient, Fields
<1> HIDE DEF t
<1>2. /\ t.requests = s.requests /\ t.user = s.user /\ t.db = s.db /\ t.pipeline = s.pipeline
      /\ t.state = s.state /\ t.backoff = s.backoff /\ t.closes = s.closes
      /\ t.idle = s.idle /\ t.call = s.call /\ t.out = s.out /\ t.in = s.in
  BY <1>1 DEF Fields
<1>3. (PipeOK(s) => PipeOK(t)) /\ StreamOK(t) /\ Silent(t) /\ (IsStarted(t) <=> IsStarted(s))
  BY <1>1, <1>2 DEF PipeOK, StreamOK, Silent, IsStarted, IsOpen
<1> QED
  BY <1>1, <1>3 DEF t

(* The client closes the stream when it has nothing to write.              *)
LEMMA CloseQuietly ==
    ASSUME NEW s, Running(s), StreamOK(s),
           s.network => s.pipeline = <<>>, IsStarted(s)
    PROVE  LET t == Close(s, "ok")
           IN /\ Running(t) /\ (PipeOK(s) => PipeOK(t)) /\ StreamOK(t)
              /\ Silent(t) /\ ~IsStarted(t)
              /\ \A f \in Outcome \cup {"network", "pipeline"} : t[f] = s[f]
<1> DEFINE c == Cut(s, "Initial")
<1>1. Close(s, "ok") = Hung(OnWriteStreamClose(c, "ok"))
  BY CloseIsCut
<1>2. /\ Running(c) /\ (PipeOK(s) => PipeOK(c)) /\ StreamOK(c) /\ ~IsStarted(c)
      /\ ~c.idle /\ ~c.call /\ c.out = <<>> /\ c.in = <<>>
      /\ \A f \in Fields \ CutFields : c[f] = s[f]
  BY CutDoes DEF Closed, StreamOK, Counted
<1> HIDE DEF c
<1>3. ~ShouldStartWriteStream(c)
  BY <1>2 DEF ShouldStartWriteStream, Fields, CutFields
<1>4. HardAssert(c, ~ShouldStartWriteStream(c)) = c
  BY <1>2, <1>3, Asserted
<1>5. OnWriteStreamClose(c, "ok") = c
  BY <1>3, <1>4 DEF OnWriteStreamClose
<1>6. ~IsOpen(c)
  BY <1>2 DEF IsStarted
<1>7. /\ Running(Hung(c)) /\ (PipeOK(s) => PipeOK(Hung(c)))
      /\ StreamOK(Hung(c)) /\ Silent(Hung(c))
      /\ ~IsStarted(Hung(c)) /\ \A f \in Fields \ {"handshake"} : Hung(c)[f] = c[f]
  BY <1>2, <1>6, HungDoes
<1>8. \A f \in Outcome \cup {"network", "pipeline"} : Hung(c)[f] = s[f]
  BY <1>2, <1>7 DEF Outcome, Fields, CutFields
<1> QED
  BY <1>1, <1>5, <1>7, <1>8

(* A failure that settles no write: the stream is started again when there *)
(* is something to write.                                                  *)
LEMMA CloseRetries ==
    ASSUME NEW s, Running(s), PipeOK(s), Counted(s), IsStarted(s),
           NEW status, status # "ok",
           ~(IsPermanentWriteError(status) /\ s.pipeline # <<>> /\ s.handshake)
    PROVE  LET t == Close(s, status)
           IN /\ Running(t) /\ PipeOK(t) /\ StreamOK(t) /\ Silent(t)
              /\ IsStarted(t) => s.network
              /\ \A f \in Outcome \cup {"network", "pipeline"} : t[f] = s[f]
<1> DEFINE c == Cut(s, "Error")
           r == IF ShouldStartWriteStream(c) THEN Start(c) ELSE c
<1>1. Close(s, status) = Hung(OnWriteStreamClose(c, status))
  BY CloseIsCut
<1>2. /\ Running(c) /\ PipeOK(c) /\ StreamOK(c) /\ ~IsStarted(c)
      /\ ~c.idle /\ ~c.call /\ c.out = <<>> /\ c.in = <<>>
      /\ \A f \in Fields \ CutFields : c[f] = s[f]
  BY CutDoes DEF Closed
<1> HIDE DEF c
<1>3. c.pipeline = s.pipeline /\ c.handshake = s.handshake /\ c.network = s.network
  BY <1>2 DEF Fields, CutFields
<1>4. OnWriteStreamClose(c, status) = r
  BY <1>3 DEF OnWriteStreamClose, HandleWriteError
<1> HIDE DEF r
<1>5. /\ Running(r) /\ StreamOK(r) /\ ~IsOpen(r) /\ (IsStarted(r) => s.network)
      /\ \A f \in Fields \ {"state", "backoff", "requests"} : r[f] = c[f]
  <2>1. CASE ShouldStartWriteStream(c)
    <3>1. r = Start(c) /\ s.network
      BY <1>3, <2>1 DEF r, ShouldStartWriteStream
    <3> QED
      BY <3>1, <1>2, StartDoes
  <2>2. CASE ~ShouldStartWriteStream(c)
    <3>1. r = c
      BY <2>2 DEF r
    <3> QED
      BY <3>1, <1>2 DEF IsStarted
  <2> QED
    BY <2>1, <2>2
<1>6. /\ r.user = c.user /\ r.db = c.db /\ r.pipeline = c.pipeline
      /\ ~r.idle /\ ~r.call /\ r.out = <<>> /\ r.in = <<>>
  BY <1>2, <1>5 DEF Fields
<1>7. PipeOK(r)
  BY <1>2, <1>6 DEF PipeOK
<1>8. /\ Running(Hung(r)) /\ PipeOK(Hung(r)) /\ StreamOK(Hung(r)) /\ Silent(Hung(r))
      /\ (IsStarted(Hung(r)) <=> IsStarted(r))
      /\ \A f \in Fields \ {"handshake"} : Hung(r)[f] = r[f]
  BY <1>5, <1>6, <1>7, HungDoes
<1>9. \A f \in Outcome \cup {"network", "pipeline"} : Hung(r)[f] = s[f]
  BY <1>2, <1>5, <1>8 DEF Outcome, Fields, CutFields
<1> QED
  BY <1>1, <1>4, <1>5, <1>8, <1>9

(* A refusal settles the front of the pipeline.                            *)
LEMMA CloseRefuses ==
    ASSUME NEW s, Running(s), PipeOK(s), StreamOK(s), IsStarted(s),
           s.pipeline # <<>>, s.handshake
    PROVE  LET t == Close(s, "permanent")
           IN /\ Running(t) /\ PipeOK(t) /\ StreamOK(t) /\ Silent(t)
              /\ IsStarted(t) => s.network
              /\ Settles(s, t, FALSE) /\ t.network = s.network
<1> DEFINE c == Cut(s, "Error")
           d == [c EXCEPT !.pipeline = Tail(@)]
           r == InhibitBackoff(d)
           h == HandleRejectedWrite(r, Head(s.pipeline).id)
           u == FillWritePipeline(h)
<1>1. Close(s, "permanent") = Hung(OnWriteStreamClose(c, "permanent"))
  BY CloseIsCut
<1>2. /\ Running(c) /\ PipeOK(c) /\ StreamOK(c) /\ ~IsStarted(c)
      /\ ~c.idle /\ ~c.call /\ c.out = <<>> /\ c.in = <<>>
      /\ \A f \in Fields \ CutFields : c[f] = s[f]
  BY CutDoes DEF Closed, StreamOK, Counted
<1> HIDE DEF c
<1>3. c.pipeline = s.pipeline /\ c.handshake = s.handshake /\ c.network = s.network
  BY <1>2 DEF Fields, CutFields
<1>4. HandleWriteError(c, "permanent") = u
  BY <1>3 DEF HandleWriteError, IsPermanentWriteError
<1>5. OnWriteStreamClose(c, "permanent") = IF ShouldStartWriteStream(u) THEN Start(u) ELSE u
  BY <1>3, <1>4 DEF OnWriteStreamClose
<1>6. /\ Running(d) /\ d.pipeline = Tail(s.pipeline)
      /\ \A f \in Fields \ {"pipeline"} : d[f] = c[f]
  BY <1>2, <1>3 DEF Running, IsClient, Fields
<1> HIDE DEF d
<1>7. StreamOK(d) /\ ~IsStarted(d)
  <2>1. /\ d.state = c.state /\ d.closes = c.closes /\ d.requests = c.requests
        /\ d.backoff = c.backoff
    BY <1>6 DEF Fields
  <2> QED
    BY <2>1, <1>2 DEF StreamOK, IsStarted, IsOpen
<1>8. /\ Running(r) /\ StreamOK(r) /\ ~IsStarted(r)
      /\ \A f \in Fields \ {"state"} : r[f] = d[f]
  BY <1>6, <1>7, InhibitDoes
<1> HIDE DEF r
<1>9. r.pipeline = Tail(s.pipeline) /\ \A f \in Outcome : r[f] = s[f]
  BY <1>2, <1>6, <1>8 DEF Outcome, Fields, CutFields
<1>10. /\ Running(h) /\ PipeOK(h) /\ Settles(s, h, FALSE)
       /\ \A f \in Fields \ SettleFields : h[f] = r[f]
  <2>1. PICK ok \in BOOLEAN : ok = FALSE
    OBVIOUS
  <2>2. h = IF ok THEN HandleSuccessfulWrite(r, Head(s.pipeline).id)
            ELSE HandleRejectedWrite(r, Head(s.pipeline).id)
    BY <2>1
  <2> HIDE DEF h
  <2>3. /\ Running(h) /\ PipeOK(h) /\ Settles(s, h, ok)
        /\ \A f \in Fields \ SettleFields : h[f] = r[f]
    BY <2>2, <1>8, <1>9, SettleDoes
  <2> QED
    BY <2>1, <2>3
<1> HIDE DEF h
<1>11. /\ h.state = r.state /\ h.closes = r.closes /\ h.requests = r.requests
       /\ h.backoff = r.backoff /\ h.network = s.network
       /\ ~h.idle /\ ~h.call /\ h.out = <<>> /\ h.in = <<>>
  BY <1>2, <1>3, <1>6, <1>8, <1>10 DEF Fields, SettleFields
<1>12. StreamOK(h) /\ ~IsStarted(h) /\ ~IsOpen(h)
  BY <1>8, <1>11 DEF StreamOK, IsStarted, IsOpen
<1>13. /\ Running(u) /\ PipeOK(u) /\ StreamOK(u) /\ ~IsOpen(u)
       /\ \A f \in Fields \ {"pipeline", "out", "idle", "state", "backoff", "requests"} :
            u[f] = h[f]
       /\ ~u.idle /\ u.out = h.out
       /\ (IsStarted(u) => h.network)
       /\ (h.network /\ u.pipeline # <<>> => IsStarted(u))
  BY <1>10, <1>11, <1>12, FillDoes
<1> HIDE DEF u
<1>14. /\ u.network = h.network /\ ~u.call /\ u.in = <<>> /\ u.out = <<>>
       /\ \A f \in Outcome : u[f] = h[f]
  BY <1>11, <1>13 DEF Outcome, Fields
<1>15. OnWriteStreamClose(c, "permanent") = u
  BY <1>5, <1>13, <1>14 DEF ShouldStartWriteStream
<1>16. /\ Running(Hung(u)) /\ PipeOK(Hung(u)) /\ StreamOK(Hung(u)) /\ Silent(Hung(u))
       /\ (IsStarted(Hung(u)) <=> IsStarted(u))
       /\ \A f \in Fields \ {"handshake"} : Hung(u)[f] = u[f]
  BY <1>13, <1>14, HungDoes
<1>17. \A f \in Outcome \cup {"network"} : Hung(u)[f] = h[f]
  BY <1>14, <1>16 DEF Outcome, Fields
<1>18. Settles(s, Hung(u), FALSE) /\ Hung(u).network = s.network
  BY <1>10, <1>11, <1>17 DEF Outcome, Settles
<1> QED
  BY <1>1, <1>11, <1>13, <1>15, <1>16, <1>18

-----------------------------------------------------------------------------
(* The inductive invariant of the client.                                  *)

(* Ids are not used again.                                                 *)
NumbersOK(s) == /\ s.next \in Nat
                /\ \A u \in Users : \A b \in s.db[u] : b.id < s.next

(* After the handshake, what is under way are the batches of the pipeline; *)
(* before it, the handshake alone.                                         *)
Matched(s) ==
  /\ Len(s.pipeline) = Len(s.in) + Len(s.out)
  /\ \A i \in 1..Len(s.in) : Answers(s.in[i], s.pipeline[i])
  /\ \A i \in 1..Len(s.out) :
       s.out[i] = [kind |-> "writes", batch |-> s.pipeline[Len(s.in) + i]]

Refusal(status, m) == [kind |-> "end", status |-> status, of |-> m]
Greeting(s) == \/ s.out = <<>> /\ s.in = <<>>
               \/ s.out = <<Handshake>> /\ s.in = <<>>
               \/ s.out = <<>> /\ s.in = <<Handshake>>
               \/ s.out = <<>> /\ \E status \in Statuses : s.in = <<Refusal(status, Handshake)>>

MessagesOK(s) == /\ s.in \in Seq(AllAnswers) /\ s.out \in Seq(AllRequests)
                 /\ \A i \in 1..Len(s.in) : s.in[i].kind = "end" => i = Len(s.in)
                 /\ s.handshake => Matched(s)
                 /\ ~s.handshake => Greeting(s)

(* What is under way belongs to an open stream, a stream to a network that *)
(* is on, and the idle timer to an empty queue.                            *)
Joined(s) == /\ IsStarted(s) => s.network
             /\ s.network \/ s.pipeline = <<>>
             /\ IsOpen(s) \/ Silent(s)
             /\ s.idle => /\ IsOpen(s) /\ s.handshake
                          /\ s.pipeline = <<>> /\ s.db[s.user] = {}

ClientOK(s) == /\ Running(s) /\ PipeOK(s) /\ StreamOK(s)
               /\ NumbersOK(s) /\ MessagesOK(s) /\ Joined(s)

-----------------------------------------------------------------------------
(* The inductive invariant of what the app and the server end up with.     *)

IsServer(s) == s = [firsts |-> s.firsts, refused |-> s.refused, garbled |-> s.garbled]
HistoryOK == /\ written \in Seq(Users) /\ Len(written) <= MaxWrites
             /\ IsServer(server) /\ server.firsts \in Seq(Writes)
             /\ server.refused \subseteq Writes /\ server.garbled \subseteq Writes
             /\ client.told \in Seq([write : Writes, ok : BOOLEAN])
             /\ \A i \in 1..Len(server.firsts) : server.firsts[i] <= Len(written)
             /\ \A i \in 1..Len(client.told) : client.told[i].write <= Len(written)

(* Every queued batch is of a write of that user, in the order they were   *)
(* made.                                                                   *)
QueueOK == \A u \in Users :
             /\ \A b \in client.db[u] : b.write <= Len(written) /\ written[b.write] = u
             /\ \A b, c \in client.db[u] : b.id < c.id => b.write < c.write

(* What the server said it has decided.                                    *)
AnswersTrue ==
  \A i \in 1..Len(client.in) :
    /\ client.in[i].kind = "ack" => client.in[i].batch.write \in Elements(server.firsts)
    /\ client.in[i].kind = "end" /\ client.in[i].status = "permanent"
         => WritesOf(client.in[i].of) \subseteq server.refused

(* No queued write has been overtaken at the server, none that has still   *)
(* to be told of has been overtaken in the app.                            *)
NoneOvertaken ==
  /\ \A u \in Users : \A b \in client.db[u] : \A i \in 1..Len(server.firsts) :
       written[server.firsts[i]] = u /\ b.write < server.firsts[i]
         => b.write \in Elements(server.firsts)
  /\ \A c \in client.callbacks : \A i \in 1..Len(client.told) :
       written[client.told[i].write] = c.user => client.told[i].write < c.write

CallbacksOK == \A c \in client.callbacks :
                 c.user \in Users /\ [id |-> c.id, write |-> c.write] \in client.db[c.user]

(* Who waits does so for the highest of the ids of its writes, under a     *)
(* number of its own.                                                      *)
WaitersOK ==
  /\ \A c \in client.waiters :
       /\ c.number \in 1..MaxWaiters
       /\ \A b \in client.db[client.user] : b.write \in c.for => b.id <= c.id
       /\ c.for \subseteq 1..Len(written)
       /\ \A w \in c.for : written[w] = client.user
  /\ \A c, d \in client.waiters : c.number = d.number => c = d
  /\ \A d \in client.woken : d.number \in 1..MaxWaiters
  /\ \A c \in client.waiters : \A d \in client.woken : c.number # d.number

IInv == /\ spent \in 0..MaxDisruptions
        /\ ClientOK(client) /\ HistoryOK /\ QueueOK /\ AnswersTrue
        /\ NoneOvertaken /\ CallbacksOK /\ WaitersOK
        /\ NoWriteLost /\ CommittedInOrder /\ ToldOnceInOrder
        /\ SuccessIsTrue /\ FailureIsTrue

-----------------------------------------------------------------------------
(* The handlers keep the client's invariant.                               *)

(* A sequence behind another, element by element.                          *)
LEMMA Joining ==
    ASSUME NEW S, NEW p \in Seq(S), NEW m \in Seq(S)
    PROVE  /\ p \o m \in Seq(S) /\ Len(p \o m) = Len(p) + Len(m)
           /\ Len(p) \in Nat /\ Len(m) \in Nat
           /\ \A i \in 1..Len(p) : (p \o m)[i] = p[i]
           /\ \A i \in 1..Len(m) : (p \o m)[Len(p) + i] = m[i]
OBVIOUS

(* Requests for what was added to the pipeline are what was missing.       *)
LEMMA MatchedFurther ==
    ASSUME NEW s, s.pipeline \in Seq(Batches), Matched(s),
           s.in \in Seq(AllAnswers), s.out \in Seq(AllRequests),
           NEW more \in Seq(Batches),
           NEW t, t.pipeline = s.pipeline \o more, t.in = s.in,
           t.out = s.out \o Requests(more)
    PROVE  Matched(t) /\ t.out \in Seq(AllRequests)
<1> DEFINE p == s.pipeline
           o == s.out
           n == Len(s.in)
           r == Requests(more)
<1>1. /\ r \in Seq(AllRequests) /\ Len(r) = Len(more)
      /\ \A i \in 1..Len(more) : r[i] = [kind |-> "writes", batch |-> more[i]]
  BY RequestsType
<1>2. Len(p) = n + Len(o) /\ n \in Nat /\ Len(o) \in Nat /\ Len(more) \in Nat
  BY DEF Matched
<1>3. /\ Len(p \o more) = Len(p) + Len(more)
      /\ \A i \in 1..Len(p) : (p \o more)[i] = p[i]
      /\ \A i \in 1..Len(more) : (p \o more)[Len(p) + i] = more[i]
  BY Joining
<1> HIDE DEF r
<1>4. /\ o \o r \in Seq(AllRequests) /\ Len(o \o r) = Len(o) + Len(r)
      /\ \A i \in 1..Len(o) : (o \o r)[i] = o[i]
      /\ \A i \in 1..Len(r) : (o \o r)[Len(o) + i] = r[i]
  <2>1. o \in Seq(AllRequests) /\ r \in Seq(AllRequests)
    BY <1>1
  <2> HIDE DEF o
  <2> QED
    BY <2>1, Joining
<1>8. \A i \in 1..n : Answers(s.in[i], p[i])
  BY DEF Matched
<1>9. \A i \in 1..Len(o) : o[i] = [kind |-> "writes", batch |-> p[n + i]]
  BY DEF Matched
<1> HIDE DEF p, o, n
<1>5. \A i \in 1..n : Answers(s.in[i], (p \o more)[i])
  BY <1>2, <1>3, <1>8
<1>6. ASSUME NEW i \in 1..Len(o \o r)
      PROVE  (o \o r)[i] = [kind |-> "writes", batch |-> (p \o more)[n + i]]
  <2>1. CASE i \in 1..Len(o)
    <3>1. n + i \in 1..Len(p)
      BY <1>2, <2>1
    <3>2. o[i] = [kind |-> "writes", batch |-> p[n + i]]
      BY <2>1, <1>9
    <3> QED
      BY <1>3, <1>4, <2>1, <3>1, <3>2
  <2>2. CASE i \notin 1..Len(o)
    <3>1. PICK j \in 1..Len(more) : i = Len(o) + j
      <4>1. i - Len(o) \in 1..Len(more) /\ i = Len(o) + (i - Len(o))
        BY <1>1, <1>2, <1>4, <2>2
      <4> QED
        BY <4>1
    <3>2. n + i = Len(p) + j
      BY <1>2, <3>1
    <3> QED
      BY <1>1, <1>3, <1>4, <3>1, <3>2
  <2> QED
    BY <2>1, <2>2
<1>7. Len(p \o more) = n + Len(o \o r)
  BY <1>1, <1>2, <1>3, <1>4
<1> QED
  BY <1>4, <1>5, <1>6, <1>7 DEF Matched, p, o, r, n

(* Filling the pipeline keeps everything.  A stream that is open without   *)
(* a handshake has something to write.                                     *)
LEMMA FillKeeps ==
    ASSUME NEW s, Running(s), PipeOK(s), StreamOK(s), NumbersOK(s), MessagesOK(s),
           IsStarted(s) => s.network, s.network \/ s.pipeline = <<>>,
           IsOpen(s) \/ Silent(s),
           s.idle => IsOpen(s) /\ s.handshake /\ s.pipeline = <<>>,
           IsOpen(s) /\ ~s.handshake => s.db[s.user] # {}
    PROVE  LET t == FillWritePipeline(s)
           IN /\ ClientOK(t) /\ \A f \in Outcome : t[f] = s[f]
              /\ t.in = s.in /\ t.network = s.network
              /\ IsOpen(t) <=> IsOpen(s)
<1> DEFINE t == FillWritePipeline(s)
           more == Fitting(s)
<1>1. /\ Running(t) /\ PipeOK(t) /\ StreamOK(t)
      /\ \A f \in Fields \ {"pipeline", "out", "idle", "state", "backoff", "requests"} :
           t[f] = s[f]
      /\ t.pipeline = s.pipeline \o more
      /\ s.network /\ t.pipeline = <<>> => s.db[s.user] = {}
      /\ t.idle => \/ s.idle /\ ~(more # <<>> /\ IsOpen(s) /\ s.handshake)
                   \/ IsOpen(s) /\ s.network /\ t.pipeline = <<>>
      /\ t.out = IF more # <<>> /\ IsOpen(s) /\ s.handshake
                 THEN s.out \o Requests(more) ELSE s.out
      /\ IsOpen(t) <=> IsOpen(s)
      /\ IsStarted(t) => IsStarted(s) \/ s.network
  BY FillDoes
<1>2. more \in Seq(Batches) /\ s.pipeline \in Seq(Batches) /\ (more # <<>> => s.network)
  BY FittingDoes DEF PipeOK
<1> HIDE DEF t, more
<1>3. /\ t.user = s.user /\ t.db = s.db /\ t.next = s.next /\ t.in = s.in
      /\ t.handshake = s.handshake /\ t.network = s.network /\ t.call = s.call
      /\ \A f \in Outcome : t[f] = s[f]
  BY <1>1 DEF Fields, Outcome
<1>4. NumbersOK(t)
  BY <1>3 DEF NumbersOK
<1>5. s.handshake => IsOpen(s)
  BY DEF Silent
<1>6. MessagesOK(t)
  <2>1. CASE s.handshake /\ more # <<>>
    <3>1. t.out = s.out \o Requests(more)
      BY <1>1, <1>5, <2>1
    <3>2. Matched(t) /\ t.out \in Seq(AllRequests)
      BY <1>1, <1>2, <1>3, <2>1, <3>1, MatchedFurther DEF MessagesOK
    <3> QED
      BY <1>3, <2>1, <3>2 DEF MessagesOK
  <2>2. CASE s.handshake /\ more = <<>>
    <3>1. t.pipeline = s.pipeline /\ t.out = s.out
      BY <1>1, <1>2, <2>2
    <3> QED
      BY <1>3, <2>2, <3>1 DEF MessagesOK, Matched
  <2>3. CASE ~s.handshake
    <3>1. t.out = s.out
      BY <1>1, <2>3
    <3> QED
      BY <1>3, <2>3, <3>1 DEF MessagesOK, Greeting
  <2> QED
    BY <2>1, <2>2, <2>3
<1>7. Joined(t)
  <2>1. (IsStarted(t) => t.network) /\ (t.network \/ t.pipeline = <<>>)
    BY <1>1, <1>2, <1>3
  <2>2. CASE IsOpen(s)
    <3>1. s.network
      BY <2>2 DEF IsStarted
    <3>2. t.idle => s.handshake /\ t.pipeline = <<>> /\ s.db[s.user] = {}
      <4>1. CASE s.idle /\ ~(more # <<>> /\ IsOpen(s) /\ s.handshake)
        <5>1. more = <<>> /\ s.pipeline = <<>>
          BY <4>1
        <5>2. t.pipeline = <<>>
          BY <1>1, <1>2, <5>1
        <5> QED
          BY <1>1, <3>1, <4>1, <5>2
      <4>2. CASE s.network /\ t.pipeline = <<>>
        BY <1>1, <2>2, <4>2
      <4> QED
        BY <1>1, <4>1, <4>2
    <3> QED
      BY <1>1, <1>3, <2>1, <2>2, <3>2 DEF Joined
  <2>3. CASE ~IsOpen(s)
    <3>1. Silent(s) /\ ~s.idle
      BY <2>3
    <3>2. ~t.idle /\ t.out = s.out
      BY <1>1, <2>3, <3>1
    <3> QED
      BY <1>1, <1>3, <2>1, <2>3, <3>1, <3>2 DEF Joined, Silent
  <2> QED
    BY <2>2, <2>3
<1> QED
  BY <1>1, <1>3, <1>4, <1>6, <1>7 DEF ClientOK, t

(* A stream that is silent has nothing under way.                          *)
LEMMA SilentOK ==
    ASSUME NEW s, Running(s), PipeOK(s), StreamOK(s), NumbersOK(s), Silent(s),
           IsStarted(s) => s.network, s.network \/ s.pipeline = <<>>
    PROVE  ClientOK(s) /\ s.in = <<>>
<1>1. MessagesOK(s)
  BY DEF Silent, MessagesOK, Greeting
<1>2. Joined(s)
  BY DEF Silent, Joined
<1> QED
  BY <1>1, <1>2 DEF ClientOK, Silent

(* The ids of two states with the same queues are the same.                *)
LEMMA SameNumbers ==
    ASSUME NEW s, NumbersOK(s), NEW t, \A f \in Outcome : t[f] = s[f]
    PROVE  NumbersOK(t)
BY DEF NumbersOK, Outcome

(* Turning the network off drops the pipeline, and the stream with it.     *)
LEMMA DisableKeeps ==
    ASSUME NEW s, Running(s), QueuesOK(s), StreamOK(s), NumbersOK(s), IsOpen(s) \/ Silent(s)
    PROVE  LET t == DisableNetwork(s)
           IN /\ ClientOK(t) /\ ~IsStarted(t) /\ t.in = <<>>
              /\ \A f \in Outcome : t[f] = s[f]
<1> DEFINE a == [s EXCEPT !.network = FALSE]
           c == Close(a, "ok")
           t == [c EXCEPT !.pipeline = <<>>]
<1>2. /\ Running(a) /\ a.network = FALSE
      /\ \A f \in Fields \ {"network"} : a[f] = s[f]
  BY DEF Running, IsClient, Fields
<1>3. c = IF ~IsStarted(a) THEN a ELSE c
  BY DEF Close
<1> HIDE DEF a
<1>4. /\ a.user = s.user /\ a.db = s.db /\ a.pipeline = s.pipeline /\ a.state = s.state
      /\ a.closes = s.closes /\ a.requests = s.requests /\ a.backoff = s.backoff
      /\ a.handshake = s.handshake /\ a.idle = s.idle /\ a.call = s.call
      /\ a.out = s.out /\ a.in = s.in /\ \A f \in Outcome : a[f] = s[f]
  BY <1>2 DEF Fields, Outcome
<1>5. StreamOK(a) /\ (IsStarted(a) <=> IsStarted(s))
  BY <1>4 DEF StreamOK, IsStarted, IsOpen
<1>6. /\ Running(c) /\ StreamOK(c) /\ Silent(c) /\ ~IsStarted(c)
      /\ \A f \in Outcome : c[f] = s[f]
  <2>1. CASE IsStarted(a)
    <3>1. ~a.network
      BY <1>2
    <3>2. /\ Running(c) /\ StreamOK(c) /\ Silent(c) /\ ~IsStarted(c)
          /\ \A f \in Outcome \cup {"network", "pipeline"} : c[f] = a[f]
      BY <1>2, <1>5, <2>1, <3>1, CloseQuietly
    <3> QED
      BY <3>2, <1>4
  <2>2. CASE ~IsStarted(a)
    <3>1. c = a
      BY <1>3, <2>2
    <3>2. Silent(s)
      BY <1>5, <2>2 DEF IsStarted
    <3>3. Silent(a)
      BY <1>4, <3>2 DEF Silent, IsOpen
    <3> QED
      BY <1>2, <1>4, <1>5, <2>2, <3>1, <3>3
  <2> QED
    BY <2>1, <2>2
<1> HIDE DEF c
<1>7. /\ Running(t) /\ t.pipeline = <<>>
      /\ \A f \in Fields \ {"pipeline"} : t[f] = c[f]
  BY <1>6 DEF Running, IsClient, Fields
<1> HIDE DEF t
<1>8. /\ t.user = c.user /\ t.db = c.db /\ t.state = c.state
      /\ t.closes = c.closes /\ t.requests = c.requests /\ t.backoff = c.backoff
      /\ t.handshake = c.handshake /\ t.idle = c.idle /\ t.call = c.call
      /\ t.out = c.out /\ t.in = c.in /\ \A f \in Outcome : t[f] = c[f]
  BY <1>7 DEF Fields, Outcome
<1>9. StreamOK(t) /\ Silent(t) /\ ~IsStarted(t)
  BY <1>6, <1>8 DEF StreamOK, Silent, IsStarted, IsOpen
<1>10. PipeOK(t)
  <2>1. t.user = s.user /\ t.db = s.db
    BY <1>6, <1>8 DEF Outcome
  <2>2. Distinct(s.db[s.user])
    BY DEF QueuesOK
  <2>3. ById(s.db[s.user]) \in Seq(Batches)
    BY <2>2, ByIdType
  <2>4. IsPrefix(<<>>, ById(s.db[s.user]))
    BY <2>3, EmptyPrefix
  <2>5. <<>> \in Seq(Batches) /\ Len(<<>>) = 0
    BY EmptySeq
  <2> QED
    BY <1>7, <2>1, <2>4, <2>5, PipelineAssumption DEF PipeOK, QueuesOK
<1>11. \A f \in Outcome : t[f] = s[f]
  BY <1>6, <1>8
<1>12. NumbersOK(t)
  BY <1>11, SameNumbers
<1>13. ClientOK(t) /\ t.in = <<>>
  BY <1>7, <1>9, <1>10, <1>12, SilentOK
<1> QED
  BY <1>9, <1>11, <1>13 DEF t, c, a, DisableNetwork

(* Turning it on fills the pipeline.                                       *)
LEMMA EnableKeeps ==
    ASSUME NEW s, Running(s), PipeOK(s), StreamOK(s), NumbersOK(s), Silent(s)
    PROVE  LET t == EnableNetwork(s)
           IN /\ ClientOK(t) /\ t.in = <<>>
              /\ \A f \in Outcome : t[f] = s[f]
<1> DEFINE a == [s EXCEPT !.network = TRUE]
<1>1. /\ Running(a) /\ a.network = TRUE
      /\ \A f \in Fields \ {"network"} : a[f] = s[f]
  BY DEF Running, IsClient, Fields
<1> HIDE DEF a
<1>2. /\ a.user = s.user /\ a.db = s.db /\ a.pipeline = s.pipeline /\ a.state = s.state
      /\ a.closes = s.closes /\ a.requests = s.requests /\ a.backoff = s.backoff
      /\ a.handshake = s.handshake /\ a.idle = s.idle /\ a.call = s.call
      /\ a.out = s.out /\ a.in = s.in /\ \A f \in Outcome : a[f] = s[f]
  BY <1>1 DEF Fields, Outcome
<1>3. PipeOK(a) /\ StreamOK(a) /\ Silent(a)
  BY <1>2 DEF PipeOK, StreamOK, Silent, IsOpen
<1>4. NumbersOK(a)
  BY <1>2, SameNumbers
<1>5. MessagesOK(a) /\ ~a.idle /\ ~IsOpen(a) /\ a.in = <<>>
  BY <1>1, <1>3, <1>4, SilentOK DEF Silent, ClientOK
<1>6. LET t == FillWritePipeline(a)
      IN /\ ClientOK(t) /\ t.in = a.in
         /\ \A f \in Outcome : t[f] = a[f]
  BY <1>1, <1>3, <1>4, <1>5, FillKeeps
<1> QED
  BY <1>2, <1>5, <1>6 DEF EnableNetwork, a

(* Off and on again.                                                       *)
LEMMA RestartKeeps ==
    ASSUME NEW s, Running(s), QueuesOK(s), StreamOK(s), NumbersOK(s), IsOpen(s) \/ Silent(s)
    PROVE  LET t == RestartNetwork(s)
           IN /\ ClientOK(t) /\ t.in = <<>>
              /\ \A f \in Outcome : t[f] = s[f]
<1> DEFINE d == DisableNetwork(s)
           i == InhibitBackoff(d)
<1>1. ClientOK(d) /\ ~IsStarted(d) /\ \A f \in Outcome : d[f] = s[f]
  BY DisableKeeps
<1> HIDE DEF d
<1>2. Running(d) /\ PipeOK(d) /\ StreamOK(d) /\ NumbersOK(d) /\ Silent(d)
  BY <1>1 DEF ClientOK, Joined, IsStarted
<1>3. /\ Running(i) /\ StreamOK(i) /\ ~IsStarted(i)
      /\ \A f \in Fields \ {"state"} : i[f] = d[f]
  BY <1>1, <1>2, InhibitDoes
<1> HIDE DEF i
<1>4. /\ i.user = d.user /\ i.db = d.db /\ i.pipeline = d.pipeline
      /\ i.handshake = d.handshake /\ i.idle = d.idle /\ i.call = d.call
      /\ i.out = d.out /\ i.in = d.in /\ \A f \in Outcome : i[f] = d[f]
  BY <1>3 DEF Fields, Outcome
<1>5. PipeOK(i) /\ Silent(i)
  BY <1>2, <1>3, <1>4 DEF PipeOK, Silent, IsStarted
<1>6. NumbersOK(i)
  BY <1>2, <1>4, SameNumbers
<1>7. LET t == EnableNetwork(i)
      IN /\ ClientOK(t) /\ t.in = <<>> /\ \A f \in Outcome : t[f] = i[f]
  BY <1>3, <1>5, <1>6, EnableKeeps
<1> QED
  BY <1>1, <1>4, <1>7 DEF RestartNetwork, d, i

(* A bounded set of integers has a maximum.                                *)
LEMMA MaxOf ==
    ASSUME NEW S \in SUBSET Int, S # {}, NEW n \in Nat,
           \A x \in S : -1 <= x /\ x <= n
    PROVE  Max(S) \in S /\ \A x \in S : x <= Max(S)
<1> DEFINE T == {m \in Nat : \A x \in S : x <= m - 1}
<1>1. n + 1 \in T
  OBVIOUS
<1>2. PICK m \in T : \A k \in T : m <= k
  BY <1>1, LeastOf
<1>3. m - 1 \in S
  <2>1. SUFFICES ASSUME m - 1 \notin S PROVE FALSE
    OBVIOUS
  <2>2. \A x \in S : x <= m - 2
    <3> SUFFICES ASSUME NEW x \in S PROVE x <= m - 2
      OBVIOUS
    <3>1. x \in Int /\ m \in Nat /\ x <= m - 1 /\ x # m - 1
      BY <1>2, <2>1
    <3> QED
      BY <3>1
  <2>3. PICK x \in S : TRUE
    OBVIOUS
  <2>4. m - 1 \in Nat
    BY <1>2, <2>2, <2>3
  <2>5. m - 1 \in T
    BY <2>2, <2>4
  <2>6. m <= m - 1
    BY <1>2, <2>5
  <2> QED
    BY <1>2, <2>6
<1>4. \A x \in S : x <= m - 1 /\ m - 1 >= x
  BY <1>2
<1>5. Max(S) \in S /\ \A x \in S : Max(S) >= x
  BY <1>3, <1>4 DEF Max
<1>6. \A x \in S : x \in Int /\ Max(S) \in Int
  BY <1>5
<1> QED
  BY <1>5, <1>6

(* The next id is larger than all that are in use.                         *)
LEMMA NextIdIsNew ==
    ASSUME NEW s, s.db \in [Users -> SUBSET Batches], NEW n \in Nat,
           \A u \in Users : \A b \in s.db[u] : b.id < n
    PROVE  /\ LoadNextBatchId(s) \in Nat
           /\ \A u \in Users : \A b \in s.db[u] : b.id < LoadNextBatchId(s)
<1> DEFINE S == {0} \cup Ids(AllBatches(s))
<1>1. \A x \in S : x \in Nat /\ x <= n
  <2>1. \A u \in Users : \A b \in s.db[u] : b.id \in Nat /\ b.id <= n
    BY DEF Batches
  <2> QED
    BY <2>1 DEF Ids, AllBatches
<1>2. \A u \in Users : \A b \in s.db[u] : b.id \in S
  BY DEF Ids, AllBatches
<1>3. 0 \in S
  OBVIOUS
<1>4. LoadNextBatchId(s) = 1 + Max(S)
  BY DEF LoadNextBatchId
<1> HIDE DEF S
<1>5. Max(S) \in S /\ \A x \in S : x <= Max(S)
  <2>1. S \in SUBSET Int /\ S # {} /\ \A x \in S : -1 <= x /\ x <= n
    BY <1>1, <1>3
  <2> QED
    BY <2>1, MaxOf
<1>6. Max(S) \in Nat
  BY <1>1, <1>5
<1>7. ASSUME NEW u \in Users, NEW b \in s.db[u] PROVE b.id < 1 + Max(S)
  BY <1>1, <1>2, <1>5, <1>6
<1> QED
  BY <1>4, <1>6, <1>7

(* A new process finds the queues as they were, and nothing is under way.  *)
LEMMA LaunchKeeps ==
    ASSUME NEW db \in [Users -> SUBSET Batches], NEW u \in Users, NEW history,
           \A v \in Users : Distinct(db[v]),
           NEW n \in Nat, \A v \in Users : \A b \in db[v] : b.id < n
    PROVE  LET t == Launch(db, u, history)
           IN /\ ClientOK(t) /\ t.in = <<>>
              /\ t.db = db /\ t.user = u /\ t.callbacks = {} /\ t.waiters = {}
              /\ t.told = history.told /\ t.woken = history.woken
<1> DEFINE idle == [db |-> db, user |-> u, next |-> 0,
                    callbacks |-> {}, told |-> history.told,
                    waiters |-> {}, woken |-> history.woken,
                    network |-> FALSE, pipeline |-> <<>>,
                    state |-> "Initial", closes |-> 0, handshake |-> FALSE,
                    idle |-> FALSE, backoff |-> FALSE, health |-> FALSE,
                    requests |-> {}, call |-> FALSE, out |-> <<>>, in |-> <<>>,
                    sound |-> TRUE]
           next == LoadNextBatchId(idle)
           s == [idle EXCEPT !.next = next]
<1>1. idle.db = db
  OBVIOUS
<1>2. next \in Nat /\ \A v \in Users : \A b \in db[v] : b.id < next
  <2> HIDE DEF idle
  <2> QED
    BY <1>1, NextIdIsNew
<1> HIDE DEF next
<1>3. /\ s.db = db /\ s.user = u /\ s.next = next /\ s.callbacks = {} /\ s.waiters = {}
      /\ s.told = history.told /\ s.woken = history.woken /\ s.pipeline = <<>>
      /\ s.state = "Initial" /\ s.closes = 0 /\ s.handshake = FALSE /\ s.idle = FALSE
      /\ s.backoff = FALSE /\ s.requests = {} /\ s.call = FALSE /\ s.out = <<>> /\ s.in = <<>>
      /\ Running(s)
  BY DEF Running, IsClient, Fields
<1>4. Launch(db, u, history) = EnableNetwork(s)
  BY DEF Launch, next
<1> HIDE DEF s
<1>5. StreamOK(s) /\ Silent(s) /\ NumbersOK(s)
  BY <1>2, <1>3 DEF StreamOK, Silent, NumbersOK, IsOpen, Closed
<1>6. PipeOK(s)
  <2> DEFINE q == ById(db[u])
  <2>1. q \in Seq(Batches)
    BY ByIdType
  <2> HIDE DEF q
  <2>2. <<>> \in Seq(Batches) /\ Len(<<>>) = 0 /\ Len(q) \in Nat
    BY <2>1
  <2>3. IsPrefix(<<>>, q)
    BY <2>1, EmptyPrefix
  <2> QED
    BY <1>3, <2>2, <2>3, PipelineAssumption DEF PipeOK, q
<1>7. LET t == EnableNetwork(s)
      IN /\ ClientOK(t) /\ t.in = <<>> /\ \A f \in Outcome : t[f] = s[f]
  BY <1>3, <1>5, <1>6, EnableKeeps
<1> QED
  BY <1>3, <1>4, <1>7 DEF Outcome

-----------------------------------------------------------------------------
(* The steps keep the client's invariant; what they do to the queues and   *)
(* to those who are told is one of a few effects.                          *)

(* What the invariant does not depend on.                                  *)
Bookkeeping == {"callbacks", "told", "waiters", "woken", "health"}
(* The books about callbacks and waiters may change freely.                *)
LEMMA SameClient ==
    ASSUME NEW s, ClientOK(s), NEW t, Running(t),
           \A f \in Fields \ Bookkeeping : t[f] = s[f]
    PROVE  ClientOK(t) /\ t.in = s.in
<1>1. /\ t.db = s.db /\ t.user = s.user /\ t.next = s.next /\ t.network = s.network
      /\ t.pipeline = s.pipeline /\ t.state = s.state /\ t.closes = s.closes
      /\ t.handshake = s.handshake /\ t.idle = s.idle /\ t.backoff = s.backoff
      /\ t.requests = s.requests /\ t.call = s.call /\ t.out = s.out /\ t.in = s.in
  BY DEF Fields, Bookkeeping
<1>2. PipeOK(t) /\ StreamOK(t) /\ NumbersOK(t)
  BY <1>1 DEF ClientOK, PipeOK, StreamOK, NumbersOK
<1>3. MessagesOK(t)
  BY <1>1 DEF ClientOK, MessagesOK, Matched, Greeting
<1>4. Joined(t)
  BY <1>1 DEF ClientOK, Joined, IsStarted, IsOpen, Silent
<1> QED
  BY <1>1, <1>2, <1>3, <1>4 DEF ClientOK

(* A sequence stays a prefix of one that grows.                            *)
LEMMA PrefixAppend ==
    ASSUME NEW S, NEW p \in Seq(S), NEW q \in Seq(S), NEW x \in S, IsPrefix(p, q)
    PROVE  IsPrefix(p, Append(q, x))
<1>1. Len(p) <= Len(q) /\ \A i \in 1..Len(p) : p[i] = q[i]
  BY PrefixElements
<1>2. /\ Append(q, x) \in Seq(S) /\ Len(Append(q, x)) = Len(q) + 1
      /\ \A i \in 1..Len(q) : Append(q, x)[i] = q[i]
      /\ Len(p) \in Nat /\ Len(q) \in Nat
  OBVIOUS
<1>3. Len(p) <= Len(Append(q, x)) /\ \A i \in 1..Len(p) : p[i] = Append(q, x)[i]
  BY <1>1, <1>2
<1> QED
  BY <1>2, <1>3, PrefixElements

(* A new batch at the end of the user's queue.                             *)
Adds(s, t, w) ==
  /\ t.user = s.user /\ t.next = s.next + 1
  /\ t.db = [s.db EXCEPT ![s.user] = @ \cup {[id |-> s.next, write |-> w]}]
  /\ t.callbacks \subseteq s.callbacks \cup {[user |-> s.user, id |-> s.next, write |-> w]}
  /\ t.told = s.told /\ t.waiters = s.waiters /\ t.woken = s.woken

(* A write is queued and enters the pipeline if it is the next to be sent. *)
LEMMA WriteKeeps ==
    ASSUME ClientOK(client), WriteDocument, Len(written) \in Nat
    PROVE  /\ ClientOK(client') /\ Adds(client, client', Len(written) + 1)
           /\ client'.in = client.in /\ Len(written) + 1 <= MaxWrites
           /\ written' = Append(written, client.user) /\ UNCHANGED <<server, spent>>
<1> DEFINE w == Len(written) + 1
           e == client
           B == e.db[e.user]
           b == [id |-> e.next, write |-> w]
           s == AddMutationBatch(e, w)
           c == [user |-> s.user, id |-> e.next, write |-> w]
           taken == \E d \in s.callbacks : d.user = c.user /\ d.id = c.id
           z == IF taken THEN s ELSE [s EXCEPT !.callbacks = @ \cup {c}]
<1>1. /\ w <= MaxWrites /\ client' = FillWritePipeline(z)
      /\ written' = Append(written, client.user) /\ UNCHANGED <<server, spent>>
  BY DEF WriteDocument
<1>2. Running(e) /\ PipeOK(e) /\ StreamOK(e) /\ NumbersOK(e) /\ MessagesOK(e) /\ Joined(e)
  BY DEF ClientOK
<1>3. /\ e.user \in Users /\ e.db \in [Users -> SUBSET Batches] /\ e.next \in Nat
      /\ \A x \in B : x.id < e.next
  BY <1>2 DEF PipeOK, NumbersOK
<1>4. b \in Batches
  BY <1>1, <1>3, PipelineAssumption DEF Batches, Writes
<1>5. /\ Distinct(B \cup {b}) /\ b \notin B
      /\ ById(B \cup {b}) = Append(ById(B), b)
  <2> HIDE DEF b, B
  <2>1. Distinct(B)
    BY <1>2, <1>3 DEF PipeOK, B
  <2>2. \A x \in B : x.id < b.id
    BY <1>3 DEF b
  <2> QED
    BY <2>1, <2>2, <1>4, ByIdAdd
<1>6. {x \in B : x.id # e.next} = B
  <2>1. \A x \in B : x.id # e.next
    BY <1>3, <1>2 DEF PipeOK, Batches
  <2> QED
    BY <2>1
<1> DEFINE db == [e.db EXCEPT ![e.user] = B \cup {b}]
<1>7. s = [e EXCEPT !.next = e.next + 1, !.db = db]
  BY <1>6 DEF AddMutationBatch, Running, IsClient, Fields
<1> HIDE DEF db
<1>8. /\ Running(s) /\ s.next = e.next + 1 /\ s.db = db
      /\ \A f \in Fields \ {"next", "db"} : s[f] = e[f]
  BY <1>2, <1>7 DEF Running, IsClient, Fields
<1> HIDE DEF s, e, taken
<1>9. /\ Running(z) /\ z.callbacks \subseteq s.callbacks \cup {c}
      /\ \A f \in Fields \ {"callbacks"} : z[f] = s[f]
  BY <1>8 DEF Running, IsClient, Fields
<1> HIDE DEF z
<1>10. /\ z.next = e.next + 1 /\ z.db = db /\ z.user = e.user /\ z.told = e.told
       /\ z.waiters = e.waiters /\ z.woken = e.woken
       /\ z.callbacks \subseteq e.callbacks \cup {[user |-> e.user, id |-> e.next, write |-> w]}
       /\ z.pipeline = e.pipeline /\ z.state = e.state /\ z.closes = e.closes
       /\ z.handshake = e.handshake /\ z.idle = e.idle /\ z.backoff = e.backoff
       /\ z.requests = e.requests /\ z.call = e.call /\ z.out = e.out /\ z.in = e.in
       /\ z.network = e.network
  BY <1>8, <1>9 DEF Fields
<1>11. db[e.user] = B \cup {b} /\ db \in [Users -> SUBSET Batches]
  BY <1>3, <1>4 DEF db
<1>12. PipeOK(z)
  <2>1. \A u \in Users : Distinct(db[u])
    BY <1>2, <1>3, <1>5 DEF PipeOK, db
  <2>2. ById(B) \in Seq(Batches) /\ e.pipeline \in Seq(Batches) /\ IsPrefix(e.pipeline, ById(B))
    BY <1>2, <1>3, ByIdType DEF PipeOK
  <2> HIDE DEF B, b
  <2>3. IsPrefix(e.pipeline, Append(ById(B), b))
    BY <1>4, <2>2, PrefixAppend
  <2> QED
    BY <1>2, <1>3, <1>5, <1>10, <1>11, <2>1, <2>3 DEF PipeOK
<1>13. NumbersOK(z)
  <2>1. \A u \in Users : \A x \in e.db[u] : x.id < e.next + 1
    BY <1>2, <1>3 DEF NumbersOK, PipeOK, Batches
  <2>2. b.id < e.next + 1
    BY <1>3
  <2> QED
    BY <1>3, <1>10, <2>1, <2>2 DEF NumbersOK, db
<1>14. StreamOK(z) /\ MessagesOK(z)
  BY <1>2, <1>10 DEF StreamOK, MessagesOK, Matched, Greeting
<1>15. /\ IsStarted(z) => z.network
       /\ z.network \/ z.pipeline = <<>>
       /\ IsOpen(z) \/ Silent(z)
       /\ z.idle => IsOpen(z) /\ z.handshake /\ z.pipeline = <<>>
  BY <1>2, <1>10 DEF Joined, IsStarted, IsOpen, Silent
<1>16. z.db[z.user] # {}
  BY <1>10, <1>11
<1>17. LET t == FillWritePipeline(z)
       IN /\ ClientOK(t) /\ t.in = z.in /\ \A f \in Outcome : t[f] = z[f]
  BY <1>9, <1>12, <1>13, <1>14, <1>15, <1>16, FillKeeps
<1>18. Adds(e, client', w)
  BY <1>1, <1>10, <1>17 DEF Adds, Outcome, db
<1> QED
  BY <1>1, <1>10, <1>17, <1>18 DEF e

(* A step that decides nothing: the queues stay as they are, and nobody is *)
(* told anything.                                                          *)
Still(s, t) == \A f \in Outcome : t[f] = s[f]
StillStep == /\ ClientOK(client') /\ Still(client, client')
             /\ client'.in = client.in \/ client'.in = <<>>
             /\ UNCHANGED <<server, written>>

(* A stream that fails without a refusal.                                  *)
LEMMA FailingKeeps ==
    ASSUME NEW s, Running(s), PipeOK(s), Counted(s), NumbersOK(s),
           IsStarted(s), s.network,
           NEW status, status # "ok",
           ~(IsPermanentWriteError(status) /\ s.pipeline # <<>> /\ s.handshake)
    PROVE  LET t == Close(s, status)
           IN ClientOK(t) /\ Still(s, t) /\ t.in = <<>>
<1> DEFINE t == Close(s, status)
<1>1. /\ Running(t) /\ PipeOK(t) /\ StreamOK(t) /\ Silent(t)
      /\ IsStarted(t) => s.network
      /\ \A f \in Outcome \cup {"network", "pipeline"} : t[f] = s[f]
  BY CloseRetries
<1> HIDE DEF t
<1>3. t.network = s.network /\ t.pipeline = s.pipeline /\ \A f \in Outcome : t[f] = s[f]
  BY <1>1
<1>4. NumbersOK(t)
  BY <1>3, SameNumbers
<1>5. (IsStarted(t) => t.network) /\ (t.network \/ t.pipeline = <<>>)
  BY <1>1, <1>3
<1>6. ClientOK(t) /\ t.in = <<>>
  BY <1>1, <1>4, <1>5, SilentOK
<1> QED
  BY <1>3, <1>6 DEF Still, t

(* The network goes off or on.                                             *)
LEMMA NetworkStill ==
    ASSUME ClientOK(client), NetworkOff \/ NetworkOn
    PROVE  StillStep
<1>1. /\ Running(client) /\ PipeOK(client) /\ StreamOK(client) /\ NumbersOK(client)
      /\ Joined(client) /\ QueuesOK(client)
  BY DEF ClientOK, PipeOK, QueuesOK
<1>2. CASE NetworkOff
  <2>1. client' = DisableNetwork(client) /\ UNCHANGED <<server, written>>
    BY <1>2 DEF NetworkOff
  <2>2. IsOpen(client) \/ Silent(client)
    BY <1>1 DEF Joined
  <2> QED
    BY <1>1, <2>1, <2>2, DisableKeeps DEF StillStep, Still
<1>3. CASE NetworkOn
  <2>1. ~client.network /\ client' = EnableNetwork(client) /\ UNCHANGED <<server, written>>
    BY <1>3 DEF NetworkOn
  <2>2. Silent(client)
    BY <1>1, <2>1 DEF Joined, IsStarted
  <2> QED
    BY <1>1, <2>1, <2>2, EnableKeeps DEF StillStep, Still
<1> QED
  BY <1>2, <1>3

(* A timer fires.                                                          *)
LEMMA TimersStill ==
    ASSUME ClientOK(client), IdleTimer \/ HealthTimer \/ BackoffTimer
    PROVE  StillStep
<1> DEFINE e == client
<1>1. /\ Running(e) /\ PipeOK(e) /\ StreamOK(e) /\ NumbersOK(e) /\ Joined(e)
  BY DEF ClientOK
<1>2. CASE IdleTimer
  <2> DEFINE s == [e EXCEPT !.idle = FALSE]
             t == Close(s, "ok")
  <2>1. e.idle /\ client' = t /\ UNCHANGED <<server, written>>
    BY <1>2 DEF IdleTimer
  <2>2. Running(s) /\ \A f \in Fields \ {"idle"} : s[f] = e[f]
    BY <1>1 DEF Running, IsClient, Fields
  <2> HIDE DEF s
  <2>3. /\ s.user = e.user /\ s.db = e.db /\ s.pipeline = e.pipeline /\ s.state = e.state
        /\ s.closes = e.closes /\ s.requests = e.requests /\ s.backoff = e.backoff
        /\ s.network = e.network /\ \A f \in Outcome : s[f] = e[f]
    BY <2>2 DEF Fields, Outcome
  <2>4. IsStarted(s) /\ s.pipeline = <<>>
    BY <1>1, <2>1, <2>3 DEF Joined, IsStarted, IsOpen
  <2>5. PipeOK(s) /\ StreamOK(s)
    BY <1>1, <2>3 DEF PipeOK, StreamOK
  <2>6. /\ Running(t) /\ PipeOK(t) /\ StreamOK(t) /\ Silent(t) /\ ~IsStarted(t)
        /\ \A f \in Outcome \cup {"network", "pipeline"} : t[f] = s[f]
    BY <2>2, <2>4, <2>5, CloseQuietly
  <2> HIDE DEF t
  <2>7. t.pipeline = <<>> /\ \A f \in Outcome : t[f] = e[f]
    BY <2>3, <2>4, <2>6
  <2>8. NumbersOK(t)
    BY <1>1, <2>7, SameNumbers
  <2>9. ClientOK(t) /\ t.in = <<>>
    BY <2>6, <2>7, <2>8, SilentOK
  <2> QED
    BY <2>1, <2>7, <2>9 DEF StillStep, Still
<1>3. CASE HealthTimer
  <2>1. /\ client' = [e EXCEPT !.health = FALSE,
                              !.state = IF IsOpen(e) THEN "Healthy" ELSE e.state]
        /\ UNCHANGED <<server, written>>
    BY <1>3 DEF HealthTimer
  <2> DEFINE t == [e EXCEPT !.health = FALSE,
                            !.state = IF IsOpen(e) THEN "Healthy" ELSE e.state]
  <2>2. /\ Running(t) /\ t.state = (IF IsOpen(e) THEN "Healthy" ELSE e.state)
        /\ \A f \in Fields \ {"health", "state"} : t[f] = e[f]
    BY <1>1 DEF Running, IsClient, Fields
  <2> HIDE DEF t
  <2>3. /\ t.user = e.user /\ t.db = e.db /\ t.pipeline = e.pipeline /\ t.next = e.next
        /\ t.closes = e.closes /\ t.requests = e.requests /\ t.backoff = e.backoff
        /\ t.handshake = e.handshake /\ t.idle = e.idle /\ t.call = e.call
        /\ t.out = e.out /\ t.in = e.in /\ t.network = e.network
        /\ \A f \in Outcome : t[f] = e[f]
    BY <2>2 DEF Fields, Outcome
  <2>4. (IsOpen(t) <=> IsOpen(e)) /\ (IsStarted(t) <=> IsStarted(e))
    BY <2>2 DEF IsOpen, IsStarted
  <2>5. PipeOK(t) /\ NumbersOK(t)
    BY <1>1, <2>3 DEF PipeOK, NumbersOK
  <2>6. StreamOK(t)
    BY <1>1, <2>2, <2>3 DEF StreamOK, IsOpen
  <2>7. MessagesOK(t)
    BY <2>3 DEF ClientOK, MessagesOK, Matched, Greeting
  <2>8. Joined(t)
    BY <1>1, <2>3, <2>4 DEF Joined, Silent
  <2> QED
    BY <2>1, <2>2, <2>3, <2>5, <2>6, <2>7, <2>8 DEF StillStep, Still, ClientOK, t
<1>4. CASE BackoffTimer
  <2> DEFINE a == [e EXCEPT !.backoff = FALSE]
             b == [a EXCEPT !.state = "Initial"]
             t == Start(b)
  <2>1. e.backoff /\ e.state = "Backoff" /\ UNCHANGED <<server, written>>
    BY <1>1, <1>4 DEF BackoffTimer, StreamOK
  <2>2. Running(a) /\ a.backoff = FALSE /\ \A f \in Fields \ {"backoff"} : a[f] = e[f]
    BY <1>1 DEF Running, IsClient, Fields
  <2>3. HardAssert(a, e.state = "Backoff") = a
    <3> HIDE DEF a
    <3> QED
      BY <2>1, <2>2, Asserted
  <2>4. client' = HardAssert(t, IsStarted(t))
    BY <1>4, <2>3 DEF BackoffTimer
  <2> HIDE DEF a
  <2>5. /\ Running(b) /\ b.state = "Initial" /\ b.backoff = FALSE
        /\ \A f \in Fields \ {"backoff", "state"} : b[f] = e[f]
    BY <2>2 DEF Running, IsClient, Fields
  <2> HIDE DEF b
  <2>6. b.closes = e.closes /\ b.requests = e.requests
    BY <2>5 DEF Fields
  <2>7. StreamOK(b) /\ ~IsStarted(b)
    BY <1>1, <2>1, <2>5, <2>6 DEF StreamOK, IsStarted, IsOpen, Closed
  <2>8. /\ Running(t) /\ StreamOK(t) /\ IsStarted(t) /\ ~IsOpen(t)
        /\ \A f \in Fields \ {"state", "backoff", "requests"} : t[f] = b[f]
    BY <2>5, <2>7, StartDoes
  <2> HIDE DEF t
  <2>9. client' = t
    BY <2>4, <2>8, Asserted
  <2>10. /\ t.user = e.user /\ t.db = e.db /\ t.pipeline = e.pipeline /\ t.next = e.next
         /\ t.handshake = e.handshake /\ t.idle = e.idle /\ t.call = e.call
         /\ t.out = e.out /\ t.in = e.in /\ t.network = e.network
         /\ \A f \in Outcome : t[f] = e[f]
    BY <2>5, <2>8 DEF Fields, Outcome
  <2>11. Silent(e) /\ e.network
    BY <1>1, <2>1 DEF Joined, IsOpen, IsStarted
  <2>12. Silent(t) /\ t.network
    BY <2>8, <2>10, <2>11 DEF Silent
  <2>13. PipeOK(t) /\ NumbersOK(t)
    BY <1>1, <2>10 DEF PipeOK, NumbersOK
  <2>14. ClientOK(t) /\ t.in = <<>>
    BY <2>8, <2>12, <2>13, SilentOK
  <2> QED
    BY <2>1, <2>9, <2>10, <2>14 DEF StillStep, Still
<1> QED
  BY <1>2, <1>3, <1>4

(* A token that comes too late is ignored.                                 *)
LEMMA StaleToken ==
    ASSUME NEW s, ClientOK(s), NEW count, count # s.closes
    PROVE  LET t == [s EXCEPT !.requests = @ \ {count}]
           IN ClientOK(t) /\ Still(s, t) /\ t.in = s.in
<1> DEFINE t == [s EXCEPT !.requests = s.requests \ {count}]
<1>1. Running(s) /\ PipeOK(s) /\ StreamOK(s) /\ NumbersOK(s) /\ Joined(s) /\ MessagesOK(s)
  BY DEF ClientOK
<1>2. /\ Running(t) /\ t.requests = s.requests \ {count}
      /\ \A f \in Fields \ {"requests"} : t[f] = s[f]
  BY <1>1 DEF Running, IsClient, Fields
<1> HIDE DEF t
<1>3. /\ t.user = s.user /\ t.db = s.db /\ t.pipeline = s.pipeline /\ t.next = s.next
      /\ t.closes = s.closes /\ t.backoff = s.backoff /\ t.state = s.state
      /\ t.handshake = s.handshake /\ t.idle = s.idle /\ t.call = s.call
      /\ t.out = s.out /\ t.in = s.in /\ t.network = s.network
      /\ \A f \in Outcome : t[f] = s[f]
  BY <1>2 DEF Fields, Outcome
<1>4. PipeOK(t) /\ NumbersOK(t) /\ StreamOK(t)
  BY <1>1, <1>2, <1>3 DEF PipeOK, NumbersOK, StreamOK
<1>5. MessagesOK(t) /\ Joined(t)
  BY <1>1, <1>3 DEF MessagesOK, Matched, Greeting, Joined, IsStarted, IsOpen, Silent
<1>6. ClientOK(t)
  BY <1>2, <1>4, <1>5 DEF ClientOK
<1> QED
  BY <1>3, <1>6 DEF Still, t

(* A token opens the stream, and the handshake is the first message.       *)
LEMMA TokenStill ==
    ASSUME ClientOK(client), CredentialsArrive
    PROVE  StillStep
<1> DEFINE e == client
<1>1. /\ Running(e) /\ PipeOK(e) /\ StreamOK(e) /\ NumbersOK(e) /\ Joined(e)
  BY DEF ClientOK
<1>2. PICK count \in e.requests :
        LET s == [e EXCEPT !.requests = @ \ {count}]
            t == [HardAssert(s, s.state = "Starting") EXCEPT !.call = TRUE, !.state = "Open"]
        IN client' = IF count # s.closes THEN s
                     ELSE [WriteHandshake(t) EXCEPT !.health = TRUE]
  BY DEF CredentialsArrive
<1>3. UNCHANGED <<server, written>>
  BY DEF CredentialsArrive
<1> DEFINE s == [e EXCEPT !.requests = e.requests \ {count}]
           t == [s EXCEPT !.call = TRUE, !.state = "Open"]
           o == [t EXCEPT !.idle = FALSE, !.out = t.out \o <<Handshake>>]
           v == [o EXCEPT !.health = TRUE]
<1>4. /\ Running(s) /\ s.requests = e.requests \ {count}
      /\ \A f \in Fields \ {"requests"} : s[f] = e[f]
  BY <1>1 DEF Running, IsClient, Fields
<1>5. s.closes = e.closes /\ s.state = e.state
  BY <1>4 DEF Fields
<1>6. CASE count # e.closes
  <2>1. client' = s
    BY <1>2, <1>5, <1>6
  <2> QED
    BY <1>3, <1>6, <2>1, StaleToken DEF StillStep
<1>7. CASE count = e.closes
  <2>1. s.state = "Starting"
    BY <1>1, <1>2, <1>5, <1>7 DEF StreamOK
  <2>2. HardAssert(s, s.state = "Starting") = s
    <3> HIDE DEF s
    <3> QED
      BY <1>4, <2>1, Asserted
  <2>3. client' = [WriteHandshake(t) EXCEPT !.health = TRUE]
    BY <1>2, <1>5, <1>7, <2>2
  <2> HIDE DEF s
  <2>4. /\ Running(t) /\ t.state = "Open" /\ t.call = TRUE
        /\ \A f \in Fields \ {"call", "state"} : t[f] = s[f]
    BY <1>4 DEF Running, IsClient, Fields
  <2> HIDE DEF t
  <2>5. Silent(e) /\ e.network
    BY <1>1, <1>5, <2>1 DEF Joined, IsOpen, IsStarted
  <2>6. t.handshake = e.handshake /\ t.out = e.out
    BY <1>4, <2>4 DEF Fields
  <2>7. HardAssert(t, ~t.handshake) = t
    <3>1. (~t.handshake) = TRUE
      BY <2>5, <2>6 DEF Silent
    <3> QED
      BY <2>4, <3>1, Asserted
  <2>8. WriteHandshake(t) = o
    <3>1. IsOpen(t) /\ <<Handshake>> # <<>>
      BY <2>4 DEF IsOpen
    <3>2. WriteHandshake(t) = Write(t, <<Handshake>>)
      BY <2>7 DEF WriteHandshake
    <3> DEFINE ms == <<Handshake>>
    <3> HIDE DEF ms
    <3>3. Write(t, ms) = [t EXCEPT !.idle = FALSE, !.out = t.out \o ms]
      BY <2>4, <3>1, WriteDoes DEF ms
    <3> QED
      BY <3>2, <3>3 DEF ms
  <2>9. t.out \o <<Handshake>> = <<Handshake>>
    BY <2>5, <2>6 DEF Silent
  <2>10. /\ Running(o) /\ o.idle = FALSE /\ o.out = <<Handshake>>
         /\ \A f \in Fields \ {"idle", "out"} : o[f] = t[f]
    BY <2>4, <2>9 DEF Running, IsClient, Fields
  <2> HIDE DEF o
  <2>11. /\ Running(v) /\ \A f \in Fields \ {"health"} : v[f] = o[f]
    BY <2>10 DEF Running, IsClient, Fields
  <2> HIDE DEF v
  <2>12. client' = v
    BY <2>3, <2>8 DEF v
  <2>13. /\ v.user = e.user /\ v.db = e.db /\ v.pipeline = e.pipeline /\ v.next = e.next
         /\ v.closes = e.closes /\ v.backoff = e.backoff /\ v.state = "Open"
         /\ v.handshake = e.handshake /\ v.idle = FALSE
         /\ v.out = <<Handshake>> /\ v.in = e.in /\ v.network = e.network
         /\ v.requests = e.requests \ {count}
         /\ \A f \in Outcome : v[f] = e[f]
    BY <1>4, <2>4, <2>10, <2>11 DEF Fields, Outcome
  <2>14. PipeOK(v) /\ NumbersOK(v)
    BY <1>1, <2>13 DEF PipeOK, NumbersOK
  <2>15. StreamOK(v)
    <3>1. v.closes \notin v.requests
      BY <1>7, <2>13
    <3>2. ~v.backoff
      BY <1>1, <1>5, <2>1, <2>13 DEF StreamOK
    <3> QED
      BY <1>1, <2>13, <3>1, <3>2 DEF StreamOK
  <2>16. MessagesOK(v)
    <3>1. v.in = <<>> /\ ~v.handshake
      BY <2>5, <2>13 DEF Silent
    <3>2. Handshake \in AllRequests
      BY DEF Handshake, AllRequests
    <3>3. v.in \in Seq(AllAnswers) /\ v.out \in Seq(AllRequests)
      BY <3>1, <3>2, <2>13
    <3> QED
      BY <2>13, <3>1, <3>3 DEF MessagesOK, Greeting
  <2>17. Joined(v)
    BY <2>5, <2>13 DEF Joined, IsOpen, IsStarted
  <2> QED
    BY <1>3, <2>11, <2>12, <2>13, <2>14, <2>15, <2>16, <2>17 DEF StillStep, Still, ClientOK
<1> QED
  BY <1>6, <1>7

(* A token that cannot be had is a failure of the stream.                  *)
LEMMA TokenFailsStill ==
    ASSUME ClientOK(client), CredentialsFail
    PROVE  StillStep
<1> DEFINE e == client
<1>1. /\ Running(e) /\ PipeOK(e) /\ StreamOK(e) /\ NumbersOK(e) /\ Joined(e)
  BY DEF ClientOK
<1>2. PICK count \in e.requests :
        LET s == [e EXCEPT !.requests = @ \ {count}]
        IN client' = IF count # s.closes THEN s
                     ELSE Close(HardAssert(s, s.state = "Starting"), "transient")
  BY DEF CredentialsFail
<1>3. UNCHANGED <<server, written>>
  BY DEF CredentialsFail
<1> DEFINE s == [e EXCEPT !.requests = e.requests \ {count}]
<1>4. /\ Running(s) /\ s.requests = e.requests \ {count}
      /\ \A f \in Fields \ {"requests"} : s[f] = e[f]
  BY <1>1 DEF Running, IsClient, Fields
<1>5. s.closes = e.closes /\ s.state = e.state
  BY <1>4 DEF Fields
<1>6. CASE count # e.closes
  <2>1. client' = s
    BY <1>2, <1>5, <1>6
  <2> QED
    BY <1>3, <1>6, <2>1, StaleToken DEF StillStep
<1>7. CASE count = e.closes
  <2>1. s.state = "Starting" /\ ~s.backoff
    <3>1. s.backoff = e.backoff
      BY <1>4 DEF Fields
    <3> QED
      BY <1>1, <1>2, <1>5, <1>7, <3>1 DEF StreamOK
  <2>2. HardAssert(s, s.state = "Starting") = s
    <3> HIDE DEF s
    <3> QED
      BY <1>4, <2>1, Asserted
  <2> DEFINE t == Close(s, "transient")
  <2>3. client' = t
    BY <1>2, <1>5, <1>7, <2>2
  <2> HIDE DEF s
  <2>4. /\ s.user = e.user /\ s.db = e.db /\ s.pipeline = e.pipeline
        /\ s.handshake = e.handshake /\ s.network = e.network
        /\ s.next = e.next /\ \A f \in Outcome : s[f] = e[f]
    BY <1>4 DEF Fields, Outcome
  <2>5. PipeOK(s) /\ NumbersOK(s)
    BY <1>1, <2>4 DEF PipeOK, NumbersOK
  <2>6. Counted(s)
    BY <1>1, <1>4, <1>5 DEF StreamOK, Counted
  <2>7. IsStarted(s) /\ s.network
    BY <1>1, <1>5, <2>1, <2>4 DEF IsStarted, Joined
  <2>8. ~IsPermanentWriteError("transient") /\ "transient" # "ok"
    BY DEF IsPermanentWriteError
  <2>9. ClientOK(t) /\ Still(s, t) /\ t.in = <<>>
    BY <1>4, <2>5, <2>6, <2>7, <2>8, FailingKeeps
  <2> QED
    BY <1>3, <2>3, <2>4, <2>9 DEF StillStep, Still
<1> QED
  BY <1>6, <1>7

(* The connection breaks.                                                  *)
LEMMA LostStill ==
    ASSUME ClientOK(client), ConnectionLost
    PROVE  StillStep
<1> DEFINE e == client
           t == Close(e, "transient")
<1>1. /\ Running(e) /\ PipeOK(e) /\ StreamOK(e) /\ NumbersOK(e) /\ Joined(e)
  BY DEF ClientOK
<1>2. client.call /\ client' = t /\ UNCHANGED <<server, written>>
  BY DEF ConnectionLost
<1>3. IsStarted(e) /\ e.network /\ Counted(e)
  BY <1>1, <1>2 DEF Joined, Silent, IsStarted, StreamOK, Counted
<1>4. ~IsPermanentWriteError("transient") /\ "transient" # "ok"
  BY DEF IsPermanentWriteError
<1>5. ClientOK(t) /\ Still(e, t) /\ t.in = <<>>
  BY <1>1, <1>3, <1>4, FailingKeeps
<1> QED
  BY <1>2, <1>5 DEF StillStep

(* An answer that is there belongs to an open stream.                      *)
LEMMA AnsweredDoes ==
    ASSUME NEW s, ClientOK(s), s.in # <<>>
    PROVE  LET t == Answered(s)
           IN /\ Running(t) /\ t.in = Tail(s.in) /\ IsOpen(s) /\ s.network
              /\ \A f \in Fields \ {"in"} : t[f] = s[f]
<1> DEFINE t == Answered(s)
<1>1. Running(s) /\ Joined(s)
  BY DEF ClientOK
<1>2. IsOpen(s) /\ IsStarted(s) /\ s.network
  BY <1>1 DEF Joined, Silent, IsStarted
<1>3. HardAssert(s, IsStarted(s)) = s
  BY <1>1, <1>2, Asserted
<1>4. t = [s EXCEPT !.in = Tail(s.in)]
  BY <1>3 DEF Answered
<1> HIDE DEF t
<1>5. Running(t) /\ t.in = Tail(s.in) /\ \A f \in Fields \ {"in"} : t[f] = s[f]
  BY <1>1, <1>4 DEF Running, IsClient, Fields
<1> QED
  BY <1>2, <1>5 DEF t

(* The handshake is done, and the pipeline is sent.                        *)
LEMMA HandshakeStill ==
    ASSUME ClientOK(client), HandshakeAnswer
    PROVE  StillStep
<1> DEFINE e == client
           a == Answered(e)
           s == [a EXCEPT !.handshake = TRUE]
           t == WriteMutations(s, s.pipeline)
           p == e.pipeline
<1>1. /\ Running(e) /\ PipeOK(e) /\ StreamOK(e) /\ NumbersOK(e) /\ MessagesOK(e) /\ Joined(e)
  BY DEF ClientOK
<1>2. /\ e.in # <<>> /\ Head(e.in).kind # "end" /\ ~e.handshake
      /\ client' = t /\ UNCHANGED <<server, written>>
  BY DEF HandshakeAnswer
<1>3. e.in = <<Handshake>> /\ e.out = <<>>
  <2>1. Greeting(e)
    BY <1>1, <1>2 DEF MessagesOK
  <2>2. ASSUME NEW status, e.in = <<Refusal(status, Handshake)>> PROVE FALSE
    <3>1. Head(e.in).kind = "end"
      BY <2>2 DEF Refusal
    <3> QED
      BY <1>2, <3>1
  <2> QED
    BY <1>2, <2>1, <2>2 DEF Greeting
<1>4. /\ Running(a) /\ a.in = Tail(e.in) /\ IsOpen(e) /\ e.network
      /\ \A f \in Fields \ {"in"} : a[f] = e[f]
  BY <1>2, AnsweredDoes
<1>5. Tail(e.in) = <<>>
  BY <1>3
<1> HIDE DEF a
<1>6. /\ Running(s) /\ s.handshake = TRUE /\ \A f \in Fields \ {"handshake"} : s[f] = a[f]
  BY <1>4 DEF Running, IsClient, Fields
<1> HIDE DEF s
<1>7. /\ s.user = e.user /\ s.db = e.db /\ s.pipeline = p /\ s.next = e.next
      /\ s.closes = e.closes /\ s.backoff = e.backoff /\ s.state = e.state
      /\ s.requests = e.requests /\ s.idle = e.idle
      /\ s.out = <<>> /\ s.in = <<>> /\ s.network = e.network
      /\ \A f \in Outcome : s[f] = e[f]
  BY <1>3, <1>4, <1>5, <1>6 DEF Fields, Outcome
<1>8. p \in Seq(Batches) /\ IsOpen(s) /\ ~e.idle
  BY <1>1, <1>2, <1>4, <1>7 DEF PipeOK, IsOpen, Joined
<1>9. t = IF p = <<>> THEN s ELSE [s EXCEPT !.idle = FALSE, !.out = s.out \o Requests(p)]
  <2> HIDE DEF p
  <2> QED
    BY <1>6, <1>7, <1>8, WriteMutationsDoes
<1>10. /\ Requests(p) \in Seq(AllRequests) /\ Len(Requests(p)) = Len(p)
       /\ \A i \in 1..Len(p) : Requests(p)[i] = [kind |-> "writes", batch |-> p[i]]
       /\ (p = <<>>) <=> (Requests(p) = <<>>)
  <2> HIDE DEF p
  <2> QED
    BY <1>8, RequestsType
<1>11. <<>> \o Requests(p) = Requests(p)
  BY <1>10, ConcatEmptySeq
<1> HIDE DEF t
<1>12. /\ Running(t) /\ t.out = Requests(p) /\ ~t.idle
       /\ \A f \in Fields \ {"idle", "out"} : t[f] = s[f]
  <2>1. CASE p = <<>>
    BY <1>6, <1>7, <1>8, <1>9, <1>10, <2>1
  <2>2. CASE p # <<>>
    <3>1. t = [s EXCEPT !.idle = FALSE, !.out = Requests(p)]
      BY <1>7, <1>9, <1>11, <2>2
    <3> QED
      BY <1>6, <3>1 DEF Running, IsClient, Fields
  <2> QED
    BY <2>1, <2>2
<1>13. /\ t.user = e.user /\ t.db = e.db /\ t.pipeline = p /\ t.next = e.next
       /\ t.closes = e.closes /\ t.backoff = e.backoff /\ t.state = e.state
       /\ t.requests = e.requests /\ t.handshake = TRUE
       /\ t.in = <<>> /\ t.network = e.network
       /\ \A f \in Outcome : t[f] = e[f]
  BY <1>6, <1>7, <1>12 DEF Fields, Outcome
<1>14. PipeOK(t) /\ NumbersOK(t) /\ StreamOK(t)
  BY <1>1, <1>13 DEF PipeOK, NumbersOK, StreamOK
<1>15. MessagesOK(t)
  <2>1. Len(t.in) = 0 /\ t.in \in Seq(AllAnswers) /\ Len(p) \in Nat
    BY <1>8, <1>13
  <2>2. \A i \in 1..Len(p) : 0 + i = i
    BY <2>1
  <2>3. Matched(t)
    BY <1>10, <1>12, <1>13, <2>1, <2>2 DEF Matched
  <2> QED
    BY <1>10, <1>12, <1>13, <2>1, <2>3 DEF MessagesOK
<1>16. Joined(t)
  BY <1>1, <1>4, <1>12, <1>13 DEF Joined, IsOpen, IsStarted
<1> QED
  BY <1>2, <1>12, <1>13, <1>14, <1>15, <1>16 DEF StillStep, Still, ClientOK

(* A step that settles the front of the pipeline.                          *)
LEMMA SettlesNumbers ==
    ASSUME NEW s, PipeOK(s), NumbersOK(s), NEW ok, NEW t, Settles(s, t, ok)
    PROVE  NumbersOK(t)
<1>1. /\ s.db \in [Users -> SUBSET Batches] /\ s.user \in Users /\ t.next = s.next
      /\ t.db = [s.db EXCEPT ![s.user] = @ \ {Head(s.pipeline)}]
  BY DEF PipeOK, Settles
<1>2. \A u \in Users : t.db[u] \subseteq s.db[u]
  BY <1>1
<1> QED
  BY <1>1, <1>2 DEF NumbersOK

(* The first answer is about the front of the pipeline, and without it the *)
(* others are about the rest.                                              *)
LEMMA MatchedTail ==
    ASSUME NEW s, MessagesOK(s), s.handshake, s.pipeline \in Seq(Batches), s.in # <<>>
    PROVE  /\ s.pipeline # <<>> /\ Answers(Head(s.in), Head(s.pipeline))
           /\ \A t : /\ t.in = Tail(s.in) /\ t.out = s.out /\ t.handshake = s.handshake
                     /\ t.pipeline = Tail(s.pipeline)
                     => MessagesOK(t)
<1> DEFINE p == s.pipeline
           a == s.in
           o == s.out
           b == Tail(a)
           q == Tail(p)
<1>1. /\ p \in Seq(Batches) /\ a \in Seq(AllAnswers) /\ a # <<>> /\ o \in Seq(AllRequests)
      /\ \A i \in 1..Len(a) : a[i].kind = "end" => i = Len(a)
      /\ Len(p) = Len(a) + Len(o) /\ \A i \in 1..Len(a) : Answers(a[i], p[i])
      /\ \A i \in 1..Len(o) : o[i] = [kind |-> "writes", batch |-> p[Len(a) + i]]
  BY DEF MessagesOK, Matched
<1> HIDE DEF p, a, o
<1>2. Len(a) \in Nat \ {0} /\ Len(o) \in Nat /\ Len(p) \in Nat \ {0} /\ p # <<>>
  BY <1>1
<1>3. Head(a) = a[1] /\ Head(p) = p[1] /\ 1 \in 1..Len(a)
  BY <1>1, <1>2
<1>4. Answers(Head(a), Head(p))
  BY <1>1, <1>3
<1>5. /\ b \in Seq(AllAnswers) /\ Len(b) = Len(a) - 1
      /\ \A i \in 1..(Len(a) - 1) : b[i] = a[i + 1]
  BY <1>1
<1>6. /\ Len(q) = Len(p) - 1
      /\ \A i \in 1..(Len(p) - 1) : q[i] = p[i + 1]
  BY <1>1, <1>2
<1> HIDE DEF b, q
<1>7. \A i \in 1..Len(b) : i + 1 \in 1..Len(a) /\ i \in 1..(Len(p) - 1)
  BY <1>1, <1>2, <1>5
<1>8. ASSUME NEW i \in 1..Len(b), b[i].kind = "end" PROVE i = Len(b)
  <2>1. i + 1 \in 1..Len(a) /\ a[i + 1].kind = "end"
    BY <1>5, <1>7, <1>8
  <2>2. i + 1 = Len(a)
    BY <1>1, <2>1
  <2> QED
    BY <1>2, <1>5, <2>2
<1>9. \A i \in 1..Len(b) : Answers(b[i], q[i])
  BY <1>1, <1>5, <1>6, <1>7
<1>10. ASSUME NEW i \in 1..Len(o)
       PROVE  o[i] = [kind |-> "writes", batch |-> q[Len(b) + i]]
  <2>1. Len(b) + i \in 1..(Len(p) - 1) /\ (Len(b) + i) + 1 = Len(a) + i
    BY <1>1, <1>2, <1>5
  <2> QED
    BY <1>1, <1>6, <2>1
<1>11. Len(q) = Len(b) + Len(o)
  BY <1>1, <1>2, <1>5, <1>6
<1>12. ASSUME NEW t, t.in = b, t.out = o, t.handshake = s.handshake, t.pipeline = q
       PROVE  MessagesOK(t)
  <2>1. Matched(t)
    BY <1>9, <1>10, <1>11, <1>12 DEF Matched
  <2> QED
    BY <1>1, <1>5, <1>8, <1>12, <2>1 DEF MessagesOK
<1> QED
  BY <1>2, <1>4, <1>12 DEF p, a, o, b, q

(* An answer settles the front of the pipeline: it succeeded.              *)
SuccessStep ==
  /\ ClientOK(client') /\ Settles(client, client', TRUE)
  /\ client.in # <<>> /\ client'.in = Tail(client.in)
  /\ Head(client.in).kind = "ack" /\ Head(client.in).batch = Head(client.pipeline)
  /\ UNCHANGED <<server, written>>

(* A result settles the front of the pipeline, which it answers.           *)
LEMMA ResultSettles ==
    ASSUME ClientOK(client), MutationResult
    PROVE  SuccessStep
<1> DEFINE e == client
           a == Answered(e)
           t == [a EXCEPT !.pipeline = Tail(e.pipeline)]
           h == HandleSuccessfulWrite(t, Head(e.pipeline).id)
<1>1. /\ Running(e) /\ PipeOK(e) /\ StreamOK(e) /\ NumbersOK(e) /\ MessagesOK(e) /\ Joined(e)
  BY DEF ClientOK
<1>2. e.in # <<>> /\ Head(e.in).kind # "end" /\ e.handshake /\ UNCHANGED <<server, written>>
  BY DEF MutationResult
<1>3. e.pipeline # <<>> /\ Answers(Head(e.in), Head(e.pipeline))
  BY <1>1, <1>2, MatchedTail DEF PipeOK
<1>4. Head(e.in).kind = "ack" /\ Head(e.in).batch = Head(e.pipeline)
  BY <1>2, <1>3 DEF Answers
<1>5. /\ Running(a) /\ a.in = Tail(e.in) /\ IsOpen(e) /\ e.network
      /\ \A f \in Fields \ {"in"} : a[f] = e[f]
  BY <1>2, AnsweredDoes
<1>6. a.pipeline = e.pipeline
  BY <1>5 DEF Fields
<1>7. HardAssert(a, e.pipeline # <<>>) = a
  <2> HIDE DEF a
  <2>1. (e.pipeline # <<>>) = TRUE
    BY <1>3
  <2> QED
    BY <2>1, <1>5, Asserted
<1>8. client' = FillWritePipeline(h)
  BY <1>6, <1>7 DEF MutationResult
<1> HIDE DEF a
<1>9. /\ Running(t) /\ t.pipeline = Tail(e.pipeline)
      /\ \A f \in Fields \ {"pipeline"} : t[f] = a[f]
  BY <1>5 DEF Running, IsClient, Fields
<1> HIDE DEF t
<1>10. \A f \in Outcome : t[f] = e[f]
  BY <1>5, <1>9 DEF Outcome, Fields
<1>11. /\ Running(h) /\ PipeOK(h) /\ Settles(e, h, TRUE)
       /\ \A f \in Fields \ SettleFields : h[f] = t[f]
  <2>1. PICK ok \in BOOLEAN : ok = TRUE
    OBVIOUS
  <2>2. h = IF ok THEN HandleSuccessfulWrite(t, Head(e.pipeline).id)
            ELSE HandleRejectedWrite(t, Head(e.pipeline).id)
    BY <2>1
  <2> HIDE DEF h, e
  <2>3. /\ Running(h) /\ PipeOK(h) /\ Settles(e, h, ok)
        /\ \A f \in Fields \ SettleFields : h[f] = t[f]
    BY <2>2, <1>1, <1>3, <1>9, <1>10, SettleDoes
  <2> QED
    BY <2>1, <2>3
<1> HIDE DEF h
<1>12. /\ h.pipeline = Tail(e.pipeline)
       /\ h.closes = e.closes /\ h.backoff = e.backoff /\ h.state = e.state
       /\ h.requests = e.requests /\ h.handshake = e.handshake
       /\ h.in = Tail(e.in) /\ h.out = e.out /\ h.network = e.network /\ h.idle = e.idle
  BY <1>5, <1>9, <1>11 DEF Fields, SettleFields
<1>13. StreamOK(h) /\ NumbersOK(h) /\ MessagesOK(h)
  <2>1. StreamOK(h)
    BY <1>1, <1>12 DEF StreamOK
  <2>2. NumbersOK(h)
    BY <1>1, <1>11, SettlesNumbers
  <2>3. MessagesOK(h)
    BY <1>1, <1>2, <1>12, MatchedTail DEF PipeOK
  <2> QED
    BY <2>1, <2>2, <2>3
<1>14. IsOpen(h) /\ h.network /\ ~h.idle /\ h.handshake
  BY <1>1, <1>2, <1>3, <1>5, <1>12 DEF IsOpen, Joined
<1>15. LET v == FillWritePipeline(h)
       IN /\ ClientOK(v) /\ v.in = h.in /\ \A f \in Outcome : v[f] = h[f]
  BY <1>11, <1>13, <1>14, FillKeeps
<1>16. Settles(e, client', TRUE)
  BY <1>8, <1>11, <1>15 DEF Settles, Outcome
<1> QED
  BY <1>2, <1>4, <1>8, <1>12, <1>15, <1>16 DEF SuccessStep

(* Why the front of the pipeline counts as refused: the status of the call *)
(* says so, or the answer about it cannot be read.                         *)
Blame ==
  /\ client.in # <<>> /\ written' = written
  /\ \/ /\ server' = server
        /\ Last(client.in).kind = "end" /\ Last(client.in).status = "permanent"
        /\ AcksBeforeStatus => Len(client.in) = 1
     \/ /\ Head(client.in).kind = "ack" /\ Head(client.in).batch = Head(client.pipeline)
        /\ server' = [server EXCEPT !.garbled = @ \cup {Head(client.in).batch.write}]

(* The front of the pipeline is settled as refused.                        *)
RefusalStep ==
  /\ ClientOK(client') /\ Settles(client, client', FALSE)
  /\ client'.in = <<>> /\ client.handshake /\ Blame

(* A status settles the front of the pipeline if it is a refusal.          *)
LEMMA FinishSettles ==
    ASSUME ClientOK(client), StreamFinish
    PROVE  StillStep \/ RefusalStep
<1> DEFINE e == client
           status == Last(e.in).status
           t == Close(e, status)
<1>1. /\ Running(e) /\ PipeOK(e) /\ StreamOK(e) /\ NumbersOK(e) /\ MessagesOK(e) /\ Joined(e)
  BY DEF ClientOK
<1>2. /\ e.in # <<>> /\ Last(e.in).kind = "end" /\ (AcksBeforeStatus => Len(e.in) = 1)
      /\ client' = t /\ UNCHANGED <<server, written>>
  BY DEF StreamFinish, Finishing
<1>3. IsStarted(e) /\ e.network /\ Counted(e)
  BY <1>1, <1>2 DEF Joined, Silent, IsStarted, StreamOK, Counted
<1>4. status \in Statuses
  <2> DEFINE a == e.in
  <2>1. a \in Seq(AllAnswers) /\ a # <<>> /\ a[Len(a)].kind = "end"
    BY <1>1, <1>2 DEF MessagesOK, Last
  <2> HIDE DEF a
  <2>2. a[Len(a)] \in AllAnswers
    BY <2>1
  <2>3. a[Len(a)].status \in Statuses
    BY <2>1, <2>2 DEF AllAnswers
  <2> QED
    BY <2>3 DEF Last, a
<1> HIDE DEF status
<1>5. CASE IsPermanentWriteError(status) /\ e.pipeline # <<>> /\ e.handshake
  <2>1. status = "permanent"
    BY <1>5 DEF IsPermanentWriteError
  <2>2. /\ Running(t) /\ PipeOK(t) /\ StreamOK(t) /\ Silent(t)
        /\ IsStarted(t) => e.network
        /\ Settles(e, t, FALSE) /\ t.network = e.network
    BY <1>1, <1>3, <1>5, <2>1, CloseRefuses
  <2> HIDE DEF t
  <2>3. NumbersOK(t)
    BY <1>1, <2>2, SettlesNumbers
  <2>4. ClientOK(t) /\ t.in = <<>>
    BY <1>3, <2>2, <2>3, SilentOK
  <2> QED
    BY <1>2, <1>5, <2>1, <2>2, <2>4 DEF RefusalStep, Blame, status
<1>6. CASE ~(IsPermanentWriteError(status) /\ e.pipeline # <<>> /\ e.handshake)
  <2>1. status # "ok"
    BY <1>4 DEF Statuses
  <2>2. ClientOK(t) /\ Still(e, t) /\ t.in = <<>>
    BY <1>1, <1>3, <1>6, <2>1, FailingKeeps
  <2> QED
    BY <1>2, <2>2 DEF StillStep
<1> QED
  BY <1>5, <1>6

(* After the handshake an answer that cannot be read is one about the      *)
(* front of the pipeline.                                                  *)
LEMMA GarbledBlames ==
    ASSUME ClientOK(client), Garbled, client.handshake, written' = written
    PROVE  Blame /\ client.pipeline # <<>>
<1> DEFINE m == Head(client.in)
<1>1. client.in # <<>> /\ m.kind # "end"
  BY DEF Garbled
<1>2. client.pipeline # <<>> /\ Answers(m, Head(client.pipeline))
  BY <1>1, MatchedTail DEF ClientOK, PipeOK
<1>3. m.kind = "ack" /\ m.batch = Head(client.pipeline)
  BY <1>1, <1>2 DEF Answers
<1> QED
  BY <1>1, <1>2, <1>3 DEF Blame, Garbled

(* It settles the front of the pipeline, and before the handshake nothing. *)
LEMMA UnreadableSettles ==
    ASSUME ClientOK(client), AnswerUnreadable
    PROVE  StillStep \/ RefusalStep
<1> DEFINE e == client
           a == Answered(e)
           t == Close(a, "permanent")
<1>1. /\ Running(e) /\ PipeOK(e) /\ StreamOK(e) /\ NumbersOK(e) /\ MessagesOK(e) /\ Joined(e)
  BY DEF ClientOK
<1>2. Garbled /\ e.in # <<>> /\ client' = t /\ written' = written
  BY DEF AnswerUnreadable, Garbled
<1>3. /\ Running(a) /\ IsOpen(e) /\ e.network /\ \A f \in Fields \ {"in"} : a[f] = e[f]
  BY <1>2, AnsweredDoes
<1> HIDE DEF a
<1>4. /\ a.db = e.db /\ a.user = e.user /\ a.next = e.next /\ a.network = e.network
      /\ a.pipeline = e.pipeline /\ a.handshake = e.handshake /\ a.state = e.state
      /\ a.closes = e.closes /\ a.requests = e.requests /\ a.backoff = e.backoff
      /\ \A f \in Outcome : a[f] = e[f]
  BY <1>3 DEF Fields, Outcome
<1>5. /\ PipeOK(a) /\ StreamOK(a) /\ NumbersOK(a) /\ IsStarted(a) /\ a.network /\ Counted(a)
  BY <1>1, <1>3, <1>4 DEF PipeOK, StreamOK, NumbersOK, IsStarted, IsOpen, Counted
<1>6. CASE e.handshake
  <2>1. Blame /\ e.pipeline # <<>>
    BY <1>2, <1>6, GarbledBlames
  <2>2. /\ Running(t) /\ PipeOK(t) /\ StreamOK(t) /\ Silent(t)
        /\ IsStarted(t) => a.network
        /\ Settles(a, t, FALSE) /\ t.network = a.network
    BY <1>3, <1>4, <1>5, <1>6, <2>1, CloseRefuses
  <2> HIDE DEF t
  <2>3. NumbersOK(t)
    BY <1>5, <2>2, SettlesNumbers
  <2>4. ClientOK(t) /\ t.in = <<>>
    BY <1>5, <2>2, <2>3, SilentOK
  <2>5. Settles(e, t, FALSE)
    <3>1. a.callbacks = e.callbacks /\ a.told = e.told /\ a.waiters = e.waiters
          /\ a.woken = e.woken
      BY <1>4 DEF Outcome
    <3> QED
      BY <1>4, <2>2, <3>1 DEF Settles, Called, ToldOf, WokenOf
  <2> QED
    BY <1>2, <1>6, <2>1, <2>4, <2>5 DEF RefusalStep
<1>7. CASE ~e.handshake
  <2>1. PICK status : status = "permanent"
    OBVIOUS
  <2>2. status # "ok" /\ ~(IsPermanentWriteError(status) /\ a.pipeline # <<>> /\ a.handshake)
    BY <1>4, <1>7, <2>1
  <2>3. ClientOK(Close(a, status)) /\ Still(a, Close(a, status)) /\ Close(a, status).in = <<>>
    BY <1>3, <1>5, <2>2, FailingKeeps
  <2>4. ClientOK(t) /\ Still(a, t) /\ t.in = <<>>
    BY <2>1, <2>3
  <2> HIDE DEF t
  <2>5. Head(e.in) = Handshake
    <3>1. e.in = <<Handshake>> \/ \E status2 \in Statuses : e.in = <<Refusal(status2, Handshake)>>
      BY <1>1, <1>2, <1>7 DEF MessagesOK, Greeting
    <3>2. Head(e.in).kind # "end"
      BY <1>2 DEF Garbled
    <3>3. ASSUME NEW status2, e.in = <<Refusal(status2, Handshake)>> PROVE FALSE
      <4>1. Head(e.in) = Refusal(status2, Handshake)
        BY <3>3
      <4> QED
        BY <3>2, <4>1 DEF Refusal
    <3>4. e.in = <<Handshake>>
      BY <3>1, <3>3
    <3> QED
      BY <3>4
  <2>6. server' = server
    BY <1>2, <2>5 DEF Garbled, Handshake
  <2> QED
    BY <1>2, <1>4, <2>4, <2>6 DEF StillStep, Still
<1> QED
  BY <1>6, <1>7

(* A step that leaves the queues, and what the app was told, as they are.  *)
KeepStep == /\ ClientOK(client') /\ client'.db = client.db /\ client'.told = client.told
            /\ client'.callbacks \subseteq client.callbacks
            /\ client'.in = client.in \/ client'.in = <<>>
            /\ UNCHANGED <<server, written>>

(* Nobody waits any more who did, or all do.                               *)
Waits == \/ /\ client'.user = client.user /\ client'.db = client.db
            /\ client'.waiters = client.waiters /\ client'.woken = client.woken
         \/ /\ client'.waiters = {}
            /\ client'.woken \subseteq client.woken \cup
                 {[number |-> c.number, ok |-> FALSE] : c \in client.waiters}

(* A step that decides nothing leaves them all.                            *)
LEMMA StillKeeps ==
    ASSUME StillStep
    PROVE  KeepStep /\ Waits
BY DEF StillStep, Still, KeepStep, Waits, Outcome

(* Another user signs in: whoever waits is told that it failed.            *)
LEMMA ChangeKeeps ==
    ASSUME ClientOK(client), CredentialChange
    PROVE  KeepStep /\ Waits
<1> DEFINE e == client
           woken == e.woken \cup {[number |-> c.number, ok |-> FALSE] : c \in e.waiters}
           next == LoadNextBatchId(e)
<1>1. /\ Running(e) /\ PipeOK(e) /\ StreamOK(e) /\ NumbersOK(e) /\ MessagesOK(e) /\ Joined(e)
  BY DEF ClientOK
<1>2. PICK u \in Users :
        LET failed == FailOutstandingPendingWriteCallbacks(e)
            moved == [failed EXCEPT !.user = u, !.next = LoadNextBatchId(e)]
            s == IF u = e.user THEN e ELSE moved
        IN client' = IF s.network THEN RestartNetwork(s) ELSE s
  BY DEF CredentialChange
<1>3. UNCHANGED <<server, written>>
  BY DEF CredentialChange
<1> DEFINE failed == [e EXCEPT !.waiters = {}, !.woken = woken]
           moved == [failed EXCEPT !.user = u, !.next = next]
           s == IF u = e.user THEN e ELSE moved
<1>4. client' = IF s.network THEN RestartNetwork(s) ELSE s
  BY <1>2 DEF FailOutstandingPendingWriteCallbacks
<1>5. next \in Nat /\ \A v \in Users : \A b \in e.db[v] : b.id < next
  BY <1>1, NextIdIsNew DEF PipeOK, NumbersOK
<1> HIDE DEF next, woken, s
<1>6. \/ s = e
      \/ /\ Running(s) /\ s.user = u /\ s.next = next /\ s.waiters = {} /\ s.woken = woken
         /\ \A f \in Fields \ {"user", "next", "waiters", "woken"} : s[f] = e[f]
  <2>1. /\ Running(moved) /\ moved.user = u /\ moved.next = next
        /\ moved.waiters = {} /\ moved.woken = woken
        /\ \A f \in Fields \ {"user", "next", "waiters", "woken"} : moved[f] = e[f]
    BY <1>1 DEF Running, IsClient, Fields
  <2> QED
    BY <2>1 DEF s
<1>7. /\ s.db = e.db /\ s.pipeline = e.pipeline
      /\ s.closes = e.closes /\ s.backoff = e.backoff /\ s.state = e.state
      /\ s.requests = e.requests /\ s.handshake = e.handshake /\ s.idle = e.idle
      /\ s.out = e.out /\ s.in = e.in /\ s.network = e.network /\ s.call = e.call
      /\ s.callbacks = e.callbacks /\ s.told = e.told /\ Running(s) /\ s.user \in Users
  BY <1>1, <1>2, <1>6 DEF Fields, PipeOK
<1>8. \/ s.user = e.user /\ s.waiters = e.waiters /\ s.woken = e.woken
      \/ s.waiters = {} /\ s.woken = woken
  BY <1>6
<1>9. QueuesOK(s) /\ StreamOK(s) /\ (IsOpen(s) \/ Silent(s))
  BY <1>1, <1>7 DEF PipeOK, QueuesOK, StreamOK, Joined, IsOpen, Silent
<1>10. NumbersOK(s)
  BY <1>1, <1>5, <1>6, <1>7 DEF NumbersOK
<1>11. ClientOK(client') /\ (client'.in = e.in \/ client'.in = <<>>)
       /\ \A f \in Outcome : client'[f] = s[f]
  <2>1. CASE s.network
    BY <1>4, <1>7, <1>9, <1>10, <2>1, RestartKeeps
  <2>2. CASE ~s.network
    <3>1. client' = s
      BY <1>4, <2>2
    <3>2. Silent(s) /\ s.pipeline = <<>> /\ ~IsStarted(s)
      BY <1>1, <1>7, <2>2 DEF Joined, IsStarted, IsOpen, Silent
    <3>3. PipeOK(s)
      <4>1. Distinct(s.db[s.user])
        BY <1>9 DEF QueuesOK
      <4>2. ById(s.db[s.user]) \in Seq(Batches)
        BY <4>1, ByIdType
      <4>3. IsPrefix(<<>>, ById(s.db[s.user]))
        BY <4>2, EmptyPrefix
      <4> QED
        BY <1>1, <1>7, <1>9, <3>2, <4>3 DEF PipeOK, QueuesOK
    <3>4. ClientOK(s)
      BY <1>7, <1>9, <1>10, <3>2, <3>3, SilentOK
    <3> QED
      BY <1>7, <3>1, <3>4
  <2> QED
    BY <2>1, <2>2
<1>12. /\ client'.db = e.db /\ client'.told = e.told /\ client'.callbacks = e.callbacks
       /\ \/ client'.user = e.user /\ client'.waiters = e.waiters /\ client'.woken = e.woken
          \/ client'.waiters = {} /\ client'.woken = woken
  BY <1>7, <1>8, <1>11 DEF Outcome
<1> QED
  BY <1>3, <1>11, <1>12 DEF KeepStep, Waits, woken

(* The process ends between two operations.                                *)
LEMMA CrashKeeps ==
    ASSUME ClientOK(client), Crash
    PROVE  KeepStep /\ Waits
<1>1. PICK u \in Users : client' = Launch(client.db, u, client)
  BY DEF Crash
<1>2. /\ client.db \in [Users -> SUBSET Batches] /\ \A v \in Users : Distinct(client.db[v])
      /\ client.next \in Nat /\ \A v \in Users : \A b \in client.db[v] : b.id < client.next
  BY DEF ClientOK, PipeOK, NumbersOK
<1>3. /\ ClientOK(client') /\ client'.in = <<>>
      /\ client'.db = client.db /\ client'.callbacks = {} /\ client'.waiters = {}
      /\ client'.told = client.told /\ client'.woken = client.woken
  BY <1>1, <1>2, LaunchKeeps
<1> QED
  BY <1>3 DEF KeepStep, Waits, Crash

(* It ends after the app was told, perhaps also those who wait for the     *)
(* write, and before the batch was removed.                                *)
HeardStep ==
  /\ ClientOK(client') /\ client'.in = <<>> /\ client'.db = client.db
  /\ client'.callbacks = {} /\ client'.waiters = {}
  /\ client'.woken \in {client.woken, WokenOf(client, Head(client.pipeline).id)}
  /\ client.pipeline # <<>> /\ client.in # <<>>
  /\ client'.told = ToldOf(client, Head(client.pipeline).id, TRUE)
  /\ Head(client.in).kind = "ack" /\ Head(client.in).batch = Head(client.pipeline)
  /\ UNCHANGED <<server, written>>

(* A crash between the callback and the removal of the batch.              *)
LEMMA CrashHears ==
    ASSUME ClientOK(client), CrashInResult
    PROVE  HeardStep
<1> DEFINE id == Head(client.pipeline).id
           n == NotifyUser(client, id, TRUE)
           w == TriggerPendingWriteCallbacks(n, id)
<1>1. PICK u \in Users, s \in {n, w} : client' = Launch(s.db, u, s)
  BY DEF CrashInResult
<1>2. /\ client.db \in [Users -> SUBSET Batches] /\ \A v \in Users : Distinct(client.db[v])
      /\ client.next \in Nat /\ \A v \in Users : \A b \in client.db[v] : b.id < client.next
      /\ Running(client) /\ MessagesOK(client) /\ client.pipeline \in Seq(Batches)
  BY DEF ClientOK, PipeOK, NumbersOK
<1>3. /\ client.in # <<>> /\ Head(client.in).kind = "ack" /\ client.handshake
      /\ UNCHANGED <<server, written>>
  BY DEF CrashInResult
<1>4. client.pipeline # <<>> /\ Answers(Head(client.in), Head(client.pipeline))
  BY <1>2, <1>3, MatchedTail
<1>5. Head(client.in).batch = Head(client.pipeline)
  BY <1>3, <1>4 DEF Answers
<1>6. /\ n.told = ToldOf(client, id, TRUE) /\ n.db = client.db
      /\ n.woken = client.woken /\ n.waiters = client.waiters /\ Running(n)
  <2>1. /\ \A f \in Fields \ {"callbacks", "told"} : n[f] = client[f]
        /\ n.told = ToldOf(client, id, TRUE) /\ Running(n)
    <3> HIDE DEF id
    <3>1. PICK ok : ok = TRUE
      OBVIOUS
    <3>2. LET t == NotifyUser(client, id, ok)
          IN /\ \A f \in Fields \ {"callbacks", "told"} : t[f] = client[f]
             /\ t.told = ToldOf(client, id, ok) /\ Running(t)
      BY <1>2, NotifyDoes
    <3> QED
      BY <3>1, <3>2
  <2> HIDE DEF n
  <2> QED
    BY <2>1 DEF Fields
<1> HIDE DEF n, id
<1>7. w.told = n.told /\ w.db = n.db /\ w.woken = WokenOf(client, id)
  <2>1. (\A f \in Fields \ {"waiters", "woken"} : w[f] = n[f]) /\ w.woken = WokenOf(n, id)
    BY <1>6, TriggerDoes
  <2> HIDE DEF w
  <2> QED
    BY <1>6, <2>1 DEF Fields, WokenOf
<1> HIDE DEF w
<1>8. /\ s.told = ToldOf(client, id, TRUE) /\ s.db = client.db
      /\ s.woken \in {client.woken, WokenOf(client, id)}
  BY <1>6, <1>7
<1>9. /\ ClientOK(client') /\ client'.in = <<>>
      /\ client'.db = client.db /\ client'.callbacks = {} /\ client'.waiters = {}
      /\ client'.told = s.told /\ client'.woken = s.woken
  <2>1. client' = Launch(client.db, u, s)
    BY <1>1, <1>8
  <2>2. LET t == Launch(client.db, u, s)
        IN /\ ClientOK(t) /\ t.in = <<>> /\ t.db = client.db
           /\ t.callbacks = {} /\ t.waiters = {} /\ t.told = s.told /\ t.woken = s.woken
    BY <1>2, LaunchKeeps
  <2> QED
    BY <2>1, <2>2
<1> QED
  BY <1>3, <1>4, <1>5, <1>8, <1>9 DEF HeardStep, id

(* It ends after the batch was removed, perhaps also after the app was     *)
(* told, and before those who wait for the write are.                      *)
DroppedStep ==
  /\ ClientOK(client') /\ client'.in = <<>>
  /\ client'.db = [client.db EXCEPT ![client.user] = @ \ {Head(client.pipeline)}]
  /\ client'.callbacks = {} /\ client'.waiters = {} /\ client'.woken = client.woken
  /\ client'.told \in {client.told, ToldOf(client, Head(client.pipeline).id, FALSE)}
  /\ client.pipeline # <<>> /\ client.handshake /\ Blame

(* A crash between the removal of the batch and the callback.              *)
LEMMA CrashDrops ==
    ASSUME ClientOK(client), CrashInReject
    PROVE  DroppedStep
<1> DEFINE id == Head(client.pipeline).id
           B == client.db[client.user]
           r == RemoveMutationBatch(client, id)
           n == NotifyUser(r, id, FALSE)
           db == [client.db EXCEPT ![client.user] = @ \ {Head(client.pipeline)}]
<1>1. PICK u \in Users, s \in {r, n} : client' = Launch(s.db, u, s)
  BY DEF CrashInReject
<1>2. /\ client.db \in [Users -> SUBSET Batches] /\ \A v \in Users : Distinct(client.db[v])
      /\ client.next \in Nat /\ \A v \in Users : \A b \in client.db[v] : b.id < client.next
      /\ Running(client) /\ PipeOK(client) /\ client.user \in Users
  BY DEF ClientOK, PipeOK, NumbersOK
<1>3. client.handshake /\ client.pipeline # <<>> /\ Blame
  <2>1. client.handshake /\ client.pipeline # <<>> /\ written' = written
    BY DEF CrashInReject
  <2>2. CASE Finishing /\ IsPermanentWriteError(Last(client.in).status) /\ UNCHANGED server
    BY <2>1, <2>2 DEF Blame, Finishing, IsPermanentWriteError
  <2>3. CASE Garbled
    BY <2>1, <2>3, GarbledBlames
  <2> QED
    BY <2>1, <2>2, <2>3 DEF CrashInReject
<1>4. /\ Head(client.pipeline) \in B
      /\ {c \in B : c.id # id} = B \ {Head(client.pipeline)}
      /\ Distinct(B \ {Head(client.pipeline)})
  BY <1>2, <1>3, PipelineHead
<1>5. /\ Running(r) /\ r.db = db /\ r.told = client.told /\ r.woken = client.woken
      /\ r.callbacks = client.callbacks /\ r.user = client.user
  <2>1. id \in Ids(B)
    BY <1>4 DEF Ids
  <2>2. /\ r.db = [client.db EXCEPT ![client.user] = {b \in @ : b.id # id}]
        /\ Running(r) /\ \A f \in Fields \ {"db"} : r[f] = client[f]
    <3> HIDE DEF id
    <3> QED
      BY <1>2, <2>1, RemoveDoes
  <2> HIDE DEF r
  <2>3. r.db = db
    BY <1>2, <1>4, <2>2
  <2> QED
    BY <2>2, <2>3 DEF Fields
<1> HIDE DEF r, id
<1>8. n.db = r.db /\ n.told = ToldOf(client, id, FALSE) /\ n.woken = r.woken
  <2>1. PICK ok : ok = FALSE
    OBVIOUS
  <2>2. LET t == NotifyUser(r, id, ok)
        IN /\ \A f \in Fields \ {"callbacks", "told"} : t[f] = r[f]
           /\ t.told = ToldOf(r, id, ok)
    BY <1>5, NotifyDoes
  <2>3. (\A f \in Fields \ {"callbacks", "told"} : n[f] = r[f]) /\ n.told = ToldOf(r, id, FALSE)
    BY <2>1, <2>2
  <2> HIDE DEF n
  <2>4. n.db = r.db /\ n.woken = r.woken
    BY <2>3 DEF Fields
  <2> QED
    BY <1>5, <2>3, <2>4 DEF ToldOf, Called
<1> HIDE DEF n
<1>9. s.db = db /\ s.told \in {client.told, ToldOf(client, id, FALSE)} /\ s.woken = client.woken
  BY <1>5, <1>8
<1>6. /\ db \in [Users -> SUBSET Batches] /\ \A v \in Users : Distinct(db[v])
      /\ \A v \in Users : \A b \in db[v] : b.id < client.next
  BY <1>2, <1>4
<1>7. /\ ClientOK(client') /\ client'.in = <<>>
      /\ client'.db = db /\ client'.callbacks = {} /\ client'.waiters = {}
      /\ client'.told = s.told /\ client'.woken = s.woken
  <2> HIDE DEF db
  <2> QED
    BY <1>1, <1>2, <1>6, <1>9, LaunchKeeps
<1> QED
  BY <1>3, <1>7, <1>9 DEF DroppedStep, id

(* The app waits for the pending writes, under a number of its own.        *)
WaitStep ==
  \E number \in 1..MaxWaiters :
    /\ \A c \in client.waiters \cup client.woken : c.number < number
    /\ client'.user = client.user
    /\ \/ /\ client'.waiters = client.waiters
          /\ client'.woken = client.woken \cup {[number |-> number, ok |-> TRUE]}
       \/ /\ client'.woken = client.woken
          /\ \E c : /\ c.number = number /\ client'.waiters = client.waiters \cup {c}
                    /\ c.for = {b.write : b \in client.db[client.user]}
                    /\ \A b \in client.db[client.user] : b.id <= c.id

(* A wait begins, with the highest of the ids, or is over at once.         *)
LEMMA WaitKeeps ==
    ASSUME ClientOK(client), WaitForPendingWrites,
           \A c \in client.waiters \cup client.woken : c.number \in 1..MaxWaiters
    PROVE  KeepStep /\ WaitStep
<1> DEFINE e == client
           S == {0} \cup {c.number : c \in e.waiters \cup e.woken}
           number == 1 + Max(S)
           I == {-1} \cup Ids(e.db[e.user])
           last == Max(I)
           c == [number |-> number, id |-> last, for |-> {b.write : b \in e.db[e.user]}]
           t == IF last = -1
                THEN [e EXCEPT !.woken = e.woken \cup {[number |-> number, ok |-> TRUE]}]
                ELSE [e EXCEPT !.waiters = e.waiters \cup {c}]
<1>1. Running(e) /\ PipeOK(e) /\ NumbersOK(e)
  BY DEF ClientOK
<1>2. number <= MaxWaiters /\ client' = t /\ UNCHANGED <<server, written>>
  BY DEF WaitForPendingWrites, GetHighestUnacknowledgedBatchId
<1>3. MaxWaiters \in Nat
  BY PipelineAssumption
<1>4. Max(S) \in S /\ \A x \in S : x <= Max(S)
  <2>1. \A x \in S : x \in Nat /\ -1 <= x /\ x <= MaxWaiters
    BY <1>3
  <2>2. S \in SUBSET Int /\ S # {}
    BY <2>1
  <2> HIDE DEF S
  <2> QED
    BY <1>3, <2>1, <2>2, MaxOf
<1>5. /\ number \in 1..MaxWaiters
      /\ \A d \in e.waiters \cup e.woken : d.number < number
  <2>1. Max(S) \in Nat
    BY <1>3, <1>4
  <2>2. \A d \in e.waiters \cup e.woken : d.number \in Nat /\ d.number <= Max(S)
    BY <1>3, <1>4
  <2> HIDE DEF S
  <2>3. number \in 1..MaxWaiters
    BY <1>2, <1>3, <2>1
  <2>4. \A d \in e.waiters \cup e.woken : d.number < number
    BY <2>1, <2>2
  <2> QED
    BY <2>3, <2>4
<1>6. \A b \in e.db[e.user] : b.id <= last
  <2>1. \A b \in e.db[e.user] : b.id \in Nat /\ b.id < e.next /\ e.next \in Nat
    BY <1>1 DEF PipeOK, NumbersOK, Batches
  <2>2. e.next \in Nat
    BY <1>1 DEF NumbersOK
  <2>3. \A x \in I : x \in Int /\ -1 <= x /\ x <= e.next
    BY <2>1, <2>2 DEF Ids
  <2>4. I \in SUBSET Int /\ I # {}
    BY <2>3
  <2>5. \A b \in e.db[e.user] : b.id \in I
    BY DEF Ids
  <2> HIDE DEF I
  <2>6. \A x \in I : x <= last
    BY <2>2, <2>3, <2>4, MaxOf
  <2> QED
    BY <2>5, <2>6
<1> HIDE DEF last, number
<1>7. /\ Running(t) /\ \A f \in Fields \ {"waiters", "woken"} : t[f] = e[f]
      /\ \/ /\ t.waiters = e.waiters
            /\ t.woken = e.woken \cup {[number |-> number, ok |-> TRUE]}
         \/ t.woken = e.woken /\ t.waiters = e.waiters \cup {c}
  <2>1. CASE last = -1
    BY <1>1, <2>1 DEF Running, IsClient, Fields
  <2>2. CASE last # -1
    BY <1>1, <2>2 DEF Running, IsClient, Fields
  <2> QED
    BY <2>1, <2>2
<1>8. /\ c.number = number /\ c.id = last
      /\ c.for = {b.write : b \in e.db[e.user]}
  OBVIOUS
<1> HIDE DEF t, c
<1>9. ClientOK(t) /\ t.in = e.in
  <2>1. \A f \in Fields \ Bookkeeping : t[f] = e[f]
    BY <1>7 DEF Bookkeeping
  <2> QED
    BY <1>7, <2>1, SameClient
<1>10. t.user = e.user /\ t.db = e.db /\ t.told = e.told /\ t.callbacks = e.callbacks
  BY <1>7 DEF Fields
<1>11. KeepStep
  BY <1>2, <1>9, <1>10 DEF KeepStep
<1>12. WaitStep
  <2>1. CASE t.waiters = e.waiters /\ t.woken = e.woken \cup {[number |-> number, ok |-> TRUE]}
    BY <1>2, <1>5, <1>10, <2>1 DEF WaitStep
  <2>2. CASE t.woken = e.woken /\ t.waiters = e.waiters \cup {c}
    BY <1>2, <1>5, <1>6, <1>8, <1>10, <2>2 DEF WaitStep
  <2> QED
    BY <1>7, <2>1, <2>2
<1> QED
  BY <1>11, <1>12

(* The server answers: the request at the front goes, its answer comes.    *)
LEMMA AnswerKeeps ==
    ASSUME NEW s, ClientOK(s), s.out # <<>>, s.in # <<>> => Last(s.in).kind # "end",
           NEW answer \in AllAnswers,
           \/ Head(s.out).kind = "handshake" /\ answer = Handshake
           \/ Head(s.out).kind = "writes" /\ answer = [kind |-> "ack", batch |-> Head(s.out).batch]
           \/ \E status \in Statuses : answer = Refusal(status, Head(s.out))
    PROVE  LET t == [s EXCEPT !.out = Tail(@), !.in = Append(@, answer)]
           IN /\ ClientOK(t) /\ Still(s, t) /\ t.in = Append(s.in, answer)
              /\ Head(s.out).kind = "handshake" => Head(s.out) = Handshake
              /\ Head(s.out).kind # "handshake" =>
                   /\ Len(s.in) + 1 \in 1..Len(s.pipeline)
                   /\ s.handshake
                   /\ Head(s.out) = [kind |-> "writes", batch |-> s.pipeline[Len(s.in) + 1]]
                   /\ \A i \in 1..Len(s.in) : /\ s.in[i].kind = "ack"
                                              /\ s.in[i].batch = s.pipeline[i]
<1> DEFINE t == [s EXCEPT !.out = Tail(s.out), !.in = Append(s.in, answer)]
           p == s.pipeline
           a == s.in
           o == s.out
           n == Len(a)
           m == Head(o)
<1>1. /\ Running(s) /\ PipeOK(s) /\ StreamOK(s) /\ NumbersOK(s) /\ MessagesOK(s) /\ Joined(s)
      /\ p \in Seq(Batches)
  BY DEF ClientOK, PipeOK
<1>2. /\ Running(t) /\ t.out = Tail(o) /\ t.in = Append(a, answer)
      /\ \A f \in Fields \ {"in", "out"} : t[f] = s[f]
  BY <1>1 DEF Running, IsClient, Fields
<1> HIDE DEF t
<1>3. /\ t.user = s.user /\ t.db = s.db /\ t.pipeline = s.pipeline /\ t.next = s.next
      /\ t.closes = s.closes /\ t.backoff = s.backoff /\ t.state = s.state
      /\ t.handshake = s.handshake /\ t.idle = s.idle /\ t.call = s.call
      /\ t.requests = s.requests /\ t.network = s.network
      /\ \A f \in Outcome : t[f] = s[f]
  BY <1>2 DEF Fields, Outcome
<1>4. PipeOK(t) /\ NumbersOK(t) /\ StreamOK(t)
  BY <1>1, <1>3 DEF PipeOK, NumbersOK, StreamOK
<1>5. IsOpen(s)
  BY <1>1 DEF Joined, Silent
<1>6. Joined(t)
  BY <1>1, <1>3, <1>5 DEF Joined, IsOpen, IsStarted
<1>7. /\ a \in Seq(AllAnswers) /\ o \in Seq(AllRequests) /\ n \in Nat /\ o # <<>>
      /\ \A i \in 1..n : a[i].kind = "end" => i = n
      /\ \A i \in 1..n : a[i] \in AllAnswers
      /\ n # 0 => a[n].kind # "end"
  BY <1>1 DEF MessagesOK, Last
<1> HIDE DEF a, o, n
<1>8. \A i \in 1..n : a[i].kind # "end"
  BY <1>7
<1>9. /\ Append(a, answer) \in Seq(AllAnswers) /\ Len(Append(a, answer)) = n + 1
      /\ \A i \in 1..n : Append(a, answer)[i] = a[i]
      /\ Append(a, answer)[n + 1] = answer
  BY <1>7 DEF n
<1>10. /\ Tail(o) \in Seq(AllRequests) /\ Len(o) \in Nat \ {0} /\ Len(Tail(o)) = Len(o) - 1
       /\ \A i \in 1..(Len(o) - 1) : Tail(o)[i] = o[i + 1]
       /\ m = o[1] /\ m \in AllRequests
  BY <1>7
<1>11. ASSUME NEW i \in 1..Len(Append(a, answer)), Append(a, answer)[i].kind = "end"
       PROVE  i = Len(Append(a, answer))
  BY <1>7, <1>8, <1>9, <1>11
<1>12. CASE s.handshake
  <2>1. /\ Len(p) = n + Len(o) /\ \A i \in 1..n : Answers(a[i], p[i])
        /\ \A i \in 1..Len(o) : o[i] = [kind |-> "writes", batch |-> p[n + i]]
    BY <1>1, <1>12 DEF MessagesOK, Matched, a, o, n
  <2>2. m = [kind |-> "writes", batch |-> p[n + 1]] /\ n + 1 \in 1..Len(p)
    BY <1>7, <1>10, <2>1
  <2>3. Answers(answer, p[n + 1])
    <3>1. CASE Head(s.out).kind = "handshake" /\ answer = Handshake
      BY <2>2, <3>1 DEF m, o
    <3>2. CASE answer = [kind |-> "ack", batch |-> Head(s.out).batch]
      BY <2>2, <3>2 DEF m, o, Answers
    <3>3. ASSUME NEW status, answer = Refusal(status, Head(s.out))
          PROVE  Answers(answer, p[n + 1])
      <4>1. answer.kind = "end" /\ answer.of = m
        BY <3>3 DEF Refusal, m, o
      <4>2. WritesOf(m) = {p[n + 1].write}
        BY <2>2 DEF WritesOf
      <4> QED
        BY <4>1, <4>2 DEF Answers
    <3> QED
      BY <3>1, <3>2, <3>3
  <2>4. \A i \in 1..(n + 1) : Answers(Append(a, answer)[i], p[i])
    BY <1>7, <1>9, <2>1, <2>3
  <2>5. ASSUME NEW i \in 1..Len(Tail(o))
        PROVE  Tail(o)[i] = [kind |-> "writes", batch |-> p[(n + 1) + i]]
    <3>1. i + 1 \in 1..Len(o) /\ i \in 1..(Len(o) - 1) /\ n + (i + 1) = (n + 1) + i
      BY <1>7, <1>10
    <3> QED
      BY <1>10, <2>1, <3>1
  <2>6. Len(p) = (n + 1) + Len(Tail(o))
    BY <1>7, <1>10, <2>1
  <2>7. Matched(t)
    BY <1>2, <1>3, <1>9, <2>4, <2>5, <2>6 DEF Matched
  <2>8. MessagesOK(t)
    BY <1>2, <1>3, <1>9, <1>10, <1>11, <1>12, <2>7 DEF MessagesOK
  <2>9. ClientOK(t)
    BY <1>2, <1>4, <1>6, <2>8 DEF ClientOK
  <2>10. \A i \in 1..n : a[i].kind = "ack" /\ a[i].batch = p[i]
    BY <1>8, <2>1 DEF Answers
  <2> HIDE DEF m
  <2> QED
    BY <1>2, <1>3, <1>12, <2>2, <2>9, <2>10 DEF Still, t, m, a, o, n
<1>13. CASE ~s.handshake
  <2>1. o = <<Handshake>> /\ a = <<>>
    BY <1>1, <1>7, <1>13 DEF MessagesOK, Greeting, a, o
  <2>2. m = Handshake /\ Tail(o) = <<>> /\ m.kind = "handshake" /\ Append(a, answer) = <<answer>>
    BY <2>1 DEF Handshake
  <2>3. Greeting(t)
    <3>1. CASE answer = Handshake
      BY <1>2, <2>2, <3>1 DEF Greeting
    <3>2. CASE \E status \in Statuses : answer = Refusal(status, Head(s.out))
      BY <1>2, <2>2, <3>2 DEF Greeting, m, o
    <3>3. CASE Head(s.out).kind = "writes"
      BY <2>2, <3>3 DEF m, o
    <3> QED
      BY <3>1, <3>2, <3>3
  <2>4. MessagesOK(t)
    BY <1>2, <1>3, <1>9, <1>10, <1>11, <1>13, <2>3 DEF MessagesOK
  <2>5. ClientOK(t)
    BY <1>2, <1>4, <1>6, <2>4 DEF ClientOK
  <2> QED
    BY <1>2, <1>3, <2>2, <2>5 DEF Still, t, m, a, o
<1> QED
  BY <1>12, <1>13

-----------------------------------------------------------------------------
(* What is decided, and what the app is told, is about the front of the    *)
(* pipeline and true of it.                                                *)

Without(s, b) == [s.db EXCEPT ![s.user] = @ \ {b}]
FrontStep ==
  LET b == Head(client.pipeline)
  IN /\ ClientOK(client') /\ client.pipeline # <<>> /\ written' = written
     /\ server'.firsts = server.firsts /\ server'.refused = server.refused
     /\ server'.garbled \in {server.garbled, server.garbled \cup {b.write}}
     /\ IsServer(server) => IsServer(server')
     /\ client'.callbacks \subseteq client.callbacks \ Called(client, b.id)
     /\ client'.in = <<>> \/ (client.in # <<>> /\ client'.in = Tail(client.in))
     /\ \/ client'.db = client.db
        \/ /\ client'.db = Without(client, b)
           /\ b.write \in Elements(server.firsts) \cup server.refused
     /\ \/ client'.told = client.told
        \/ \E ok \in BOOLEAN :
             /\ Called(client, b.id) # {}
             /\ \A c \in Called(client, b.id) : c.write = b.write
             /\ client'.told = Append(client.told, [write |-> b.write, ok |-> ok])
             /\ ok = TRUE => b.write \in Elements(server.firsts)
             /\ ok = FALSE /\ AcksBeforeStatus
                  => b.write \in server.refused \cup server'.garbled

(* Those who wait for the front are woken once it is decided, or nobody    *)
(* waits any more.                                                         *)
WakesFront ==
  LET b == Head(client.pipeline)
  IN \/ /\ b.write \in Elements(server.firsts) \cup server.refused
        /\ client'.woken = WokenOf(client, b.id)
        /\ \/ client'.waiters = {}
           \/ /\ client'.user = client.user
              /\ client'.db = Without(client, b)
              /\ client'.waiters = {c \in client.waiters : c.id # b.id}
     \/ client'.waiters = {} /\ client'.woken = client.woken

(* The callback of a batch is that of its write.                           *)
LEMMA CalledIsFront ==
    ASSUME ClientOK(client), CallbacksOK, client.pipeline # <<>>, NEW ok
    PROVE  LET b == Head(client.pipeline)
           IN \/ Called(client, b.id) = {} /\ ToldOf(client, b.id, ok) = client.told
              \/ /\ Called(client, b.id) # {}
                 /\ ToldOf(client, b.id, ok) = Append(client.told, [write |-> b.write, ok |-> ok])
                 /\ \A c \in Called(client, b.id) : c.write = b.write
<1> DEFINE b == Head(client.pipeline)
           B == client.db[client.user]
<1>1. PipeOK(client) /\ Distinct(B) /\ client.user \in Users
  BY DEF ClientOK, PipeOK
<1>2. b \in B
  BY <1>1, PipelineHead
<1> HIDE DEF b
<1>3. ASSUME NEW c \in Called(client, b.id) PROVE c.write = b.write
  <2>1. c \in client.callbacks /\ c.user = client.user /\ c.id = b.id
    BY DEF Called
  <2>2. [id |-> c.id, write |-> c.write] \in B
    BY <2>1 DEF CallbacksOK
  <2>3. [id |-> c.id, write |-> c.write] = b
    BY <1>1, <1>2, <2>1, <2>2 DEF Distinct
  <2> QED
    BY <2>3
<1>4. CASE Called(client, b.id) = {}
  BY <1>4 DEF ToldOf, b
<1>5. CASE Called(client, b.id) # {}
  <2>1. (CHOOSE c \in Called(client, b.id) : TRUE) \in Called(client, b.id)
    BY <1>5
  <2>2. (CHOOSE c \in Called(client, b.id) : TRUE).write = b.write
    BY <1>3, <2>1
  <2> QED
    BY <1>3, <1>5, <2>2 DEF ToldOf, b
<1> QED
  BY <1>4, <1>5

(* What the first answer says is what the server has decided.              *)
LEMMA FirstAnswer ==
    ASSUME ClientOK(client), AnswersTrue, client.in # <<>>
    PROVE  LET m == Head(client.in)
           IN /\ m.kind = "ack" => m.batch.write \in Elements(server.firsts)
              /\ m.kind = "end" /\ m.status = "permanent" => WritesOf(m.of) \subseteq server.refused
<1>1. client.in \in Seq(AllAnswers)
  BY DEF ClientOK, MessagesOK
<1>2. Head(client.in) = client.in[1] /\ 1 \in 1..Len(client.in)
  BY <1>1
<1> QED
  BY <1>2 DEF AnswersTrue

(* A result is about the front, which the server has committed.            *)
LEMMA SuccessIsFront ==
    ASSUME ClientOK(client), CallbacksOK, AnswersTrue, SuccessStep
    PROVE  FrontStep /\ WakesFront
<1> DEFINE b == Head(client.pipeline)
<1>1. /\ Settles(client, client', TRUE) /\ ClientOK(client')
      /\ server' = server /\ written' = written
  BY DEF SuccessStep
<1>2. /\ client.pipeline # <<>> /\ client'.user = client.user
      /\ client'.db = Without(client, b)
      /\ client'.callbacks = client.callbacks \ Called(client, b.id)
      /\ client'.told = ToldOf(client, b.id, TRUE)
      /\ client'.waiters = {c \in client.waiters : c.id # b.id}
      /\ client'.woken = WokenOf(client, b.id)
  BY <1>1 DEF Settles, Without
<1>3. client.in # <<>> /\ client'.in = Tail(client.in)
  BY DEF SuccessStep
<1>4. b.write \in Elements(server.firsts)
  BY <1>3, FirstAnswer DEF SuccessStep
<1>5. \/ client'.told = client.told
      \/ /\ Called(client, b.id) # {} /\ \A c \in Called(client, b.id) : c.write = b.write
         /\ client'.told = Append(client.told, [write |-> b.write, ok |-> TRUE])
  BY <1>2, CalledIsFront
<1>20. FrontStep
  BY <1>1, <1>2, <1>3, <1>4, <1>5 DEF FrontStep
<1>21. WakesFront
  BY <1>1, <1>2, <1>3, <1>4, <1>5 DEF WakesFront
<1> QED
  BY <1>20, <1>21

(* So is what the app heard just before a crash.                           *)
LEMMA HeardIsFront ==
    ASSUME ClientOK(client), CallbacksOK, AnswersTrue, HeardStep
    PROVE  FrontStep /\ WakesFront
<1> DEFINE b == Head(client.pipeline)
<1>1. /\ client.pipeline # <<>> /\ client'.db = client.db /\ client'.callbacks = {}
      /\ client'.told = ToldOf(client, b.id, TRUE) /\ client'.in = <<>>
      /\ client'.waiters = {} /\ client'.woken \in {client.woken, WokenOf(client, b.id)}
      /\ ClientOK(client') /\ server' = server /\ written' = written
  BY DEF HeardStep
<1>2. b.write \in Elements(server.firsts)
  BY FirstAnswer DEF HeardStep
<1>3. \/ client'.told = client.told
      \/ /\ Called(client, b.id) # {} /\ \A c \in Called(client, b.id) : c.write = b.write
         /\ client'.told = Append(client.told, [write |-> b.write, ok |-> TRUE])
  BY <1>1, CalledIsFront
<1>20. FrontStep
  BY <1>1, <1>2, <1>3 DEF FrontStep
<1>21. WakesFront
  BY <1>1, <1>2, <1>3 DEF WakesFront
<1> QED
  BY <1>20, <1>21

(* What counts as refused is decided, and was refused, if every answer     *)
(* before the status was handled, or answered in a way nobody could read.  *)
Blamed(b) == /\ b.write \in Elements(server.firsts) \cup server.refused
             /\ AcksBeforeStatus => b.write \in server.refused \cup server'.garbled
             /\ server'.firsts = server.firsts /\ server'.refused = server.refused
             /\ server'.garbled \in {server.garbled, server.garbled \cup {b.write}}
             /\ IsServer(server')

LEMMA BlameIsTrue ==
    ASSUME ClientOK(client), HistoryOK, AnswersTrue, client.handshake, Blame
    PROVE  Blamed(Head(client.pipeline))
<1> DEFINE b == Head(client.pipeline)
           a == client.in
           n == Len(a)
<1>1. IsServer(server) /\ a # <<>>
  BY DEF HistoryOK, Blame
<1>2. CASE Head(a).kind = "ack" /\ Head(a).batch = b
             /\ server' = [server EXCEPT !.garbled = @ \cup {Head(a).batch.write}]
  <2>1. b.write \in Elements(server.firsts)
    BY <1>1, <1>2, FirstAnswer
  <2> HIDE DEF b
  <2>2. /\ server'.firsts = server.firsts /\ server'.refused = server.refused
        /\ server'.garbled = server.garbled \cup {b.write} /\ IsServer(server')
    BY <1>1, <1>2 DEF IsServer
  <2> QED
    BY <2>1, <2>2 DEF Blamed, b
<1>3. CASE /\ server' = server
           /\ Last(a).kind = "end" /\ Last(a).status = "permanent"
           /\ AcksBeforeStatus => n = 1
  <2>4. /\ a[n].kind = "end" /\ a[n].status = "permanent" /\ (AcksBeforeStatus => n = 1)
    BY <1>3 DEF Last
  <2>5. a \in Seq(AllAnswers) /\ MessagesOK(client) /\ client.pipeline \in Seq(Batches)
    BY DEF ClientOK, MessagesOK, PipeOK
  <2>6. Head(a) = a[1] /\ n \in Nat \ {0} /\ 1 \in 1..n
    BY <1>1, <2>5
  <2>7. Answers(a[1], b)
    BY <1>1, <2>5, <2>6, MatchedTail
  <2>8. n = 1 => b.write \in server.refused
    <3>1. CASE n = 1
      <4>1. WritesOf(a[1].of) = {b.write}
        BY <2>4, <2>7, <3>1 DEF Answers
      <4>2. WritesOf(a[1].of) \subseteq server.refused
        BY <2>4, <2>6, <3>1 DEF AnswersTrue
      <4> QED
        BY <4>1, <4>2
    <3> QED
      BY <3>1
  <2>9. n # 1 => b.write \in Elements(server.firsts)
    <3>1. CASE n # 1
      <4>1. a[1].kind # "end"
        BY <2>5, <2>6, <3>1 DEF MessagesOK
      <4>2. a[1].kind = "ack" /\ a[1].batch = b
        BY <2>7, <4>1 DEF Answers
      <4> QED
        BY <2>6, <4>2 DEF AnswersTrue
    <3> QED
      BY <3>1
  <2> QED
    BY <1>1, <1>3, <2>4, <2>8, <2>9 DEF Blamed
<1> QED
  BY <1>1, <1>2, <1>3 DEF Blame

(* So a refusal is about the front.                                        *)
LEMMA RefusalIsFront ==
    ASSUME ClientOK(client), HistoryOK, CallbacksOK, AnswersTrue, RefusalStep
    PROVE  FrontStep /\ WakesFront
<1> DEFINE b == Head(client.pipeline)
<1>1. /\ Settles(client, client', FALSE) /\ ClientOK(client')
      /\ client'.in = <<>> /\ client.handshake /\ Blame /\ written' = written
  BY DEF RefusalStep, Blame
<1>2. /\ client.pipeline # <<>> /\ client'.user = client.user
      /\ client'.db = Without(client, b)
      /\ client'.callbacks = client.callbacks \ Called(client, b.id)
      /\ client'.told = ToldOf(client, b.id, FALSE)
      /\ client'.waiters = {c \in client.waiters : c.id # b.id}
      /\ client'.woken = WokenOf(client, b.id)
  BY <1>1 DEF Settles, Without
<1>3. \/ client'.told = client.told
      \/ /\ Called(client, b.id) # {} /\ \A c \in Called(client, b.id) : c.write = b.write
         /\ client'.told = Append(client.told, [write |-> b.write, ok |-> FALSE])
  BY <1>2, CalledIsFront
<1>4. Blamed(b)
  BY <1>1, BlameIsTrue
<1> HIDE DEF b
<1>5. FrontStep
  BY <1>1, <1>2, <1>3, <1>4 DEF FrontStep, Blamed, b
<1>6. WakesFront
  BY <1>2, <1>4 DEF WakesFront, Blamed, b
<1> QED
  BY <1>5, <1>6

(* So is what was removed just before a crash.                             *)
LEMMA DroppedIsFront ==
    ASSUME ClientOK(client), HistoryOK, CallbacksOK, AnswersTrue, DroppedStep
    PROVE  FrontStep /\ WakesFront
<1> DEFINE b == Head(client.pipeline)
<1>1. /\ client.pipeline # <<>> /\ client'.callbacks = {} /\ client'.in = <<>>
      /\ client'.db = Without(client, b)
      /\ client'.told \in {client.told, ToldOf(client, b.id, FALSE)}
      /\ client'.waiters = {} /\ client'.woken = client.woken
      /\ client.handshake /\ Blame /\ ClientOK(client') /\ written' = written
  BY DEF DroppedStep, Without, Blame
<1>2. \/ client'.told = client.told
      \/ /\ Called(client, b.id) # {} /\ \A c \in Called(client, b.id) : c.write = b.write
         /\ client'.told = Append(client.told, [write |-> b.write, ok |-> FALSE])
  BY <1>1, CalledIsFront
<1>3. Blamed(b)
  BY <1>1, BlameIsTrue
<1> HIDE DEF b
<1>4. FrontStep
  BY <1>1, <1>2, <1>3 DEF FrontStep, Blamed, b
<1>5. WakesFront
  BY <1>1 DEF WakesFront
<1> QED
  BY <1>4, <1>5

-----------------------------------------------------------------------------
(* What the server does.                                                   *)

(* The set of a sequence's elements, in both notations.                    *)
LEMMA ToSetElements ==
    ASSUME NEW S, NEW s \in Seq(S)
    PROVE  ToSet(s) = Elements(s)
<1>1. DOMAIN s = 1..Len(s)
  OBVIOUS
<1> QED
  BY <1>1 DEF ToSet, Elements

(* The batches before one of the pipeline are in it too.                   *)
LEMMA BeforeInPipeline ==
    ASSUME NEW s, PipeOK(s), NEW i \in 1..Len(s.pipeline)
    PROVE  /\ s.pipeline[i] \in s.db[s.user] /\ s.pipeline[i] \in Batches
           /\ \A c \in s.db[s.user] : c.id < s.pipeline[i].id =>
                \E j \in 1..(i - 1) : s.pipeline[j] = c
<1> DEFINE p == s.pipeline
           B == s.db[s.user]
           q == ById(B)
<1>1. Distinct(B) /\ p \in Seq(Batches) /\ IsPrefix(p, q)
  BY DEF PipeOK
<1>2. /\ q \in Seq(Batches) /\ \A c \in B : \E j \in 1..Len(q) : q[j] = c
      /\ \A j, k \in 1..Len(q) : j < k => q[j].id < q[k].id
      /\ \A j \in 1..Len(q) : q[j] \in B
      /\ B \subseteq Batches
  BY <1>1, ByIdType DEF Distinct
<1> HIDE DEF p, q, B
<1>3. /\ Len(p) <= Len(q) /\ Len(p) \in Nat /\ Len(q) \in Nat
      /\ \A j \in 1..Len(p) : p[j] = q[j]
  BY <1>1, <1>2, PrefixElements
<1>4. i \in 1..Len(p)
  BY DEF p
<1>5. p[i] = q[i] /\ p[i] \in B /\ p[i] \in Batches
  BY <1>2, <1>3, <1>4
<1>6. ASSUME NEW c \in B, c.id < p[i].id PROVE \E j \in 1..(i - 1) : p[j] = c
  <2>1. PICK j \in 1..Len(q) : q[j] = c
    BY <1>2
  <2>2. j < i
    <3>1. SUFFICES ASSUME j >= i PROVE FALSE
      BY <1>4
    <3>2. j # i
      <4>1. c.id \in Nat
        BY <1>2 DEF Batches
      <4> QED
        BY <1>5, <1>6, <2>1, <4>1
    <3>3. i < j /\ i \in 1..Len(q)
      BY <1>3, <1>4, <3>1, <3>2
    <3>4. q[i].id < q[j].id
      BY <1>2, <3>3
    <3>5. q[i].id \in Nat /\ q[j].id \in Nat
      BY <1>2, <3>3 DEF Batches
    <3> QED
      BY <1>5, <1>6, <2>1, <3>4, <3>5
  <2>3. j \in 1..(i - 1) /\ j \in 1..Len(p)
    BY <1>3, <1>4, <2>2
  <2> QED
    BY <1>3, <2>1, <2>3
<1> QED
  BY <1>5, <1>6 DEF p, B

(* The server commits only the oldest of the user's writes it has not      *)
(* committed yet, and refuses only queued ones.                            *)
ServerStep ==
  /\ ClientOK(client') /\ Still(client, client') /\ written' = written
  /\ IsServer(server') /\ server'.garbled = server.garbled
  /\ \E answer \in AllAnswers :
       /\ client'.in = Append(client.in, answer)
       /\ answer.kind = "ack" => answer.batch.write \in Elements(server'.firsts)
       /\ answer.kind = "end" /\ answer.status = "permanent"
            => WritesOf(answer.of) \subseteq server'.refused
  /\ server.refused \subseteq server'.refused
  /\ server'.refused \subseteq server.refused \cup {b.write : b \in client.db[client.user]}
  /\ \/ server'.firsts = server.firsts
     \/ \E b \in client.db[client.user] :
          /\ b.write \notin Elements(server.firsts)
          /\ server'.firsts = Append(server.firsts, b.write)
          /\ \A c \in client.db[client.user] :
               c.id < b.id => c.write \in Elements(server.firsts)

(* An answer tells of the batch that is next in the pipeline.              *)
LEMMA AnswersServe ==
    ASSUME ClientOK(client), HistoryOK, AnswersTrue, ServerAnswers
    PROVE  ServerStep
<1> DEFINE e == client
           m == Head(e.out)
           n == Len(e.in)
           answer == IF m.kind = "handshake" THEN Handshake
                     ELSE [kind |-> "ack", batch |-> m.batch]
           new == WritesOf(m) \ ToSet(server.firsts)
           t == [e EXCEPT !.out = Tail(@), !.in = Append(@, answer)]
           B == e.db[e.user]
<1>1. /\ e.out # <<>> /\ (e.in # <<>> => Last(e.in).kind # "end")
      /\ client' = t
      /\ server' = IF new = {} THEN server
                   ELSE [server EXCEPT !.firsts = Append(server.firsts, m.batch.write)]
      /\ written' = written
  BY DEF ServerAnswers, Serving, Ended
<1>2. e.out \in Seq(AllRequests) /\ PipeOK(e)
  BY DEF ClientOK, MessagesOK
<1>3. m \in AllRequests
  BY <1>1, <1>2
<1>4. m.kind = "handshake" \/ (m.kind = "writes" /\ m.batch \in Batches)
  BY <1>3 DEF AllRequests
<1>5. answer \in AllAnswers
  BY <1>4 DEF AllAnswers, Handshake
<1>6. \/ m.kind = "handshake" /\ answer = Handshake
      \/ m.kind = "writes" /\ answer = [kind |-> "ack", batch |-> m.batch]
  BY <1>4
<1> HIDE DEF answer
<1>7. /\ ClientOK(t) /\ Still(e, t) /\ t.in = Append(e.in, answer)
      /\ m.kind = "handshake" => m = Handshake
      /\ m.kind # "handshake" =>
           /\ n + 1 \in 1..Len(e.pipeline) /\ e.handshake
           /\ m = [kind |-> "writes", batch |-> e.pipeline[n + 1]]
           /\ \A i \in 1..n : e.in[i].kind = "ack" /\ e.in[i].batch = e.pipeline[i]
  BY <1>1, <1>5, <1>6, AnswerKeeps
<1> HIDE DEF t
<1>8. IsServer(server)
      /\ ToSet(server.firsts) = Elements(server.firsts)
      /\ server.firsts \in Seq(Writes)
  BY ToSetElements DEF HistoryOK
<1>9. CASE m.kind = "handshake"
  <2>1. new = {}
    BY <1>9 DEF WritesOf
  <2>2. server' = server
    BY <1>1, <2>1
  <2>3. answer.kind = "handshake"
    BY <1>6, <1>9 DEF Handshake
  <2> QED
    BY <1>1, <1>5, <1>7, <1>8, <2>2, <2>3 DEF ServerStep
<1>10. CASE m.kind # "handshake"
  <2> DEFINE b == e.pipeline[n + 1]
  <2>1. n + 1 \in 1..Len(e.pipeline) /\ m.batch = b /\ WritesOf(m) = {b.write}
    BY <1>7, <1>10 DEF WritesOf
  <2>2. n \in Nat
    BY DEF ClientOK, MessagesOK
  <2>3. /\ b \in B /\ b \in Batches
        /\ \A c \in B : c.id < b.id => \E j \in 1..((n + 1) - 1) : e.pipeline[j] = c
    BY <1>2, <2>1, BeforeInPipeline
  <2>4. ASSUME NEW c \in B, c.id < b.id PROVE c.write \in Elements(server.firsts)
    <3>1. PICK j \in 1..n : e.pipeline[j] = c
      BY <2>2, <2>3, <2>4
    <3>2. e.in[j].kind = "ack" /\ e.in[j].batch = c
      BY <1>7, <1>10, <3>1
    <3> QED
      BY <3>2 DEF AnswersTrue
  <2>5. answer.kind = "ack" /\ answer.batch = b
    BY <1>4, <1>6, <1>10, <2>1
  <2> HIDE DEF b
  <2>6. CASE b.write \in Elements(server.firsts)
    <3>1. server' = server
      BY <1>1, <1>8, <2>1, <2>6
    <3> QED
      BY <1>1, <1>5, <1>7, <1>8, <2>5, <2>6, <3>1 DEF ServerStep
  <2>7. CASE b.write \notin Elements(server.firsts)
    <3>1. server' = [server EXCEPT !.firsts = Append(server.firsts, b.write)]
      BY <1>1, <1>8, <2>1, <2>7
    <3>2. /\ server'.firsts = Append(server.firsts, b.write)
          /\ server'.refused = server.refused /\ server'.garbled = server.garbled
          /\ IsServer(server')
      BY <1>8, <3>1 DEF IsServer
    <3>3. b.write \in Elements(server'.firsts)
      <4>1. b.write \in Writes
        BY <2>3 DEF Batches
      <4> QED
        BY <1>8, <3>2, <4>1, ElementsAppend
    <3> QED
      BY <1>1, <1>5, <1>7, <2>3, <2>4, <2>5, <2>7, <3>2, <3>3 DEF ServerStep
  <2> QED
    BY <2>6, <2>7
<1> QED
  BY <1>9, <1>10

(* A refusal is of a batch in the pipeline, or of the handshake.           *)
LEMMA RefusesServe ==
    ASSUME ClientOK(client), HistoryOK, ServerRefuses
    PROVE  ServerStep
<1> DEFINE e == client
           m == Head(e.out)
           n == Len(e.in)
<1>1. PICK status \in Statuses :
        /\ client' = [e EXCEPT !.out = Tail(@),
                        !.in = Append(@, [kind |-> "end", status |-> status, of |-> m])]
        /\ server' = IF status = "permanent"
                     THEN [server EXCEPT !.refused = @ \cup WritesOf(m)]
                     ELSE server
  BY DEF ServerRefuses
<1>2. e.out # <<>> /\ (e.in # <<>> => Last(e.in).kind # "end") /\ written' = written
  BY DEF ServerRefuses, Serving, Ended
<1>3. e.out \in Seq(AllRequests) /\ PipeOK(e)
  BY DEF ClientOK, MessagesOK
<1>4. m \in AllRequests
  BY <1>2, <1>3
<1> DEFINE answer == Refusal(status, m)
           t == [e EXCEPT !.out = Tail(@), !.in = Append(@, answer)]
<1>5. /\ answer \in AllAnswers /\ answer.kind = "end" /\ answer.status = status
      /\ answer.of = m /\ client' = t
  BY <1>1, <1>4 DEF Refusal, AllAnswers
<1>6. \E st \in Statuses : answer = Refusal(st, m)
  OBVIOUS
<1> HIDE DEF answer
<1>7. /\ ClientOK(t) /\ Still(e, t) /\ t.in = Append(e.in, answer)
      /\ m.kind = "handshake" => m = Handshake
      /\ m.kind # "handshake" =>
           /\ n + 1 \in 1..Len(e.pipeline)
           /\ m = [kind |-> "writes", batch |-> e.pipeline[n + 1]]
  BY <1>2, <1>5, <1>6, AnswerKeeps
<1> HIDE DEF t
<1>8. WritesOf(m) \subseteq {b.write : b \in e.db[e.user]}
  <2>1. CASE m.kind = "handshake"
    BY <2>1 DEF WritesOf
  <2>2. CASE m.kind # "handshake"
    <3>1. n + 1 \in 1..Len(e.pipeline) /\ WritesOf(m) = {e.pipeline[n + 1].write}
      BY <1>7, <2>2 DEF WritesOf
    <3>2. e.pipeline[n + 1] \in e.db[e.user]
      BY <1>3, <3>1, BeforeInPipeline
    <3> QED
      BY <3>1, <3>2
  <2> QED
    BY <2>1, <2>2
<1>9. IsServer(server)
  BY DEF HistoryOK
<1>10. /\ server'.firsts = server.firsts
       /\ server'.refused = IF status = "permanent" THEN server.refused \cup WritesOf(m)
                            ELSE server.refused
       /\ server'.garbled = server.garbled /\ IsServer(server')
  BY <1>1, <1>9 DEF IsServer
<1> QED
  BY <1>2, <1>5, <1>7, <1>8, <1>10 DEF ServerStep

-----------------------------------------------------------------------------
(* The outcomes are kept by each kind of step.                             *)

(* A sequence read in the notations of the invariants, and one longer.     *)
LEMMA Reading ==
    ASSUME NEW S, NEW s \in Seq(S)
    PROVE  /\ DOMAIN s = 1..Len(s) /\ Len(s) \in Nat /\ ToSet(s) = Elements(s)
           /\ \A i \in 1..Len(s) : s[i] \in S /\ s[i] \in Elements(s)
           /\ \A x \in S : /\ Append(s, x) \in Seq(S) /\ Len(Append(s, x)) = Len(s) + 1
                           /\ \A i \in 1..Len(s) : Append(s, x)[i] = s[i]
                           /\ Append(s, x)[Len(s) + 1] = x
                           /\ Elements(Append(s, x)) = Elements(s) \cup {x}
<1>1. DOMAIN s = 1..Len(s) /\ Len(s) \in Nat /\ \A i \in 1..Len(s) : s[i] \in S
  OBVIOUS
<1>2. ToSet(s) = Elements(s)
  BY ToSetElements
<1>3. ASSUME NEW x \in S
      PROVE  /\ Append(s, x) \in Seq(S) /\ Len(Append(s, x)) = Len(s) + 1
             /\ \A i \in 1..Len(s) : Append(s, x)[i] = s[i]
             /\ Append(s, x)[Len(s) + 1] = x
             /\ Elements(Append(s, x)) = Elements(s) \cup {x}
  <2>1. Elements(Append(s, x)) = Elements(s) \cup {x}
    BY ElementsAppend
  <2> QED
    BY <1>1, <2>1
<1> QED
  BY <1>1, <1>2, <1>3 DEF Elements

Outcomes == /\ HistoryOK /\ QueueOK /\ AnswersTrue /\ NoneOvertaken /\ CallbacksOK
            /\ NoWriteLost /\ CommittedInOrder /\ ToldOnceInOrder
            /\ SuccessIsTrue /\ FailureIsTrue

(* Nothing is decided or made.                                             *)
LEMMA KeepOutcomes ==
    ASSUME Outcomes, KeepStep
    PROVE  Outcomes'
<1>1. /\ client'.db = client.db /\ client'.told = client.told
      /\ client'.callbacks \subseteq client.callbacks
      /\ client'.in = client.in \/ client'.in = <<>>
      /\ server' = server /\ written' = written
  BY DEF KeepStep
<1>2. HistoryOK' /\ QueueOK'
  BY <1>1 DEF Outcomes, HistoryOK, QueueOK
<1>3. AnswersTrue'
  BY <1>1 DEF Outcomes, AnswersTrue
<1>4. NoneOvertaken' /\ CallbacksOK'
  BY <1>1 DEF Outcomes, NoneOvertaken, CallbacksOK
<1>5. NoWriteLost' /\ CommittedInOrder' /\ ToldOnceInOrder' /\ SuccessIsTrue' /\ FailureIsTrue'
  BY <1>1 DEF Outcomes, NoWriteLost, CommittedInOrder, ToldOnceInOrder, SuccessIsTrue,
              FailureIsTrue
<1> QED
  BY <1>2, <1>3, <1>4, <1>5 DEF Outcomes

(* A write is made.                                                        *)
AddStep == /\ ClientOK(client') /\ Adds(client, client', Len(written) + 1)
           /\ client'.in = client.in /\ Len(written) + 1 <= MaxWrites
           /\ written' = Append(written, client.user) /\ UNCHANGED server

(* The new write is the last of its user, and nothing is known of it.      *)
LEMMA AddOutcomes ==
    ASSUME ClientOK(client), Outcomes, AddStep
    PROVE  Outcomes'
<1> DEFINE n == Len(written)
           w == n + 1
           u == client.user
           b == [id |-> client.next, write |-> w]
           c == [user |-> u, id |-> client.next, write |-> w]
           db == [client.db EXCEPT ![u] = @ \cup {b}]
<1>1. /\ client'.db = db /\ client'.callbacks \subseteq client.callbacks \cup {c}
      /\ client'.told = client.told /\ client'.in = client.in
      /\ written' = Append(written, u) /\ server' = server /\ w <= MaxWrites
  BY DEF AddStep, Adds
<1>2. /\ u \in Users /\ client.db \in [Users -> SUBSET Batches] /\ client.next \in Nat
      /\ \A v \in Users : \A x \in client.db[v] : x.id < client.next
  BY DEF ClientOK, PipeOK, NumbersOK
<1>3. /\ HistoryOK /\ QueueOK /\ AnswersTrue /\ NoneOvertaken /\ CallbacksOK
      /\ NoWriteLost /\ CommittedInOrder /\ ToldOnceInOrder /\ SuccessIsTrue /\ FailureIsTrue
  BY DEF Outcomes
<1>4. /\ written \in Seq(Users) /\ n \in Nat /\ DOMAIN written = 1..n
      /\ written' \in Seq(Users) /\ Len(written') = w /\ DOMAIN written' = 1..w
      /\ \A i \in 1..n : written'[i] = written[i]
      /\ written'[w] = u
  <2>1. written \in Seq(Users)
    BY <1>3 DEF HistoryOK
  <2>2. /\ n \in Nat /\ DOMAIN written = 1..n
        /\ written' \in Seq(Users) /\ Len(written') = w
        /\ \A i \in 1..n : written'[i] = written[i]
        /\ written'[w] = u
    BY <1>1, <1>2, <2>1, Reading
  <2>3. DOMAIN written' = 1..w
    BY <2>2
  <2> QED
    BY <2>1, <2>2, <2>3
<1>5. /\ DOMAIN server.firsts = 1..Len(server.firsts)
      /\ \A i \in 1..Len(server.firsts) : server.firsts[i] \in 1..n
  <2>1. server.firsts \in Seq(Writes)
    BY <1>3 DEF HistoryOK
  <2>2. /\ DOMAIN server.firsts = 1..Len(server.firsts)
        /\ \A i \in 1..Len(server.firsts) : server.firsts[i] \in Writes
    BY <2>1
  <2> QED
    BY <2>2, <1>3, <1>4 DEF HistoryOK, Writes
<1>6. /\ DOMAIN client.told = 1..Len(client.told)
      /\ \A i \in 1..Len(client.told) : client.told[i].write \in 1..n
  <2>1. client.told \in Seq([write : Writes, ok : BOOLEAN])
    BY <1>3 DEF HistoryOK
  <2>2. /\ DOMAIN client.told = 1..Len(client.told)
        /\ \A i \in 1..Len(client.told) : client.told[i] \in [write : Writes, ok : BOOLEAN]
    BY <2>1, Reading
  <2>3. \A i \in 1..Len(client.told) : client.told[i].write \in Writes
    BY <2>2
  <2> QED
    BY <2>2, <2>3, <1>3, <1>4 DEF HistoryOK, Writes
<1>7. \A v \in Users : \A x \in client.db[v] : x.write \in 1..n /\ x.id \in Nat
  BY <1>2, <1>3, <1>4 DEF QueueOK, Batches, Writes
<1>8. b.id = client.next /\ b.write = w /\ c.user = u /\ c.id = client.next /\ c.write = w
  OBVIOUS
<1>9. \A v \in Users : db[v] = IF v = u THEN client.db[u] \cup {b} ELSE client.db[v]
  BY <1>2
<1>10. [id |-> c.id, write |-> c.write] = b
  OBVIOUS
<1> HIDE DEF b, c, db, w
<1>11. w \in Nat /\ \A i \in 1..n : i < w /\ i # w /\ i \in Nat
  BY <1>4 DEF w
<1>12. HistoryOK'
  <2>1. /\ IsServer(server) /\ server.firsts \in Seq(Writes)
        /\ server.refused \subseteq Writes /\ server.garbled \subseteq Writes
        /\ client.told \in Seq([write : Writes, ok : BOOLEAN])
    BY <1>3 DEF HistoryOK
  <2>2. /\ \A i \in 1..Len(server.firsts) : server.firsts[i] <= w
        /\ \A i \in 1..Len(client.told) : client.told[i].write <= w
    BY <1>5, <1>6, <1>11
  <2> QED
    BY <1>1, <1>4, <2>1, <2>2 DEF HistoryOK
<1>13. QueueOK'
  <2> SUFFICES ASSUME NEW v \in Users
               PROVE  /\ \A x \in db[v] : x.write <= w /\ written'[x.write] = v
                      /\ \A x, y \in db[v] : x.id < y.id => x.write < y.write
    BY <1>1, <1>4 DEF QueueOK
  <2>1. \A x \in client.db[v] : x.write < w /\ written'[x.write] = v /\ x.id < client.next
    BY <1>2, <1>3, <1>4, <1>7, <1>11 DEF QueueOK
  <2>2. \A x, y \in client.db[v] : x.id < y.id => x.write < y.write
    BY <1>3 DEF QueueOK
  <2>3. \A x \in client.db[v] : x.id \in Nat /\ x.write \in Nat /\ ~(client.next < x.id)
    BY <1>2, <1>7
  <2>4. CASE v = u
    BY <1>2, <1>4, <1>8, <1>9, <1>11, <2>1, <2>2, <2>3, <2>4
  <2>5. CASE v # u
    BY <1>9, <1>11, <2>1, <2>2, <2>3, <2>5
  <2> QED
    BY <2>4, <2>5
<1>14. AnswersTrue'
  BY <1>1, <1>3 DEF AnswersTrue
<1>15. NoneOvertaken'
  <2>1. ASSUME NEW v \in Users, NEW x \in db[v], NEW i \in 1..Len(server.firsts),
               written'[server.firsts[i]] = v, x.write < server.firsts[i]
        PROVE  x.write \in Elements(server.firsts)
    <3>1. written[server.firsts[i]] = v /\ server.firsts[i] \in 1..n
      BY <1>4, <1>5, <2>1
    <3>2. x # b
      BY <1>8, <1>11, <2>1, <3>1
    <3>3. x \in client.db[v]
      BY <1>9, <3>2
    <3> QED
      BY <1>3, <2>1, <3>1, <3>3 DEF NoneOvertaken
  <2>2. ASSUME NEW d \in client'.callbacks, NEW i \in 1..Len(client.told),
               written'[client.told[i].write] = d.user
        PROVE  client.told[i].write < d.write
    <3>1. client.told[i].write \in 1..n /\ written[client.told[i].write] = d.user
      BY <1>4, <1>6, <2>2
    <3>2. CASE d \in client.callbacks
      BY <1>3, <3>1, <3>2 DEF NoneOvertaken
    <3>3. CASE d = c
      BY <1>8, <1>11, <3>1, <3>3
    <3> QED
      BY <1>1, <3>2, <3>3
  <2> QED
    BY <1>1, <2>1, <2>2 DEF NoneOvertaken
<1>16. CallbacksOK'
  <2> SUFFICES ASSUME NEW d \in client'.callbacks
               PROVE  d.user \in Users /\ [id |-> d.id, write |-> d.write] \in db[d.user]
    BY <1>1 DEF CallbacksOK
  <2>1. CASE d \in client.callbacks
    BY <1>3, <1>9, <2>1 DEF CallbacksOK
  <2>2. CASE d = c
    BY <1>2, <1>8, <1>9, <1>10, <2>2
  <2> QED
    BY <1>1, <2>1, <2>2
<1>17. NoWriteLost'
  <2> SUFFICES ASSUME NEW x \in 1..w
               PROVE  \/ x \in {d.write : d \in db[written'[x]]}
                      \/ x \in ToSet(server.firsts) \cup server.refused
    BY <1>1, <1>4 DEF NoWriteLost
  <2>1. CASE x \in 1..n
    <3>1. written'[x] = written[x] /\ written[x] \in Users
      BY <1>4, <2>1
    <3>2. client.db[written[x]] \subseteq db[written[x]]
      BY <1>9, <3>1
    <3> QED
      BY <1>3, <1>4, <2>1, <3>1, <3>2 DEF NoWriteLost
  <2>2. CASE x = w
    BY <1>2, <1>4, <1>8, <1>9, <2>2
  <2> QED
    BY <1>4, <2>1, <2>2 DEF w
<1>18. CommittedInOrder' /\ ToldOnceInOrder'
  <2>1. \A i \in DOMAIN server.firsts : written'[server.firsts[i]] = written[server.firsts[i]]
    BY <1>4, <1>5
  <2>2. \A i \in DOMAIN client.told :
          written'[client.told[i].write] = written[client.told[i].write]
    BY <1>4, <1>6
  <2>3. CommittedInOrder'
    <3> SUFFICES ASSUME NEW i \in DOMAIN server.firsts, NEW j \in DOMAIN server.firsts,
                        i < j, written'[server.firsts[i]] = written'[server.firsts[j]]
                 PROVE  server.firsts[i] < server.firsts[j]
      BY <1>1 DEF CommittedInOrder
    <3>1. written[server.firsts[i]] = written[server.firsts[j]]
      BY <2>1
    <3> QED
      BY <1>3, <3>1 DEF CommittedInOrder
  <2>4. ToldOnceInOrder'
    BY <1>1, <1>3, <2>2 DEF ToldOnceInOrder
  <2> QED
    BY <2>3, <2>4
<1>19. SuccessIsTrue' /\ FailureIsTrue'
  BY <1>1, <1>3 DEF SuccessIsTrue, FailureIsTrue
<1> QED
  BY <1>12, <1>13, <1>14, <1>15, <1>16, <1>17, <1>18, <1>19 DEF Outcomes

(* The front of the pipeline is decided, or the app is told of it.         *)
LEMMA FrontOutcomes ==
    ASSUME ClientOK(client), Outcomes, FrontStep
    PROVE  Outcomes'
<1> DEFINE u == client.user
           b == Head(client.pipeline)
           B == client.db[u]
           told == client.told
           T == [write : Writes, ok : BOOLEAN]
<1>1. /\ HistoryOK /\ QueueOK /\ AnswersTrue /\ NoneOvertaken /\ CallbacksOK
      /\ NoWriteLost /\ CommittedInOrder /\ ToldOnceInOrder /\ SuccessIsTrue /\ FailureIsTrue
  BY DEF Outcomes
<1>2. /\ PipeOK(client) /\ u \in Users /\ client.db \in [Users -> SUBSET Batches]
      /\ \A v \in Users : Distinct(client.db[v]) /\ client.pipeline # <<>>
      /\ client.in \in Seq(AllAnswers)
  BY DEF ClientOK, PipeOK, FrontStep, MessagesOK
<1>3. b \in B /\ b \in Batches /\ \A c \in B \ {b} : b.id < c.id
  BY <1>2, PipelineHead
<1>4. /\ client'.callbacks \subseteq client.callbacks \ Called(client, b.id)
      /\ client'.in = <<>> \/ (client.in # <<>> /\ client'.in = Tail(client.in))
      /\ \/ client'.db = client.db
         \/ /\ client'.db = Without(client, b)
            /\ b.write \in Elements(server.firsts) \cup server.refused
      /\ \/ client'.told = told
         \/ \E ok \in BOOLEAN :
              /\ Called(client, b.id) # {}
              /\ \A c \in Called(client, b.id) : c.write = b.write
              /\ client'.told = Append(told, [write |-> b.write, ok |-> ok])
              /\ ok = TRUE => b.write \in Elements(server.firsts)
              /\ ok = FALSE /\ AcksBeforeStatus
                   => b.write \in server.refused \cup server'.garbled
      /\ server'.firsts = server.firsts /\ server'.refused = server.refused
      /\ server'.garbled \in {server.garbled, server.garbled \cup {b.write}}
      /\ IsServer(server') /\ written' = written
  BY <1>1 DEF FrontStep, HistoryOK
<1> HIDE DEF b
<1>5. \A v \in Users : /\ client'.db[v] \subseteq client.db[v]
                       /\ \A x \in client.db[v] : x \in client'.db[v] \/ (v = u /\ x = b)
  BY <1>2, <1>4 DEF Without
<1>6. b.write \in Writes /\ b.write <= Len(written) /\ written[b.write] = u
  BY <1>1, <1>2, <1>3 DEF QueueOK, Batches
<1>7. told \in Seq(T)
  BY <1>1 DEF HistoryOK
<1>8. /\ DOMAIN told = 1..Len(told) /\ Len(told) \in Nat
      /\ \A i \in 1..Len(told) : told[i] \in T
  BY <1>7, Reading
<1>9. ToSet(server.firsts) = Elements(server.firsts)
  BY <1>1, ToSetElements DEF HistoryOK
<1> HIDE DEF told, T
<1>10. \/ client'.told = told
       \/ /\ Called(client, b.id) # {}
          /\ \A c \in Called(client, b.id) : c.write = b.write
          /\ client'.told \in Seq(T) /\ Len(client'.told) = Len(told) + 1
          /\ DOMAIN client'.told = 1..(Len(told) + 1)
          /\ \A i \in 1..Len(told) : client'.told[i] = told[i]
          /\ client'.told[Len(told) + 1].write = b.write
          /\ client'.told[Len(told) + 1].ok = TRUE => b.write \in Elements(server.firsts)
          /\ client'.told[Len(told) + 1].ok = FALSE /\ AcksBeforeStatus
               => b.write \in server.refused \cup server'.garbled
          /\ client'.told[Len(told) + 1].ok \in BOOLEAN
  <2>1. CASE client'.told = told
    BY <2>1
  <2>2. CASE client'.told # told
    <3>1. PICK ok \in BOOLEAN :
              /\ Called(client, b.id) # {}
              /\ \A c \in Called(client, b.id) : c.write = b.write
              /\ client'.told = Append(told, [write |-> b.write, ok |-> ok])
              /\ ok = TRUE => b.write \in Elements(server.firsts)
              /\ ok = FALSE /\ AcksBeforeStatus
                   => b.write \in server.refused \cup server'.garbled
      BY <1>4, <2>2
    <3> DEFINE r == [write |-> b.write, ok |-> ok]
    <3>2. r \in T /\ r.write = b.write /\ r.ok = ok
      BY <1>6 DEF T
    <3> HIDE DEF r
    <3>3. /\ client'.told \in Seq(T) /\ Len(client'.told) = Len(told) + 1
          /\ \A i \in 1..Len(told) : client'.told[i] = told[i]
          /\ client'.told[Len(told) + 1] = r
      <4>1. client'.told = Append(told, r)
        BY <3>1 DEF r
      <4> QED
        BY <1>7, <3>2, <4>1, Reading
    <3>4. DOMAIN client'.told = 1..(Len(told) + 1)
      BY <3>3
    <3> QED
      BY <3>1, <3>2, <3>3, <3>4
  <2> QED
    BY <2>1, <2>2
<1>11. \A i \in DOMAIN client'.told :
         \/ i \in 1..Len(told) /\ client'.told[i] = told[i]
         \/ /\ client'.told # told /\ i = Len(told) + 1
            /\ client'.told[i].write = b.write
  BY <1>8, <1>10
<1>12. HistoryOK'
  <2>1. client'.told \in Seq(T)
    BY <1>7, <1>10
  <2>2. ASSUME NEW i \in 1..Len(client'.told) PROVE client'.told[i].write <= Len(written)
    <3>1. i \in DOMAIN client'.told
      BY <2>1
    <3>2. CASE i \in 1..Len(told) /\ client'.told[i] = told[i]
      BY <1>1, <3>2 DEF HistoryOK, told
    <3> QED
      BY <1>6, <1>11, <3>1, <3>2
  <2>3. server'.garbled \subseteq Writes
    BY <1>1, <1>4, <1>6 DEF HistoryOK
  <2> QED
    BY <1>1, <1>4, <2>1, <2>2, <2>3 DEF HistoryOK, T
<1>13. QueueOK'
  BY <1>1, <1>4, <1>5 DEF QueueOK
<1>14. AnswersTrue'
  <2>1. CASE client'.in = <<>>
    BY <2>1 DEF AnswersTrue
  <2>2. CASE client.in # <<>> /\ client'.in = Tail(client.in)
    <3>1. \A i \in 1..Len(client'.in) : /\ client'.in[i] = client.in[i + 1]
                                        /\ i + 1 \in 1..Len(client.in)
      BY <1>2, <2>2
    <3> QED
      BY <1>1, <1>4, <3>1 DEF AnswersTrue
  <2> QED
    BY <1>4, <2>1, <2>2
(* Another callback of this user is that of a later write.                 *)
<1>15. ASSUME NEW c \in client'.callbacks
       PROVE  /\ c.user \in Users /\ [id |-> c.id, write |-> c.write] \in client'.db[c.user]
              /\ c.user = u => b.write < c.write
  <2> DEFINE x == [id |-> c.id, write |-> c.write]
  <2>1. c \in client.callbacks /\ ~(c.user = u /\ c.id = b.id)
    BY <1>4 DEF Called
  <2>2. c.user \in Users /\ x \in client.db[c.user]
    BY <1>1, <2>1 DEF CallbacksOK
  <2>3. x.id = c.id /\ x.write = c.write
    OBVIOUS
  <2> HIDE DEF x
  <2>4. c.user = u => x # b
    BY <2>1, <2>3
  <2>5. c.user = u => b.write < c.write
    BY <1>1, <1>2, <1>3, <2>2, <2>3, <2>4 DEF QueueOK
  <2> QED
    BY <1>5, <2>2, <2>4, <2>5 DEF x
<1>16. CallbacksOK'
  BY <1>15 DEF CallbacksOK
<1>17. NoneOvertaken'
  <2>1. ASSUME NEW c \in client'.callbacks, NEW i \in 1..Len(client'.told),
               written[client'.told[i].write] = c.user
        PROVE  client'.told[i].write < c.write
    <3>1. i \in DOMAIN client'.told
      <4>1. client'.told \in Seq(T)
        BY <1>7, <1>10
      <4> QED
        BY <4>1
    <3>2. CASE i \in 1..Len(told) /\ client'.told[i] = told[i]
      BY <1>1, <1>4, <2>1, <3>2 DEF NoneOvertaken, told
    <3>3. CASE client'.told[i].write = b.write
      BY <1>6, <1>15, <2>1, <3>3
    <3> QED
      BY <1>11, <3>1, <3>2, <3>3
  <2>2. ASSUME NEW v \in Users, NEW x \in client'.db[v], NEW i \in 1..Len(server.firsts),
               written[server.firsts[i]] = v, x.write < server.firsts[i]
        PROVE  x.write \in Elements(server.firsts)
    BY <1>1, <1>5, <2>2 DEF NoneOvertaken
  <2> QED
    BY <1>4, <2>1, <2>2 DEF NoneOvertaken
<1>18. NoWriteLost'
  <2> SUFFICES ASSUME NEW w \in DOMAIN written
               PROVE  \/ w \in {x.write : x \in client'.db[written[w]]}
                      \/ w \in ToSet(server.firsts) \cup server.refused
    BY <1>4 DEF NoWriteLost
  <2>1. CASE w \in ToSet(server.firsts) \cup server.refused
    BY <2>1
  <2>2. CASE w \notin ToSet(server.firsts) \cup server.refused
    <3>1. PICK x \in client.db[written[w]] : w = x.write
      BY <1>1, <2>2 DEF NoWriteLost
    <3>2. written[w] \in Users
      BY <1>1 DEF HistoryOK
    <3>3. CASE x \in client'.db[written[w]]
      BY <3>1, <3>3
    <3>4. CASE x = b /\ x \notin client'.db[written[w]]
      <4>1. client'.db # client.db
        BY <3>1, <3>4
      <4> QED
        BY <1>4, <1>9, <2>2, <3>1, <3>4, <4>1
    <3> QED
      BY <1>5, <3>1, <3>2, <3>3, <3>4
  <2> QED
    BY <2>1, <2>2
<1>19. CommittedInOrder'
  BY <1>1, <1>4 DEF CommittedInOrder
<1>20. ToldOnceInOrder'
  <2> SUFFICES ASSUME NEW i \in DOMAIN client'.told, NEW j \in DOMAIN client'.told, i < j,
                      written[client'.told[i].write] = written[client'.told[j].write]
               PROVE  client'.told[i].write < client'.told[j].write
    BY <1>4 DEF ToldOnceInOrder
  <2>1. CASE client'.told = told
    BY <1>1, <2>1 DEF ToldOnceInOrder, told
  <2>2. CASE client'.told # told
    <3>1. i \in 1..Len(told) /\ client'.told[i] = told[i]
      BY <1>8, <1>10, <2>2
    <3>2. CASE j \in 1..Len(told)
      <4>1. client'.told[j] = told[j]
        BY <1>10, <2>2, <3>2
      <4> QED
        BY <1>1, <1>8, <3>1, <3>2, <4>1 DEF ToldOnceInOrder, told
    <3>3. CASE j \notin 1..Len(told)
      <4>1. client'.told[j].write = b.write
        BY <1>11, <3>3
      <4>2. PICK c \in Called(client, b.id) : c.write = b.write
        BY <1>10, <2>2
      <4>3. c \in client.callbacks /\ c.user = u
        BY DEF Called
      <4>4. written[told[i].write] = c.user
        BY <1>6, <3>1, <4>1, <4>3
      <4>5. told[i].write < c.write
        BY <1>1, <3>1, <4>3, <4>4 DEF NoneOvertaken, told
      <4> QED
        BY <3>1, <4>1, <4>2, <4>5
    <3> QED
      BY <3>2, <3>3
  <2> QED
    BY <2>1, <2>2
<1>21. SuccessIsTrue'
  <2> SUFFICES ASSUME NEW i \in DOMAIN client'.told, client'.told[i].ok
               PROVE  client'.told[i].write \in Elements(server.firsts)
    BY <1>4, <1>9 DEF SuccessIsTrue
  <2>1. CASE i \in 1..Len(told) /\ client'.told[i] = told[i]
    BY <1>1, <1>8, <1>9, <2>1 DEF SuccessIsTrue, told
  <2>2. CASE client'.told # told /\ i = Len(told) + 1
    <3>1. client'.told[i].ok = TRUE
      BY <1>10, <2>2
    <3> QED
      BY <1>10, <2>2, <3>1
  <2> QED
    BY <1>11, <2>1, <2>2
<1>22. FailureIsTrue'
  <2> SUFFICES ASSUME AcksBeforeStatus, NEW i \in DOMAIN client'.told, ~client'.told[i].ok
               PROVE  client'.told[i].write \in server.refused \cup server'.garbled
    BY <1>4 DEF FailureIsTrue
  <2>1. CASE i \in 1..Len(told) /\ client'.told[i] = told[i]
    BY <1>1, <1>4, <1>8, <2>1 DEF FailureIsTrue, told
  <2>2. CASE client'.told # told /\ i = Len(told) + 1
    <3>1. client'.told[i].ok = FALSE
      BY <1>10, <2>2
    <3> QED
      BY <1>10, <2>2, <3>1
  <2> QED
    BY <1>11, <2>1, <2>2
<1> QED
  BY <1>12, <1>13, <1>14, <1>16, <1>17, <1>18, <1>19, <1>20, <1>21, <1>22 DEF Outcomes

(* The server decides: it commits a write that is next for its user.       *)
LEMMA ServerOutcomes ==
    ASSUME ClientOK(client), Outcomes, ServerStep
    PROVE  Outcomes'
<1> DEFINE u == client.user
           B == client.db[u]
           F == server.firsts
           G == server'.firsts
<1>1. /\ HistoryOK /\ QueueOK /\ AnswersTrue /\ NoneOvertaken /\ CallbacksOK
      /\ NoWriteLost /\ CommittedInOrder /\ ToldOnceInOrder /\ SuccessIsTrue /\ FailureIsTrue
  BY DEF Outcomes
<1>2. /\ client'.db = client.db /\ client'.user = u /\ client'.told = client.told
      /\ client'.callbacks = client.callbacks /\ written' = written
      /\ server.refused \subseteq server'.refused
      /\ server'.refused \subseteq server.refused \cup {b.write : b \in B}
      /\ IsServer(server') /\ server'.garbled = server.garbled
  BY DEF ServerStep, Still, Outcome
<1>3. /\ u \in Users /\ \A v \in Users : Distinct(client.db[v]) /\ client.in \in Seq(AllAnswers)
      /\ \A b \in B : /\ b \in Batches /\ b.write \in Writes /\ b.id \in Nat
                      /\ b.write <= Len(written) /\ written[b.write] = u
  BY <1>1 DEF ClientOK, PipeOK, MessagesOK, QueueOK, Batches, Distinct
<1>4. F \in Seq(Writes) /\ server.refused \subseteq Writes
  BY <1>1 DEF HistoryOK
<1>5. /\ DOMAIN F = 1..Len(F) /\ Len(F) \in Nat /\ ToSet(F) = Elements(F)
      /\ \A i \in 1..Len(F) : F[i] \in Writes /\ F[i] \in Elements(F)
  BY <1>4, Reading
<1> HIDE DEF F, G
<1>6. \/ G = F
      \/ \E b \in B :
           /\ b.write \notin Elements(F) /\ G = Append(F, b.write)
           /\ \A c \in B : c.id < b.id => c.write \in Elements(F)
  BY DEF ServerStep, F, G
<1>7. \/ G = F
      \/ \E b \in B :
           /\ b.write \notin Elements(F)
           /\ \A c \in B : c.id < b.id => c.write \in Elements(F)
           /\ G \in Seq(Writes) /\ Len(G) = Len(F) + 1
           /\ \A i \in 1..Len(F) : G[i] = F[i]
           /\ G[Len(F) + 1] = b.write
           /\ Elements(G) = Elements(F) \cup {b.write}
  <2>1. CASE G = F
    BY <2>1
  <2>2. ASSUME NEW b \in B, G = Append(F, b.write)
        PROVE  /\ G \in Seq(Writes) /\ Len(G) = Len(F) + 1
               /\ \A i \in 1..Len(F) : G[i] = F[i]
               /\ G[Len(F) + 1] = b.write
               /\ Elements(G) = Elements(F) \cup {b.write}
    <3>1. b.write \in Writes
      BY <1>3
    <3> QED
      BY <1>4, <2>2, <3>1, Reading
  <2> QED
    BY <1>6, <2>1, <2>2
<1>8. G \in Seq(Writes) /\ Elements(F) \subseteq Elements(G) /\ server'.refused \subseteq Writes
  BY <1>2, <1>3, <1>4, <1>7
<1>9. DOMAIN G = 1..Len(G) /\ ToSet(G) = Elements(G) /\ Len(G) \in Nat
  BY <1>8, Reading
<1>10. ASSUME NEW i \in 1..Len(G)
       PROVE  \/ i \in 1..Len(F) /\ G[i] = F[i]
              \/ /\ i = Len(F) + 1 /\ Len(G) = Len(F) + 1 /\ G # F
                 /\ \E b \in B : /\ G[i] = b.write /\ b.write \notin Elements(F)
                                 /\ \A c \in B : c.id < b.id => c.write \in Elements(F)
  <2>1. CASE G = F
    BY <2>1
  <2>2. CASE G # F
    <3>1. PICK b \in B :
           /\ b.write \notin Elements(F)
           /\ \A c \in B : c.id < b.id => c.write \in Elements(F)
           /\ Len(G) = Len(F) + 1
           /\ \A j \in 1..Len(F) : G[j] = F[j]
           /\ G[Len(F) + 1] = b.write
      BY <1>7, <2>2
    <3>2. i \in 1..Len(F) \/ i = Len(F) + 1
      BY <1>5, <3>1
    <3> QED
      BY <2>2, <3>1, <3>2
  <2> QED
    BY <2>1, <2>2
<1>11. HistoryOK'
  <2>1. \A i \in 1..Len(G) : G[i] <= Len(written)
    <3>1. \A i \in 1..Len(F) : F[i] <= Len(written)
      BY <1>1 DEF HistoryOK, F
    <3> QED
      BY <1>3, <1>10, <3>1
  <2> QED
    BY <1>1, <1>2, <1>8, <2>1 DEF HistoryOK, G
<1>12. QueueOK' /\ CallbacksOK' /\ ToldOnceInOrder'
  BY <1>1, <1>2 DEF QueueOK, CallbacksOK, ToldOnceInOrder
<1>13. AnswersTrue'
  <2> DEFINE a == client.in
  <2>1. PICK answer \in AllAnswers :
       /\ client'.in = Append(a, answer)
       /\ answer.kind = "ack" => answer.batch.write \in Elements(G)
       /\ answer.kind = "end" /\ answer.status = "permanent"
            => WritesOf(answer.of) \subseteq server'.refused
    BY DEF ServerStep, G
  <2>2. \A i \in 1..Len(a) :
          /\ a[i].kind = "ack" => a[i].batch.write \in Elements(F)
          /\ a[i].kind = "end" /\ a[i].status = "permanent"
               => WritesOf(a[i].of) \subseteq server.refused
    BY <1>1 DEF AnswersTrue, F
  <2> HIDE DEF a
  <2>3. /\ Len(client'.in) = Len(a) + 1 /\ Len(a) \in Nat
        /\ \A i \in 1..Len(a) : client'.in[i] = a[i]
        /\ client'.in[Len(a) + 1] = answer
    BY <1>3, <2>1, Reading DEF a
  <2> SUFFICES ASSUME NEW i \in 1..Len(client'.in)
               PROVE  /\ client'.in[i].kind = "ack" => client'.in[i].batch.write \in Elements(G)
                      /\ client'.in[i].kind = "end" /\ client'.in[i].status = "permanent"
                           => WritesOf(client'.in[i].of) \subseteq server'.refused
    BY DEF AnswersTrue, G
  <2>4. CASE i \in 1..Len(a)
    <3>1. client'.in[i] = a[i]
      BY <2>3, <2>4
    <3>2. /\ a[i].kind = "ack" => a[i].batch.write \in Elements(F)
          /\ a[i].kind = "end" /\ a[i].status = "permanent"
               => WritesOf(a[i].of) \subseteq server.refused
      BY <2>2, <2>4
    <3> QED
      BY <1>2, <1>8, <3>1, <3>2
  <2>5. CASE i = Len(a) + 1
    BY <2>1, <2>3, <2>5
  <2> QED
    BY <2>3, <2>4, <2>5
<1>14. NoneOvertaken'
  <2>1. ASSUME NEW v \in Users, NEW x \in client.db[v], NEW i \in 1..Len(G),
               written[G[i]] = v, x.write < G[i]
        PROVE  x.write \in Elements(G)
    <3>1. CASE i \in 1..Len(F) /\ G[i] = F[i]
      <4>1. x.write \in Elements(F)
        BY <1>1, <2>1, <3>1 DEF NoneOvertaken, F
      <4> QED
        BY <1>8, <4>1
    <3>2. ASSUME NEW b \in B, G[i] = b.write, \A c \in B : c.id < b.id => c.write \in Elements(F)
          PROVE  x.write \in Elements(G)
      <4>1. v = u
        BY <1>3, <2>1, <3>2
      <4>2. x \in B /\ x.id \in Nat /\ b.id \in Nat /\ x.write \in Nat /\ b.write \in Nat
        BY <1>3, <2>1, <4>1 DEF Writes
      <4>3. b.id < x.id => b.write < x.write
        BY <1>1, <1>3, <4>2 DEF QueueOK
      <4>4. x.id = b.id => x = b
        BY <1>3, <4>2 DEF Distinct
      <4>5. x.id < b.id
        BY <2>1, <3>2, <4>2, <4>3, <4>4
      <4> QED
        BY <1>8, <3>2, <4>2, <4>5
    <3> QED
      BY <1>10, <3>1, <3>2
  <2>2. \A c \in client.callbacks : \A i \in 1..Len(client.told) :
          written[client.told[i].write] = c.user => client.told[i].write < c.write
    BY <1>1 DEF NoneOvertaken
  <2> QED
    BY <1>2, <2>1, <2>2 DEF NoneOvertaken, G
<1>15. CommittedInOrder'
  <2> SUFFICES ASSUME NEW i \in 1..Len(G), NEW j \in 1..Len(G), i < j,
                      written[G[i]] = written[G[j]]
               PROVE  G[i] < G[j]
    BY <1>2, <1>9 DEF CommittedInOrder, G
  <2>1. i \in 1..Len(F) /\ G[i] = F[i]
    <3>1. ~(i = Len(F) + 1 /\ Len(G) = Len(F) + 1)
      <4>1. Len(F) \in Nat /\ Len(G) \in Nat
        BY <1>5, <1>9
      <4>2. j <= Len(G) /\ i < j /\ i \in Int /\ j \in Int
        BY <4>1
      <4> QED
        BY <4>1, <4>2
    <3> QED
      BY <1>10, <3>1
  <2>2. CASE j \in 1..Len(F) /\ G[j] = F[j]
    BY <1>1, <1>5, <2>1, <2>2 DEF CommittedInOrder, F
  <2>3. ASSUME NEW b \in B, G[j] = b.write, b.write \notin Elements(F) PROVE G[i] < G[j]
    <3>1. written[F[i]] = u
      BY <1>3, <2>1, <2>3
    <3>2. b.write < F[i] => b.write \in Elements(F)
      BY <1>1, <1>3, <2>1, <3>1 DEF NoneOvertaken, F
    <3>3. F[i] # b.write
      BY <1>5, <2>1, <2>3
    <3>4. F[i] \in Nat /\ b.write \in Nat
      BY <1>3, <1>5, <2>1 DEF Writes
    <3> QED
      BY <2>1, <2>3, <3>2, <3>3, <3>4
  <2> QED
    BY <1>10, <2>2, <2>3
<1>16. NoWriteLost' /\ SuccessIsTrue' /\ FailureIsTrue'
  <2>1. ToSet(F) \subseteq ToSet(G)
    BY <1>5, <1>8, <1>9
  <2>2. NoWriteLost'
    BY <1>1, <1>2, <2>1 DEF NoWriteLost, F, G
  <2>3. SuccessIsTrue' /\ FailureIsTrue'
    BY <1>1, <1>2, <2>1 DEF SuccessIsTrue, FailureIsTrue, F, G
  <2> QED
    BY <2>2, <2>3
<1> QED
  BY <1>11, <1>12, <1>13, <1>14, <1>15, <1>16 DEF Outcomes

-----------------------------------------------------------------------------
(* Who waits, by each kind of step.                                        *)

(* Nobody is added to those who wait, or the one who waits now is.         *)
LEMMA WaitsWaiters ==
    ASSUME WaitersOK, Waits, UNCHANGED written
    PROVE  WaitersOK'
<1>1. CASE /\ client'.user = client.user /\ client'.db = client.db
           /\ client'.waiters = client.waiters /\ client'.woken = client.woken
  BY <1>1 DEF WaitersOK
<1>2. CASE /\ client'.waiters = {}
           /\ client'.woken \subseteq client.woken \cup
                {[number |-> c.number, ok |-> FALSE] : c \in client.waiters}
  BY <1>2 DEF WaitersOK
<1> QED
  BY <1>1, <1>2 DEF Waits

(* The one who starts to wait has a number that nobody has.                *)
LEMMA WaitWaiters ==
    ASSUME ClientOK(client), HistoryOK, QueueOK, WaitersOK, KeepStep, WaitStep
    PROVE  WaitersOK'
<1>1. PICK number \in 1..MaxWaiters :
    /\ \A c \in client.waiters \cup client.woken : c.number < number
    /\ client'.user = client.user
    /\ \/ /\ client'.waiters = client.waiters
          /\ client'.woken = client.woken \cup {[number |-> number, ok |-> TRUE]}
       \/ /\ client'.woken = client.woken
          /\ \E c : /\ c.number = number /\ client'.waiters = client.waiters \cup {c}
                    /\ c.for = {b.write : b \in client.db[client.user]}
                    /\ \A b \in client.db[client.user] : b.id <= c.id
  BY DEF WaitStep
<1>2. client'.db = client.db /\ written' = written
  BY DEF KeepStep
<1>3. \A c \in client.waiters \cup client.woken : c.number # number
  BY <1>1 DEF WaitersOK
<1>4. CASE /\ client'.waiters = client.waiters
           /\ client'.woken = client.woken \cup {[number |-> number, ok |-> TRUE]}
  BY <1>1, <1>2, <1>3, <1>4 DEF WaitersOK
<1>5. CASE client'.woken = client.woken /\ client'.waiters # client.waiters
  <2>1. PICK c : /\ c.number = number /\ client'.waiters = client.waiters \cup {c}
                 /\ c.for = {b.write : b \in client.db[client.user]}
                 /\ \A b \in client.db[client.user] : b.id <= c.id
    BY <1>1, <1>4, <1>5
  <2>2. c.for \subseteq 1..Len(written) /\ \A w \in c.for : written[w] = client.user
    <3>1. \A b \in client.db[client.user] :
            b.write \in Writes /\ b.write <= Len(written) /\ written[b.write] = client.user
      BY DEF QueueOK, ClientOK, PipeOK, Batches
    <3>2. written \in Seq(Users)
      BY DEF HistoryOK
    <3> QED
      BY <2>1, <3>1, <3>2 DEF Writes
  <2> QED
    BY <1>1, <1>2, <1>3, <1>5, <2>1, <2>2 DEF WaitersOK
<1> QED
  BY <1>1, <1>4, <1>5 DEF WaitersOK

(* A new write is one that nobody waits for.                               *)
LEMMA AddWaiters ==
    ASSUME ClientOK(client), HistoryOK, WaitersOK, AddStep
    PROVE  WaitersOK'
<1> DEFINE n == Len(written)
<1>1. /\ client'.user = client.user /\ client'.waiters = client.waiters
      /\ client'.woken = client.woken
      /\ client'.db = [client.db EXCEPT ![client.user] =
                         @ \cup {[id |-> client.next, write |-> n + 1]}]
      /\ written' = Append(written, client.user)
  BY DEF AddStep, Adds
<1>2. client.user \in Users /\ client.db \in [Users -> SUBSET Batches]
  BY DEF ClientOK, PipeOK
<1>3. n \in Nat /\ Len(written') = n + 1 /\ \A w \in 1..n : written'[w] = written[w]
  <2>1. written \in Seq(Users)
    BY DEF HistoryOK
  <2> QED
    BY <1>1, <1>2, <2>1, Reading
<1>4. \A b \in client'.db[client.user] : b \in client.db[client.user] \/ b.write = n + 1
  BY <1>1, <1>2
<1> HIDE DEF n
<1>5. ASSUME NEW c \in client.waiters
      PROVE  /\ c.number \in 1..MaxWaiters
             /\ \A b \in client'.db[client.user] : b.write \in c.for => b.id <= c.id
             /\ c.for \subseteq 1..(n + 1)
             /\ \A w \in c.for : written'[w] = client.user
  <2>1. /\ c.for \subseteq 1..n /\ c.number \in 1..MaxWaiters
        /\ \A w \in c.for : written[w] = client.user
    BY DEF WaitersOK, n
  <2>2. /\ c.for \subseteq 1..(n + 1) /\ n + 1 \notin c.for
        /\ \A w \in c.for : written'[w] = client.user
    BY <1>3, <2>1
  <2>3. \A b \in client.db[client.user] : b.write \in c.for => b.id <= c.id
    BY DEF WaitersOK
  <2> QED
    BY <1>4, <2>1, <2>2, <2>3 DEF WaitersOK
<1> QED
  BY <1>1, <1>3, <1>5 DEF WaitersOK

(* Who waited for the front and for what was before it is woken.           *)
LEMMA FrontWaiters ==
    ASSUME ClientOK(client), WaitersOK, FrontStep, WakesFront
    PROVE  WaitersOK'
<1> DEFINE b == Head(client.pipeline)
           W == client.waiters
<1>1. written' = written
  BY DEF FrontStep
<1>2. CASE client'.waiters = {} /\ client'.woken = client.woken
  BY <1>2 DEF WaitersOK
<1>4. CASE client'.waiters = {} /\ client'.woken = WokenOf(client, b.id)
  <2> HIDE DEF b
  <2>1. \A d \in client'.woken : d \in client.woken \/ \E c \in W : d.number = c.number
    BY <1>4 DEF WokenOf
  <2> QED
    BY <1>4, <2>1 DEF WaitersOK
<1>3. CASE /\ client'.user = client.user
           /\ client'.db = Without(client, b)
           /\ client'.waiters = {c \in W : c.id # b.id}
           /\ client'.woken = WokenOf(client, b.id)
  <2>1. client'.db[client.user] \subseteq client.db[client.user]
    BY <1>3 DEF Without, ClientOK, PipeOK
  <2> HIDE DEF b
  <2>2. \A d \in client'.woken : d \in client.woken \/ \E c \in W : c.id = b.id /\ d.number = c.number
    BY <1>3 DEF WokenOf
  <2>3. client'.waiters \subseteq W /\ \A c \in client'.waiters : c.id # b.id
    BY <1>3
  <2>4. \A d \in client'.woken : d.number \in 1..MaxWaiters
    BY <2>2 DEF WaitersOK
  <2>5. \A c \in client'.waiters : \A d \in client'.woken : c.number # d.number
    BY <2>2, <2>3 DEF WaitersOK
  <2> QED
    BY <1>1, <1>3, <2>1, <2>3, <2>4, <2>5 DEF WaitersOK
<1> QED
  BY <1>2, <1>3, <1>4 DEF WakesFront

(* The server wakes nobody.                                                *)
LEMMA ServerWaiters ==
    ASSUME WaitersOK, ServerStep
    PROVE  WaitersOK'
BY DEF WaitersOK, ServerStep, Still, Outcome

-----------------------------------------------------------------------------
(* Every step is of one of these kinds.                                    *)

Effect == \/ KeepStep /\ (Waits \/ WaitStep)
          \/ AddStep
          \/ FrontStep /\ WakesFront
          \/ ServerStep

(* Each handler, crash and move of the server, by its kind.                *)
LEMMA StepHasEffect ==
    ASSUME IInv, Next
    PROVE  Effect
<1>1. /\ ClientOK(client) /\ HistoryOK /\ QueueOK /\ AnswersTrue /\ CallbacksOK /\ WaitersOK
      /\ Len(written) \in Nat
  <2>1. written \in Seq(Users)
    BY DEF IInv, HistoryOK
  <2> QED
    BY <2>1 DEF IInv
<1>2. CASE WriteDocument
  BY <1>1, <1>2, WriteKeeps DEF Effect, AddStep, WriteDocument
<1>3. CASE WaitForPendingWrites
  <2>1. \A c \in client.waiters \cup client.woken : c.number \in 1..MaxWaiters
    BY <1>1 DEF WaitersOK
  <2> QED
    BY <1>1, <1>3, <2>1, WaitKeeps DEF Effect
<1>4. CASE CredentialChange \/ Crash
  BY <1>1, <1>4, ChangeKeeps, CrashKeeps DEF Effect
<1>5. CASE \/ NetworkOff \/ NetworkOn \/ IdleTimer \/ HealthTimer \/ BackoffTimer
           \/ CredentialsArrive \/ CredentialsFail \/ ConnectionLost \/ HandshakeAnswer
  <2>1. StillStep
    BY <1>1, <1>5, NetworkStill, TimersStill, TokenStill, TokenFailsStill, LostStill,
       HandshakeStill
  <2> QED
    BY <2>1, StillKeeps DEF Effect
<1>6. CASE MutationResult
  BY <1>1, <1>6, ResultSettles, SuccessIsFront DEF Effect
<1>7. CASE StreamFinish \/ AnswerUnreadable
  BY <1>1, <1>7, FinishSettles, UnreadableSettles, StillKeeps, RefusalIsFront DEF Effect
<1>8. CASE CrashInResult
  BY <1>1, <1>8, CrashHears, HeardIsFront DEF Effect
<1>9. CASE CrashInReject
  BY <1>1, <1>9, CrashDrops, DroppedIsFront DEF Effect
<1>10. CASE ServerAnswers
  BY <1>1, <1>10, AnswersServe DEF Effect
<1>11. CASE ServerRefuses
  BY <1>1, <1>11, RefusesServe DEF Effect
<1> QED
  BY <1>2, <1>3, <1>4, <1>5, <1>6, <1>7, <1>8, <1>9, <1>10, <1>11 DEF Next

(* Disruptions are counted, and never more than the bound.                 *)
LEMMA SpentKeeps ==
    ASSUME spent \in 0..MaxDisruptions, Next
    PROVE  spent' \in 0..MaxDisruptions
<1>1. MaxDisruptions \in Nat
  BY PipelineAssumption
<1>2. CASE spent' = spent
  BY <1>2
<1>3. CASE Disrupt
  BY <1>1, <1>3 DEF Disrupt
<1>4. spent' = spent \/ Disrupt
  BY DEF Next, WriteDocument, WaitForPendingWrites, CredentialChange, NetworkOff, NetworkOn,
         CredentialsArrive, CredentialsFail, IdleTimer, HealthTimer, BackoffTimer,
         HandshakeAnswer, MutationResult, AnswerUnreadable, StreamFinish, ConnectionLost, Crash,
         CrashInResult, CrashInReject, ServerAnswers, ServerRefuses
<1> QED
  BY <1>2, <1>3, <1>4

-----------------------------------------------------------------------------
(* The invariant of the pipeline, the stream, the app and the server.      *)

(* An app that has made no writes, and a server that has seen none.        *)
LEMMA InitInvariant ==
    ASSUME Init
    PROVE  IInv
<1> DEFINE db == [x \in Users |-> {}]
           history == [told |-> <<>>, woken |-> {}]
<1>1. PICK u \in Users : client = Launch(db, u, history)
  BY DEF Init
<1>2. /\ server = [firsts |-> <<>>, refused |-> {}, garbled |-> {}]
      /\ written = <<>> /\ spent = 0
      /\ server.firsts = <<>> /\ server.refused = {} /\ server.garbled = {}
  BY DEF Init
<1>3. /\ db \in [Users -> SUBSET Batches] /\ \A v \in Users : Distinct(db[v]) /\ db[v] = {}
      /\ \A v \in Users : \A b \in db[v] : b.id < 0
  BY FS_EmptySet DEF Distinct
<1>4. history.told = <<>> /\ history.woken = {} /\ 0 \in Nat
  OBVIOUS
<1> HIDE DEF db, history
<1>5. /\ ClientOK(client) /\ client.in = <<>> /\ client.db = db /\ client.callbacks = {}
      /\ client.waiters = {} /\ client.told = <<>> /\ client.woken = {}
  BY <1>1, <1>3, <1>4, LaunchKeeps
<1>6. HistoryOK
  <2>1. {MaxWrites} \subseteq Nat
    BY PipelineAssumption
  <2>2. MaxWrites \in Nat
    BY <2>1
  <2> QED
    BY <1>2, <1>5, <2>2 DEF HistoryOK, IsServer
<1>7. QueueOK /\ NoneOvertaken
  BY <1>2, <1>3, <1>5 DEF QueueOK, NoneOvertaken
<1>8. AnswersTrue /\ CallbacksOK /\ WaitersOK
  BY <1>5 DEF AnswersTrue, CallbacksOK, WaitersOK
<1>9. NoWriteLost /\ CommittedInOrder
  BY <1>2 DEF NoWriteLost, CommittedInOrder
<1>10. ToldOnceInOrder /\ SuccessIsTrue /\ FailureIsTrue
  BY <1>5 DEF ToldOnceInOrder, SuccessIsTrue, FailureIsTrue
<1>11. spent \in 0..MaxDisruptions
  <2>1. MaxDisruptions \in Nat
    BY PipelineAssumption
  <2> QED
    BY <1>2, <2>1
<1> QED
  BY <1>5, <1>6, <1>7, <1>8, <1>9, <1>10, <1>11 DEF IInv

(* Each kind of step keeps it.                                             *)
LEMMA EffectInvariant ==
    ASSUME IInv, Effect, spent' \in 0..MaxDisruptions
    PROVE  IInv'
<1>1. ClientOK(client) /\ Outcomes /\ WaitersOK /\ HistoryOK /\ QueueOK
  BY DEF IInv, Outcomes
<1>2. CASE KeepStep /\ (Waits \/ WaitStep)
  <2>1. Outcomes' /\ ClientOK(client')
    BY <1>1, <1>2, KeepOutcomes DEF KeepStep
  <2>2. WaitersOK'
    BY <1>1, <1>2, WaitsWaiters, WaitWaiters DEF KeepStep
  <2> QED
    BY <2>1, <2>2 DEF IInv, Outcomes
<1>3. CASE AddStep
  <2>1. Outcomes' /\ ClientOK(client')
    BY <1>1, <1>3, AddOutcomes DEF AddStep
  <2>2. WaitersOK'
    BY <1>1, <1>3, AddWaiters
  <2> QED
    BY <2>1, <2>2 DEF IInv, Outcomes
<1>4. CASE FrontStep /\ WakesFront
  <2>1. Outcomes' /\ ClientOK(client')
    BY <1>1, <1>4, FrontOutcomes DEF FrontStep
  <2>2. WaitersOK'
    BY <1>1, <1>4, FrontWaiters
  <2> QED
    BY <2>1, <2>2 DEF IInv, Outcomes
<1>5. CASE ServerStep
  <2>1. Outcomes' /\ ClientOK(client')
    BY <1>1, <1>5, ServerOutcomes DEF ServerStep
  <2>2. WaitersOK'
    BY <1>1, <1>5, ServerWaiters
  <2> QED
    BY <2>1, <2>2 DEF IInv, Outcomes
<1> QED
  BY <1>2, <1>3, <1>4, <1>5 DEF Effect

(* A step of the specification is one of these, also when nothing happens. *)
LEMMA StepEffect ==
    ASSUME IInv, [Next]_vars
    PROVE  Effect /\ spent' \in 0..MaxDisruptions
<1>1. CASE Next
  <2>1. spent \in 0..MaxDisruptions
    BY DEF IInv
  <2> QED
    BY <1>1, <2>1, StepHasEffect, SpentKeeps
<1>2. CASE UNCHANGED vars
  <2>1. client' = client /\ server' = server /\ written' = written /\ spent' = spent
    BY <1>2 DEF vars
  <2>2. KeepStep /\ Waits
    BY <2>1 DEF KeepStep, Waits, IInv
  <2> QED
    BY <2>1, <2>2 DEF Effect, IInv
<1> QED
  BY <1>1, <1>2

(* So it is an invariant.                                                  *)
THEOREM PipelineInvariant == Spec => []IInv
<1>1. Init => IInv
  BY InitInvariant
<1>2. IInv /\ [Next]_vars => IInv'
  BY StepEffect, EffectInvariant
<1> QED
  BY <1>1, <1>2, PTL DEF Spec

(* The types, and the correlation of the answers, are part of it.          *)
LEMMA InvariantInStep ==
    ASSUME IInv
    PROVE  PipelineInStep
<1>1. /\ ClientOK(client) /\ HistoryOK /\ spent \in 0..MaxDisruptions
  BY DEF IInv
<1>2. /\ Running(client) /\ PipeOK(client) /\ StreamOK(client) /\ MessagesOK(client)
      /\ Joined(client)
  BY <1>1 DEF ClientOK
<1>3. TypeOK
  BY <1>1, <1>2 DEF TypeOK, PipeOK, StreamOK, MessagesOK, HistoryOK
<1>4. NoAssertionFails
  BY <1>2 DEF NoAssertionFails, Running
<1>5. AnswersMatchPipeline
  <2>1. client.in \in Seq(AllAnswers) /\ client.out \in Seq(AllRequests)
    BY <1>2 DEF MessagesOK
  <2>2. DOMAIN client.in = 1..Len(client.in) /\ DOMAIN client.out = 1..Len(client.out)
    BY <2>1
  <2> QED
    BY <1>2, <2>2 DEF MessagesOK, Matched, AnswersMatchPipeline
<1>6. PipelineIsFrontOfQueue /\ IdleOnlyWhenNothingToWrite
  BY <1>2 DEF PipelineIsFrontOfQueue, IdleOnlyWhenNothingToWrite, PipeOK, Joined
<1> QED
  BY <1>3, <1>4, <1>5, <1>6 DEF PipelineInStep

(* For all numbers of users, writes, waits and disruptions, for a pipeline *)
(* of any size and whichever order the status of a call comes in: no       *)
(* HARD_ASSERT fails, and the answers and requests under way are the       *)
(* pipeline, which is the front of the queue, so that an answer may be     *)
(* taken for the front without looking at it.                              *)
THEOREM PipelineStaysInStep == Spec => []PipelineInStep
<1>1. IInv => PipelineInStep
  BY InvariantInStep
<1> QED
  BY <1>1, PipelineInvariant, PTL

(* Through errors, changes of user and crashes, also one between the two   *)
(* halves of settling a write: no write is lost or committed out of order, *)
(* and the app hears about its own write, in order, once, and the truth.   *)
THEOREM OutcomesStayTrue == Spec => []OutcomesAreTrue
<1>1. IInv => OutcomesAreTrue
  BY DEF IInv, OutcomesAreTrue, CallbacksHaveBatches, CallbacksOK
<1> QED
  BY <1>1, PipelineInvariant, PTL

(* Who is woken with success is not woken while the server has to decide   *)
(* on a write that was pending when the wait began: the highest of their   *)
(* ids is decided, it is the front of the queue, and no write is lost.     *)
LEMMA WokenAreDone ==
    ASSUME IInv, Effect, NEW c \in client.waiters,
           [number |-> c.number, ok |-> TRUE] \in client'.woken
    PROVE  c.for \subseteq ToSet(server'.firsts) \cup server'.refused
<1> DEFINE r == [number |-> c.number, ok |-> TRUE]
<1>1. WaitersOK /\ ClientOK(client)
  BY DEF IInv
<1>2. r \notin client.woken
  BY <1>1 DEF WaitersOK
<1>3. CASE KeepStep /\ Waits
  <2>1. \A d \in client.waiters : r # [number |-> d.number, ok |-> FALSE]
    OBVIOUS
  <2> QED
    BY <1>2, <1>3, <2>1 DEF Waits
<1>4. CASE KeepStep /\ WaitStep
  <2>1. PICK number \in 1..MaxWaiters :
          /\ \A d \in client.waiters \cup client.woken : d.number < number
          /\ client'.woken \subseteq client.woken \cup {[number |-> number, ok |-> TRUE]}
    BY <1>4 DEF WaitStep
  <2>2. c.number # number
    BY <1>1, <2>1 DEF WaitersOK
  <2>3. r # [number |-> number, ok |-> TRUE]
    BY <2>2
  <2> QED
    BY <1>2, <2>1, <2>3
<1>5. CASE AddStep \/ ServerStep
  <2>1. client'.woken = client.woken
    BY <1>5 DEF AddStep, Adds, ServerStep, Still, Outcome
  <2> QED
    BY <1>2, <2>1
<1>6. CASE FrontStep /\ WakesFront
  <2> DEFINE b == Head(client.pipeline)
             B == client.db[client.user]
  <2>1. /\ b.write \in Elements(server.firsts) \cup server.refused
        /\ client'.woken = WokenOf(client, b.id)
    BY <1>2, <1>6 DEF WakesFront
  <2>2. /\ client.user \in Users /\ client.db \in [Users -> SUBSET Batches]
        /\ PipeOK(client) /\ client.pipeline # <<>>
    BY <1>1, <1>6 DEF FrontStep, ClientOK, PipeOK
  <2>3. b \in B /\ b \in Batches /\ \A x \in B \ {b} : b.id < x.id
    BY <2>2, PipelineHead
  <2> HIDE DEF b
  <2>4. /\ server'.firsts = server.firsts /\ server'.refused = server.refused
        /\ ToSet(server.firsts) = Elements(server.firsts)
    BY <1>6, ToSetElements DEF FrontStep, IInv, HistoryOK
  <2>5. c.id = b.id
    <3>1. PICK d \in client.waiters : d.id = b.id /\ r = [number |-> d.number, ok |-> TRUE]
      BY <1>2, <2>1 DEF WokenOf
    <3>2. d.number = c.number
      BY <3>1
    <3> QED
      BY <1>1, <3>1, <3>2 DEF WaitersOK
  <2>6. ASSUME NEW x \in B \ {b} PROVE x.write \notin c.for
    <3>1. x.id \in Nat /\ b.id \in Nat /\ b.id < x.id
      BY <2>2, <2>3 DEF Batches
    <3>2. x.write \in c.for => x.id <= c.id
      BY <1>1 DEF WaitersOK
    <3> QED
      BY <2>5, <3>1, <3>2
  <2>7. ASSUME NEW w \in c.for PROVE w \in ToSet(server.firsts) \cup server.refused
    <3>1. w \in DOMAIN written /\ written[w] = client.user
      <4>1. written \in Seq(Users)
        BY DEF IInv, HistoryOK
      <4> QED
        BY <1>1, <4>1 DEF WaitersOK
    <3>2. w \in {x.write : x \in B} => w = b.write
      BY <2>6
    <3> QED
      BY <2>1, <2>4, <3>1, <3>2 DEF IInv, NoWriteLost
  <2> QED
    BY <2>4, <2>7
<1> QED
  BY <1>3, <1>4, <1>5, <1>6 DEF Effect

(* waitForPendingWrites keeps its promise, whatever writes, errors and     *)
(* changes of user come in between, and also in a process that ends before *)
(* the last of the writes has left the queue.                              *)
THEOREM WaitersAreToldTheTruth == Spec => WokenWhenDone
<1>1. IInv /\ [Next]_vars =>
        [\A c \in client.waiters :
           [number |-> c.number, ok |-> TRUE] \in client'.woken
             => c.for \subseteq ToSet(server'.firsts) \cup server'.refused]_vars
  BY StepEffect, WokenAreDone
<1> QED
  BY <1>1, PipelineInvariant, PTL DEF Spec, WokenWhenDone

-----------------------------------------------------------------------------
(* The durable queue that all this implements.                             *)

WritesIn(q) == [i \in DOMAIN q |-> q[i].write]
Pending(db) == [u \in Users |-> WritesIn(ById(db[u]))]

(* The writes of a queue of batches, one by one.                           *)
LEMMA WritesInType ==
    ASSUME NEW q \in Seq(Batches)
    PROVE  /\ WritesIn(q) \in Seq(Writes) /\ Len(WritesIn(q)) = Len(q)
           /\ \A i \in 1..Len(q) : WritesIn(q)[i] = q[i].write
<1>1. /\ DOMAIN q = 1..Len(q) /\ Len(q) \in Nat /\ \A i \in 1..Len(q) : q[i] \in Batches
  OBVIOUS
<1>2. \A i \in 1..Len(q) : q[i].write \in Writes
  BY <1>1 DEF Batches
<1>3. WritesIn(q) = [i \in 1..Len(q) |-> q[i].write]
  BY <1>1 DEF WritesIn
<1> QED
  BY <1>1, <1>2, <1>3

(* A queue that is empty, that grows and that is served.                   *)
LEMMA WritesInQueue ==
    ASSUME NEW q \in Seq(Batches)
    PROVE  /\ q = <<>> <=> WritesIn(q) = <<>>
           /\ \A b \in Batches : WritesIn(Append(q, b)) = Append(WritesIn(q), b.write)
           /\ q # <<>> => /\ WritesIn(Tail(q)) = Tail(WritesIn(q))
                          /\ Head(WritesIn(q)) = Head(q).write
<1> DEFINE w == WritesIn(q)
<1>1. w \in Seq(Writes) /\ Len(w) = Len(q) /\ Len(q) \in Nat
      /\ \A i \in 1..Len(q) : w[i] = q[i].write
  BY WritesInType
<1> HIDE DEF w
<1>2. q = <<>> <=> w = <<>>
  BY <1>1
<1>3. ASSUME NEW b \in Batches PROVE WritesIn(Append(q, b)) = Append(w, b.write)
  <2> DEFINE r == Append(q, b)
  <2>1. /\ r \in Seq(Batches) /\ Len(r) = Len(q) + 1
        /\ \A i \in 1..Len(q) : r[i] = q[i]
        /\ r[Len(q) + 1] = b
    OBVIOUS
  <2> HIDE DEF r
  <2>2. /\ WritesIn(r) \in Seq(Writes) /\ Len(WritesIn(r)) = Len(q) + 1
        /\ \A i \in 1..(Len(q) + 1) : WritesIn(r)[i] = r[i].write
    BY <2>1, WritesInType
  <2>3. b.write \in Writes
    BY DEF Batches
  <2>4. /\ Append(w, b.write) \in Seq(Writes) /\ Len(Append(w, b.write)) = Len(q) + 1
        /\ \A i \in 1..Len(q) : Append(w, b.write)[i] = w[i]
        /\ Append(w, b.write)[Len(q) + 1] = b.write
    BY <1>1, <2>3
  <2>5. \A i \in 1..(Len(q) + 1) : WritesIn(r)[i] = Append(w, b.write)[i]
    BY <1>1, <2>1, <2>2, <2>4
  <2> QED
    BY <2>2, <2>4, <2>5, SeqEqual DEF r
<1>4. ASSUME q # <<>> PROVE WritesIn(Tail(q)) = Tail(w) /\ Head(w) = Head(q).write
  <2> DEFINE r == Tail(q)
             n == Len(q) - 1
  <2>1. /\ r \in Seq(Batches) /\ Len(r) = n /\ n \in Nat /\ Len(q) = n + 1
        /\ \A i \in 1..n : r[i] = q[i + 1]
    BY <1>4
  <2> HIDE DEF r, n
  <2>2. /\ WritesIn(r) \in Seq(Writes) /\ Len(WritesIn(r)) = n
        /\ \A i \in 1..n : WritesIn(r)[i] = r[i].write
    BY <2>1, WritesInType
  <2>3. w # <<>>
    BY <1>2, <1>4
  <2>4. /\ Tail(w) \in Seq(Writes) /\ Len(Tail(w)) = n
        /\ \A i \in 1..n : Tail(w)[i] = w[i + 1]
    BY <1>1, <2>1, <2>3
  <2>5. \A i \in 1..n : WritesIn(r)[i] = Tail(w)[i]
    BY <1>1, <2>1, <2>2, <2>4
  <2>6. WritesIn(r) = Tail(w)
    BY <2>2, <2>4, <2>5, SeqEqual
  <2>7. Head(w) = w[1] /\ Head(q) = q[1] /\ 1 \in 1..Len(q)
    BY <1>1, <1>4, <2>3
  <2> QED
    BY <1>1, <2>6, <2>7 DEF r
<1> QED
  BY <1>2, <1>3, <1>4 DEF w

(* The app has made no write.                                              *)
LEMMA QueueStarts ==
    ASSUME Init, IInv
    PROVE  Queue!Init
<1>1. PICK u \in Users :
        client = Launch([x \in Users |-> {}], u, [told |-> <<>>, woken |-> {}])
  BY DEF Init
<1>2. /\ [x \in Users |-> {}] \in [Users -> SUBSET Batches]
      /\ \A v \in Users : Distinct([x \in Users |-> {}][v])
      /\ \A v \in Users : \A b \in [x \in Users |-> {}][v] : b.id < 0
  BY FS_EmptySet DEF Distinct
<1>3. client.db = [x \in Users |-> {}] /\ client.told = <<>>
  <2> DEFINE db == [x \in Users |-> {}]
             history == [told |-> <<>>, woken |-> {}]
  <2>1. history.told = <<>> /\ 0 \in Nat /\ client = Launch(db, u, history)
    BY <1>1
  <2>2. /\ db \in [Users -> SUBSET Batches] /\ \A v \in Users : Distinct(db[v])
        /\ \A v \in Users : \A b \in db[v] : b.id < 0
    BY <1>2
  <2> HIDE DEF db, history
  <2>3. client.db = db /\ client.told = history.told
    BY <2>1, <2>2, LaunchKeeps
  <2> QED
    BY <2>1, <2>3 DEF db
<1>4. Len(written) = 0
  BY DEF Init
<1>5. ById({}) = <<>> /\ WritesIn(<<>>) = <<>>
  <2>1. Distinct({})
    BY FS_EmptySet DEF Distinct
  <2>2. ById({}) = <<>> /\ ById({}) \in Seq(Batches)
    BY <2>1, ByIdType
  <2> QED
    BY <2>2, WritesInQueue
<1>6. Pending(client.db) = [u2 \in Users |-> <<>>]
  BY <1>3, <1>5 DEF Pending
<1> QED
  BY <1>3, <1>4, <1>6 DEF Queue!Init, Pending, WritesIn

(* The batch at the front of the pipeline is the oldest pending write, and *)
(* the app has heard nothing of it as long as its callback is there.       *)
LEMMA FrontIsOldest ==
    ASSUME IInv, client.pipeline # <<>>
    PROVE  LET b == Head(client.pipeline)
               u == client.user
               P == Pending(client.db)
           IN /\ u \in Users /\ P[u] # <<>> /\ Head(P[u]) = b.write
              /\ Pending(Without(client, b)) = [P EXCEPT ![u] = Tail(@)]
              /\ Called(client, b.id) # {} /\ (\A c \in Called(client, b.id) : c.write = b.write)
                   => \A i \in DOMAIN client.told : client.told[i].write # b.write
<1> DEFINE b == Head(client.pipeline)
           u == client.user
           P == Pending(client.db)
           B == client.db[u]
           q == ById(B)
<1>1. /\ ClientOK(client) /\ HistoryOK /\ QueueOK /\ NoneOvertaken
  BY DEF IInv
<1>2. /\ PipeOK(client) /\ u \in Users /\ client.db \in [Users -> SUBSET Batches]
      /\ Distinct(B)
  BY <1>1 DEF ClientOK, PipeOK
<1>3. b \in B /\ b \in Batches /\ b = Head(q) /\ B # {} /\ ById(B \ {b}) = Tail(q)
  BY <1>2, PipelineHead
<1> HIDE DEF b
<1>4. q \in Seq(Batches) /\ q # <<>>
  BY <1>2, <1>3, ByIdType
<1> HIDE DEF q
<1>5. P[u] = WritesIn(q) /\ P[u] # <<>> /\ Head(P[u]) = b.write
      /\ WritesIn(Tail(q)) = Tail(P[u])
  <2>1. P[u] = WritesIn(q)
    BY <1>2 DEF Pending, q
  <2> QED
    BY <1>3, <1>4, <2>1, WritesInQueue
<1>6. Pending(Without(client, b)) = [P EXCEPT ![u] = Tail(@)]
  <2>1. /\ Without(client, b)[u] = B \ {b}
        /\ \A v \in Users \ {u} : Without(client, b)[v] = client.db[v]
    BY <1>2 DEF Without
  <2>2. WritesIn(ById(Without(client, b)[u])) = Tail(P[u])
    BY <1>3, <1>5, <2>1
  <2>3. \A v \in Users : Pending(Without(client, b))[v]
                           = IF v = u THEN Tail(P[u]) ELSE P[v]
    BY <2>1, <2>2 DEF Pending
  <2>4. Pending(Without(client, b)) = [v \in Users |-> IF v = u THEN Tail(P[u]) ELSE P[v]]
    BY <2>3 DEF Pending
  <2>5. P = [v \in Users |-> P[v]]
    BY DEF Pending
  <2> HIDE DEF P
  <2> QED
    BY <1>2, <2>4, <2>5
<1>7. ASSUME NEW c \in Called(client, b.id), c.write = b.write, NEW i \in DOMAIN client.told
      PROVE  client.told[i].write # b.write
  <2>1. c \in client.callbacks /\ c.user = u
    BY DEF Called
  <2>2. written[b.write] = u /\ b.write \in Nat
    BY <1>1, <1>2, <1>3 DEF QueueOK, Batches, Writes
  <2>3. i \in 1..Len(client.told)
    <3>1. client.told \in Seq([write : Writes, ok : BOOLEAN])
      BY <1>1 DEF HistoryOK
    <3> QED
      BY <3>1
  <2>4. written[client.told[i].write] = u => client.told[i].write < b.write
    BY <1>1, <1>7, <2>1, <2>3 DEF NoneOvertaken
  <2> QED
    BY <2>2, <2>4
<1>8. Called(client, b.id) # {} /\ (\A c \in Called(client, b.id) : c.write = b.write)
        => \A i \in DOMAIN client.told : client.told[i].write # b.write
  BY <1>7
<1> QED
  BY <1>2, <1>5, <1>6, <1>8 DEF b

(* A write is made at the end of the queue of the user who is signed in,   *)
(* one is decided or heard of at its front, or the queue does not notice.  *)
LEMMA QueueSteps ==
    ASSUME IInv, Effect
    PROVE  [Queue!Next]_(Queue!vars)
<1> DEFINE u == client.user
           P == Pending(client.db)
           Q == Pending(client'.db)
<1>1. /\ ClientOK(client) /\ HistoryOK /\ u \in Users
      /\ client.db \in [Users -> SUBSET Batches] /\ \A v \in Users : Distinct(client.db[v])
  BY DEF IInv, ClientOK, PipeOK
<1>2. ASSUME Q = P, Len(written') = Len(written), client'.told = client.told
      PROVE  UNCHANGED Queue!vars
  BY <1>2 DEF Queue!vars, Pending, WritesIn
<1>0. PICK me \in Users : me = u
  BY <1>1
<1>3. CASE KeepStep \/ ServerStep
  <2>1. client'.db = client.db /\ written' = written /\ client'.told = client.told
    BY <1>3 DEF KeepStep, ServerStep, Still, Outcome
  <2> QED
    BY <1>2, <2>1
<1>4. CASE AddStep
  <2> DEFINE w == Len(written) + 1
             b == [id |-> client.next, write |-> w]
             B == client.db[u]
  <2>1. /\ client'.db = [client.db EXCEPT ![u] = @ \cup {b}] /\ client'.told = client.told
        /\ written' = Append(written, u) /\ w <= MaxWrites
    BY <1>4 DEF AddStep, Adds
  <2>2. Len(written) \in Nat /\ Len(written') = w
    <3>1. written \in Seq(Users)
      BY <1>1 DEF HistoryOK
    <3> QED
      BY <1>1, <2>1, <3>1, Reading
  <2>3. b \in Batches /\ b.write = w /\ \A c \in B : c.id < b.id
    <3>1. MaxWrites \in Nat
      <4>1. {MaxWrites} \subseteq Nat
        BY PipelineAssumption
      <4> QED
        BY <4>1
    <3> QED
      BY <1>1, <2>1, <2>2, <3>1 DEF ClientOK, NumbersOK, Batches, Writes
  <2> HIDE DEF b, w
  <2>4. ById(B \cup {b}) = Append(ById(B), b) /\ ById(B) \in Seq(Batches)
    <3>1. Distinct(B)
      BY <1>1
    <3> HIDE DEF B
    <3>2. ById(B \cup {b}) = Append(ById(B), b)
      BY <2>3, <3>1, ByIdAdd
    <3>3. ById(B) \in Seq(Batches)
      BY <3>1, ByIdType
    <3> QED
      BY <3>2, <3>3
  <2>5. WritesIn(ById(B \cup {b})) = Append(P[u], w)
    BY <1>1, <2>3, <2>4, WritesInQueue DEF Pending
  <2>6. \A v \in Users : Q[v] = IF v = u THEN Append(P[u], w) ELSE P[v]
    BY <1>1, <2>1, <2>5 DEF Pending
  <2>7. Q = [P EXCEPT ![u] = Append(@, w)]
    <3>1. Q = [v \in Users |-> IF v = u THEN Append(P[u], w) ELSE P[v]]
      BY <2>6 DEF Pending
    <3>2. P = [v \in Users |-> P[v]]
      BY DEF Pending
    <3> HIDE DEF P, Q
    <3> QED
      BY <1>1, <3>1, <3>2
  <2>8. Queue!Make(me)
    BY <1>0, <2>1, <2>2, <2>7 DEF Queue!Make, Pending, WritesIn, w
  <2> QED
    BY <2>8 DEF Queue!Next
<1>5. CASE FrontStep
  <2> DEFINE b == Head(client.pipeline)
  <2>1. /\ client.pipeline # <<>> /\ written' = written
        /\ client'.db = client.db \/ client'.db = Without(client, b)
        /\ \/ client'.told = client.told
           \/ \E ok \in BOOLEAN :
                /\ Called(client, b.id) # {}
                /\ \A c \in Called(client, b.id) : c.write = b.write
                /\ client'.told = Append(client.told, [write |-> b.write, ok |-> ok])
    BY <1>5 DEF FrontStep
  <2>2. /\ P[u] # <<>> /\ Head(P[u]) = b.write
        /\ Pending(Without(client, b)) = [P EXCEPT ![u] = Tail(@)]
        /\ Called(client, b.id) # {} /\ (\A c \in Called(client, b.id) : c.write = b.write)
             => \A i \in DOMAIN client.told : client.told[i].write # b.write
    BY <2>1, FrontIsOldest
  <2> HIDE DEF b
  <2>3. client'.told = client.told \/ Queue!Hear(me)
    <3>1. CASE client'.told # client.told
      <4>1. /\ \A i \in DOMAIN client.told : client.told[i].write # Head(P[u])
            /\ \E ok \in BOOLEAN :
                 client'.told = Append(client.told, [write |-> Head(P[u]), ok |-> ok])
        BY <2>1, <2>2, <3>1
      <4> QED
        BY <1>0, <2>2, <4>1 DEF Queue!Hear, Queue!Silent, Pending, WritesIn
    <3> QED
      BY <3>1
  <2>4. CASE client'.db = client.db
    <3>1. CASE client'.told = client.told
      BY <1>2, <2>1, <2>4, <3>1
    <3>2. CASE Queue!Hear(me)
      <4>1. Queue!HearFirst(me)
        BY <2>1, <2>4, <3>2 DEF Queue!HearFirst
      <4> QED
        BY <4>1 DEF Queue!Next
    <3> QED
      BY <2>3, <3>1, <3>2
  <2>5. CASE client'.db = Without(client, b)
    <3>1. Q = [P EXCEPT ![u] = Tail(@)]
      BY <2>2, <2>5
    <3>2. Queue!Decide(me)
      BY <1>0, <2>1, <2>2, <2>3, <3>1 DEF Queue!Decide, Pending, WritesIn
    <3> QED
      BY <3>2 DEF Queue!Next
  <2> QED
    BY <2>1, <2>4, <2>5
<1> QED
  BY <1>3, <1>4, <1>5 DEF Effect

(* The pipeline of ten, its streams and timers, the settling of answers by *)
(* their position, and the crashes in between, implement a durable queue:  *)
(* only the oldest write of the user who is signed in is ever decided, and *)
(* the app hears of a write only once and only while it is the oldest.     *)
THEOREM PipelineImplementsQueue == Spec => ImplementsDurableWrites
<1>1. Init /\ IInv => Queue!Init
  BY QueueStarts
<1>2. IInv /\ [Next]_vars => [Queue!Next]_(Queue!vars)
  BY StepEffect, QueueSteps
<1> QED
  BY <1>1, <1>2, PipelineInvariant, PTL DEF Spec, ImplementsDurableWrites, Queue!Spec
=============================================================================
