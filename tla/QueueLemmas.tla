---------------------------- MODULE QueueLemmas -----------------------------
(***************************************************************************)
(* Facts about the queues of T-Kernel (include/sys/queue.h), which all its *)
(* lists of tasks and locks are made of, as sequences without repetition;  *)
(* and induction over the natural numbers, stated with sets.               *)
(***************************************************************************)
EXTENDS Integers, Sequences, SequencesExt, SequenceTheorems,
        FiniteSetTheorems, WellFoundedInduction, TLAPS

(* s is a queue (sys/queue.h) in S that links each element of A once. *)
Linked(S, s, A) == s \in Seq(S) /\ ToSet(s) = A /\ IsInjective(s)

(* The elements of a queue by their places. *)
LEMMA PlacesOf ==
    ASSUME NEW S, NEW s \in Seq(S)
    PROVE  /\ DOMAIN s = 1 .. Len(s) /\ Len(s) \in Nat
           /\ \A i \in 1 .. Len(s) : s[i] \in S
           /\ \A u : u \in ToSet(s) <=> \E i \in 1 .. Len(s) : s[i] = u
           /\ IsInjective(s) <=> \A i, j \in 1 .. Len(s) : s[i] = s[j] => i = j
           /\ s = <<>> <=> Len(s) = 0
  BY DEF ToSet, IsInjective

(* QueInit: an empty queue links nothing, *)
LEMMA NothingLinked ==
    ASSUME NEW S
    PROVE  Linked(S, <<>>, {})
<1> DEFINE s == <<>>
<1>1. s \in Seq(S) /\ DOMAIN s = {}
  OBVIOUS
<1> HIDE DEF s
<1>2. ToSet(s) = {} /\ IsInjective(s)
  BY <1>1 DEF ToSet, IsInjective
<1> QED BY <1>1, <1>2 DEF Linked, s

(* and a queue that links nothing is empty. *)
LEMMA EmptyLinked ==
    ASSUME NEW S, NEW s, NEW A, Linked(S, s, A)
    PROVE  s = <<>> <=> A = {}
<1>1. /\ Len(s) \in Nat /\ s = <<>> <=> Len(s) = 0
      /\ \A u : u \in A <=> \E i \in 1 .. Len(s) : s[i] = u
  BY PlacesOf DEF Linked
<1>2. CASE Len(s) = 0
  BY <1>1, <1>2
<1>3. CASE Len(s) # 0
  <2>1. 1 \in 1 .. Len(s)
    BY <1>1, <1>3
  <2>2. s[1] \in A
    BY <1>1, <2>1
  <2> QED BY <1>1, <1>3, <2>2
<1> QED BY <1>2, <1>3

(* QueInsert at the end of a queue adds one element. *)
LEMMA AppendLinked ==
    ASSUME NEW S, NEW s, NEW A, Linked(S, s, A), NEW t \in S \ A
    PROVE  Linked(S, Append(s, t), A \cup {t})
<1> DEFINE r == Append(s, t)
<1>1. s \in Seq(S) /\ r \in Seq(S)
  BY AppendProperties DEF Linked
<1>2. /\ Len(s) \in Nat /\ Len(r) = Len(s) + 1
      /\ \A i \in 1 .. Len(s) : r[i] = s[i]
      /\ r[Len(s) + 1] = t
  BY <1>1, AppendProperties
<1> HIDE DEF r
<1>3. \A u : u \in A <=> \E i \in 1 .. Len(s) : s[i] = u
  BY <1>1, PlacesOf DEF Linked
<1>4. \A u : u \in ToSet(r) <=> \E i \in 1 .. Len(r) : r[i] = u
  BY <1>1, PlacesOf
<1>5. ToSet(r) = A \cup {t}
  <2>1. ASSUME NEW u \in ToSet(r) PROVE u \in A \cup {t}
    BY <1>2, <1>3, <1>4
  <2>2. ASSUME NEW u \in A \cup {t} PROVE u \in ToSet(r)
    BY <1>2, <1>3, <1>4
  <2> QED BY <2>1, <2>2
<1>6. \A i, j \in 1 .. Len(s) : s[i] = s[j] => i = j
  BY <1>1, PlacesOf DEF Linked
<1>7. IsInjective(r)
  BY <1>1, <1>2, <1>3, <1>6, PlacesOf
<1> QED BY <1>1, <1>5, <1>7 DEF Linked, r

(* QueInsert at the head of a queue adds one element. *)
LEMMA PrependLinked ==
    ASSUME NEW S, NEW s, NEW A, Linked(S, s, A), NEW t \in S \ A
    PROVE  Linked(S, <<t>> \o s, A \cup {t})
<1> DEFINE r == <<t>> \o s
<1>1. s \in Seq(S) /\ r \in Seq(S)
  BY ConcatProperties DEF Linked
<1>2. /\ Len(s) \in Nat /\ Len(r) = Len(s) + 1
      /\ \A i \in 2 .. Len(r) : r[i] = s[i - 1]
      /\ r[1] = t
  BY <1>1, ConcatProperties
<1> HIDE DEF r
<1>3. \A u : u \in A <=> \E i \in 1 .. Len(s) : s[i] = u
  BY <1>1, PlacesOf DEF Linked
<1>4. \A u : u \in ToSet(r) <=> \E i \in 1 .. Len(r) : r[i] = u
  BY <1>1, PlacesOf
<1>5. ToSet(r) = A \cup {t}
  <2>1. ASSUME NEW u \in ToSet(r) PROVE u \in A \cup {t}
    <3>1. PICK i \in 1 .. Len(r) : r[i] = u
      BY <1>4
    <3>2. i = 1 \/ (i \in 2 .. Len(r) /\ i - 1 \in 1 .. Len(s))
      BY <1>2
    <3> QED BY <1>2, <1>3, <3>1, <3>2
  <2>2. ASSUME NEW u \in A PROVE u \in ToSet(r)
    <3>1. PICK i \in 1 .. Len(s) : s[i] = u
      BY <1>3
    <3>2. i + 1 \in 2 .. Len(r) /\ i + 1 \in 1 .. Len(r) /\ (i + 1) - 1 = i
      BY <1>2
    <3> QED BY <1>2, <1>4, <3>1, <3>2
  <2>3. t \in ToSet(r)
    BY <1>2, <1>4
  <2> QED BY <2>1, <2>2, <2>3
<1>6. \A i, j \in 1 .. Len(s) : s[i] = s[j] => i = j
  BY <1>1, PlacesOf DEF Linked
<1>7. ASSUME NEW i \in 1 .. Len(r), NEW j \in 1 .. Len(r), r[i] = r[j] PROVE i = j
  <2>1. CASE i = 1 /\ j = 1
    BY <2>1
  <2>2. CASE i \in 2 .. Len(r) /\ j \in 2 .. Len(r)
    <3>1. i - 1 \in 1 .. Len(s) /\ j - 1 \in 1 .. Len(s)
      BY <1>2, <2>2
    <3>2. s[i - 1] = s[j - 1]
      BY <1>2, <1>7, <2>2
    <3>3. i - 1 = j - 1
      BY <1>6, <3>1, <3>2
    <3> QED BY <3>3
  <2>3. CASE i = 1 /\ j \in 2 .. Len(r)
    BY <1>2, <1>3, <1>7, <2>3
  <2>4. CASE i \in 2 .. Len(r) /\ j = 1
    BY <1>2, <1>3, <1>7, <2>4
  <2> QED BY <1>2, <2>1, <2>2, <2>3, <2>4
<1> QED BY <1>1, <1>5, <1>7, PlacesOf DEF Linked, r

(* The element at the head of a queue, and the queue without it. *)
LEMMA HeadLinked ==
    ASSUME NEW S, NEW s, NEW A, Linked(S, s, A), s # <<>>
    PROVE  Head(s) \in A /\ Head(s) \in S /\ Linked(S, Tail(s), A \ {Head(s)})
<1> DEFINE r == Tail(s)
<1>1. s \in Seq(S) /\ r \in Seq(S)
  BY HeadTailProperties DEF Linked
<1>2. /\ Len(s) \in Nat \ {0} /\ Len(r) = Len(s) - 1
      /\ \A i \in 1 .. Len(r) : r[i] = s[i + 1]
      /\ Head(s) = s[1]
  BY <1>1, HeadTailProperties, PlacesOf
<1> HIDE DEF r
<1>3. \A u : u \in A <=> \E i \in 1 .. Len(s) : s[i] = u
  BY <1>1, PlacesOf DEF Linked
<1>4. \A u : u \in ToSet(r) <=> \E i \in 1 .. Len(r) : r[i] = u
  BY <1>1, PlacesOf
<1>5. \A i, j \in 1 .. Len(s) : s[i] = s[j] => i = j
  BY <1>1, PlacesOf DEF Linked
<1>6. ToSet(r) = A \ {s[1]}
  <2>1. ASSUME NEW u \in ToSet(r) PROVE u \in A \ {s[1]}
    <3>1. PICK i \in 1 .. Len(r) : r[i] = u
      BY <1>4
    <3>2. i + 1 \in 1 .. Len(s) /\ i + 1 # 1 /\ 1 \in 1 .. Len(s)
      BY <1>2
    <3>3. s[i + 1] = u
      BY <1>2, <3>1
    <3>4. u \in A
      BY <1>3, <3>2, <3>3
    <3> QED BY <1>5, <3>2, <3>3, <3>4
  <2>2. ASSUME NEW u \in A \ {s[1]} PROVE u \in ToSet(r)
    <3>1. PICK i \in 1 .. Len(s) : s[i] = u
      BY <1>3
    <3>2. i - 1 \in 1 .. Len(r) /\ (i - 1) + 1 = i
      BY <1>2, <3>1
    <3> QED BY <1>2, <1>4, <3>1, <3>2
  <2> QED BY <2>1, <2>2
<1>7. ASSUME NEW i \in 1 .. Len(r), NEW j \in 1 .. Len(r), r[i] = r[j] PROVE i = j
  <2>1. i + 1 \in 1 .. Len(s) /\ j + 1 \in 1 .. Len(s)
    BY <1>2
  <2>2. s[i + 1] = s[j + 1]
    BY <1>2, <1>7
  <2>3. i + 1 = j + 1
    BY <1>5, <2>1, <2>2
  <2> QED BY <2>3
<1>8. s[1] \in A
  BY <1>2, <1>3
<1>9. s[1] \in S
  BY <1>1, <1>2, PlacesOf
<1> QED BY <1>1, <1>2, <1>6, <1>7, <1>8, <1>9, PlacesOf DEF Linked, r

(* QueRemove of an element that the queue links takes it from its place k. *)
Without(S, r, s, k) ==
    /\ r \in Seq(S) /\ Len(r) = Len(s) - 1
    /\ \A i \in 1 .. Len(s) - 1 : r[i] = IF i < k THEN s[i] ELSE s[i + 1]

LEMMA RemovedPlace ==
    ASSUME NEW S, NEW s, NEW A, Linked(S, s, A), NEW t \in A
    PROVE  \E k \in 1 .. Len(s) : s[k] = t /\ Without(S, RemoveFirst(s, t), s, k)
<1> DEFINE r == RemoveFirst(s, t)
<1>1. s \in Seq(S) /\ Len(s) \in Nat /\ \A i \in 1 .. Len(s) : s[i] \in S
  BY PlacesOf DEF Linked
<1>2. \A u : u \in A <=> \E i \in 1 .. Len(s) : s[i] = u
  BY PlacesOf DEF Linked
<1>3. \A i, j \in 1 .. Len(s) : s[i] = s[j] => i = j
  BY PlacesOf DEF Linked
<1>4. PICK k \in 1 .. Len(s) : s[k] = t
  BY <1>2
<1>5. {i \in 1 .. Len(s) : s[i] = t} = {k}
  BY <1>3, <1>4
<1>6. (CHOOSE x \in {k} : \A y \in {k} : x =< y) = k
  BY <1>1, <1>4
<1>7. SelectInSeq(s, LAMBDA v : v = t) = k
  BY <1>4, <1>5, <1>6 DEF SelectInSeq, Min
<1>8. r = SubSeq(s, 1, k - 1) \o SubSeq(s, k + 1, Len(s))
  BY <1>4, <1>7 DEF RemoveFirst, RemoveAt
<1> DEFINE a == SubSeq(s, 1, k - 1)
           b == SubSeq(s, k + 1, Len(s))
<1>9. a \in Seq(S) /\ Len(a) = k - 1 /\ \A i \in 1 .. k - 1 : a[i] = s[i]
  <2>1. 1 \in Int /\ k - 1 \in Int /\ \A i \in 1 .. k - 1 : s[i] \in S
    BY <1>1, <1>4
  <2> QED BY <1>4, <2>1, SubSeqProperties
<1>10. /\ b \in Seq(S) /\ Len(b) = Len(s) - k
       /\ \A i \in 1 .. Len(s) - k : b[i] = s[k + i]
  <2>1. k + 1 \in Int /\ Len(s) \in Int /\ \A i \in k + 1 .. Len(s) : s[i] \in S
    BY <1>1, <1>4
  <2>2. /\ b \in Seq(S) /\ Len(b) = IF k + 1 <= Len(s) THEN Len(s) - (k + 1) + 1 ELSE 0
        /\ \A i \in 1 .. Len(s) - (k + 1) + 1 : b[i] = s[k + 1 + i - 1]
    BY <2>1, SubSeqProperties
  <2> QED BY <1>1, <1>4, <2>2
<1> HIDE DEF a, b, r
<1>11. r = a \o b
  BY <1>8 DEF a, b
<1>12. /\ r \in Seq(S) /\ Len(r) = Len(s) - 1
       /\ \A i \in 1 .. Len(s) - 1 : r[i] = IF i < k THEN s[i] ELSE s[i + 1]
  <2>1. /\ r \in Seq(S) /\ Len(r) = Len(a) + Len(b)
        /\ \A i \in 1 .. Len(a) + Len(b) :
              r[i] = IF i <= Len(a) THEN a[i] ELSE b[i - Len(a)]
    BY <1>9, <1>10, <1>11, ConcatProperties
  <2>2. ASSUME NEW i \in 1 .. Len(s) - 1
        PROVE  r[i] = IF i < k THEN s[i] ELSE s[i + 1]
    <3>1. CASE i < k
      <4>1. i \in 1 .. k - 1 /\ i <= Len(a) /\ i \in 1 .. Len(a) + Len(b)
        BY <1>1, <1>4, <1>9, <1>10, <3>1
      <4> QED BY <1>9, <2>1, <3>1, <4>1
    <3>2. CASE ~(i < k)
      <4>1. /\ i - Len(a) \in 1 .. Len(s) - k /\ ~(i <= Len(a))
            /\ i \in 1 .. Len(a) + Len(b) /\ k + (i - Len(a)) = i + 1
        BY <1>1, <1>4, <1>9, <1>10, <3>2
      <4> QED BY <1>10, <2>1, <3>2, <4>1
    <3> QED BY <3>1, <3>2
  <2> QED BY <1>1, <1>4, <1>9, <1>10, <2>1, <2>2
<1> QED BY <1>4, <1>12 DEF Without, r

LEMMA RemoveLinked ==
    ASSUME NEW S, NEW s, NEW A, Linked(S, s, A), NEW t \in A
    PROVE  Linked(S, RemoveFirst(s, t), A \ {t})
<1> DEFINE r == RemoveFirst(s, t)
<1>1. s \in Seq(S) /\ Len(s) \in Nat /\ \A i \in 1 .. Len(s) : s[i] \in S
  BY PlacesOf DEF Linked
<1>2. \A u : u \in A <=> \E i \in 1 .. Len(s) : s[i] = u
  BY PlacesOf DEF Linked
<1>3. \A i, j \in 1 .. Len(s) : s[i] = s[j] => i = j
  BY PlacesOf DEF Linked
<1>4. PICK k \in 1 .. Len(s) : s[k] = t /\ Without(S, r, s, k)
  BY RemovedPlace
<1> HIDE DEF r
<1>12. /\ r \in Seq(S) /\ Len(r) = Len(s) - 1
       /\ \A i \in 1 .. Len(s) - 1 : r[i] = IF i < k THEN s[i] ELSE s[i + 1]
  BY <1>4 DEF Without
<1>13. \A u : u \in ToSet(r) <=> \E i \in 1 .. Len(r) : r[i] = u
  BY <1>12, PlacesOf
<1>14. ToSet(r) = A \ {t}
  <2>1. ASSUME NEW u \in ToSet(r) PROVE u \in A \ {t}
    <3>1. PICK i \in 1 .. Len(s) - 1 : r[i] = u
      BY <1>12, <1>13, <2>1
    <3>2. PICK j \in 1 .. Len(s) : j # k /\ s[j] = u
      <4>1. CASE i < k
        BY <1>1, <1>12, <3>1, <4>1
      <4>2. CASE ~(i < k)
        <5>1. i + 1 \in 1 .. Len(s) /\ i + 1 # k /\ s[i + 1] = u
          BY <1>1, <1>4, <1>12, <3>1, <4>2
        <5> QED BY <5>1
      <4> QED BY <4>1, <4>2
    <3> QED BY <1>2, <1>3, <1>4, <3>2
  <2>2. ASSUME NEW u \in A \ {t} PROVE u \in ToSet(r)
    <3>1. PICK j \in 1 .. Len(s) : s[j] = u
      BY <1>2
    <3>2. CASE j < k
      <4>1. j \in 1 .. Len(r) /\ r[j] = u
        BY <1>1, <1>4, <1>12, <3>1, <3>2
      <4> QED BY <1>13, <4>1
    <3>3. CASE j > k
      <4>1. j - 1 \in 1 .. Len(s) - 1 /\ ~(j - 1 < k) /\ (j - 1) + 1 = j
        BY <1>1, <1>4, <3>1, <3>3
      <4>2. r[j - 1] = u
        BY <1>12, <3>1, <4>1
      <4> QED BY <1>12, <1>13, <4>1, <4>2
    <3>4. j # k
      BY <1>4, <3>1
    <3> QED BY <1>4, <3>1, <3>2, <3>3, <3>4
  <2> QED BY <2>1, <2>2
<1>15. ASSUME NEW i \in 1 .. Len(r), NEW j \in 1 .. Len(r), r[i] = r[j] PROVE i = j
  <2> DEFINE up(x) == IF x < k THEN x ELSE x + 1
  <2>1. up(i) \in 1 .. Len(s) /\ up(j) \in 1 .. Len(s)
    BY <1>1, <1>4, <1>12
  <2>2. s[up(i)] = s[up(j)]
    BY <1>12, <1>15
  <2>3. up(i) = up(j)
    BY <1>3, <2>1, <2>2
  <2> QED BY <1>1, <1>4, <1>12, <2>3
<1> QED BY <1>12, <1>14, <1>15, PlacesOf DEF Linked, r

-----------------------------------------------------------------------------
(* Each set of numbers has a least element, *)
LEMMA LeastElement ==
    ASSUME NEW T \in SUBSET Nat, T # {}
    PROVE  \E n \in T : \A m \in T : n <= m
<1>1. PICK n \in T : \A m \in T : ~(<<m, n>> \in OpToRel(<, Nat))
  BY NatLessThanWellFounded, WFMin
<1>2. \A m \in T : ~(m < n)
  BY <1>1 DEF OpToRel
<1> QED BY <1>2

LEMMA MinIsLeast ==
    ASSUME NEW T \in SUBSET Nat, T # {}
    PROVE  Min(T) \in T /\ \A m \in T : Min(T) <= m
  BY LeastElement DEF Min

(* which is induction: a set of numbers with 0 and the successors of its   *)
(* elements has them all,                                                  *)
LEMMA Induction ==
    ASSUME NEW T, 0 \in T, \A n \in Nat : n \in T => n + 1 \in T
    PROVE  Nat \subseteq T
<1> SUFFICES ASSUME NEW k \in Nat, k \notin T PROVE FALSE
  OBVIOUS
<1> DEFINE M == Nat \ T
<1>1. PICK n \in M : \A m \in M : n <= m
  <2>1. M \in SUBSET Nat /\ M # {}
    OBVIOUS
  <2> HIDE DEF M
  <2> QED BY <2>1, LeastElement
<1>2. n # 0 /\ n - 1 \in Nat /\ (n - 1) + 1 = n
  BY <1>1
<1>3. n - 1 \in T
  BY <1>1, <1>2
<1> QED BY <1>1, <1>2, <1>3

(* and a bounded one has a greatest.                                       *)
LEMMA GreatestElement ==
    ASSUME NEW n \in Nat, NEW T \in SUBSET (0 .. n), T # {}
    PROVE  Max(T) \in T /\ \A m \in T : m <= Max(T)
<1> DEFINE D == {n - m : m \in T}
<1>1. D \in SUBSET Nat /\ D # {}
  <2>1. PICK m \in T : TRUE
    OBVIOUS
  <2>2. n - m \in D
    BY <2>1
  <2>3. \A k \in T : n - k \in Nat
    OBVIOUS
  <2> QED BY <2>2, <2>3
<1>2. PICK d \in D : \A e \in D : d <= e
  <2> HIDE DEF D
  <2> QED BY <1>1, LeastElement
<1>3. n - d \in T /\ \A m \in T : m <= n - d
  <2>1. PICK k \in T : d = n - k
    OBVIOUS
  <2>2. ASSUME NEW m \in T PROVE m <= k
    <3>1. n - k <= n - m
      BY <1>2, <2>1
    <3>2. n \in Int /\ k \in Int /\ m \in Int
      OBVIOUS
    <3> QED BY <3>1, <3>2
  <2>3. n - d = k
    BY <2>1
  <2> QED BY <2>2, <2>3
<1> QED BY <1>3 DEF Max
-----------------------------------------------------------------------------
(* Queues in order of a key                                                *)

SortedBy(q, f) == \A i, j \in 1 .. Len(q) : i < j => f[q[i]] <= f[q[j]]

(* InsertAt links an element in at place k. *)
With(S, r, s, k, t) ==
    /\ r \in Seq(S) /\ Len(r) = Len(s) + 1
    /\ \A i \in 1 .. Len(s) + 1 :
          r[i] = IF i < k THEN s[i] ELSE IF i = k THEN t ELSE s[i - 1]

LEMMA InsertedPlace ==
    ASSUME NEW S, NEW s \in Seq(S), NEW k \in 1 .. Len(s) + 1, NEW t \in S
    PROVE  With(S, InsertAt(s, k, t), s, k, t)
<1> DEFINE a == SubSeq(s, 1, k - 1)
           b == <<t>>
           c == SubSeq(s, k, Len(s))
           r == InsertAt(s, k, t)
<1>1. Len(s) \in Nat /\ \A i \in 1 .. Len(s) : s[i] \in S
  BY PlacesOf
<1>2. a \in Seq(S) /\ Len(a) = k - 1 /\ \A i \in 1 .. k - 1 : a[i] = s[i]
  <2>1. 1 \in Int /\ k - 1 \in Int /\ \A i \in 1 .. k - 1 : s[i] \in S
    BY <1>1
  <2> QED BY <2>1, SubSeqProperties
<1>3. /\ c \in Seq(S) /\ Len(c) = Len(s) - k + 1
      /\ \A i \in 1 .. Len(s) - k + 1 : c[i] = s[k + i - 1]
  <2>1. k \in Int /\ Len(s) \in Int /\ \A i \in k .. Len(s) : s[i] \in S
    BY <1>1
  <2>2. /\ c \in Seq(S) /\ Len(c) = IF k <= Len(s) THEN Len(s) - k + 1 ELSE 0
        /\ \A i \in 1 .. Len(s) - k + 1 : c[i] = s[k + i - 1]
    BY <2>1, SubSeqProperties
  <2> QED BY <1>1, <2>2
<1>4. b \in Seq(S) /\ Len(b) = 1 /\ b[1] = t
  OBVIOUS
<1> HIDE DEF a, b, c, r
<1>5. r = a \o b \o c
  BY DEF InsertAt, a, b, c, r
<1>6. /\ (a \o b) \in Seq(S) /\ Len(a \o b) = k
      /\ \A i \in 1 .. k : (a \o b)[i] = IF i < k THEN s[i] ELSE t
  <2>1. /\ (a \o b) \in Seq(S) /\ Len(a \o b) = Len(a) + Len(b)
        /\ \A i \in 1 .. Len(a) + Len(b) :
              (a \o b)[i] = IF i <= Len(a) THEN a[i] ELSE b[i - Len(a)]
    BY <1>2, <1>4, ConcatProperties
  <2>2. ASSUME NEW i \in 1 .. k PROVE (a \o b)[i] = IF i < k THEN s[i] ELSE t
    <3>1. CASE i < k
      <4>1. i \in 1 .. k - 1 /\ i <= Len(a) /\ i \in 1 .. Len(a) + Len(b)
        BY <1>2, <1>4, <3>1
      <4> QED BY <1>2, <2>1, <3>1, <4>1
    <3>2. CASE ~(i < k)
      <4>1. i - Len(a) = 1 /\ ~(i <= Len(a)) /\ i \in 1 .. Len(a) + Len(b)
        BY <1>2, <1>4, <3>2
      <4> QED BY <1>4, <2>1, <3>2, <4>1
    <3> QED BY <3>1, <3>2
  <2> QED BY <1>2, <1>4, <2>1, <2>2
<1> DEFINE d == a \o b
<1> HIDE DEF d
<1>7. /\ r \in Seq(S) /\ Len(r) = Len(d) + Len(c)
      /\ \A i \in 1 .. Len(d) + Len(c) :
            r[i] = IF i <= Len(d) THEN d[i] ELSE c[i - Len(d)]
  <2>1. d \in Seq(S) /\ r = d \o c
    BY <1>5, <1>6 DEF d
  <2> QED BY <1>3, <2>1, ConcatProperties
<1>8. ASSUME NEW i \in 1 .. Len(s) + 1
      PROVE  r[i] = IF i < k THEN s[i] ELSE IF i = k THEN t ELSE s[i - 1]
  <2>1. i \in 1 .. Len(d) + Len(c) /\ Len(d) = k
    BY <1>1, <1>3, <1>6 DEF d
  <2>2. CASE i <= k
    <3>1. i \in 1 .. k
      BY <2>2
    <3>2. d[i] = IF i < k THEN s[i] ELSE t
      BY <1>6, <3>1 DEF d
    <3>3. r[i] = d[i]
      BY <1>7, <2>1, <2>2
    <3> QED BY <2>2, <3>2, <3>3
  <2>3. CASE ~(i <= k)
    <3>1. i - k \in 1 .. Len(s) - k + 1 /\ k + (i - k) - 1 = i - 1
      BY <1>1, <2>3
    <3> QED BY <1>3, <1>7, <2>1, <2>3, <3>1
  <2> QED BY <2>2, <2>3
<1> QED BY <1>1, <1>3, <1>6, <1>7, <1>8 DEF With, d, r

(* k is a place for the key p: those before it are not higher, those from  *)
(* it on not lower.                                                        *)
Fits(q, f, k, p) ==
    /\ k \in 1 .. Len(q) + 1
    /\ \A i \in 1 .. Len(q) : i < k => f[q[i]] <= p
    /\ \A i \in 1 .. Len(q) : i >= k => p <= f[q[i]]

(* An insertion at such a place adds one element and keeps the order.      *)
LEMMA InsertedInOrder ==
    ASSUME NEW S, NEW q, NEW A, Linked(S, q, A), NEW t \in S \ A,
           NEW f, SortedBy(q, f), NEW k, NEW g, Fits(q, f, k, g[t]),
           \A u \in A : g[u] = f[u]
    PROVE  Linked(S, InsertAt(q, k, t), A \cup {t}) /\ SortedBy(InsertAt(q, k, t), g)
<1> DEFINE n == Len(q)
           r == InsertAt(q, k, t)
<1>1. /\ q \in Seq(S) /\ n \in Nat /\ k \in 1 .. n + 1
      /\ \A i \in 1 .. n : q[i] \in S
      /\ \A u : u \in A <=> \E i \in 1 .. n : q[i] = u
      /\ \A i, j \in 1 .. n : q[i] = q[j] => i = j
  BY PlacesOf DEF Linked, Fits
<1>2. With(S, r, q, k, t)
  BY <1>1, InsertedPlace
<1> HIDE DEF r
<1>3. /\ r \in Seq(S) /\ Len(r) = n + 1
      /\ \A i \in 1 .. n + 1 :
            r[i] = IF i < k THEN q[i] ELSE IF i = k THEN t ELSE q[i - 1]
  BY <1>2 DEF With
<1> DEFINE at(i) == IF i < k THEN i ELSE i - 1
<1>4. \A i \in 1 .. n + 1 : i # k => at(i) \in 1 .. n /\ r[i] = q[at(i)]
  BY <1>1, <1>3
<1>5. r[k] = t /\ k \in 1 .. n + 1
  BY <1>1, <1>3
<1>6. ToSet(r) = A \cup {t}
  <2>1. \A u : u \in ToSet(r) <=> \E i \in 1 .. n + 1 : r[i] = u
    BY <1>3, PlacesOf
  <2>2. ASSUME NEW u \in ToSet(r) PROVE u \in A \cup {t}
    <3>1. PICK i \in 1 .. n + 1 : r[i] = u
      BY <2>1
    <3> HIDE DEF at
    <3> QED BY <1>1, <1>4, <1>5, <3>1
  <2>3. t \in ToSet(r)
    BY <1>5, <2>1
  <2>4. ASSUME NEW u \in A PROVE u \in ToSet(r)
    <3>1. PICK i \in 1 .. n : q[i] = u
      BY <1>1
    <3>2. CASE i < k
      <4>1. i \in 1 .. n + 1 /\ r[i] = u
        BY <1>1, <1>3, <3>1, <3>2
      <4> QED BY <2>1, <4>1
    <3>3. CASE ~(i < k)
      <4>1. /\ i + 1 \in 1 .. n + 1 /\ ~(i + 1 < k) /\ i + 1 # k
            /\ (i + 1) - 1 = i
        BY <1>1, <3>3
      <4>2. r[i + 1] = u
        BY <1>3, <3>1, <4>1
      <4> QED BY <2>1, <4>1, <4>2
    <3> QED BY <3>2, <3>3
  <2> QED BY <2>2, <2>3, <2>4
<1>7. ASSUME NEW i \in 1 .. n + 1, NEW j \in 1 .. n + 1, r[i] = r[j] PROVE i = j
  <2>1. \A x \in 1 .. n + 1 : x # k => r[x] \in A
    <3> HIDE DEF at
    <3> QED BY <1>1, <1>4
  <2>2. CASE i = k \/ j = k
    BY <1>5, <1>7, <2>1, <2>2
  <2>3. CASE i # k /\ j # k
    <3>1. at(i) = at(j)
      <4> HIDE DEF at
      <4> QED BY <1>1, <1>4, <1>7, <2>3
    <3> QED BY <1>1, <2>3, <3>1
  <2> QED BY <2>2, <2>3
<1>8. Linked(S, r, A \cup {t})
  BY <1>3, <1>6, <1>7, PlacesOf DEF Linked
<1>9. ASSUME NEW i \in 1 .. n + 1, NEW j \in 1 .. n + 1, i < j
      PROVE  g[r[i]] <= g[r[j]]
  <2>1. /\ \A x \in 1 .. n : g[q[x]] = f[q[x]]
        /\ \A x \in 1 .. n : x < k => f[q[x]] <= g[t]
        /\ \A x \in 1 .. n : x >= k => g[t] <= f[q[x]]
    BY <1>1 DEF Fits
  <2>2. CASE i = k
    <3>1. at(j) \in 1 .. n /\ at(j) >= k /\ r[j] = q[at(j)] /\ r[i] = t
      BY <1>1, <1>4, <1>5, <1>9, <2>2
    <3> QED BY <2>1, <3>1
  <2>3. CASE j = k
    <3>1. i \in 1 .. n /\ i < k /\ r[i] = q[i] /\ r[j] = t
      BY <1>1, <1>3, <1>5, <1>9, <2>3
    <3> QED BY <2>1, <3>1
  <2>4. CASE i # k /\ j # k
    <3>1. at(i) \in 1 .. n /\ at(j) \in 1 .. n /\ at(i) < at(j)
      BY <1>1, <1>9, <2>4
    <3>2. r[i] = q[at(i)] /\ r[j] = q[at(j)]
      BY <1>4, <2>4
    <3>3. f[q[at(i)]] <= f[q[at(j)]]
      BY <1>9, <3>1 DEF SortedBy
    <3> HIDE DEF at
    <3> QED BY <2>1, <3>1, <3>2, <3>3
  <2> QED BY <2>2, <2>3, <2>4
<1> QED BY <1>3, <1>8, <1>9 DEF SortedBy, r

(* A set of places that has all the places before its elements is made of  *)
(* the first ones.                                                         *)
LEMMA FirstPlaces ==
    ASSUME NEW n \in Nat, NEW T \in SUBSET (1 .. n),
           \A i \in T : \A j \in 1 .. i : j \in T
    PROVE  Cardinality(T) \in 0 .. n /\ T = 1 .. Cardinality(T)
<1>1. CASE T = {}
  <2>1. Cardinality(T) = 0
    BY <1>1, FS_EmptySet
  <2> QED BY <1>1, <2>1
<1>2. CASE T # {}
  <2>1. T \in SUBSET (0 .. n)
    OBVIOUS
  <2>2. PICK m : m \in T /\ \A i \in T : i <= m
    BY <1>2, <2>1, GreatestElement
  <2>3. m \in 1 .. n /\ T \subseteq 1 .. m
    <3>1. m \in 1 .. n /\ \A i \in T : i \in 1 .. n /\ i <= m
      BY <2>2
    <3> QED BY <3>1
  <2>4. 1 .. m \subseteq T
    BY <2>2
  <2>5. T = 1 .. m
    BY <2>3, <2>4
  <2>6. Cardinality(1 .. m) = m
    BY <2>3, FS_Interval
  <2> QED BY <2>3, <2>5, <2>6
<1> QED BY <1>1, <1>2

(* The place behind the first elements whose keys are not higher than p    *)
KeyPlace(q, f, p) == Cardinality({i \in DOMAIN q : \A j \in 1 .. i : f[q[j]] <= p}) + 1

LEMMA KeyedInsertion ==
    ASSUME NEW S, NEW q, NEW A, Linked(S, q, A), NEW t \in S \ A,
           NEW f, SortedBy(q, f), \A u \in S : f[u] \in Nat,
           NEW p \in Nat, NEW g, g[t] = p, \A u \in A : g[u] = f[u],
           NEW r, r = InsertAt(q, KeyPlace(q, f, p), t)
    PROVE  Linked(S, r, A \cup {t}) /\ SortedBy(r, g)
<1> DEFINE n == Len(q)
           T == {i \in DOMAIN q : \A j \in 1 .. i : f[q[j]] <= p}
           m == Cardinality(T)
<1>1. /\ q \in Seq(S) /\ n \in Nat /\ DOMAIN q = 1 .. n
      /\ \A i \in 1 .. n : f[q[i]] \in Nat
  BY PlacesOf DEF Linked
<1>2. m \in 0 .. n /\ T = 1 .. m
  <2>1. T \in SUBSET (1 .. n)
    BY <1>1
  <2>2. ASSUME NEW i \in T, NEW j \in 1 .. i PROVE j \in T
    <3>1. j \in 1 .. n /\ \A x \in 1 .. j : x \in 1 .. i
      BY <1>1
    <3> QED BY <1>1, <3>1
  <2> HIDE DEF T
  <2> QED BY <1>1, <2>1, <2>2, FirstPlaces
<1>3. r = InsertAt(q, m + 1, t) /\ m + 1 \in 1 .. n + 1
  BY <1>1, <1>2 DEF KeyPlace
<1>4. ASSUME NEW i \in 1 .. n, i < m + 1 PROVE f[q[i]] <= p
  <2>1. i \in 1 .. m
    BY <1>1, <1>2, <1>4
  <2>2. i \in T
    <3> HIDE DEF T, m
    <3> QED BY <1>2, <2>1
  <2>3. i \in 1 .. i
    BY <1>1
  <2> QED BY <2>2, <2>3
<1>5. ASSUME NEW i \in 1 .. n, i >= m + 1 PROVE p <= f[q[i]]
  <2>1. m + 1 \in 1 .. n /\ m + 1 \notin T
    <3> HIDE DEF T, m
    <3> QED BY <1>1, <1>2, <1>5
  <2>2. PICK j \in 1 .. m + 1 : ~(f[q[j]] <= p)
    BY <1>1, <2>1
  <2>3. j \in 1 .. n /\ (j < i \/ j = i)
    BY <1>1, <1>2, <1>5, <2>1
  <2>4. f[q[j]] <= f[q[i]] \/ j = i
    BY <2>3 DEF SortedBy
  <2> HIDE DEF T, m, n
  <2>5. f[q[j]] \in Nat /\ f[q[i]] \in Nat
    BY <1>1, <2>3
  <2> QED BY <2>2, <2>4, <2>5
<1> HIDE DEF T, m
<1> DEFINE k == m + 1
<1>6. Fits(q, f, k, g[t]) /\ r = InsertAt(q, k, t)
  BY <1>3, <1>4, <1>5 DEF Fits
<1> HIDE DEF k, n
<1> QED BY <1>6, InsertedInOrder

(* A queue stays in order without its head, *)
LEMMA TailInOrder ==
    ASSUME NEW S, NEW q \in Seq(S), q # <<>>, NEW f, SortedBy(q, f)
    PROVE  SortedBy(Tail(q), f)
<1>1. /\ Len(q) \in Nat \ {0} /\ Len(Tail(q)) = Len(q) - 1
      /\ \A i \in 1 .. Len(Tail(q)) : Tail(q)[i] = q[i + 1]
  BY HeadTailProperties, PlacesOf
<1> DEFINE r == Tail(q)
<1> HIDE DEF r
<1>2. ASSUME NEW i \in 1 .. Len(r), NEW j \in 1 .. Len(r), i < j
      PROVE  f[r[i]] <= f[r[j]]
  <2>1. i + 1 \in 1 .. Len(q) /\ j + 1 \in 1 .. Len(q) /\ i + 1 < j + 1
    BY <1>1, <1>2 DEF r
  <2>2. r[i] = q[i + 1] /\ r[j] = q[j + 1]
    BY <1>1 DEF r
  <2> QED BY <2>1, <2>2 DEF SortedBy
<1> QED BY <1>2 DEF SortedBy, r

(* and without any other element, whatever becomes of that one's key.      *)
LEMMA RemoveInOrder ==
    ASSUME NEW S, NEW q, NEW A, Linked(S, q, A), NEW t
    PROVE  /\ Linked(S, RemoveFirst(q, t), A \ {t})
           /\ \A f, g : SortedBy(q, f) /\ (\A u \in A \ {t} : g[u] = f[u])
                        => SortedBy(RemoveFirst(q, t), g)
<1> DEFINE r == RemoveFirst(q, t)
<1>1. /\ q \in Seq(S) /\ Len(q) \in Nat
      /\ \A u : u \in A <=> \E i \in 1 .. Len(q) : q[i] = u
  BY PlacesOf DEF Linked
<1>2. CASE t \notin A
  <2>1. r = q /\ A \ {t} = A
    BY <1>1, <1>2 DEF RemoveFirst
  <2> HIDE DEF r
  <2>2. ASSUME NEW f, NEW g, SortedBy(q, f), \A u \in A : g[u] = f[u]
        PROVE  SortedBy(q, g)
    <3>1. \A i \in 1 .. Len(q) : g[q[i]] = f[q[i]]
      BY <1>1, <2>2
    <3> QED BY <2>2, <3>1 DEF SortedBy
  <2> QED BY <2>1, <2>2 DEF r
<1>3. CASE t \in A
  <2>1. Linked(S, r, A \ {t})
    BY <1>3, RemoveLinked
  <2>2. PICK k \in 1 .. Len(q) : q[k] = t /\ Without(S, r, q, k)
    BY <1>3, RemovedPlace
  <2> HIDE DEF r
  <2>3. /\ Len(r) = Len(q) - 1 /\ \A u : u \in A \ {t} <=> \E i \in 1 .. Len(r) : r[i] = u
        /\ \A i \in 1 .. Len(q) - 1 : r[i] = IF i < k THEN q[i] ELSE q[i + 1]
    BY <2>1, <2>2, PlacesOf DEF Linked, Without
  <2>4. ASSUME NEW f, NEW g, SortedBy(q, f), \A u \in A \ {t} : g[u] = f[u],
               NEW i \in 1 .. Len(r), NEW j \in 1 .. Len(r), i < j
        PROVE  g[r[i]] <= g[r[j]]
    <3> DEFINE up(x) == IF x < k THEN x ELSE x + 1
    <3>1. up(i) \in 1 .. Len(q) /\ up(j) \in 1 .. Len(q) /\ up(i) < up(j)
      BY <1>1, <2>3, <2>4
    <3>2. r[i] = q[up(i)] /\ r[j] = q[up(j)]
      BY <2>3
    <3>3. g[r[i]] = f[r[i]] /\ g[r[j]] = f[r[j]]
      BY <2>3, <2>4
    <3>4. f[q[up(i)]] <= f[q[up(j)]]
      BY <2>4, <3>1 DEF SortedBy
    <3> QED BY <3>2, <3>3, <3>4
  <2> QED BY <2>1, <2>4 DEF SortedBy, r
<1> QED BY <1>2, <1>3

(* The head of a queue has the lowest key. *)
LEMMA LowestFirst ==
    ASSUME NEW S, NEW q, NEW A, Linked(S, q, A), q # <<>>, NEW f, SortedBy(q, f)
    PROVE  \A u \in A : u = Head(q) \/ f[Head(q)] <= f[u]
<1>1. /\ Len(q) \in Nat \ {0} /\ Head(q) = q[1]
      /\ \A u : u \in A <=> \E i \in 1 .. Len(q) : q[i] = u
  BY PlacesOf DEF Linked
<1>2. ASSUME NEW u \in A PROVE u = q[1] \/ f[q[1]] <= f[u]
  <2>1. PICK i \in 1 .. Len(q) : q[i] = u
    BY <1>1
  <2>2. i = 1 \/ (1 \in 1 .. Len(q) /\ 1 < i)
    BY <1>1
  <2> QED BY <2>1, <2>2 DEF SortedBy
<1> QED BY <1>1, <1>2

(* A queue by priority puts an element before the head only if its key is  *)
(* the lower one.                                                          *)
LEMMA KeyedHead ==
    ASSUME NEW S, NEW q \in Seq(S), NEW t \in S, NEW f, NEW p,
           NEW r, r = InsertAt(q, KeyPlace(q, f, p), t)
    PROVE  /\ q = <<>> => r[1] = t
           /\ q # <<>> => r[1] = IF f[q[1]] <= p THEN q[1] ELSE t
<1> DEFINE n == Len(q)
           T == {i \in DOMAIN q : \A j \in 1 .. i : f[q[j]] <= p}
           m == Cardinality(T)
<1>1. n \in Nat /\ DOMAIN q = 1 .. n /\ q = <<>> <=> n = 0
  BY PlacesOf
<1>2. m \in 0 .. n /\ T = 1 .. m
  <2>1. T \in SUBSET (1 .. n)
    BY <1>1
  <2>2. ASSUME NEW i \in T, NEW j \in 1 .. i PROVE j \in T
    <3>1. j \in 1 .. n /\ \A x \in 1 .. j : x \in 1 .. i
      BY <1>1
    <3> QED BY <1>1, <3>1
  <2> HIDE DEF T
  <2> QED BY <1>1, <2>1, <2>2, FirstPlaces
<1>3. q # <<>> => (1 \in T <=> f[q[1]] <= p)
  BY <1>1
<1>4. r = InsertAt(q, m + 1, t)
  BY DEF KeyPlace
<1> HIDE DEF T, m
<1>5. With(S, r, q, m + 1, t)
  BY <1>1, <1>2, <1>4, InsertedPlace
<1>6. r[1] = IF 1 < m + 1 THEN q[1] ELSE t
  BY <1>1, <1>2, <1>5 DEF With
<1> QED BY <1>1, <1>2, <1>3, <1>6

-----------------------------------------------------------------------------
(* r has elements of q in an order that each order of q by a key implies.  *)
InOrderOf(q, r) == \A f : SortedBy(q, f) => SortedBy(r, f)

(* t has its place before that of u. *)
Before(q, t, u) == \E i, j \in 1 .. Len(q) : i < j /\ q[i] = t /\ q[j] = u

(* The places of a queue are a key that it is in order of.                 *)
LEMMA OrderOfPlaces ==
    ASSUME NEW S, NEW q, NEW A, Linked(S, q, A)
    PROVE  \E f : SortedBy(q, f) /\ \A i \in 1 .. Len(q) : f[q[i]] = i
<1>1. /\ Len(q) \in Nat /\ \A i, j \in 1 .. Len(q) : q[i] = q[j] => i = j
      /\ \A u : u \in A <=> \E i \in 1 .. Len(q) : q[i] = u
  BY PlacesOf DEF Linked
<1> DEFINE f == [u \in A |-> CHOOSE i \in 1 .. Len(q) : q[i] = u]
<1>2. ASSUME NEW i \in 1 .. Len(q) PROVE f[q[i]] = i
  <2>1. q[i] \in A /\ f[q[i]] = CHOOSE j \in 1 .. Len(q) : q[j] = q[i]
    BY <1>1
  <2>2. \A j \in 1 .. Len(q) : q[j] = q[i] <=> j = i
    BY <1>1
  <2> HIDE DEF f
  <2> QED BY <2>1, <2>2
<1> HIDE DEF f
<1>3. SortedBy(q, f)
  BY <1>1, <1>2 DEF SortedBy
<1> QED BY <1>2, <1>3

(* A loop of n rounds over a queue, each of which takes the state that the *)
(* one before left, is a function of the round.                            *)
IsLoop(f, n, c, step) ==
    f = [i \in 0 .. n |-> IF i = 0 THEN c ELSE step[i][f[i - 1]]]

LEMMA Rounds ==
    ASSUME NEW n \in Nat, NEW S, NEW c \in S, NEW step \in [1 .. n -> [S -> S]]
    PROVE  \E f \in [0 .. n -> S] : IsLoop(f, n, c, step)
<1> DEFINE Loop(m, f) == IsLoop(f, m, c, step)
           T == {m \in Nat : m <= n => \E f \in [0 .. m -> S] : Loop(m, f)}
<1>1. 0 \in T
  <2> DEFINE f == [i \in 0 .. 0 |-> c]
  <2>1. f \in [0 .. 0 -> S] /\ Loop(0, f)
    BY DEF IsLoop
  <2> QED BY <2>1
<1>2. ASSUME NEW m \in Nat, m \in T PROVE m + 1 \in T
  <2> SUFFICES ASSUME m + 1 <= n
               PROVE  \E f \in [0 .. m + 1 -> S] : Loop(m + 1, f)
    OBVIOUS
  <2>1. PICK f \in [0 .. m -> S] : Loop(m, f)
    BY <1>2
  <2> DEFINE last == step[m + 1][f[m]]
             g == [i \in 0 .. m + 1 |-> IF i = m + 1 THEN last ELSE f[i]]
  <2>2. last \in S
    OBVIOUS
  <2>3. g \in [0 .. m + 1 -> S]
    <3> HIDE DEF last
    <3> QED BY <2>2
  <2>4. ASSUME NEW i \in 0 .. m + 1
        PROVE  g[i] = IF i = 0 THEN c ELSE step[i][g[i - 1]]
    <3>1. CASE i = 0
      BY <2>1, <3>1 DEF IsLoop
    <3>2. CASE i \in 1 .. m
      <4>1. g[i] = f[i] /\ g[i - 1] = f[i - 1] /\ i \in 0 .. m /\ i # 0
        BY <3>2
      <4> HIDE DEF g
      <4> QED BY <2>1, <4>1 DEF IsLoop
    <3>3. CASE i = m + 1
      <4>1. g[i] = last /\ g[i - 1] = f[m] /\ i # 0
        BY <3>3
      <4> HIDE DEF g
      <4> QED BY <3>3, <4>1
    <3> QED BY <3>1, <3>2, <3>3
  <2>5. Loop(m + 1, g)
    <3> DEFINE h == [i \in 0 .. m + 1 |-> IF i = 0 THEN c ELSE step[i][g[i - 1]]]
    <3>1. g \in [0 .. m + 1 -> S] /\ \A i \in 0 .. m + 1 : g[i] = h[i]
      BY <2>3, <2>4
    <3>2. g = h
      <4>1. g = [i \in 0 .. m + 1 |-> g[i]]
        BY <2>3
      <4> HIDE DEF g
      <4> QED BY <2>4, <4>1
    <3> HIDE DEF g
    <3> QED BY <3>2 DEF IsLoop
  <2> HIDE DEF g, Loop
  <2> QED BY <2>3, <2>5
<1>3. n \in T
  <2> HIDE DEF T
  <2> QED BY <1>1, <1>2, Induction
<1> QED BY <1>3
=============================================================================
