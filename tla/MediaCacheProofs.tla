--------------------------- MODULE MediaCacheProofs ---------------------------
(***************************************************************************)
(* Theorems about MediaCache.                                              *)
(***************************************************************************)
EXTENDS MediaCache, TLAPS, FiniteSetTheorems, SequenceTheorems, WellFoundedInduction

Lengths == [Keys -> 0..MaxEntry]

-----------------------------------------------------------------------------
(* Sums of lengths *)

Bytes(ks, length) == {b \in ks \X (1..MaxEntry) : b[2] <= length[b[1]]}

LEMMA BytesFinite ==
  ASSUME NEW ks, IsFiniteSet(ks), NEW length
  PROVE  IsFiniteSet(Bytes(ks, length)) /\ Total(ks, length) \in Nat
  <1>1. IsFiniteSet(1..MaxEntry)
    BY FS_Interval, BudgetsAssumption
  <1>2. IsFiniteSet(ks \X (1..MaxEntry))
    BY <1>1, FS_Product
  <1>3. Bytes(ks, length) \in SUBSET (ks \X (1..MaxEntry))
    BY DEF Bytes
  <1>4. IsFiniteSet(Bytes(ks, length))
    BY <1>2, <1>3, FS_Subset
  <1> QED BY <1>4, FS_CardinalityType DEF Total, Bytes

LEMMA EmptyTotal == \A length : Total({}, length) = 0
  <1> SUFFICES ASSUME NEW length PROVE Total({}, length) = 0
    OBVIOUS
  <1>1. Bytes({}, length) = {}
    BY DEF Bytes
  <1> QED BY <1>1, FS_EmptySet DEF Total, Bytes

LEMMA SumOfTotals ==
  ASSUME NEW ks, NEW js, IsFiniteSet(ks), IsFiniteSet(js), ks \cap js = {}, NEW length
  PROVE  Total(ks \cup js, length) = Total(ks, length) + Total(js, length)
  <1>1. Bytes(ks \cup js, length) = Bytes(ks, length) \cup Bytes(js, length)
    BY DEF Bytes
  <1>2. Bytes(ks, length) \cap Bytes(js, length) = {}
    <2> SUFFICES ASSUME NEW b \in Bytes(ks, length), b \in Bytes(js, length) PROVE FALSE
      OBVIOUS
    <2>1. b[1] \in ks /\ b[1] \in js
      BY DEF Bytes
    <2> QED BY <2>1
  <1>3. IsFiniteSet(Bytes(ks, length)) /\ IsFiniteSet(Bytes(js, length))
        /\ Total(ks, length) \in Nat /\ Total(js, length) \in Nat
    BY BytesFinite
  <1>4. Cardinality(Bytes(ks \cup js, length))
          = Cardinality(Bytes(ks, length)) + Cardinality(Bytes(js, length)) - Cardinality({})
    <2> DEFINE A == Bytes(ks, length)
               B == Bytes(js, length)
    <2>1. Cardinality(A \cup B) = Cardinality(A) + Cardinality(B) - Cardinality(A \cap B)
      <3> HIDE DEF A, B
      <3>1. IsFiniteSet(A) /\ IsFiniteSet(B)
        BY <1>3 DEF A, B
      <3> QED BY <3>1, FS_Union
    <2> QED BY <1>1, <1>2, <2>1
  <1>5. Cardinality({}) = 0
    BY FS_EmptySet
  <1> QED BY <1>3, <1>4, <1>5 DEF Total, Bytes

LEMMA TotalOfOne ==
  ASSUME NEW k \in Keys, NEW length \in Lengths
  PROVE  Total({k}, length) = length[k]
  <1> DEFINE n == length[k]
             f == [i \in 1..n |-> <<k, i>>]
  <1>1. n \in 0..MaxEntry /\ n \in Nat
    BY BudgetsAssumption DEF Lengths
  <1>2. IsFiniteSet(1..n) /\ Cardinality(1..n) = n
    BY <1>1, FS_Interval, SMTT(20)
  <1>3. f \in [1..n -> Bytes({k}, length)]
    <2>1. \A i \in 1..n : i \in 1..MaxEntry
      BY <1>1, BudgetsAssumption
    <2> QED BY <2>1 DEF Bytes
  <1>4. \A b \in Bytes({k}, length) : \E i \in 1..n : f[i] = b
    <2> SUFFICES ASSUME NEW b \in Bytes({k}, length) PROVE \E i \in 1..n : f[i] = b
      OBVIOUS
    <2>1. b[1] = k /\ b[2] \in 1..MaxEntry /\ b[2] <= n /\ b = <<b[1], b[2]>>
      BY DEF Bytes
    <2>2. b[2] \in 1..n
      BY <1>1, <2>1, BudgetsAssumption
    <2> QED BY <2>1, <2>2
  <1>5. \A i, j \in 1..n : f[i] = f[j] => i = j
    OBVIOUS
  <1>6. f \in Bijection(1..n, Bytes({k}, length))
    <2> HIDE DEF f
    <2> QED BY <1>3, <1>4, <1>5 DEF Bijection, Injection, Surjection, IsInjective
  <1>7. ExistsBijection(1..n, Bytes({k}, length))
    BY <1>6 DEF ExistsBijection
  <1> QED BY <1>2, <1>7, FS_Bijection DEF Total, Bytes

LEMMA TotalsAlike ==
  ASSUME NEW ks, NEW l1, NEW l2, \A k \in ks : l1[k] = l2[k]
  PROVE  Total(ks, l1) = Total(ks, l2)
  <1>1. Bytes(ks, l1) = Bytes(ks, l2)
    BY DEF Bytes
  <1> QED BY <1>1 DEF Total, Bytes

-----------------------------------------------------------------------------
(* Queues *)

Queue(q) == q \in Seq(Keys) /\ IsInjective(q)

LEMMA QueueIs ==
  ASSUME NEW q, Queue(q)
  PROVE  /\ Len(q) \in Nat /\ DOMAIN q = 1..Len(q)
         /\ \A i \in 1..Len(q) : q[i] \in Keys
         /\ \A i, j \in 1..Len(q) : q[i] = q[j] => i = j
         /\ Range(q) \in SUBSET Keys /\ IsFiniteSet(Range(q))
         /\ \A k : k \in Range(q) <=> \E i \in 1..Len(q) : q[i] = k
  <1>1. Len(q) \in Nat /\ DOMAIN q = 1..Len(q) /\ q \in [1..Len(q) -> Keys]
    BY LenProperties DEF Queue
  <1>2. Range(q) = {q[i] : i \in 1..Len(q)}
    BY <1>1 DEF Range
  <1>3. q \in Surjection(1..Len(q), Range(q))
    BY <1>1, <1>2 DEF Surjection
  <1>4. IsFiniteSet(1..Len(q))
    BY <1>1, FS_Interval
  <1>5. IsFiniteSet(Range(q))
    BY <1>3, <1>4, FS_Surjection
  <1> QED BY <1>1, <1>2, <1>5 DEF Queue, IsInjective

\* What is ahead of what in r is so in q.
Orderly(r, q) ==
  \A i, j \in 1..Len(r) :
    i < j => \E x, y \in 1..Len(q) : x < y /\ q[x] = r[i] /\ q[y] = r[j]

LEMMA WithoutIs ==
  ASSUME NEW q, Queue(q), NEW k
  PROVE  /\ Queue(Without(q, k)) /\ Range(Without(q, k)) = Range(q) \ {k}
         /\ Orderly(Without(q, k), q)
  <1> DEFINE w == Without(q, k)
  <1>0. /\ Len(q) \in Nat /\ DOMAIN q = 1..Len(q)
        /\ \A i \in 1..Len(q) : q[i] \in Keys
        /\ \A i, j \in 1..Len(q) : q[i] = q[j] => i = j
        /\ \A j : j \in Range(q) <=> \E i \in 1..Len(q) : q[i] = j
    BY QueueIs
  <1>1. CASE k \notin Range(q)
    BY <1>0, <1>1 DEF Without, Orderly
  <1>2. CASE k \in Range(q)
    <2>1. PICK p \in 1..Len(q) : q[p] = k
      BY <1>0, <1>2
    <2>2. ASSUME NEW i \in 1..(Len(q) - 1)
          PROVE  k \in Range(SubSeq(q, 1, i)) <=> p <= i
      <3>1. /\ Len(SubSeq(q, 1, i)) = i /\ SubSeq(q, 1, i) \in Seq(Keys)
            /\ \A j \in 1..i : SubSeq(q, 1, i)[j] = q[j]
        BY <1>0, SubSeqProperties
      <3>2. DOMAIN SubSeq(q, 1, i) = 1..i
        BY <3>1, LenProperties
      <3>3. k \in Range(SubSeq(q, 1, i)) <=> \E j \in 1..i : q[j] = k
        BY <3>1, <3>2 DEF Range
      <3> QED BY <1>0, <2>1, <3>3
    <2>3. w = [i \in 1..(Len(q) - 1) |-> IF p <= i THEN q[i + 1] ELSE q[i]]
      BY <1>2, <2>2 DEF Without
    <2>4. Len(q) - 1 \in Nat
      BY <1>0, <2>1
    <2>5. /\ w \in Seq(Keys) /\ Len(w) = Len(q) - 1 /\ DOMAIN w = 1..(Len(q) - 1)
          /\ \A i \in 1..(Len(q) - 1) : w[i] = IF p <= i THEN q[i + 1] ELSE q[i]
      <3>1. \A i \in 1..(Len(q) - 1) : (IF p <= i THEN q[i + 1] ELSE q[i]) \in Keys
        BY <1>0
      <3>2. w \in [1..(Len(q) - 1) -> Keys]
        BY <2>3, <3>1
      <3>3. w \in Seq(Keys)
        BY <2>4, <3>2, SeqDef
      <3>4. Len(w) = Len(q) - 1
        BY <2>4, <3>2, <3>3, LenProperties
      <3> QED BY <2>3, <3>3, <3>4
    <2> HIDE DEF w
    <2>6. \A i, j \in 1..Len(w) : w[i] = w[j] => i = j
      BY <1>0, <2>5
    <2>7. Queue(w)
      BY <2>5, <2>6 DEF Queue, IsInjective
    <2>8. Range(w) = Range(q) \ {k}
      <3>1. ASSUME NEW i \in 1..Len(w) PROVE w[i] \in Range(q) \ {k}
        <4>1. (w[i] = q[i] /\ i < p) \/ (w[i] = q[i + 1] /\ i + 1 > p)
          BY <1>0, <2>5
        <4> QED BY <1>0, <2>1, <2>5, <4>1
      <3>2. ASSUME NEW j \in Range(q) \ {k} PROVE \E i \in 1..Len(w) : w[i] = j
        <4>1. PICK x \in 1..Len(q) : q[x] = j
          BY <1>0
        <4>2. x # p
          BY <2>1, <4>1
        <4>3. CASE x < p
          <5>1. x \in 1..Len(w) /\ w[x] = q[x]
            BY <1>0, <2>5, <4>3
          <5> QED BY <4>1, <5>1
        <4>4. CASE x > p
          <5>1. x - 1 \in 1..Len(w) /\ w[x - 1] = q[(x - 1) + 1] /\ (x - 1) + 1 = x
            BY <1>0, <2>5, <4>4
          <5> QED BY <4>1, <5>1
        <4> QED BY <1>0, <4>2, <4>3, <4>4
      <3> QED BY <2>7, <3>1, <3>2, QueueIs
    <2>9. Orderly(w, q)
      <3> SUFFICES ASSUME NEW i \in 1..Len(w), NEW j \in 1..Len(w), i < j
                   PROVE  \E x, y \in 1..Len(q) : x < y /\ q[x] = w[i] /\ q[y] = w[j]
        BY DEF Orderly
      <3> DEFINE x == IF p <= i THEN i + 1 ELSE i
                 y == IF p <= j THEN j + 1 ELSE j
      <3>1. x \in 1..Len(q) /\ y \in 1..Len(q) /\ x < y
        BY <1>0, <2>5
      <3>2. q[x] = w[i] /\ q[y] = w[j]
        BY <2>5
      <3> HIDE DEF x, y
      <3> QED BY <3>1, <3>2
    <2> QED BY <2>7, <2>8, <2>9 DEF w
  <1> QED BY <1>1, <1>2

LEMMA AppendIs ==
  ASSUME NEW q, Queue(q), NEW k \in Keys, k \notin Range(q)
  PROVE  /\ Queue(Append(q, k)) /\ Range(Append(q, k)) = Range(q) \cup {k}
         /\ Len(Append(q, k)) = Len(q) + 1 /\ Append(q, k)[Len(q) + 1] = k
         /\ \A i \in 1..Len(q) : Append(q, k)[i] = q[i]
  <1> DEFINE a == Append(q, k)
  <1>0. /\ Len(q) \in Nat /\ q \in Seq(Keys)
        /\ \A i, j \in 1..Len(q) : q[i] = q[j] => i = j
        /\ \A j : j \in Range(q) <=> \E i \in 1..Len(q) : q[i] = j
    BY QueueIs DEF Queue
  <1>1. /\ a \in Seq(Keys) /\ Len(a) = Len(q) + 1 /\ a[Len(q) + 1] = k
        /\ \A i \in 1..Len(q) : a[i] = q[i]
    BY <1>0, AppendProperties
  <1>2. DOMAIN a = 1..(Len(q) + 1)
    BY <1>1, LenProperties
  <1> HIDE DEF a
  <1>3. \A i, j \in 1..(Len(q) + 1) : a[i] = a[j] => i = j
    BY <1>0, <1>1
  <1>4. Queue(a)
    BY <1>1, <1>2, <1>3 DEF Queue, IsInjective
  <1>5. \A j : j \in Range(a) <=> j \in Range(q) \/ j = k
    BY <1>0, <1>1, <1>4, QueueIs
  <1> QED BY <1>1, <1>4, <1>5 DEF a

LEMMA CutIs ==
  ASSUME NEW q, Queue(q), NEW n \in 0..Len(q)
  PROVE  LET a == SubSeq(q, 1, n)
             b == SubSeq(q, n + 1, Len(q))
         IN  /\ Queue(a) /\ Queue(b) /\ Len(a) = n /\ Len(b) = Len(q) - n
             /\ \A i \in 1..n : a[i] = q[i]
             /\ \A i \in 1..(Len(q) - n) : b[i] = q[n + i]
             /\ Range(a) \cup Range(b) = Range(q) /\ Range(a) \cap Range(b) = {}
  <1> DEFINE a == SubSeq(q, 1, n)
             b == SubSeq(q, n + 1, Len(q))
  <1>0. /\ Len(q) \in Nat /\ q \in Seq(Keys) /\ n \in Nat
        /\ \A i \in 1..Len(q) : q[i] \in Keys
        /\ \A i, j \in 1..Len(q) : q[i] = q[j] => i = j
        /\ \A j : j \in Range(q) <=> \E i \in 1..Len(q) : q[i] = j
    BY QueueIs DEF Queue
  <1>1. a \in Seq(Keys) /\ Len(a) = n /\ \A i \in 1..n : a[i] = q[i]
    BY <1>0, SubSeqProperties
  <1>2. /\ b \in Seq(Keys) /\ Len(b) = Len(q) - n
        /\ \A i \in 1..(Len(q) - n) : b[i] = q[n + i]
    <2>1. \A i \in (n + 1)..Len(q) : q[i] \in Keys
      BY <1>0
    <2>2. /\ b \in Seq(Keys)
          /\ Len(b) = IF n + 1 <= Len(q) THEN Len(q) - (n + 1) + 1 ELSE 0
          /\ \A i \in 1..(Len(q) - (n + 1) + 1) : b[i] = q[(n + 1) + i - 1]
      BY <1>0, <2>1, SubSeqProperties
    <2>3. Len(b) = Len(q) - n
      <3>1. (n + 1 <= Len(q)) \/ n = Len(q)
        BY <1>0
      <3> QED BY <1>0, <2>2, <3>1
    <2>4. ASSUME NEW i \in 1..(Len(q) - n) PROVE b[i] = q[n + i]
      <3>1. i \in 1..(Len(q) - (n + 1) + 1) /\ (n + 1) + i - 1 = n + i
        BY <1>0
      <3> QED BY <2>2, <3>1
    <2> QED BY <2>2, <2>3, <2>4
  <1> HIDE DEF a, b
  <1>3. Queue(a)
    BY <1>0, <1>1, LenProperties DEF Queue, IsInjective
  <1>4. Queue(b)
    <2>1. DOMAIN b = 1..(Len(q) - n)
      BY <1>2, LenProperties
    <2>2. ASSUME NEW i \in 1..(Len(q) - n), NEW j \in 1..(Len(q) - n), b[i] = b[j] PROVE i = j
      <3>1. n + i \in 1..Len(q) /\ n + j \in 1..Len(q) /\ q[n + i] = q[n + j]
        BY <1>0, <1>2, <2>2
      <3>2. n + i = n + j
        BY <1>0, <3>1
      <3> QED BY <1>0, <3>2
    <2> QED BY <1>2, <2>1, <2>2 DEF Queue, IsInjective
  <1>5. \A k : k \in Range(a) <=> \E i \in 1..n : q[i] = k
    BY <1>1, <1>3, QueueIs
  <1>6. ASSUME NEW k PROVE k \in Range(b) <=> \E i \in (n + 1)..Len(q) : q[i] = k
    <2>1. k \in Range(b) <=> \E i \in 1..(Len(q) - n) : q[n + i] = k
      <3>1. k \in Range(b) <=> \E i \in 1..Len(b) : b[i] = k
        BY <1>4, QueueIs
      <3> QED BY <1>2, <3>1
    <2>2. \A i \in 1..(Len(q) - n) : n + i \in (n + 1)..Len(q)
      BY <1>0
    <2>3. \A i \in (n + 1)..Len(q) : i - n \in 1..(Len(q) - n) /\ n + (i - n) = i
      BY <1>0
    <2> QED BY <2>1, <2>2, <2>3
  <1>7. Range(a) \cup Range(b) = Range(q)
    <2>1. \A i \in 1..Len(q) : i \in 1..n \/ i \in (n + 1)..Len(q)
      BY <1>0
    <2>2. \A i \in 1..n : i \in 1..Len(q)
      BY <1>0
    <2>3. \A i \in (n + 1)..Len(q) : i \in 1..Len(q)
      BY <1>0
    <2> QED BY <1>0, <1>5, <1>6, <2>1, <2>2, <2>3
  <1>8. Range(a) \cap Range(b) = {}
    <2> SUFFICES ASSUME NEW k \in Range(a), k \in Range(b) PROVE FALSE
      OBVIOUS
    <2>1. PICK i \in 1..n : q[i] = k
      BY <1>5
    <2>2. PICK j \in (n + 1)..Len(q) : q[j] = k
      BY <1>6
    <2>3. i \in 1..Len(q) /\ j \in 1..Len(q) /\ i # j
      BY <1>0
    <2> QED BY <1>0, <2>1, <2>2, <2>3
  <1> QED BY <1>1, <1>2, <1>3, <1>4, <1>7, <1>8 DEF a, b

LEMMA LastIs ==
  ASSUME NEW q, Queue(q), Len(q) # 0
  PROVE  LET a == SubSeq(q, 1, Len(q) - 1)
         IN  /\ Queue(a) /\ Range(q) = Range(a) \cup {q[Len(q)]}
             /\ Range(a) \cap {q[Len(q)]} = {}
  <1> DEFINE m == Len(q) - 1
             a == SubSeq(q, 1, m)
  <1>1. /\ Len(q) \in Nat /\ m \in 0..Len(q) /\ m + 1 = Len(q)
        /\ \A i, j \in 1..Len(q) : q[i] = q[j] => i = j
        /\ \A j : j \in Range(q) <=> \E i \in 1..Len(q) : q[i] = j
    BY QueueIs
  <1>2. Queue(a) /\ Len(a) = m /\ \A i \in 1..m : a[i] = q[i]
    <2> HIDE DEF m
    <2> QED BY <1>1, CutIs
  <1> HIDE DEF a, m
  <1>3. \A j : j \in Range(a) <=> \E i \in 1..m : q[i] = j
    BY <1>2, QueueIs
  <1>4. \A i : i \in 1..Len(q) <=> i \in 1..m \/ i = Len(q)
    BY <1>1
  <1>5. \A i \in 1..m : i # Len(q)
    BY <1>1
  <1>6. Range(q) = Range(a) \cup {q[Len(q)]}
    BY <1>1, <1>3, <1>4
  <1>7. q[Len(q)] \notin Range(a)
    BY <1>1, <1>3, <1>4, <1>5
  <1> QED BY <1>2, <1>6, <1>7 DEF a, m

LEMMA LeastOf == ASSUME NEW T, T \subseteq Nat, T # {}
                 PROVE  Min(T) \in T /\ \A n \in T : Min(T) <= n
  <1>1. PICK x \in T : \A y \in T : ~ (<<y, x>> \in OpToRel(<, Nat))
    BY NatLessThanWellFounded, WFMin
  <1>2. ASSUME NEW y \in T PROVE x =< y
    <2>1. x \in Nat /\ y \in Nat
      OBVIOUS
    <2>2. ~(y < x)
      BY <1>1, <2>1 DEF OpToRel
    <2> QED BY <2>1, <2>2
  <1> QED BY <1>2 DEF Min

\* What an eviction leaves of a queue whose bytes are counted right.
LEMMA EvictedIs ==
  ASSUME NEW q, Queue(q), NEW length \in Lengths, NEW budget \in Nat,
         NEW used, used = Total(Range(q), length),
         Len(q) # 0, length[q[Len(q)]] <= budget
  PROVE  LET stay == Evicted(q, length, used, budget)
         IN  /\ \E n \in 0..(Len(q) - 1) : stay = SubSeq(q, n + 1, Len(q))
             /\ Total(Range(stay), length) <= budget
             /\ used - Total(Range(q) \ Range(stay), length) = Total(Range(stay), length)
  <1> DEFINE L == Len(q)
             First(m) == SubSeq(q, 1, m)
             Rest(m) == SubSeq(q, m + 1, L)
             T == {m \in 0..L : m = L \/ used <= budget + Total(Range(First(m)), length)}
             n == Min(T)
  <1>1. L \in Nat /\ L - 1 \in 0..L /\ q[L] \in Keys
    BY QueueIs
  <1>2. ASSUME NEW m \in 0..L
        PROVE  /\ used = Total(Range(First(m)), length) + Total(Range(Rest(m)), length)
               /\ Total(Range(First(m)), length) \in Nat /\ Total(Range(Rest(m)), length) \in Nat
               /\ Range(q) \ Range(Rest(m)) = Range(First(m))
    <2>1. /\ Queue(First(m)) /\ Queue(Rest(m))
          /\ Range(First(m)) \cup Range(Rest(m)) = Range(q)
          /\ Range(First(m)) \cap Range(Rest(m)) = {}
      BY CutIs
    <2> HIDE DEF First, Rest
    <2>2. IsFiniteSet(Range(First(m))) /\ IsFiniteSet(Range(Rest(m)))
      BY <2>1, QueueIs
    <2>3. used = Total(Range(First(m)), length) + Total(Range(Rest(m)), length)
      BY <2>1, <2>2, SumOfTotals
    <2>4. Range(q) \ Range(Rest(m)) = Range(First(m))
      BY <2>1
    <2> QED BY <2>2, <2>3, <2>4, BytesFinite
  <1>3. T # {} /\ T \subseteq Nat
    BY <1>1
  <1>4. n \in T /\ \A m \in T : n <= m
    <2> HIDE DEF T
    <2> QED BY <1>3, LeastOf
  <1>5. L - 1 \in T
    <2>1. /\ Range(q) = Range(First(L - 1)) \cup {q[L]}
          /\ Range(First(L - 1)) \cap {q[L]} = {} /\ Queue(First(L - 1))
      BY LastIs
    <2>2. IsFiniteSet(Range(First(L - 1))) /\ IsFiniteSet({q[L]})
      BY <2>1, QueueIs, FS_Singleton
    <2>3. Total(Range(First(L - 1)) \cup {q[L]}, length)
            = Total(Range(First(L - 1)), length) + Total({q[L]}, length)
      BY <2>1, <2>2, SumOfTotals
    <2>4. Total({q[L]}, length) = length[q[L]]
      BY <1>1, TotalOfOne
    <2> HIDE DEF First, Rest
    <2>5. used = Total(Range(First(L - 1)), length) + length[q[L]]
          /\ Total(Range(First(L - 1)), length) \in Nat
      BY <1>1, <1>2, <2>1, <2>3, <2>4
    <2>6. length[q[L]] \in Nat
      BY <1>1, BudgetsAssumption DEF Lengths
    <2>7. used <= budget + Total(Range(First(L - 1)), length)
      BY <2>5, <2>6
    <2> QED BY <1>1, <2>7
  <1>6. n \in 0..(L - 1)
    BY <1>1, <1>4, <1>5
  <1>7. used <= budget + Total(Range(First(n)), length)
    <2> HIDE DEF n, First, Rest
    <2> QED BY <1>1, <1>4, <1>6
  <1>8. n \in 0..L
    BY <1>4
  <1>9. Evicted(q, length, used, budget) = Rest(n)
    BY DEF Evicted, Fewest
  <1> HIDE DEF T, n, First, Rest, L
  <1>10. Total(Range(Rest(n)), length) <= budget
    BY <1>2, <1>7, <1>8
  <1>11. used - Total(Range(q) \ Range(Rest(n)), length) = Total(Range(Rest(n)), length)
    <2>1. Range(q) \ Range(Rest(n)) = Range(First(n))
      BY <1>2, <1>8
    <2>2. /\ used = Total(Range(First(n)), length) + Total(Range(Rest(n)), length)
          /\ Total(Range(First(n)), length) \in Nat /\ Total(Range(Rest(n)), length) \in Nat
      BY <1>2, <1>8
    <2>3. used - Total(Range(First(n)), length) = Total(Range(Rest(n)), length)
      BY <2>2
    <2> QED BY <2>1, <2>3
  <1>12. Rest(n) = SubSeq(q, n + 1, Len(q))
    BY DEF Rest, L
  <1> QED BY <1>6, <1>9, <1>10, <1>11, <1>12 DEF L

-----------------------------------------------------------------------------
(* The invariant *)

ClassesKept == \A c \in Classes : \A k \in Range(queue[c]) : Class(size[k]) = c

QueuesCounted == \A c \in Classes : bytes[c] = Total(Range(queue[c]), size)

QueuesWithin == \A c \in Classes : Total(Range(queue[c]), size) <= Budget[c]

\* Queues are in the order of use.
QueuesOrdered ==
  \A c \in Classes : \A i, j \in 1..Len(queue[c]) :
    i < j => <<queue[c][i], queue[c][j]>> \in before

IInv == TypeOK /\ ClassesKept /\ QueuesCounted /\ QueuesWithin /\ QueuesOrdered

\* What is held, in terms of the queues.
HeldAsQueued ==
  /\ \A c \in Classes : Queue(queue[c])
  /\ \A k : k \in Held <=> \E c \in Classes : k \in Range(queue[c])
  /\ \A k \in Held : k \in Keys /\ Class(size[k]) \in Classes
                     /\ k \in Range(queue[Class(size[k])])

LEMMA HeldIs ==
  ASSUME TypeOK, ClassesKept
  PROVE  /\ HeldAsQueued
         /\ \A c \in Classes : {k \in Held : Class(size[k]) = c} = Range(queue[c])
  <1>1. \A c \in Classes : Queue(queue[c])
    BY DEF TypeOK, Queue
  <1>2. \A k : k \in Held <=> \E c \in Classes : k \in Range(queue[c])
    BY DEF Held
  <1>3. \A k \in Held : k \in Keys /\ Class(size[k]) \in Classes
                        /\ k \in Range(queue[Class(size[k])])
    <2> SUFFICES ASSUME NEW k \in Held
                 PROVE  k \in Keys /\ Class(size[k]) \in Classes
                        /\ k \in Range(queue[Class(size[k])])
      OBVIOUS
    <2>1. PICK c \in Classes : k \in Range(queue[c])
      BY <1>2
    <2>2. k \in Keys
      BY <1>1, <2>1, QueueIs
    <2>3. Class(size[k]) = c
      BY <2>1 DEF ClassesKept
    <2> QED BY <2>1, <2>2, <2>3
  <1>4. \A c \in Classes : {k \in Held : Class(size[k]) = c} = Range(queue[c])
    BY <1>2, <1>3 DEF ClassesKept
  <1> QED BY <1>1, <1>2, <1>3, <1>4 DEF HeldAsQueued

LEMMA HeldAgain == (TypeOK /\ ClassesKept => HeldAsQueued)'
  <1>1. TypeOK /\ ClassesKept => HeldAsQueued
    BY HeldIs
  <1> QED BY <1>1, PTL

LEMMA InitIInv == Init => IInv
  <1> SUFFICES ASSUME Init PROVE IInv
    OBVIOUS
  <1>1. \A c \in Classes : queue[c] = <<>> /\ bytes[c] = 0
    BY DEF Init
  <1>2. Range(<<>>) = {} /\ Len(<<>>) = 0 /\ <<>> \in Seq(Keys) /\ IsInjective(<<>>)
    BY EmptySeq DEF Range, IsInjective
  <1>3. TypeOK
    BY <1>1, <1>2, BudgetsAssumption DEF Init, TypeOK
  <1>4. ClassesKept /\ QueuesOrdered
    BY <1>1, <1>2 DEF ClassesKept, QueuesOrdered
  <1>5. QueuesCounted
    BY <1>1, <1>2, EmptyTotal DEF QueuesCounted
  <1>6. QueuesWithin
    <2>1. \A c \in Classes : Budget[c] \in Nat
      BY BudgetsAssumption DEF Classes, Budget
    <2>2. \A c \in Classes : Total(Range(queue[c]), size) = 0
      BY <1>1, <1>2, EmptyTotal
    <2> QED BY <2>1, <2>2 DEF QueuesWithin
  <1> QED BY <1>3, <1>4, <1>5, <1>6 DEF IInv

-----------------------------------------------------------------------------
(* Puts *)

Others(k) == [c \in Classes |-> Without(queue[c], k)]
Entries(k, c) == Append(Others(k)[c], k)

LEMMA OthersAre ==
  ASSUME IInv, NEW k \in Keys
  PROVE  /\ \A c \in Classes : /\ Queue(Others(k)[c])
                               /\ Range(Others(k)[c]) = Range(queue[c]) \ {k}
                               /\ Orderly(Others(k)[c], queue[c])
         /\ \A c \in Classes : Freed(k)[c] = Total(Range(Others(k)[c]), size)
         /\ Freed(k) \in [Classes -> Nat]
  <1>1. \A c \in Classes : Queue(queue[c])
    BY HeldIs DEF IInv, HeldAsQueued
  <1>2. \A c \in Classes : /\ Queue(Others(k)[c])
                           /\ Range(Others(k)[c]) = Range(queue[c]) \ {k}
                           /\ Orderly(Others(k)[c], queue[c])
    BY <1>1, WithoutIs DEF Others
  <1>3. ASSUME NEW c \in Classes
        PROVE  /\ Freed(k)[c] = Total(Range(Others(k)[c]), size)
               /\ Total(Range(Others(k)[c]), size) \in Nat
    <2>1. bytes[c] = Total(Range(queue[c]), size) /\ bytes \in [Classes -> Nat]
      BY DEF IInv, QueuesCounted, TypeOK
    <2>2. IsFiniteSet(Range(Others(k)[c])) /\ Total(Range(Others(k)[c]), size) \in Nat
      BY <1>2, QueueIs, BytesFinite
    <2>3. CASE k \in Range(queue[c])
      <3>1. k \in Held /\ Class(size[k]) = c
        BY <2>3, HeldIs DEF IInv, ClassesKept, HeldAsQueued
      <3>2. Range(queue[c]) = Range(Others(k)[c]) \cup {k} /\ Range(Others(k)[c]) \cap {k} = {}
        BY <1>2, <2>3
      <3>3. Total({k}, size) = size[k] /\ size[k] \in Nat
        BY TotalOfOne, BudgetsAssumption DEF IInv, TypeOK, Lengths
      <3>4. IsFiniteSet({k})
        BY FS_Singleton
      <3>5. bytes[c] = Total(Range(Others(k)[c]), size) + size[k]
        BY <2>1, <2>2, <3>2, <3>3, <3>4, SumOfTotals
      <3>6. Freed(k)[c] = bytes[c] - size[k]
        BY <2>1, <3>1 DEF Freed
      <3> QED BY <2>2, <3>3, <3>5, <3>6
    <2>4. CASE k \notin Range(queue[c])
      <3>1. Range(Others(k)[c]) = Range(queue[c])
        BY <1>2, <2>4
      <3>2. ~(k \in Held /\ Class(size[k]) = c)
        BY <2>4, HeldIs DEF IInv, HeldAsQueued
      <3>3. Freed(k)[c] = bytes[c]
        BY <2>1, <3>2 DEF Freed
      <3> QED BY <2>1, <2>2, <3>1, <3>3
    <2> QED BY <2>3, <2>4
  <1>4. Freed(k) \in [Classes -> Nat]
    <2>1. DOMAIN Freed(k) = Classes /\ Freed(k) = [c \in Classes |-> Freed(k)[c]]
      BY DEF Freed, IInv, TypeOK
    <2>2. \A c \in Classes : Freed(k)[c] \in Nat
      BY <1>3
    <2> QED BY <2>1, <2>2
  <1> QED BY <1>2, <1>3, <1>4

\* What a put leaves: the queue of its class loses its first n entries, the new one stays.
LEMMA PutIs ==
  ASSUME IInv, NEW k \in Keys, NEW len \in Sizes, Put(k, len)
  PROVE  LET class == Class(len)
             entries == Entries(k, class)
         IN  /\ class \in Classes /\ len \in 0..MaxEntry
             /\ size' = [size EXCEPT ![k] = len] /\ size' \in Lengths
             /\ Queue(entries) /\ Range(entries) = Range(queue[class]) \cup {k}
             /\ Len(entries) = Len(Others(k)[class]) + 1 /\ entries[Len(entries)] = k
             /\ \A i \in 1..Len(Others(k)[class]) : entries[i] = Others(k)[class][i]
             /\ \E n \in 0..(Len(entries) - 1) :
                  queue' = [Others(k) EXCEPT ![class] = SubSeq(entries, n + 1, Len(entries))]
             /\ Total(Range(queue'[class]), size') <= Budget[class]
             /\ bytes' = [Freed(k) EXCEPT ![class] = Total(Range(queue'[class]), size')]
             /\ Used(k, Held')
  <1> DEFINE class == Class(len)
             entries == Entries(k, class)
             length == [size EXCEPT ![k] = len]
             used == [Freed(k) EXCEPT ![class] = @ + len]
             stay == Evicted(entries, length, used[class], Budget[class])
  <1>1. class \in Classes /\ len \in 0..MaxEntry /\ len \in Nat
    BY BudgetsAssumption DEF Put, Class, Classes
  <1>2. length \in Lengths /\ length[k] = len /\ \A j \in Keys \ {k} : length[j] = size[j]
    BY <1>1 DEF IInv, TypeOK, Lengths
  <1>3. /\ queue' = [Others(k) EXCEPT ![class] = stay] /\ size' = length
        /\ bytes' = [used EXCEPT ![class] = @ - Total(Range(entries) \ Range(stay), length)]
        /\ Used(k, Held')
    BY DEF Put, Others, Entries
  <1>4. /\ Queue(Others(k)[class]) /\ k \notin Range(Others(k)[class])
        /\ Range(Others(k)[class]) = Range(queue[class]) \ {k}
        /\ Freed(k)[class] = Total(Range(Others(k)[class]), size)
        /\ Freed(k) \in [Classes -> Nat]
    BY <1>1, OthersAre
  <1>5. /\ Queue(entries) /\ Range(entries) = Range(Others(k)[class]) \cup {k}
        /\ Len(entries) = Len(Others(k)[class]) + 1 /\ entries[Len(Others(k)[class]) + 1] = k
        /\ \A i \in 1..Len(Others(k)[class]) : entries[i] = Others(k)[class][i]
    BY <1>4, AppendIs DEF Entries
  <1>6. Len(Others(k)[class]) \in Nat /\ Len(entries) # 0 /\ entries[Len(entries)] = k
    BY <1>4, <1>5, QueueIs
  <1>7. used[class] = Total(Range(entries), length)
    <2>1. \A j \in Range(Others(k)[class]) : j \in Keys \ {k}
      BY <1>4, QueueIs
    <2>2. Total(Range(Others(k)[class]), length) = Freed(k)[class]
      BY <1>2, <1>4, <2>1, TotalsAlike, ZenonT(30)
    <2>3. Total({k}, length) = len
      BY <1>2, TotalOfOne
    <2>4. IsFiniteSet({k}) /\ IsFiniteSet(Range(Others(k)[class]))
          /\ Range(Others(k)[class]) \cap {k} = {}
      BY <1>4, QueueIs, FS_Singleton
    <2>5. Total(Range(entries), length) = Freed(k)[class] + len
      BY <1>5, <2>2, <2>3, <2>4, SumOfTotals
    <2>6. used[class] = Freed(k)[class] + len
      BY <1>1, <1>4
    <2> QED BY <2>5, <2>6
  <1>8. Budget[class] \in Nat /\ len <= Budget[class]
    BY <1>1, BudgetsAssumption DEF Class, Budget
  <1>9. /\ \E n \in 0..(Len(entries) - 1) : stay = SubSeq(entries, n + 1, Len(entries))
        /\ Total(Range(stay), length) <= Budget[class]
        /\ used[class] - Total(Range(entries) \ Range(stay), length) = Total(Range(stay), length)
    <2>1. length[entries[Len(entries)]] <= Budget[class]
      BY <1>2, <1>6, <1>8
    <2> DEFINE u == used[class]
               b == Budget[class]
               left == Evicted(entries, length, u, b)
    <2>2. b \in Nat /\ u = Total(Range(entries), length) /\ length[entries[Len(entries)]] <= b
      BY <1>7, <1>8, <2>1
    <2> HIDE DEF entries, length, u, b
    <2>3. Queue(entries) /\ length \in Lengths /\ Len(entries) # 0
      BY <1>2, <1>5, <1>6
    <2> HIDE DEF class, used, stay
    <2>4. /\ \E n \in 0..(Len(entries) - 1) : left = SubSeq(entries, n + 1, Len(entries))
          /\ Total(Range(left), length) <= b
          /\ u - Total(Range(entries) \ Range(left), length) = Total(Range(left), length)
      BY <2>2, <2>3, EvictedIs
    <2> QED BY <2>4 DEF u, b, stay
  <1>10. queue'[class] = stay
    <2> HIDE DEF stay, class
    <2>1. DOMAIN Others(k) = Classes
      BY DEF Others
    <2> QED BY <1>1, <1>3, <2>1
  <1>11. bytes' = [Freed(k) EXCEPT ![class] = Total(Range(stay), length)]
    <2> HIDE DEF stay, class, entries, length
    <2>1. bytes' = [used EXCEPT ![class] = Total(Range(stay), length)]
      BY <1>1, <1>3, <1>4, <1>9
    <2> QED BY <1>1, <1>4, <2>1
  <1>12. Range(entries) = Range(queue[class]) \cup {k}
    BY <1>4, <1>5
  <1> HIDE DEF stay, length, used, entries, class
  <1>13. \E n \in 0..(Len(entries) - 1) :
           queue' = [Others(k) EXCEPT ![class] = SubSeq(entries, n + 1, Len(entries))]
    BY <1>3, <1>9
  <1>14. size' = [size EXCEPT ![k] = len]
    BY <1>3 DEF length
  <1> QED
    BY <1>1, <1>2, <1>3, <1>5, <1>6, <1>9, <1>10, <1>11, <1>12, <1>13, <1>14 DEF entries, class

-----------------------------------------------------------------------------
(* The steps *)

LEMMA PutInv ==
  ASSUME IInv, NEW k \in Keys, NEW len \in Sizes, Put(k, len)
  PROVE  /\ IInv' /\ k \in Held'
         /\ \A c \in Classes : Range(queue'[c]) \subseteq Range(queue[c]) \cup {k}
  <1> DEFINE class == Class(len)
             entries == Entries(k, class)
             others == Others(k)
  <1>1. /\ class \in Classes /\ len \in 0..MaxEntry
        /\ size' = [size EXCEPT ![k] = len] /\ size' \in Lengths
        /\ Queue(entries) /\ Range(entries) = Range(queue[class]) \cup {k}
        /\ Len(entries) = Len(others[class]) + 1 /\ entries[Len(entries)] = k
        /\ \A i \in 1..Len(others[class]) : entries[i] = others[class][i]
        /\ Total(Range(queue'[class]), size') <= Budget[class]
        /\ bytes' = [Freed(k) EXCEPT ![class] = Total(Range(queue'[class]), size')]
        /\ Used(k, Held')
    BY PutIs
  <1>2. PICK n \in 0..(Len(entries) - 1) :
          queue' = [others EXCEPT ![class] = SubSeq(entries, n + 1, Len(entries))]
    BY PutIs
  <1>3. /\ \A c \in Classes : /\ Queue(others[c]) /\ Range(others[c]) = Range(queue[c]) \ {k}
                              /\ Orderly(others[c], queue[c])
                              /\ Freed(k)[c] = Total(Range(others[c]), size)
        /\ Freed(k) \in [Classes -> Nat] /\ DOMAIN others = Classes
    BY OthersAre DEF Others
  <1> HIDE DEF entries, others, class
  <1>4. /\ Len(entries) \in Nat /\ Len(others[class]) \in Nat /\ n \in 0..Len(entries)
        /\ n \in Nat
    BY <1>1, <1>2, <1>3, QueueIs
  <1>5. /\ queue'[class] = SubSeq(entries, n + 1, Len(entries))
        /\ \A c \in Classes \ {class} : queue'[c] = others[c]
        /\ DOMAIN queue' = Classes /\ queue' = [c \in Classes |-> queue'[c]]
    BY <1>1, <1>2, <1>3
  <1>6. /\ Queue(queue'[class]) /\ Len(queue'[class]) = Len(entries) - n
        /\ \A i \in 1..(Len(entries) - n) : queue'[class][i] = entries[n + i]
        /\ Range(queue'[class]) \subseteq Range(entries)
    <2> DEFINE b == SubSeq(entries, n + 1, Len(entries))
    <2>1. /\ Queue(b) /\ Len(b) = Len(entries) - n
          /\ \A i \in 1..(Len(entries) - n) : b[i] = entries[n + i]
          /\ Range(b) \subseteq Range(entries)
      BY <1>1, <1>4, CutIs
    <2>2. queue'[class] = b
      BY <1>5
    <2> HIDE DEF b
    <2> QED BY <2>1, <2>2
  <1>7. \A c \in Classes : Queue(queue'[c])
    BY <1>3, <1>5, <1>6
  <1>8. \A c \in Classes : Range(queue'[c]) \subseteq Range(queue[c]) \cup {k}
    BY <1>1, <1>3, <1>5, <1>6
  <1>9. k \in Range(queue'[class])
    <2>1. Len(entries) - n \in 1..(Len(entries) - n) /\ n + (Len(entries) - n) = Len(entries)
      BY <1>2, <1>4
    <2> DEFINE last == Len(entries) - n
    <2>2. queue'[class][last] = k
      <3>1. entries[n + last] = k
        BY <1>1, <2>1
      <3>2. queue'[class][last] = entries[n + last]
        BY <1>6, <2>1
      <3> QED BY <3>1, <3>2, Zenon
    <2> QED BY <1>6, <2>1, <2>2, QueueIs
  <1>10. \A j : j \in Held' <=> \E c \in Classes : j \in Range(queue'[c])
    BY DEF Held
  <1>11. k \in Held'
    BY <1>1, <1>9, <1>10
  <1>12. Held' \subseteq Keys
    BY <1>7, <1>10, QueueIs
  <1>13. TypeOK'
    <2>1. queue' \in [Classes -> Seq(Keys)] /\ \A c \in Classes : IsInjective(queue'[c])
      BY <1>5, <1>7 DEF Queue
    <2>2. bytes' \in [Classes -> Nat]
      <3>1. Total(Range(queue'[class]), size') \in Nat
        BY <1>6, QueueIs, BytesFinite
      <3> QED BY <1>1, <1>3, <3>1
    <2>3. before' \subseteq Held' \X Held'
      BY <1>1 DEF Used
    <2> QED BY <1>1, <2>1, <2>2, <2>3 DEF TypeOK, Lengths
  <1>14. size'[k] = len /\ \A j \in Keys \ {k} : size'[j] = size[j]
    BY <1>1 DEF IInv, TypeOK
  <1>15. ClassesKept'
    <2> SUFFICES ASSUME NEW c \in Classes, NEW j \in Range(queue'[c]) PROVE Class(size'[j]) = c
      BY DEF ClassesKept
    <2>1. CASE j = k
      <3>1. c = class
        <4> SUFFICES ASSUME c # class PROVE FALSE
          OBVIOUS
        <4> QED BY <1>3, <1>5, <2>1
      <3> QED BY <1>14, <2>1, <3>1 DEF class
    <2>2. CASE j # k
      <3>1. j \in Range(queue[c])
        BY <1>8, <2>2
      <3>2. j \in Keys
        BY <1>7, QueueIs
      <3> QED BY <1>14, <2>2, <3>1, <3>2 DEF IInv, ClassesKept
    <2> QED BY <2>1, <2>2
  <1>16. ASSUME NEW c \in Classes \ {class}
         PROVE  /\ Total(Range(queue'[c]), size') = Total(Range(others[c]), size)
                /\ Total(Range(others[c]), size) <= Budget[c]
    <2>1. queue'[c] = others[c] /\ Range(others[c]) = Range(queue[c]) \ {k}
      BY <1>3, <1>5
    <2>2. \A j \in Range(others[c]) : size'[j] = size[j]
      BY <1>3, <1>14, <2>1, QueueIs
    <2>3. Total(Range(others[c]), size') = Total(Range(others[c]), size)
      BY <2>2, TotalsAlike
    <2>4. Queue(queue[c]) /\ Range(others[c]) \in SUBSET Range(queue[c])
      BY <2>1, HeldIs DEF IInv, HeldAsQueued
    <2>5. IsFiniteSet(Range(queue[c])) /\ IsFiniteSet(Range(others[c]))
          /\ IsFiniteSet(Range(queue[c]) \ Range(others[c]))
      BY <2>4, QueueIs, FS_Subset
    <2>6. Total(Range(queue[c]), size)
            = Total(Range(others[c]), size) + Total(Range(queue[c]) \ Range(others[c]), size)
      <3>1. Range(queue[c]) = Range(others[c]) \cup (Range(queue[c]) \ Range(others[c]))
        BY <2>4
      <3> QED BY <2>5, <3>1, SumOfTotals
    <2>7. /\ Total(Range(others[c]), size) \in Nat
          /\ Total(Range(queue[c]) \ Range(others[c]), size) \in Nat
      BY <2>5, BytesFinite
    <2>8. Total(Range(queue[c]), size) <= Budget[c] /\ Budget[c] \in Nat
      BY BudgetsAssumption DEF IInv, QueuesWithin, Budget, Classes
    <2> QED BY <2>1, <2>3, <2>6, <2>7, <2>8
  <1>17. QueuesCounted' /\ QueuesWithin'
    <2>1. \A c \in Classes \ {class} : bytes'[c] = Freed(k)[c]
      BY <1>1, <1>3
    <2>2. bytes'[class] = Total(Range(queue'[class]), size')
      BY <1>1, <1>3
    <2> QED BY <1>1, <1>3, <1>16, <2>1, <2>2 DEF QueuesCounted, QueuesWithin
  <1>18. ASSUME NEW c \in Classes, NEW i \in 1..Len(others[c]), NEW j \in 1..Len(others[c]), i < j,
                others[c][i] \in Held', others[c][j] \in Held'
         PROVE  <<others[c][i], others[c][j]>> \in before'
    <2>0. Queue(others[c]) /\ Range(others[c]) = Range(queue[c]) \ {k}
          /\ Orderly(others[c], queue[c])
      BY <1>3
    <2>1. PICK x, y \in 1..Len(queue[c]) :
            x < y /\ queue[c][x] = others[c][i] /\ queue[c][y] = others[c][j]
      BY <1>18, <2>0 DEF Orderly
    <2>2. <<others[c][i], others[c][j]>> \in before
      BY <2>1 DEF IInv, QueuesOrdered
    <2>3. others[c][i] # k /\ others[c][j] # k
      <3>1. others[c][i] \in Range(others[c]) /\ others[c][j] \in Range(others[c])
        BY <2>0, QueueIs
      <3> QED BY <2>0, <3>1
    <2> QED BY <1>1, <1>18, <2>2, <2>3 DEF Used
  <1>19. QueuesOrdered'
    <2> SUFFICES ASSUME NEW c \in Classes, NEW i \in 1..Len(queue'[c]),
                        NEW j \in 1..Len(queue'[c]), i < j
                 PROVE  <<queue'[c][i], queue'[c][j]>> \in before'
      BY DEF QueuesOrdered
    <2>1. queue'[c][i] \in Held' /\ queue'[c][j] \in Held' /\ Len(queue'[c]) \in Nat
      BY <1>7, <1>10, QueueIs
    <2>2. CASE c # class
      BY <1>5, <1>18, <2>1, <2>2
    <2>3. CASE c = class
      <3> DEFINE x == n + i
                 y == n + j
      <3>1. /\ x \in 1..Len(entries) /\ y \in 1..Len(entries) /\ x < y
            /\ queue'[c][i] = entries[x] /\ queue'[c][j] = entries[y]
        BY <1>4, <1>6, <2>3
      <3>2. x \in 1..Len(others[class])
        BY <1>1, <1>4, <3>1
      <3> HIDE DEF x, y
      <3>3. CASE y \in 1..Len(others[class])
        <4>1. entries[x] = others[class][x] /\ entries[y] = others[class][y]
          BY <1>1, <3>2, <3>3
        <4> QED BY <1>1, <1>18, <2>1, <2>3, <3>1, <3>2, <3>3, <4>1
      <3>4. CASE y = Len(entries)
        <4>1. queue'[c][j] = k /\ queue'[c][i] = others[class][x]
          BY <1>1, <3>1, <3>2, <3>4
        <4>2. queue'[c][i] # k
          BY <1>1, <1>3, <3>2, <4>1, QueueIs
        <4> QED BY <1>1, <1>12, <2>1, <4>1, <4>2 DEF Used
      <3> QED BY <1>1, <1>4, <3>1, <3>3, <3>4, SMTT(20)
    <2> QED BY <2>2, <2>3
  <1> QED BY <1>8, <1>11, <1>13, <1>15, <1>17, <1>19 DEF IInv

LEMMA GetIs ==
  ASSUME IInv, NEW k \in Keys, Get(k)
  PROVE  LET c == Class(size[k])
             rest == Without(queue[c], k)
         IN  /\ c \in Classes /\ k \in Range(queue[c]) /\ k \in Held
             /\ queue' = [queue EXCEPT ![c] = Append(rest, k)]
             /\ Queue(rest) /\ Range(rest) = Range(queue[c]) \ {k} /\ Orderly(rest, queue[c])
             /\ Queue(Append(rest, k)) /\ Range(Append(rest, k)) = Range(queue[c])
             /\ Len(Append(rest, k)) = Len(rest) + 1 /\ Append(rest, k)[Len(rest) + 1] = k
             /\ \A i \in 1..Len(rest) : Append(rest, k)[i] = rest[i]
             /\ Used(k, Held) /\ UNCHANGED <<size, bytes>>
  <1> DEFINE c == Class(size[k])
             rest == Without(queue[c], k)
  <1>1. /\ k \in Held /\ queue' = [queue EXCEPT ![c] = Append(rest, k)]
        /\ Used(k, Held) /\ UNCHANGED <<size, bytes>>
    BY DEF Get, Touched
  <1>2. c \in Classes /\ k \in Range(queue[c]) /\ Queue(queue[c])
    BY <1>1, HeldIs DEF IInv, HeldAsQueued
  <1>3. Queue(rest) /\ Range(rest) = Range(queue[c]) \ {k} /\ Orderly(rest, queue[c])
    BY <1>2, WithoutIs
  <1> HIDE DEF c, rest
  <1>4. /\ Queue(Append(rest, k)) /\ Range(Append(rest, k)) = Range(rest) \cup {k}
        /\ Len(Append(rest, k)) = Len(rest) + 1 /\ Append(rest, k)[Len(rest) + 1] = k
        /\ \A i \in 1..Len(rest) : Append(rest, k)[i] = rest[i]
    BY <1>3, AppendIs
  <1>5. Range(rest) \cup {k} = Range(queue[c])
    BY <1>2, <1>3
  <1> QED BY <1>1, <1>2, <1>3, <1>4, <1>5 DEF c, rest

LEMMA GetInv ==
  ASSUME IInv, NEW k \in Keys, Get(k)
  PROVE  IInv' /\ Held' = Held
  <1> DEFINE c == Class(size[k])
             rest == Without(queue[c], k)
             q == Append(rest, k)
  <1>1. /\ c \in Classes /\ k \in Range(queue[c]) /\ k \in Held
        /\ queue' = [queue EXCEPT ![c] = q]
        /\ Queue(rest) /\ Range(rest) = Range(queue[c]) \ {k} /\ Orderly(rest, queue[c])
        /\ Queue(q) /\ Range(q) = Range(queue[c])
        /\ Len(q) = Len(rest) + 1 /\ q[Len(rest) + 1] = k
        /\ \A i \in 1..Len(rest) : q[i] = rest[i]
        /\ Used(k, Held) /\ UNCHANGED <<size, bytes>>
    BY GetIs
  <1> HIDE DEF c, rest, q
  <1>2. /\ \A d \in Classes : Queue(queue[d])
        /\ queue \in [Classes -> Seq(Keys)] /\ Held \subseteq Keys
    BY HeldIs DEF IInv, TypeOK, HeldAsQueued
  <1>3. /\ queue'[c] = q /\ \A d \in Classes \ {c} : queue'[d] = queue[d]
        /\ queue' \in [Classes -> Seq(Keys)]
    BY <1>1, <1>2 DEF Queue
  <1>4. \A d \in Classes : Queue(queue'[d]) /\ Range(queue'[d]) = Range(queue[d])
    BY <1>1, <1>2, <1>3
  <1>5. Held' = Held
    <2>1. Held = UNION {Range(queue[d]) : d \in Classes}
          /\ Held' = UNION {Range(queue'[d]) : d \in Classes}
      BY DEF Held
    <2> QED BY <1>4, <2>1
  <1>6. TypeOK'
    <2>1. before' \subseteq Held' \X Held'
      BY <1>1, <1>5 DEF Used
    <2> QED BY <1>1, <1>3, <1>4, <2>1 DEF IInv, TypeOK, Queue
  <1>7. ClassesKept'
    BY <1>1, <1>4 DEF IInv, ClassesKept
  <1>8. QueuesCounted' /\ QueuesWithin'
    BY <1>1, <1>4 DEF IInv, QueuesCounted, QueuesWithin
  <1>9. ASSUME NEW d \in Classes, NEW i \in 1..Len(queue[d]), NEW j \in 1..Len(queue[d]), i < j,
               queue[d][i] # k, queue[d][j] # k
        PROVE  <<queue[d][i], queue[d][j]>> \in before'
    <2>1. <<queue[d][i], queue[d][j]>> \in before
      BY <1>9 DEF IInv, QueuesOrdered
    <2>2. queue[d][i] \in Held /\ queue[d][j] \in Held
      BY <2>1 DEF IInv, TypeOK
    <2> QED BY <1>1, <1>9, <2>1, <2>2 DEF Used
  <1>10. QueuesOrdered'
    <2> SUFFICES ASSUME NEW d \in Classes, NEW i \in 1..Len(queue'[d]),
                        NEW j \in 1..Len(queue'[d]), i < j
                 PROVE  <<queue'[d][i], queue'[d][j]>> \in before'
      BY DEF QueuesOrdered
    <2>1. CASE d # c
      <3>1. queue'[d] = queue[d] /\ k \notin Range(queue[d])
        BY <1>1, <1>3, <2>1, HeldIs DEF IInv, ClassesKept, c, HeldAsQueued
      <3>2. queue[d][i] # k /\ queue[d][j] # k
        BY <1>2, <3>1, QueueIs
      <3> QED BY <1>9, <3>1, <3>2
    <2>2. CASE d = c
      <3>1. Len(rest) \in Nat /\ i \in 1..(Len(rest) + 1) /\ j \in 1..(Len(rest) + 1)
        BY <1>1, <1>3, <2>2, QueueIs
      <3>2. i \in 1..Len(rest) /\ queue'[d][i] = rest[i]
        BY <1>1, <1>3, <2>2, <3>1
      <3>3. rest[i] \in Held \ {k}
        <4>1. rest[i] \in Range(rest)
          BY <1>1, <3>2, QueueIs
        <4> QED BY <1>1, <4>1 DEF Held
      <3>4. CASE j = Len(rest) + 1
        <4>1. queue'[d][j] = k
          BY <1>1, <1>3, <2>2, <3>4
        <4> QED BY <1>1, <1>2, <3>2, <3>3, <4>1 DEF Used
      <3>5. CASE j \in 1..Len(rest)
        <4>1. queue'[d][j] = rest[j] /\ rest[j] \in Range(rest)
          BY <1>1, <1>3, <2>2, <3>5, QueueIs
        <4>2. PICK x, y \in 1..Len(queue[c]) :
                x < y /\ queue[c][x] = rest[i] /\ queue[c][y] = rest[j]
          BY <1>1, <3>2, <3>5 DEF Orderly
        <4>3. rest[j] # k
          BY <1>1, <4>1
        <4> QED BY <1>1, <1>9, <3>2, <3>3, <4>1, <4>2, <4>3, SMTT(20)
      <3> QED BY <3>1, <3>4, <3>5
    <2> QED BY <2>1, <2>2
  <1> QED BY <1>5, <1>6, <1>7, <1>8, <1>10 DEF IInv

LEMMA ClearInv ==
  ASSUME IInv, Clear
  PROVE  IInv' /\ Held' = {}
  <1>1. \A c \in Classes : queue'[c] = <<>> /\ bytes'[c] = 0
    BY DEF Clear
  <1>2. Range(<<>>) = {} /\ Len(<<>>) = 0 /\ <<>> \in Seq(Keys) /\ IsInjective(<<>>)
    BY EmptySeq DEF Range, IsInjective
  <1>3. Held' = {}
    BY <1>1, <1>2 DEF Held
  <1>4. TypeOK'
    BY <1>1, <1>2 DEF IInv, Clear, TypeOK
  <1>5. ClassesKept' /\ QueuesOrdered'
    BY <1>1, <1>2 DEF ClassesKept, QueuesOrdered
  <1>6. \A c \in Classes : Total(Range(queue'[c]), size') = 0 /\ Budget[c] \in Nat
    <2>1. \A c \in Classes : Budget[c] \in Nat
      BY BudgetsAssumption DEF Budget, Classes
    <2>2. \A c \in Classes : Total(Range(queue'[c]), size') = 0
      BY <1>1, <1>2, EmptyTotal
    <2> QED BY <2>1, <2>2
  <1>7. QueuesCounted' /\ QueuesWithin'
    BY <1>1, <1>6 DEF QueuesCounted, QueuesWithin
  <1> QED BY <1>3, <1>4, <1>5, <1>7 DEF IInv

LEMMA NextIInv == IInv /\ [Next]_vars => IInv'
  <1> SUFFICES ASSUME IInv, [Next]_vars PROVE IInv'
    OBVIOUS
  <1>1. CASE UNCHANGED vars
    <2>1. UNCHANGED Held
      BY <1>1 DEF vars, Held
    <2> QED BY <1>1, <2>1 DEF vars, IInv, TypeOK, ClassesKept, QueuesCounted, QueuesWithin,
            QueuesOrdered
  <1>2. CASE Next
    BY <1>2, PutInv, GetInv, ClearInv DEF Next
  <1> QED BY <1>1, <1>2

LEMMA Invariant == Spec => []IInv
  BY InitIInv, NextIInv, PTL DEF Spec

-----------------------------------------------------------------------------
(***************************************************************************)
(* The entries of each class are listed once, by age, and a length never   *)
(* exceeds what may be put; no counter of bytes falls below zero           *)
(* (cache.rs:50-55, 78-120).                                               *)
(***************************************************************************)
THEOREM TypeCorrect == Spec => []TypeOK
  <1>1. IInv => TypeOK
    BY DEF IInv
  <1> QED BY <1>1, Invariant, PTL

(***************************************************************************)
(* The counters are the bytes held, whatever is put over, evicted and      *)
(* cleared (cache.rs:78-120).                                              *)
(***************************************************************************)
THEOREM CountersAreExact == Spec => []BytesCounted
  <1>1. IInv => BytesCounted
    BY HeldIs DEF IInv, QueuesCounted, BytesCounted
  <1> QED BY <1>1, Invariant, PTL

(***************************************************************************)
(* An eviction stops only when its class is within its budget, and no put  *)
(* of one class adds to the other (cache.rs:101-114).                      *)
(***************************************************************************)
THEOREM BudgetsAreKept == Spec => []WithinBudget
  <1>1. IInv => WithinBudget
    BY HeldIs DEF IInv, QueuesWithin, WithinBudget
  <1> QED BY <1>1, Invariant, PTL

LEMMA PutEvictsOldest ==
  ASSUME IInv, NEW k \in Keys, NEW len \in Sizes, Put(k, len),
         NEW j \in Held \ Held', NEW m \in Held', Class(size[j]) = Class(size'[m])
  PROVE  <<j, m>> \in before \/ \A i \in Held' \ {m} : <<i, m>> \in before'
  <1> DEFINE class == Class(len)
             entries == Entries(k, class)
             others == Others(k)
  <1>1. /\ class \in Classes /\ Queue(entries) /\ Range(entries) = Range(queue[class]) \cup {k}
        /\ Len(entries) = Len(others[class]) + 1 /\ entries[Len(entries)] = k
        /\ \A i \in 1..Len(others[class]) : entries[i] = others[class][i]
        /\ Used(k, Held')
    BY PutIs
  <1>2. PICK n \in 0..(Len(entries) - 1) :
          queue' = [others EXCEPT ![class] = SubSeq(entries, n + 1, Len(entries))]
    BY PutIs
  <1>3. /\ \A c \in Classes : /\ Queue(others[c]) /\ Range(others[c]) = Range(queue[c]) \ {k}
                              /\ Orderly(others[c], queue[c])
        /\ DOMAIN others = Classes
    BY OthersAre DEF Others
  <1> HIDE DEF entries, others, class
  <1>4. /\ TypeOK' /\ ClassesKept' /\ k \in Held' /\ Held' \subseteq Keys
        /\ \A c \in Classes : Queue(queue'[c])
        /\ \A i : i \in Held' <=> \E c \in Classes : i \in Range(queue'[c])
        /\ \A i \in Held' : Class(size'[i]) \in Classes /\ i \in Range(queue'[Class(size'[i])])
    <2>1. IInv' /\ k \in Held'
      BY PutInv
    <2>2. TypeOK' /\ ClassesKept'
      BY <2>1 DEF IInv
    <2>3. HeldAsQueued'
      BY <2>2, HeldAgain
    <2> QED BY <2>1, <2>2, <2>3 DEF HeldAsQueued
  <1>5. CASE m = k
    <2>1. \A i \in Held' \ {k} : <<i, k>> \in before'
      BY <1>1, <1>4 DEF Used
    <2> QED BY <1>5, <2>1
  <1>6. CASE m # k
    <2>1. j # k /\ Class(size[j]) \in Classes /\ j \in Range(queue[Class(size[j])])
      BY <1>4, HeldIs DEF IInv, HeldAsQueued
    <2>2. Class(size[j]) = class
      <3> DEFINE c == Class(size[j])
      <3> SUFFICES ASSUME c # class PROVE FALSE
        OBVIOUS
      <3>1. queue'[c] = others[c] /\ j \in Range(others[c])
        BY <1>2, <1>3, <2>1
      <3> HIDE DEF c
      <3>2. c \in Classes
        BY <2>1 DEF c
      <3> QED BY <1>4, <3>1, <3>2
    <2>3. m \in Range(queue'[class])
      BY <1>4, <2>2
    <2>4. queue'[class] = SubSeq(entries, n + 1, Len(entries))
      BY <1>1, <1>2, <1>3
    <2>5. j \in Range(entries) /\ j \notin Range(queue'[class])
      BY <1>1, <1>4, <2>1, <2>2
    <2>6. /\ Len(entries) \in Nat /\ Len(others[class]) \in Nat /\ n \in 0..Len(entries)
          /\ n \in Nat
      BY <1>1, <1>2, <1>3, QueueIs
    <2>7. PICK x \in 1..Len(entries) : entries[x] = j
      BY <1>1, <2>5, QueueIs
    <2>8. /\ Len(queue'[class]) = Len(entries) - n /\ Queue(queue'[class])
          /\ \A i \in 1..(Len(entries) - n) : queue'[class][i] = entries[n + i]
      BY <1>1, <2>4, <2>6, CutIs
    <2>9. x <= n
      <3> SUFFICES ASSUME n < x PROVE FALSE
        BY <2>6
      <3>1. x - n \in 1..(Len(entries) - n) /\ n + (x - n) = x
        BY <2>6
      <3>2. queue'[class][x - n] = j
        BY <2>7, <2>8, <3>1
      <3> QED BY <2>5, <2>8, <3>1, <3>2, QueueIs
    <2>10. PICK z \in 1..(Len(entries) - n) : queue'[class][z] = m
      BY <2>3, <2>8, QueueIs
    <2> DEFINE y == n + z
    <2>11. y \in 1..Len(entries) /\ entries[y] = m /\ x < y
      BY <2>6, <2>8, <2>9, <2>10
    <2> HIDE DEF y
    <2>12. y \in 1..Len(others[class]) /\ x \in 1..Len(others[class])
      BY <1>1, <1>6, <2>6, <2>11
    <2>13. others[class][x] = j /\ others[class][y] = m
      BY <1>1, <2>7, <2>11, <2>12
    <2>14. Orderly(others[class], queue[class])
      BY <1>1, <1>3
    <2>15. PICK a, b \in 1..Len(queue[class]) :
             a < b /\ queue[class][a] = j /\ queue[class][b] = m
      <3>1. \A u, v \in 1..Len(others[class]) :
              u < v => \E a, b \in 1..Len(queue[class]) :
                         a < b /\ queue[class][a] = others[class][u]
                               /\ queue[class][b] = others[class][v]
        BY <2>14 DEF Orderly
      <3>2. \E a, b \in 1..Len(queue[class]) :
              a < b /\ queue[class][a] = others[class][x] /\ queue[class][b] = others[class][y]
        BY <2>11, <2>12, <3>1
      <3> QED BY <2>13, <3>2
    <2>16. <<j, m>> \in before
      BY <1>1, <2>15 DEF IInv, QueuesOrdered
    <2> QED BY <2>16
  <1> QED BY <1>5, <1>6

(***************************************************************************)
(* What an eviction takes was used before everything of its class that it  *)
(* leaves (cache.rs:71-76, 101-114).                                       *)
(***************************************************************************)
THEOREM OldestAreEvicted == Spec => OldestGoFirst
  <1> DEFINE Going == \A j \in Held \ Held', k \in Held' :
                        Class(size[j]) = Class(size'[k])
                        => <<j, k>> \in before \/ \A i \in Held' \ {k} : <<i, k>> \in before'
  <1>1. ASSUME IInv, [Next]_vars PROVE [Going]_vars
    <2>1. CASE Clear
      BY <1>1, <2>1, ClearInv
    <2>2. CASE \E k \in Keys : Get(k)
      BY <1>1, <2>2, GetInv
    <2>3. CASE \E k \in Keys, len \in Sizes : Put(k, len)
      BY <1>1, <2>3, PutEvictsOldest
    <2> QED BY <1>1, <2>1, <2>2, <2>3 DEF Next
  <1>2. Spec => [][Going]_vars
    <2> HIDE DEF Going
    <2> QED BY <1>1, Invariant, PTL DEF Spec
  <1> QED BY <1>2 DEF OldestGoFirst

(***************************************************************************)
(* A body that is put is never among those its own put evicts, since none  *)
(* that may be put exceeds the budget of its class (cache.rs:78-114).      *)
(***************************************************************************)
THEOREM PutsAreHeld == Spec => PutIsHeld
  <1> DEFINE Holding == \A k \in Keys, len \in Sizes : Put(k, len) => k \in Held'
  <1>1. IInv => [Holding]_vars
    BY PutInv
  <1>2. Spec => [][Holding]_vars
    <2> HIDE DEF Holding
    <2> QED BY <1>1, Invariant, PTL DEF Spec
  <1> QED BY <1>2 DEF PutIsHeld
=============================================================================
