-------------------------- MODULE ConversationProofs --------------------------
(***************************************************************************)
(* Theorems about Conversation.                                            *)
(***************************************************************************)
EXTENDS Conversation, TLAPS, FiniteSetTheorems, SequenceTheorems

-----------------------------------------------------------------------------
(* Sorting by rank *)

\* upTo[i] are the elements of S that come no later than i in a total order.
IsOrder(S, upTo) ==
  /\ IsFiniteSet(S) /\ upTo \in [S -> SUBSET S]
  /\ \A i \in S : i \in upTo[i]
  /\ \A i, j \in S : i \in upTo[j] \/ j \in upTo[i]
  /\ \A i, j \in S : i # j /\ i \in upTo[j] => upTo[i] \subseteq upTo[j] /\ j \notin upTo[i]

\* r lists the n elements of S, each once and in order.
Lists(r, n, S, upTo) ==
  /\ n \in Nat /\ r \in [1..n -> S]
  /\ \A i \in S : \E k \in 1..n : r[k] = i
  /\ \A k, l \in 1..n : k < l => r[k] # r[l] /\ r[k] \in upTo[r[l]] /\ r[l] \notin upTo[r[k]]

LEMMA RankedLists ==
  ASSUME NEW S, NEW upTo, IsOrder(S, upTo)
  PROVE  Lists(Ranked(S, upTo), Cardinality(S), S, upTo)
  <1> DEFINE n == Cardinality(S)
             rank == [i \in S |-> Cardinality(upTo[i])]
             r == Ranked(S, upTo)
  <1>1. n \in Nat
    BY FS_CardinalityType DEF IsOrder
  <1>2. ASSUME NEW i \in S
        PROVE  IsFiniteSet(upTo[i]) /\ rank[i] \in 1..n
    <2>1. upTo[i] \in SUBSET S /\ IsFiniteSet(S) /\ i \in upTo[i]
      BY DEF IsOrder
    <2>2. IsFiniteSet(upTo[i]) /\ Cardinality(upTo[i]) <= n
      BY <2>1, FS_Subset
    <2>3. Cardinality(upTo[i]) \in Nat /\ Cardinality(upTo[i]) # 0
      BY <2>1, <2>2, FS_CardinalityType, FS_EmptySet
    <2> QED BY <1>1, <2>2, <2>3
  <1>3. ASSUME NEW i \in S, NEW j \in S, i # j, i \in upTo[j]
        PROVE  rank[i] < rank[j]
    <2>1. upTo[i] \in SUBSET upTo[j] /\ upTo[i] # upTo[j]
      BY <1>3 DEF IsOrder
    <2>2. rank[i] <= rank[j] /\ rank[i] # rank[j]
      BY <1>2, <2>1, FS_Subset
    <2> QED BY <1>2, <2>2
  <1>4. rank \in Injection(S, 1..n)
    <2>1. \A i, j \in S : rank[i] = rank[j] => i = j
      <3> SUFFICES ASSUME NEW i \in S, NEW j \in S, i # j PROVE rank[i] # rank[j]
        OBVIOUS
      <3>1. rank[i] \in 1..n /\ rank[j] \in 1..n
        BY <1>2
      <3>2. i \in upTo[j] \/ j \in upTo[i]
        BY DEF IsOrder
      <3>3. rank[i] < rank[j] \/ rank[j] < rank[i]
        BY <1>3, <3>2
      <3> QED BY <3>1, <3>3
    <2>2. rank \in [S -> 1..n]
      BY <1>2
    <2> HIDE DEF rank
    <2> QED BY <2>1, <2>2 DEF Injection, IsInjective
  <1>5. rank \in Surjection(S, 1..n)
    <2>1. IsFiniteSet(1..n) /\ Cardinality(1..n) = n
      BY <1>1, FS_Interval
    <2> HIDE DEF rank
    <2> QED BY <1>4, <2>1, FS_Injection
  <1>6. ASSUME NEW k \in 1..n
        PROVE  r[k] \in S /\ rank[r[k]] = k
    <2>1. \E i \in S : Cardinality(upTo[i]) = k
      BY <1>5 DEF Surjection
    <2>2. r[k] = CHOOSE i \in S : Cardinality(upTo[i]) = k
      BY DEF Ranked
    <2> QED BY <2>1, <2>2
  <1>7. r \in [1..n -> S]
    <2>1. r = [k \in 1..n |-> CHOOSE i \in S : Cardinality(upTo[i]) = k]
      BY DEF Ranked
    <2>2. \A k \in 1..n : (CHOOSE i \in S : Cardinality(upTo[i]) = k) \in S
      BY <1>6, <2>1
    <2> QED BY <2>1, <2>2
  <1>8. ASSUME NEW i \in S PROVE \E k \in 1..n : r[k] = i
    <2>1. rank[i] \in 1..n
      BY <1>2
    <2>2. r[rank[i]] \in S /\ rank[r[rank[i]]] = rank[i]
      BY <1>6, <2>1
    <2>3. r[rank[i]] = i
      BY <1>4, <2>2 DEF Injection, IsInjective
    <2> QED BY <2>1, <2>3
  <1>9. ASSUME NEW k \in 1..n, NEW l \in 1..n, k < l
        PROVE  r[k] # r[l] /\ r[k] \in upTo[r[l]] /\ r[l] \notin upTo[r[k]]
    <2>1. /\ r[k] \in S /\ rank[r[k]] = k
          /\ r[l] \in S /\ rank[r[l]] = l
      BY <1>6
    <2> HIDE DEF rank, r
    <2>2. r[k] # r[l]
      BY <1>9, <2>1
    <2>3. r[l] \notin upTo[r[k]]
      <3>1. r[l] \in upTo[r[k]] => l < k
        BY <1>3, <2>1, <2>2
      <3> QED BY <1>9, <3>1
    <2> QED BY <2>1, <2>2, <2>3 DEF IsOrder
  <1> HIDE DEF r, rank
  <1>10. Lists(r, n, S, upTo)
    BY <1>1, <1>7, <1>8, <1>9 DEF Lists
  <1> QED BY <1>10 DEF r

\* The positions of S, in order.
Places(S) == Ranked(S, [i \in S |-> {j \in S : j <= i}])

LEMMA PlacesInOrder ==
  ASSUME NEW S \in SUBSET Nat, IsFiniteSet(S)
  PROVE  LET n == Cardinality(S)
             p == Places(S)
         IN  /\ n \in Nat /\ p \in [1..n -> S]
             /\ \A i \in S : \E k \in 1..n : p[k] = i
             /\ \A k, l \in 1..n : k < l => p[k] < p[l]
  <1> DEFINE upTo == [i \in S |-> {j \in S : j <= i}]
             p == Ranked(S, upTo)
             n == Cardinality(S)
  <1>1. /\ upTo \in [S -> SUBSET S]
        /\ \A i, j \in S : i \in upTo[j] <=> i <= j
    OBVIOUS
  <1>2. Lists(p, n, S, upTo)
    <2> HIDE DEF upTo
    <2>1. \A i \in S : i \in Nat
      OBVIOUS
    <2>2. ASSUME NEW i \in S, NEW j \in S, i # j, i \in upTo[j]
          PROVE  upTo[i] \subseteq upTo[j] /\ j \notin upTo[i]
      <3>1. i \in Nat /\ j \in Nat /\ i <= j
        BY <1>1, <2>1, <2>2
      <3>2. ASSUME NEW x \in upTo[i] PROVE x \in upTo[j]
        <4>1. x \in S
          BY <1>1
        <4>2. x \in Nat /\ x <= i
          BY <1>1, <2>1, <4>1
        <4> QED BY <1>1, <3>1, <4>1, <4>2
      <3>3. ~(j <= i)
        BY <2>2, <3>1
      <3>4. j \notin upTo[i]
        BY <1>1, <3>3
      <3> QED BY <3>2, <3>4
    <2>3. IsOrder(S, upTo)
      BY <1>1, <2>1, <2>2 DEF IsOrder
    <2> QED BY <2>3, RankedLists
  <1>3. n \in Nat /\ p \in [1..n -> S] /\ \A i \in S : \E k \in 1..n : p[k] = i
    BY <1>2 DEF Lists
  <1>4. \A k, l \in 1..n : k < l => p[k] < p[l]
    <2> HIDE DEF upTo, p
    <2> SUFFICES ASSUME NEW k \in 1..n, NEW l \in 1..n, k < l PROVE p[k] < p[l]
      OBVIOUS
    <2>1. p[k] \in S /\ p[l] \in S /\ p[l] \notin upTo[p[k]]
      BY <1>2 DEF Lists
    <2>2. ~(p[l] <= p[k])
      BY <1>1, <2>1
    <2>3. p[k] \in Nat /\ p[l] \in Nat
      BY <2>1
    <2> QED BY <2>2, <2>3
  <1> QED BY <1>3, <1>4 DEF Places

LEMMA KeptIs ==
  ASSUME NEW s, NEW S \in SUBSET Nat, IsFiniteSet(S)
  PROVE  Kept(s, S) = [k \in 1..Cardinality(S) |-> s[Places(S)[k]]]
  <1>1. Kept(s, S) = At(s, Places(S))
    BY DEF Kept, Places
  <1>2. DOMAIN Places(S) = 1..Cardinality(S)
    BY PlacesInOrder
  <1> QED BY <1>1, <1>2 DEF At

LEMMA Positions ==
  ASSUME NEW M, NEW s \in Seq(M)
  PROVE  /\ DOMAIN s = 1..Len(s) /\ Len(s) \in Nat
         /\ \A i \in DOMAIN s : s[i] \in M
         /\ \A S \in SUBSET DOMAIN s : S \in SUBSET Nat /\ IsFiniteSet(S)
  <1>1. DOMAIN s = 1..Len(s) /\ Len(s) \in Nat /\ s \in [1..Len(s) -> M]
    BY LenProperties
  <1>2. IsFiniteSet(DOMAIN s)
    BY <1>1, FS_Interval
  <1>3. ASSUME NEW S \in SUBSET DOMAIN s PROVE S \in SUBSET Nat /\ IsFiniteSet(S)
    BY <1>1, <1>2, FS_Subset
  <1> QED BY <1>1, <1>3

LEMMA KeptType ==
  ASSUME NEW M, NEW s \in Seq(M), NEW S \in SUBSET DOMAIN s
  PROVE  Kept(s, S) \in Seq(M) /\ DOMAIN Kept(s, S) = 1..Cardinality(S)
  <1> DEFINE n == Cardinality(S)
  <1>1. S \in SUBSET Nat /\ IsFiniteSet(S)
    BY Positions
  <1>2. n \in Nat /\ Places(S) \in [1..n -> S]
    BY <1>1, PlacesInOrder
  <1>3. Kept(s, S) = [k \in 1..n |-> s[Places(S)[k]]]
    BY <1>1, KeptIs
  <1> HIDE DEF n
  <1>4. \A k \in 1..n : s[Places(S)[k]] \in M
    BY <1>2, Positions
  <1>5. Kept(s, S) \in Seq(M)
    BY <1>2, <1>3, <1>4, IsASeq
  <1> QED BY <1>3, <1>5 DEF n

LEMMA KeptAll == ASSUME NEW M, NEW s \in Seq(M)
                 PROVE  Kept(s, DOMAIN s) = s
  <1> DEFINE n == Len(s)
             S == 1..n
             upTo == [i \in S |-> {j \in S : j <= i}]
             p == Ranked(S, upTo)
  <1>1. DOMAIN s = S /\ n \in Nat /\ s \in [1..n -> M]
    BY LenProperties
  <1>2. Cardinality(S) = n
    BY <1>1, FS_Interval, SMTT(20)
  <1>3. ASSUME NEW k \in S PROVE p[k] = k
    <2>1. \A i \in S : Cardinality(upTo[i]) = i
      <3> SUFFICES ASSUME NEW i \in S PROVE Cardinality(upTo[i]) = i
        OBVIOUS
      <3>1. upTo[i] = 1..i
        BY <1>1
      <3>2. Cardinality(1..i) = i
        BY <1>1, FS_Interval
      <3> HIDE DEF upTo
      <3> QED BY <3>1, <3>2
    <2>2. p[k] = CHOOSE i \in S : Cardinality(upTo[i]) = k
      BY <1>2 DEF Ranked
    <2> HIDE DEF upTo
    <2> QED BY <2>1, <2>2
  <1>4. DOMAIN p = S
    BY <1>2 DEF Ranked
  <1>5. Kept(s, DOMAIN s) = At(s, p)
    BY <1>1 DEF Kept
  <1> HIDE DEF p
  <1> QED BY <1>1, <1>3, <1>4, <1>5 DEF At

\* Only what is kept counts.
LEMMA KeptSame ==
  ASSUME NEW s, NEW t, NEW S \in SUBSET Nat, IsFiniteSet(S), \A i \in S : s[i] = t[i]
  PROVE  Kept(s, S) = Kept(t, S)
  <1>1. \A k \in 1..Cardinality(S) : Places(S)[k] \in S
    BY PlacesInOrder
  <1>2. /\ Kept(s, S) = [k \in 1..Cardinality(S) |-> s[Places(S)[k]]]
        /\ Kept(t, S) = [k \in 1..Cardinality(S) |-> t[Places(S)[k]]]
    BY KeptIs
  <1> QED BY <1>1, <1>2

-----------------------------------------------------------------------------
(* Messages *)

ServerMessage ==
  {m \in [id: 1..MaxLog, ts: Nat, status: {"sent"}, unsent: BOOLEAN] : m.ts = 2 * m.id}
OwnMessage == [id: Sends, ts: Nat, status: {"pending", "error"}, unsent: {FALSE}]
Message == ServerMessage \cup OwnMessage

\* Newest first, none twice.
Sorted(s) == \A j, k \in DOMAIN s : j < k => s[j].id # s[k].id /\ s[j].ts >= s[k].ts

LEMMA MessageTypes ==
  /\ \A m \in Message : /\ m.ts \in Nat /\ m.unsent \in BOOLEAN
                        /\ m.id \in Sends \/ m.id \in 1..MaxLog
                        /\ IsSent(m) => m \in ServerMessage
                        /\ ~IsSent(m) => m \in OwnMessage
  /\ \A m \in ServerMessage : /\ IsSent(m) /\ m.id \in 1..MaxLog /\ m.id \in Nat
                              /\ m.ts = 2 * m.id /\ m.id \notin Sends
  /\ \A m \in OwnMessage : ~IsSent(m) /\ m.id \in Sends
  /\ ServerMessage \subseteq Message
  <1> USE ConversationAssumption DEF ServerMessage, OwnMessage, Message, IsSent
  <1>1. \A m \in ServerMessage : /\ IsSent(m) /\ m.id \in 1..MaxLog /\ m.id \in Nat
                                 /\ m.ts = 2 * m.id /\ m.id \notin Sends
    <2> SUFFICES ASSUME NEW m \in ServerMessage
                 PROVE  /\ IsSent(m) /\ m.id \in 1..MaxLog /\ m.id \in Nat
                        /\ m.ts = 2 * m.id /\ m.id \notin Sends
      OBVIOUS
    <2>1. m.id \in 1..MaxLog /\ m.ts = 2 * m.id /\ m.status = "sent"
      OBVIOUS
    <2>2. m.id \in 0..MaxLog /\ m.id \in Nat
      BY <2>1
    <2> QED BY <2>1, <2>2
  <1> QED BY <1>1

LEMMA VersionType ==
  ASSUME NEW i \in 1..MaxLog, NEW res
  PROVE  /\ Version(i, res) \in ServerMessage
         /\ Version(i, res).id = i /\ Version(i, res).ts = 2 * i
  <1>1. 2 * i \in Nat
    BY ConversationAssumption
  <1>2. (i \in res.unsent) \in BOOLEAN
    OBVIOUS
  <1> QED BY <1>1, <1>2 DEF Version, ServerMessage

LEMMA KeptSorted ==
  ASSUME NEW s \in Seq(Message), Sorted(s), NEW S \in SUBSET DOMAIN s
  PROVE  Sorted(Kept(s, S))
  <1> DEFINE n == Cardinality(S)
             p == Places(S)
  <1>1. S \in SUBSET Nat /\ IsFiniteSet(S)
    BY Positions
  <1>2. p \in [1..n -> S] /\ \A k, l \in 1..n : k < l => p[k] < p[l]
    BY <1>1, PlacesInOrder
  <1>3. Kept(s, S) = [k \in 1..n |-> s[p[k]]]
    BY <1>1, KeptIs
  <1> HIDE DEF n, p
  <1> QED BY <1>2, <1>3 DEF Sorted

LEMMA SentOfType ==
  ASSUME NEW s \in Seq(Message)
  PROVE  /\ SentOf(s) \in Seq(ServerMessage)
         /\ Sorted(s) => Sorted(SentOf(s))
         /\ \A k \in DOMAIN SentOf(s) : \E i \in DOMAIN s : IsSent(s[i]) /\ SentOf(s)[k] = s[i]
         /\ \A i \in DOMAIN s : IsSent(s[i]) => \E k \in DOMAIN SentOf(s) : SentOf(s)[k] = s[i]
  <1> DEFINE S == SentAt(s)
             n == Cardinality(S)
             p == Places(S)
  <1>0. S \in SUBSET DOMAIN s
    BY DEF SentAt
  <1>1. S \in SUBSET Nat /\ IsFiniteSet(S)
    BY <1>0, Positions
  <1>2. /\ n \in Nat /\ p \in [1..n -> S]
        /\ \A i \in S : \E k \in 1..n : p[k] = i
    BY <1>1, PlacesInOrder
  <1>3. SentOf(s) = [k \in 1..n |-> s[p[k]]]
    BY <1>1, KeptIs DEF SentOf
  <1>4. \A i \in S : IsSent(s[i]) /\ s[i] \in ServerMessage
    BY <1>0, Positions, MessageTypes DEF SentAt
  <1>5. \A i \in DOMAIN s : IsSent(s[i]) => i \in S
    BY DEF SentAt
  <1>6. Sorted(s) => Sorted(SentOf(s))
    BY <1>0, KeptSorted DEF SentOf
  <1> HIDE DEF S, n, p
  <1>7. \A k \in 1..n : s[p[k]] \in ServerMessage
    BY <1>2, <1>4
  <1>8. SentOf(s) \in Seq(ServerMessage)
    BY <1>2, <1>3, <1>7, IsASeq
  <1>9. DOMAIN SentOf(s) = 1..n /\ \A k \in 1..n : SentOf(s)[k] = s[p[k]]
    BY <1>3
  <1>10. \A k \in 1..n : p[k] \in DOMAIN s /\ IsSent(s[p[k]])
    BY <1>0, <1>2, <1>4
  <1>11. ASSUME NEW i \in DOMAIN s, IsSent(s[i])
         PROVE  \E k \in DOMAIN SentOf(s) : SentOf(s)[k] = s[i]
    <2>1. PICK k \in 1..n : p[k] = i
      BY <1>2, <1>5, <1>11
    <2> QED BY <1>9, <2>1
  <1> QED BY <1>6, <1>8, <1>9, <1>10, <1>11

LEMMA SentOfSent ==
  ASSUME NEW s \in Seq(ServerMessage)
  PROVE  SentOf(s) = s
  <1>1. SentAt(s) = DOMAIN s
    <2>1. \A i \in DOMAIN s : s[i] \in ServerMessage
      BY ElementOfSeq, LenProperties
    <2> QED BY <2>1, MessageTypes DEF SentAt
  <1> QED BY <1>1, KeptAll DEF SentOf

-----------------------------------------------------------------------------
(* removeDuplicateMessages *)

First(s) == {i \in DOMAIN s : \A j \in 1..(i - 1) : s[j].id # s[i].id}

\* Some position is the first of its id.
LEMMA FirstOfId ==
  ASSUME NEW s \in Seq(Message), NEW i \in DOMAIN s
  PROVE  \E j \in First(s) : j <= i /\ s[j].id = s[i].id
  <1> DEFINE T == {j \in DOMAIN s : s[j].id = s[i].id}
  <1>1. DOMAIN s = 1..Len(s) /\ Len(s) \in Nat
    BY Positions
  <1>2. T \subseteq Nat /\ i \in T
    BY <1>1
  <1>3. PICK j \in T : \A k \in T : ~ (<<k, j>> \in OpToRel(<, Nat))
    BY <1>2, NatLessThanWellFounded, WFMin
  <1>4. \A k \in T : ~(k < j)
    BY <1>2, <1>3 DEF OpToRel
  <1>5. j \in First(s)
    <2> SUFFICES ASSUME NEW k \in 1..(j - 1) PROVE s[k].id # s[j].id
      BY DEF First
    <2>1. j \in 1..Len(s) /\ k \in DOMAIN s /\ k < j
      BY <1>1
    <2> QED BY <1>4, <2>1
  <1>6. j <= i
    BY <1>1, <1>2, <1>4
  <1> QED BY <1>5, <1>6

\* What is left is newest first, each id once, each message the first of its id.
LEMMA NewestFirstIs ==
  ASSUME NEW s \in Seq(Message)
  PROVE  /\ NewestFirst(s) \in Seq(Message) /\ Sorted(NewestFirst(s))
         /\ \A k \in DOMAIN NewestFirst(s) : \E i \in First(s) : NewestFirst(s)[k] = s[i]
         /\ \A i \in First(s) : \E k \in DOMAIN NewestFirst(s) : NewestFirst(s)[k] = s[i]
  <1> DEFINE F == First(s)
             upTo == [i \in F |->
                        {j \in F : s[j].ts > s[i].ts \/ (s[j].ts = s[i].ts /\ j <= i)}]
             p == Ranked(F, upTo)
             n == Cardinality(F)
             t == NewestFirst(s)
  <1>1. F \in SUBSET DOMAIN s
    BY DEF First
  <1>2. /\ IsFiniteSet(F)
        /\ \A i \in F : i \in Nat /\ s[i] \in Message /\ s[i].ts \in Nat
        /\ \A i, j \in F : s[i].id = s[j].id => i = j
    <2>1. IsFiniteSet(F) /\ \A i \in F : i \in Nat /\ s[i] \in Message
      BY <1>1, Positions
    <2>2. ASSUME NEW i \in F, NEW j \in F, s[i].id = s[j].id, i < j PROVE FALSE
      <3>1. i \in 1..(j - 1)
        BY <1>1, <2>1, <2>2, Positions
      <3> QED BY <2>2, <3>1 DEF First
    <2>3. \A i, j \in F : s[i].id = s[j].id => i = j
      <3> SUFFICES ASSUME NEW i \in F, NEW j \in F, s[i].id = s[j].id PROVE i = j
        OBVIOUS
      <3>1. ~(i < j) /\ ~(j < i)
        BY <2>2
      <3> QED BY <2>1, <3>1
    <2> QED BY <2>1, <2>3, MessageTypes
  <1>3. /\ upTo \in [F -> SUBSET F]
        /\ \A i, j \in F : i \in upTo[j] <=> s[i].ts > s[j].ts \/ (s[i].ts = s[j].ts /\ i <= j)
    OBVIOUS
  <1>4. t = At(s, p)
    BY DEF NewestFirst, First
  <1> HIDE DEF F, upTo
  <1>5. IsOrder(F, upTo)
    <2>1. ASSUME NEW i \in F, NEW j \in F
          PROVE  /\ i \in upTo[i]
                 /\ i \in upTo[j] \/ j \in upTo[i]
                 /\ i # j /\ i \in upTo[j] => upTo[i] \subseteq upTo[j] /\ j \notin upTo[i]
      <3>1. i \in upTo[i] /\ (i \in upTo[j] \/ j \in upTo[i])
        BY <1>2, <1>3
      <3>2. i # j /\ i \in upTo[j] => j \notin upTo[i]
        BY <1>2, <1>3
      <3>3. ASSUME i \in upTo[j], NEW x \in upTo[i] PROVE x \in upTo[j]
        <4>1. x \in F
          BY <1>3
        <4> QED BY <1>2, <1>3, <3>3, <4>1
      <3> QED BY <3>1, <3>2, <3>3
    <2> QED BY <1>2, <1>3, <2>1 DEF IsOrder
  <1>6. Lists(p, n, F, upTo)
    BY <1>5, RankedLists
  <1> HIDE DEF p, n, t
  <1>7. /\ n \in Nat /\ p \in [1..n -> F]
        /\ \A i \in F : \E k \in 1..n : p[k] = i
    BY <1>6 DEF Lists
  <1>8. t = [k \in 1..n |-> s[p[k]]]
    BY <1>4, <1>7 DEF At
  <1>9. t \in Seq(Message)
    <2>1. \A k \in 1..n : s[p[k]] \in Message
      BY <1>2, <1>7
    <2> QED BY <1>7, <1>8, <2>1, IsASeq
  <1>10. Sorted(t)
    <2> SUFFICES ASSUME NEW j \in 1..n, NEW k \in 1..n, j < k
                 PROVE  t[j].id # t[k].id /\ t[j].ts >= t[k].ts
      BY <1>8 DEF Sorted
    <2>1. p[j] \in F /\ p[k] \in F /\ p[j] # p[k] /\ p[j] \in upTo[p[k]]
      BY <1>6 DEF Lists
    <2>2. t[j] = s[p[j]] /\ t[k] = s[p[k]]
      BY <1>8
    <2>3. s[p[j]].id # s[p[k]].id
      BY <1>2, <2>1
    <2>4. s[p[j]].ts \in Nat /\ s[p[k]].ts \in Nat
      BY <1>2, <2>1
    <2>5. s[p[j]].ts > s[p[k]].ts \/ s[p[j]].ts = s[p[k]].ts
      BY <1>3, <2>1
    <2> QED BY <2>2, <2>3, <2>4, <2>5
  <1>11. DOMAIN t = 1..n /\ \A k \in 1..n : t[k] = s[p[k]]
    BY <1>8
  <1>12. /\ \A k \in DOMAIN t : \E i \in F : t[k] = s[i]
         /\ \A i \in F : \E k \in DOMAIN t : t[k] = s[i]
    BY <1>7, <1>11
  <1> QED BY <1>9, <1>10, <1>12 DEF t, F

\* The server's messages of a set of ids, newest first.
LEMMA VersionsAre ==
  ASSUME NEW S \in SUBSET (1..MaxLog), NEW res
  PROVE  /\ Versions(S, res) \in Seq(ServerMessage) /\ Sorted(Versions(S, res))
         /\ \A k \in DOMAIN Versions(S, res) : \E i \in S : Versions(S, res)[k] = Version(i, res)
         /\ \A i \in S : \E k \in DOMAIN Versions(S, res) : Versions(S, res)[k] = Version(i, res)
  <1> DEFINE upTo == [i \in S |-> {j \in S : j >= i}]
             p == Ranked(S, upTo)
             n == Cardinality(S)
             t == Versions(S, res)
  <1>1. IsFiniteSet(S) /\ \A i \in S : i \in Nat /\ i \in 1..MaxLog
    <2>1. IsFiniteSet(1..MaxLog)
      BY ConversationAssumption, FS_Interval
    <2>2. IsFiniteSet(S)
      BY <2>1, FS_Subset
    <2>3. \A i \in 1..MaxLog : i \in Nat
      OBVIOUS
    <2> QED BY <2>2, <2>3
  <1>2. /\ upTo \in [S -> SUBSET S]
        /\ \A i, j \in S : i \in upTo[j] <=> i >= j
    OBVIOUS
  <1>3. t = [k \in DOMAIN p |-> Version(p[k], res)]
    BY DEF Versions, Downwards
  <1> HIDE DEF upTo
  <1>4. IsOrder(S, upTo)
    <2>1. ASSUME NEW i \in S, NEW j \in S
          PROVE  /\ i \in upTo[i]
                 /\ i \in upTo[j] \/ j \in upTo[i]
                 /\ i # j /\ i \in upTo[j] => upTo[i] \subseteq upTo[j] /\ j \notin upTo[i]
      <3>1. i \in upTo[i] /\ (i \in upTo[j] \/ j \in upTo[i])
        BY <1>1, <1>2
      <3>2. i # j /\ i \in upTo[j] => j \notin upTo[i]
        BY <1>1, <1>2
      <3>3. ASSUME i \in upTo[j], NEW x \in upTo[i] PROVE x \in upTo[j]
        <4>1. x \in S
          BY <1>2
        <4> QED BY <1>1, <1>2, <3>3, <4>1
      <3> QED BY <3>1, <3>2, <3>3
    <2> QED BY <1>1, <1>2, <2>1 DEF IsOrder
  <1>5. Lists(p, n, S, upTo)
    BY <1>4, RankedLists
  <1> HIDE DEF p, n, t
  <1>6. /\ n \in Nat /\ p \in [1..n -> S] /\ DOMAIN p = 1..n
        /\ \A i \in S : \E k \in 1..n : p[k] = i
    BY <1>5 DEF Lists
  <1>7. \A k \in 1..n : Version(p[k], res) \in ServerMessage
    BY <1>1, <1>6, VersionType
  <1>8. t \in Seq(ServerMessage)
    <2>1. t = [k \in 1..n |-> Version(p[k], res)]
      BY <1>3, <1>6
    <2> QED BY <1>6, <1>7, <2>1, IsASeq
  <1>9. DOMAIN t = 1..n /\ \A k \in 1..n : t[k] = Version(p[k], res)
    BY <1>3, <1>6
  <1>10. Sorted(t)
    <2> SUFFICES ASSUME NEW j \in 1..n, NEW k \in 1..n, j < k
                 PROVE  t[j].id # t[k].id /\ t[j].ts >= t[k].ts
      BY <1>9 DEF Sorted
    <2>1. p[j] \in S /\ p[k] \in S /\ p[j] # p[k] /\ p[j] \in upTo[p[k]]
      BY <1>5 DEF Lists
    <2>2. /\ t[j].id = p[j] /\ t[j].ts = 2 * p[j]
          /\ t[k].id = p[k] /\ t[k].ts = 2 * p[k]
      <3>1. t[j] = Version(p[j], res) /\ t[k] = Version(p[k], res)
        BY <1>9
      <3>2. p[j] \in 1..MaxLog /\ p[k] \in 1..MaxLog
        BY <1>1, <2>1
      <3> QED BY <3>1, <3>2, VersionType
    <2>3. p[j] >= p[k] /\ p[j] \in Nat /\ p[k] \in Nat
      BY <1>1, <1>2, <2>1
    <2> QED BY <2>1, <2>2, <2>3
  <1>11. /\ \A k \in DOMAIN t : \E i \in S : t[k] = Version(i, res)
         /\ \A i \in S : \E k \in DOMAIN t : t[k] = Version(i, res)
    BY <1>6, <1>9
  <1> QED BY <1>8, <1>10, <1>11 DEF t

-----------------------------------------------------------------------------
(* Numbers *)

LEMMA NatMin == ASSUME NEW T, T \subseteq Nat, T # {}
                PROVE  Min(T) \in T /\ \A y \in T : Min(T) <= y
  <1>1. PICK x \in T : \A y \in T : ~ (<<y, x>> \in OpToRel(<, Nat))
    BY NatLessThanWellFounded, WFMin
  <1>2. ASSUME NEW y \in T PROVE x =< y
    <2>1. x \in Nat /\ y \in Nat
      OBVIOUS
    <2>2. ~(y < x)
      BY <1>1, <2>1 DEF OpToRel
    <2> QED BY <2>1, <2>2
  <1> QED BY <1>2 DEF Min

\* A bounded set of naturals has a maximum.
LEMMA NatMax == ASSUME NEW S, S # {}, S \subseteq Nat, NEW b \in Nat, \A x \in S : x <= b
                PROVE  Max(S) \in S /\ \A y \in S : Max(S) >= y
  <1> DEFINE T == {n \in Nat : \E x \in S : n = b - x}
  <1>1. T # {}
    <2>1. PICK x \in S : TRUE
      OBVIOUS
    <2>2. b - x \in T
      BY <2>1
    <2> QED BY <2>2
  <1>2. PICK t \in T : \A u \in T : t <= u
    <2>1. T \subseteq Nat
      OBVIOUS
    <2> HIDE DEF T
    <2> QED BY <1>1, <2>1, NatMin
  <1>3. PICK x \in S : t = b - x
    BY <1>2
  <1>4. ASSUME NEW y \in S PROVE x >= y
    <2>1. b - y \in T
      OBVIOUS
    <2>2. t <= b - y
      BY <1>2, <2>1
    <2> QED BY <1>3, <2>2
  <1> QED BY <1>4 DEF Max

LEMMA Halves == ASSUME NEW a \in Nat, NEW b \in Nat, 2 * a >= 2 * b, a # b
                PROVE  a > b
OBVIOUS

LEMMA Apart == ASSUME NEW a \in Nat, NEW b \in Nat
               PROVE  ~(a > b /\ b > a)
OBVIOUS

LEMMA LeastIs == ASSUME NEW S \in SUBSET (1..MaxLog), S # {}
                 PROVE  Least(S) \in S /\ \A j \in S : Least(S) <= j
  <1>1. S \subseteq Nat
    OBVIOUS
  <1>2. \E i \in S : \A j \in S : i <= j
    BY <1>1, NatMin
  <1> QED BY <1>2 DEF Least

-----------------------------------------------------------------------------
(* Lists of messages *)

Joins(u, s, t) ==
  /\ \A k \in DOMAIN u : \/ \E i \in DOMAIN s : u[k] = s[i]
                         \/ \E i \in DOMAIN t : u[k] = t[i]
  /\ \A i \in DOMAIN s : i \in DOMAIN u /\ u[i] = s[i]
  /\ \A i \in DOMAIN t : \E k \in DOMAIN u : u[k] = t[i]

LEMMA ConcatIs ==
  ASSUME NEW M, NEW s \in Seq(M), NEW t \in Seq(M)
  PROVE  s \o t \in Seq(M) /\ Joins(s \o t, s, t)
  <1> DEFINE u == s \o t
             m == Len(s)
             n == Len(t)
  <1>1. /\ DOMAIN s = 1..m /\ m \in Nat /\ DOMAIN t = 1..n /\ n \in Nat
    BY LenProperties
  <1>2. /\ u \in Seq(M) /\ DOMAIN u = 1..(m + n)
        /\ \A i \in 1..(m + n) : u[i] = IF i <= m THEN s[i] ELSE t[i - m]
    BY ConcatProperties, LenProperties
  <1> HIDE DEF u, m, n
  <1>3. ASSUME NEW k \in DOMAIN u
        PROVE  \/ \E i \in DOMAIN s : u[k] = s[i]
               \/ \E i \in DOMAIN t : u[k] = t[i]
    <2>1. CASE k <= m
      <3>1. k \in DOMAIN s /\ u[k] = s[k]
        BY <1>1, <1>2, <2>1
      <3> QED BY <3>1
    <2>2. CASE ~(k <= m)
      <3>1. k - m \in DOMAIN t /\ u[k] = t[k - m]
        BY <1>1, <1>2, <2>2
      <3> QED BY <3>1
    <2> QED BY <2>1, <2>2
  <1>4. ASSUME NEW i \in DOMAIN s PROVE i \in DOMAIN u /\ u[i] = s[i]
    BY <1>1, <1>2
  <1>5. ASSUME NEW i \in DOMAIN t PROVE \E k \in DOMAIN u : u[k] = t[i]
    <2>1. m + i \in DOMAIN u /\ u[m + i] = t[i]
      BY <1>1, <1>2
    <2> QED BY <2>1
  <1>6. u \in Seq(M) /\ Joins(u, s, t)
    BY <1>2, <1>3, <1>4, <1>5 DEF Joins
  <1> QED BY <1>6 DEF u

\* Every id stays, with the first message that has it.
LEMMA NewestFirstIds ==
  ASSUME NEW s \in Seq(Message), NEW i \in DOMAIN s
  PROVE  \E k \in DOMAIN NewestFirst(s), j \in First(s) :
            NewestFirst(s)[k] = s[j] /\ s[j].id = s[i].id /\ j <= i
  <1>1. PICK j \in First(s) : j <= i /\ s[j].id = s[i].id
    BY FirstOfId
  <1>2. PICK k \in DOMAIN NewestFirst(s) : NewestFirst(s)[k] = s[j]
    BY NewestFirstIs
  <1> QED BY <1>1, <1>2

LEMMA NewestFirstFrom ==
  ASSUME NEW s \in Seq(Message), NEW k \in DOMAIN NewestFirst(s)
  PROVE  \E i \in DOMAIN s : NewestFirst(s)[k] = s[i]
BY NewestFirstIs DEF First

\* Strictly descending messages of the server are listed in one way only.
LEMMA SortedOnce ==
  ASSUME NEW s \in Seq(ServerMessage), NEW t \in Seq(ServerMessage), Sorted(s), Sorted(t),
         \A k \in DOMAIN s : \E i \in DOMAIN t : s[k] = t[i],
         \A k \in DOMAIN t : \E i \in DOMAIN s : t[k] = s[i]
  PROVE  s = t
  <1> DEFINE m == Len(s)
             n == Len(t)
             Differs(k) == ~(k \in 1..m /\ k \in 1..n /\ s[k] = t[k])
             T == {k \in Nat : (k \in 1..m \/ k \in 1..n) /\ Differs(k)}
  <1>1. DOMAIN s = 1..m /\ m \in Nat /\ DOMAIN t = 1..n /\ n \in Nat
    BY LenProperties
  <1>2. /\ \A k \in 1..m : s[k].id \in Nat /\ s[k].ts = 2 * s[k].id
        /\ \A k \in 1..n : t[k].id \in Nat /\ t[k].ts = 2 * t[k].id
    <2>1. /\ \A k \in 1..m : s[k] \in ServerMessage
          /\ \A k \in 1..n : t[k] \in ServerMessage
      BY ElementOfSeq
    <2> QED BY <2>1, MessageTypes
  <1>3. /\ \A j, k \in 1..m : j < k => s[j].id > s[k].id
        /\ \A j, k \in 1..n : j < k => t[j].id > t[k].id
    <2>1. ASSUME NEW j \in 1..m, NEW k \in 1..m, j < k PROVE s[j].id > s[k].id
      <3>1. s[j].id # s[k].id /\ s[j].ts >= s[k].ts
        BY <1>1, <2>1 DEF Sorted
      <3>2. s[j].id \in Nat /\ s[k].id \in Nat
        BY <1>2
      <3>3. 2 * s[j].id >= 2 * s[k].id
        BY <1>2, <3>1
      <3> QED BY <3>1, <3>2, <3>3, Halves
    <2>2. ASSUME NEW j \in 1..n, NEW k \in 1..n, j < k PROVE t[j].id > t[k].id
      <3>1. t[j].id # t[k].id /\ t[j].ts >= t[k].ts
        BY <1>1, <2>2 DEF Sorted
      <3>2. t[j].id \in Nat /\ t[k].id \in Nat
        BY <1>2
      <3>3. 2 * t[j].id >= 2 * t[k].id
        BY <1>2, <3>1
      <3> QED BY <3>1, <3>2, <3>3, Halves
    <2> QED BY <2>1, <2>2
  <1>4. T = {}
    <2> SUFFICES ASSUME T # {} PROVE FALSE
      OBVIOUS
    <2>1. PICK k \in T : \A j \in T : k <= j
      <3>1. T \subseteq Nat
        OBVIOUS
      <3> HIDE DEF T
      <3> QED BY <3>1, NatMin
    <2>2. k \in Nat /\ (k \in 1..m \/ k \in 1..n) /\ Differs(k)
      BY <2>1
    <2>3. ASSUME NEW j \in 1..m \cup 1..n, j < k PROVE j \in 1..m /\ j \in 1..n /\ s[j] = t[j]
      <3>1. j \in Nat /\ j \notin T
        BY <1>1, <2>1, <2>2, <2>3
      <3> QED BY <3>1
    <2> HIDE DEF T, m, n
    <2>4. ASSUME k \in 1..m, NEW l \in 1..n, s[k] = t[l] PROVE k < l
      <3>1. CASE l < k
        <4>1. l \in 1..m /\ s[l] = t[l]
          BY <2>3, <3>1
        <4>2. s[l].id > s[k].id
          BY <1>3, <2>4, <3>1, <4>1
        <4> QED BY <1>2, <2>4, <4>1, <4>2
      <3>2. CASE l = k
        BY <2>2, <2>4, <3>2
      <3> QED BY <1>1, <2>2, <3>1, <3>2
    <2>5. ASSUME k \in 1..n, NEW l \in 1..m, t[k] = s[l] PROVE k < l
      <3>1. CASE l < k
        <4>1. l \in 1..n /\ s[l] = t[l]
          BY <2>3, <3>1
        <4>2. t[l].id > t[k].id
          BY <1>3, <2>5, <3>1, <4>1
        <4> QED BY <1>2, <2>5, <4>1, <4>2
      <3>2. CASE l = k
        BY <2>2, <2>5, <3>2
      <3> QED BY <1>1, <2>2, <3>1, <3>2
    <2>6. CASE k \in 1..m
      <3>1. PICK l \in 1..n : s[k] = t[l]
        BY <1>1, <2>6
      <3>2. k < l
        BY <2>4, <2>6, <3>1
      <3>3. k \in 1..n
        BY <1>1, <2>2, <2>6, <3>2
      <3>4. PICK j \in 1..m : t[k] = s[j]
        BY <1>1, <3>3
      <3>5. k < j
        BY <2>5, <3>3, <3>4
      <3>6. t[k].id > t[l].id /\ s[k].id > s[j].id
        BY <1>3, <2>6, <3>2, <3>3, <3>5
      <3>7. s[k].id \in Nat /\ t[k].id \in Nat
        BY <1>2, <2>6, <3>3
      <3>8. t[l].id = s[k].id /\ s[j].id = t[k].id
        BY <3>1, <3>4
      <3>9. s[k].id > t[k].id /\ t[k].id > s[k].id
        BY <3>6, <3>8
      <3> QED BY <3>7, <3>9, Apart
    <2>7. CASE k \in 1..n
      <3>1. PICK j \in 1..m : t[k] = s[j]
        BY <1>1, <2>7
      <3>2. k < j
        BY <2>5, <2>7, <3>1
      <3>3. k \in 1..m
        BY <1>1, <2>2, <2>7, <3>2
      <3> QED BY <2>6, <3>3
    <2> QED BY <2>2, <2>6, <2>7
  <1>5. ASSUME NEW k \in 1..m \cup 1..n PROVE k \in 1..m /\ k \in 1..n /\ s[k] = t[k]
    <2>1. k \in Nat /\ (k \in 1..m \/ k \in 1..n)
      OBVIOUS
    <2>2. k \notin T
      BY <1>4
    <2>3. ~Differs(k)
      BY <2>1, <2>2
    <2> QED BY <2>3
  <1>6. (\A k \in 1..m : k \in 1..n /\ s[k] = t[k]) /\ \A k \in 1..n : k \in 1..m
    BY <1>5
  <1>7. m = n
    <2> HIDE DEF m, n, T
    <2>1. ~(m < n)
      <3> SUFFICES ASSUME m < n PROVE FALSE
        OBVIOUS
      <3>1. n \in 1..n /\ n \notin 1..m
        BY <1>1
      <3> QED BY <1>6, <3>1
    <2>2. ~(n < m)
      <3> SUFFICES ASSUME n < m PROVE FALSE
        OBVIOUS
      <3>1. m \in 1..m /\ m \notin 1..n
        BY <1>1
      <3> QED BY <1>6, <3>1
    <2> QED BY <1>1, <2>1, <2>2
  <1> QED BY <1>6, <1>7, SeqEqual

LEMMA KeptFrom ==
  ASSUME NEW s \in Seq(Message), NEW S \in SUBSET DOMAIN s
  PROVE  /\ \A k \in DOMAIN Kept(s, S) : \E i \in S : Kept(s, S)[k] = s[i]
         /\ \A i \in S : \E k \in DOMAIN Kept(s, S) : Kept(s, S)[k] = s[i]
  <1> DEFINE n == Cardinality(S)
             p == Places(S)
  <1>1. S \in SUBSET Nat /\ IsFiniteSet(S)
    BY Positions
  <1>2. p \in [1..n -> S] /\ \A i \in S : \E k \in 1..n : p[k] = i
    BY <1>1, PlacesInOrder
  <1>3. Kept(s, S) = [k \in 1..n |-> s[p[k]]]
    BY <1>1, KeptIs
  <1> HIDE DEF n, p
  <1>4. DOMAIN Kept(s, S) = 1..n /\ \A k \in 1..n : Kept(s, S)[k] = s[p[k]]
    BY <1>3
  <1> QED BY <1>2, <1>4

\* Sorting again only leaves messages out.
LEMMA SortedAgain ==
  ASSUME NEW s \in Seq(Message)
  PROVE  /\ NewestFirst(s) \in Seq(Message) /\ Sorted(NewestFirst(s))
         /\ \A k \in DOMAIN NewestFirst(s) : \E i \in DOMAIN s : NewestFirst(s)[k] = s[i]
BY NewestFirstIs, NewestFirstFrom

\* The answer's messages are listed as it has them, and of the others those not
\* sent yet and those older than the answer.
LEMMA MergedIs ==
  ASSUME NEW local \in Seq(Message), NEW res, res.ids \in SUBSET (1..MaxLog)
  PROVE  /\ Merged(local, res) \in Seq(Message) /\ Sorted(Merged(local, res))
         /\ \A k \in DOMAIN Merged(local, res) :
              \/ \E i \in res.ids : Merged(local, res)[k] = Version(i, res)
              \/ \E i \in DOMAIN local :
                   /\ Merged(local, res)[k] = local[i] /\ Retained(local[i], res)
                   /\ ~(IsSent(local[i]) /\ local[i].id \in res.ids)
         /\ \A i \in res.ids : \E k \in DOMAIN Merged(local, res) : Merged(local, res)[k].id = i
  <1> DEFINE S == {i \in DOMAIN local : Retained(local[i], res)}
             kept == Kept(local, S)
             renewed == [k \in DOMAIN kept |->
                           IF IsSent(kept[k]) /\ kept[k].id \in res.ids
                           THEN Version(kept[k].id, res) ELSE kept[k]]
             new == res.ids \ SentIds(local)
             all == renewed \o Versions(new, res)
  <1>1. Merged(local, res) = NewestFirst(all)
    BY DEF Merged
  <1>2. S \in SUBSET DOMAIN local /\ new \in SUBSET (1..MaxLog)
    OBVIOUS
  <1>3. kept \in Seq(Message) /\ DOMAIN kept = 1..Len(kept) /\ Len(kept) \in Nat
    BY <1>2, KeptType, LenProperties
  <1>4. /\ \A k \in DOMAIN kept : \E i \in S : kept[k] = local[i]
        /\ \A i \in S : \E k \in DOMAIN kept : kept[k] = local[i]
    BY <1>2, KeptFrom
  <1>5. \A i \in S : i \in DOMAIN local /\ Retained(local[i], res)
    OBVIOUS
  <1>6. \A i \in DOMAIN local : Retained(local[i], res) => i \in S
    OBVIOUS
  <1>7. \A k \in DOMAIN renewed : renewed[k] \in Message
    <2> SUFFICES ASSUME NEW k \in DOMAIN kept PROVE renewed[k] \in Message
      OBVIOUS
    <2>1. kept[k] \in Message
      BY <1>3, ElementOfSeq
    <2>2. CASE IsSent(kept[k]) /\ kept[k].id \in res.ids
      <3>1. Version(kept[k].id, res) \in ServerMessage
        BY <2>2, VersionType
      <3> QED BY <2>2, <3>1, MessageTypes
    <2> QED BY <2>1, <2>2
  <1>8. DOMAIN renewed = DOMAIN kept
    OBVIOUS
  <1>9. renewed \in Seq(Message)
    <2>1. renewed = [k \in 1..Len(kept) |-> renewed[k]]
      BY <1>3
    <2>2. \A k \in 1..Len(kept) : renewed[k] \in Message
      BY <1>3, <1>7
    <2> HIDE DEF renewed, kept
    <2>3. [k \in 1..Len(kept) |-> renewed[k]] \in Seq(Message)
      BY <1>3, <2>2, IsASeq
    <2> QED BY <2>1, <2>3
  <1>10. /\ Versions(new, res) \in Seq(Message)
         /\ \A k \in DOMAIN Versions(new, res) : \E i \in new : Versions(new, res)[k] = Version(i, res)
         /\ \A i \in new : \E k \in DOMAIN Versions(new, res) : Versions(new, res)[k] = Version(i, res)
    <2>1. Versions(new, res) \in Seq(ServerMessage)
      BY <1>2, VersionsAre
    <2>2. Seq(ServerMessage) \subseteq Seq(Message)
      <3>1. ServerMessage \subseteq Message
        BY MessageTypes
      <3> HIDE DEF new
      <3> QED BY <3>1
    <2> QED BY <1>2, <2>1, <2>2, VersionsAre
  <1>11. ASSUME NEW k \in DOMAIN renewed
         PROVE  \/ \E i \in res.ids : renewed[k] = Version(i, res)
                \/ \E i \in DOMAIN local :
                     /\ renewed[k] = local[i] /\ Retained(local[i], res)
                     /\ ~(IsSent(local[i]) /\ local[i].id \in res.ids)
    <2>1. PICK i \in DOMAIN local : kept[k] = local[i] /\ Retained(local[i], res)
      BY <1>4, <1>5
    <2>2. renewed[k] = IF IsSent(kept[k]) /\ kept[k].id \in res.ids
                       THEN Version(kept[k].id, res) ELSE kept[k]
      OBVIOUS
    <2> HIDE DEF renewed, kept
    <2> QED BY <2>1, <2>2
  <1>12. ASSUME NEW i \in res.ids \cap SentIds(local)
         PROVE  \E k \in DOMAIN renewed : renewed[k] = Version(i, res)
    <2>1. PICK j \in DOMAIN local : local[j].id = i /\ IsSent(local[j])
      BY DEF SentIds, SentAt
    <2>2. Retained(local[j], res)
      BY <2>1 DEF Retained
    <2>3. PICK k \in DOMAIN kept : kept[k] = local[j]
      BY <1>4, <1>6, <2>2
    <2> QED BY <1>8, <2>1, <2>3
  <1>0. \A i \in res.ids : i \in new \/ i \in SentIds(local)
    OBVIOUS
  <1> HIDE DEF S, kept, renewed, new
  <1>13. /\ all \in Seq(Message)
         /\ \A k \in DOMAIN all : \/ \E i \in DOMAIN renewed : all[k] = renewed[i]
                                  \/ \E i \in DOMAIN Versions(new, res) : all[k] = Versions(new, res)[i]
         /\ \A i \in DOMAIN renewed : i \in DOMAIN all /\ all[i] = renewed[i]
         /\ \A i \in DOMAIN Versions(new, res) : \E k \in DOMAIN all : all[k] = Versions(new, res)[i]
    <2> DEFINE fresh == Versions(new, res)
    <2>1. fresh \in Seq(Message)
      BY <1>10
    <2> HIDE DEF fresh
    <2>2. renewed \o fresh \in Seq(Message) /\ Joins(renewed \o fresh, renewed, fresh)
      BY <1>9, <2>1, ConcatIs
    <2>3. all \in Seq(Message) /\ Joins(all, renewed, fresh)
      BY <2>2 DEF fresh
    <2> HIDE DEF all
    <2> QED BY <2>3 DEF Joins, fresh
  <1> HIDE DEF all
  <1>14. ASSUME NEW i \in res.ids PROVE \E k \in DOMAIN all : all[k] = Version(i, res)
    <2>1. CASE i \in SentIds(local)
      BY <1>12, <1>13, <2>1
    <2>2. CASE i \notin SentIds(local)
      BY <1>0, <1>10, <1>13, <2>2
    <2> QED BY <2>1, <2>2
  <1>15. ASSUME NEW k \in DOMAIN all
         PROVE  \/ \E i \in res.ids : all[k] = Version(i, res)
                \/ \E i \in DOMAIN local :
                     /\ all[k] = local[i] /\ Retained(local[i], res)
                     /\ ~(IsSent(local[i]) /\ local[i].id \in res.ids)
    <2>1. CASE \E i \in DOMAIN renewed : all[k] = renewed[i]
      BY <1>11, <2>1
    <2>2. CASE \E i \in DOMAIN Versions(new, res) : all[k] = Versions(new, res)[i]
      <3>1. PICK i \in new : all[k] = Version(i, res)
        BY <1>10, <2>2
      <3>2. i \in res.ids
        BY DEF new
      <3> QED BY <3>1, <3>2
    <2> QED BY <1>13, <2>1, <2>2
  <1>16. /\ NewestFirst(all) \in Seq(Message) /\ Sorted(NewestFirst(all))
         /\ \A k \in DOMAIN NewestFirst(all) : \E i \in DOMAIN all : NewestFirst(all)[k] = all[i]
    BY <1>13, SortedAgain
  <1>17. ASSUME NEW i \in res.ids PROVE \E k \in DOMAIN NewestFirst(all) : NewestFirst(all)[k].id = i
    <2>1. PICK j \in DOMAIN all : all[j] = Version(i, res)
      BY <1>14
    <2>2. all[j].id = i
      BY <2>1, VersionType
    <2>3. PICK k \in DOMAIN NewestFirst(all), l \in First(all) :
             NewestFirst(all)[k] = all[l] /\ all[l].id = all[j].id
      BY <1>13, NewestFirstIds
    <2> QED BY <2>2, <2>3
  <1>18. ASSUME NEW k \in DOMAIN NewestFirst(all)
         PROVE  \/ \E i \in res.ids : NewestFirst(all)[k] = Version(i, res)
                \/ \E i \in DOMAIN local :
                     /\ NewestFirst(all)[k] = local[i] /\ Retained(local[i], res)
                     /\ ~(IsSent(local[i]) /\ local[i].id \in res.ids)
    BY <1>15, <1>16
  <1> QED BY <1>1, <1>16, <1>17, <1>18

\* The message at k adopts the server's version i.
Adoption(m, i) == [m EXCEPT !.id = i, !.ts = 2 * i, !.status = "sent"]

LEMMA AdoptionType ==
  ASSUME NEW m \in Message, NEW i \in 1..MaxLog
  PROVE  /\ Adoption(m, i) \in ServerMessage /\ Adoption(m, i).id = i
         /\ Adoption(m, i).unsent = m.unsent
  <1>1. 2 * i \in Nat
    BY ConversationAssumption
  <1>2. /\ m \in [id: Sends \cup 1..MaxLog, ts: Nat, status: {"sent", "pending", "error"}, unsent: BOOLEAN]
    BY DEF Message, ServerMessage, OwnMessage
  <1> QED BY <1>1, <1>2 DEF Adoption, ServerMessage

LEMMA AdoptedIs ==
  ASSUME messages \in Seq(Message), NEW k \in DOMAIN messages, NEW i \in 1..MaxLog
  PROVE  LET s == [messages EXCEPT ![k] = Adoption(@, i)]
         IN  /\ Adopted(k, i) = NewestFirst(s)
             /\ s \in Seq(Message) /\ DOMAIN s = DOMAIN messages
             /\ \A j \in DOMAIN s : s[j] = IF j = k THEN Adoption(messages[k], i) ELSE messages[j]
  <1> DEFINE s == [messages EXCEPT ![k] = Adoption(@, i)]
  <1>1. Adopted(k, i) = NewestFirst(s)
    BY DEF Adopted, Adoption
  <1>2. DOMAIN messages = 1..Len(messages) /\ messages[k] \in Message
    BY Positions
  <1>3. Adoption(messages[k], i) \in Message
    BY <1>2, AdoptionType, MessageTypes
  <1>4. s = [messages EXCEPT ![k] = Adoption(messages[k], i)]
    OBVIOUS
  <1>5. s \in Seq(Message) /\ Len(s) = Len(messages)
        /\ \A j \in 1..Len(messages) : s[j] = IF j = k THEN Adoption(messages[k], i) ELSE messages[j]
    BY <1>2, <1>3, <1>4, ExceptSeq
  <1>6. DOMAIN s = DOMAIN messages
    OBVIOUS
  <1> QED BY <1>1, <1>2, <1>5, <1>6

LEMMA SeqOfServerMessages ==
  ASSUME NEW s \in Seq(ServerMessage)
  PROVE  s \in Seq(Message) /\ \A k \in DOMAIN s : s[k] \in ServerMessage
  <1>1. ServerMessage \subseteq Message
    BY MessageTypes
  <1>2. s \in [1..Len(s) -> ServerMessage] /\ Len(s) \in Nat
    BY LenProperties
  <1> QED BY <1>1, <1>2

LEMMA AdoptedForm ==
  ASSUME messages \in Seq(Message), NEW k \in DOMAIN messages, NEW i \in 1..MaxLog
  PROVE  \E s \in Seq(Message) :
            /\ Adopted(k, i) = NewestFirst(s) /\ DOMAIN s = DOMAIN messages
            /\ \A j \in DOMAIN s : s[j] = IF j = k THEN Adoption(messages[k], i) ELSE messages[j]
BY AdoptedIs, ZenonT(30)

-----------------------------------------------------------------------------
(* Types *)

Outcome == {"new", "posted", "left", "sent", "failed"}
PageKey == {None} \cup (1..MaxLog)
Copy == [messages: Seq(ServerMessage), pageKey: PageKey, lastRead: Nat]
Edit == [at: Nat \ {0}, message: Message, reached: BOOLEAN, left: BOOLEAN,
         copy: {None} \cup Copy]

\* What was answered.
Answered(fetch) ==
  fetch.phase = "answered" => fetch.res.ids \in SUBSET (1..MaxLog) /\ fetch.res.read \in Nat

ServerTyped ==
  /\ log \in Seq(Sends \cup {"peer", "us"}) /\ Len(log) <= MaxLog
  /\ gone \in SUBSET (1..MaxLog) /\ unsent \in SUBSET (1..MaxLog)
  /\ peerRead \in Nat /\ heard \in Nat

ViewTyped ==
  /\ profile \in BOOLEAN /\ messages \in Seq(Message) /\ lastRead \in Nat
  /\ pageKey \in PageKey
  /\ requested \in BOOLEAN /\ reverted \in BOOLEAN /\ foreign \in BOOLEAN
  /\ cache \in {None} \cup Copy

Typed ==
  /\ ServerTyped /\ ViewTyped
  /\ Answered(load) /\ Answered(refresh) /\ Answered(more)
  /\ out \in [Sends -> Outcome] /\ edit \in {None} \cup Edit

-----------------------------------------------------------------------------
(* Messages sent here *)

\* A message not sent yet is nowhere.
NewIsNowhere ==
  \A s \in Sends : out[s] = "new" =>
    /\ \A k \in DOMAIN messages : messages[k].id # s
    /\ edit # None => edit.message.id # s
    /\ \A i \in Ids : log[i] # s

-----------------------------------------------------------------------------
(* The copy *)

CopyOf(c) == /\ profile
             /\ c = [messages |-> c.messages, pageKey |-> pageKey, lastRead |-> lastRead]
             /\ ~reverted => c.messages = SentOf(messages)

Cached == cache # None /\ ~foreign => CopyOf(cache)

-----------------------------------------------------------------------------
(* The state a settled view was brought up to *)

Current ==
  settled =>
    /\ heard = Len(log)
    /\ more.phase = "answered" => more.res.ids \subseteq Ids \ gone /\ more.res.unsent = unsent

-----------------------------------------------------------------------------
(* Where messages come from *)

\* A message of the server, or one of ours that the view has or may put back.
Held(m) ==
  /\ m \in Message
  /\ m.id \in Sends =>
       \/ \E k \in DOMAIN messages : messages[k].id = m.id /\ messages[k].ts = m.ts
       \/ edit # None /\ edit.message.id = m.id /\ edit.message.ts = m.ts

LEMMA ServersAreHeld == \A m \in ServerMessage : Held(m)
BY MessageTypes DEF Held

LEMMA ListedAreHeld == ASSUME messages \in Seq(Message), NEW k \in DOMAIN messages
                       PROVE  Held(messages[k]) /\ messages[k] \in Message
BY Positions DEF Held

LEMMA ResponseType ==
  ASSUME ServerTyped, NEW key
  PROVE  /\ Ids \subseteq 1..MaxLog /\ Ids = DOMAIN log /\ Len(log) \in Nat
         /\ Response(key).ids \in SUBSET (1..MaxLog) /\ Response(key).ids \subseteq Ids \ gone
         /\ Response(key).read \in Nat
  <1>1. Len(log) \in Nat /\ Len(log) <= MaxLog /\ Ids = DOMAIN log
    BY LenProperties DEF ServerTyped, Ids
  <1>2. Ids \subseteq 1..MaxLog
    BY <1>1, ConversationAssumption DEF Ids
  <1>3. PageOf(key) \subseteq Ids \ gone
    BY DEF PageOf
  <1> QED BY <1>1, <1>2, <1>3 DEF Response, ServerTyped

LEMMA VersionsHeld ==
  ASSUME NEW S \in SUBSET (1..MaxLog), NEW res
  PROVE  /\ Versions(S, res) \in Seq(Message)
         /\ \A k \in DOMAIN Versions(S, res) : Held(Versions(S, res)[k])
  <1>1. Versions(S, res) \in Seq(ServerMessage)
    BY VersionsAre
  <1> QED BY <1>1, SeqOfServerMessages, ServersAreHeld

LEMMA MergedHeld ==
  ASSUME messages \in Seq(Message), NEW res, res.ids \in SUBSET (1..MaxLog)
  PROVE  /\ Merged(messages, res) \in Seq(Message)
         /\ \A k \in DOMAIN Merged(messages, res) : Held(Merged(messages, res)[k])
  <1> SUFFICES ASSUME NEW k \in DOMAIN Merged(messages, res)
               PROVE  Held(Merged(messages, res)[k])
    BY MergedIs
  <1>1. CASE \E i \in res.ids : Merged(messages, res)[k] = Version(i, res)
    <2>1. PICK i \in 1..MaxLog : Merged(messages, res)[k] = Version(i, res)
      BY <1>1
    <2>2. Version(i, res) \in ServerMessage
      BY VersionType
    <2> QED BY <2>1, <2>2, ServersAreHeld
  <1>2. CASE \E i \in DOMAIN messages : Merged(messages, res)[k] = messages[i]
    BY <1>2, ListedAreHeld
  <1>3. \A j \in DOMAIN Merged(messages, res) :
           \/ \E i \in res.ids : Merged(messages, res)[j] = Version(i, res)
           \/ \E i \in DOMAIN messages :
                 /\ Merged(messages, res)[j] = messages[i] /\ Retained(messages[i], res)
                 /\ ~(IsSent(messages[i]) /\ messages[i].id \in res.ids)
    BY MergedIs
  <1>4. \/ \E i \in res.ids : Merged(messages, res)[k] = Version(i, res)
        \/ \E i \in DOMAIN messages : Merged(messages, res)[k] = messages[i]
    BY <1>3
  <1> QED BY <1>1, <1>2, <1>4

LEMMA AdoptedHeld ==
  ASSUME messages \in Seq(Message), NEW k \in DOMAIN messages, NEW i \in 1..MaxLog
  PROVE  /\ Adopted(k, i) \in Seq(Message)
         /\ \A j \in DOMAIN Adopted(k, i) : Held(Adopted(k, i)[j])
  <1>1. PICK s \in Seq(Message) :
           /\ Adopted(k, i) = NewestFirst(s) /\ DOMAIN s = DOMAIN messages
           /\ \A j \in DOMAIN s : s[j] = IF j = k THEN Adoption(messages[k], i) ELSE messages[j]
    BY AdoptedForm
  <1>2. ASSUME NEW j \in DOMAIN s PROVE Held(s[j])
    <2>1. messages[k] \in Message /\ Held(messages[j])
      BY <1>1, ListedAreHeld
    <2>2. Held(Adoption(messages[k], i))
      BY <2>1, AdoptionType, ServersAreHeld
    <2> QED BY <1>1, <2>1, <2>2
  <1> QED BY <1>1, <1>2, SortedAgain

\* The message that an echo is matched with is pending.
LEMMA EchoIs ==
  ASSUME messages \in Seq(Message), PendingEcho # 0
  PROVE  /\ PendingEcho \in DOMAIN messages /\ messages[PendingEcho].status = "pending"
  <1> DEFINE P == {i \in DOMAIN messages : messages[i].status = "pending"}
  <1>1. PendingEcho = Max(P) /\ P # {}
    BY DEF PendingEcho
  <1>2. P \subseteq Nat /\ Len(messages) \in Nat /\ \A x \in P : x <= Len(messages)
    BY Positions
  <1>3. Max(P) \in P
    <2> HIDE DEF P
    <2> QED BY <1>1, <1>2, NatMax
  <1> QED BY <1>1, <1>3

Event(i) == [id |-> i, ts |-> 2 * i, status |-> "sent", unsent |-> FALSE]

LEMMA EventType == ASSUME NEW i \in 1..MaxLog
                   PROVE  Event(i) \in ServerMessage /\ Event(i).id = i /\ Event(i).ts = 2 * i
                          /\ Event(i).unsent = FALSE
  <1>1. 2 * i \in Nat
    BY ConversationAssumption
  <1> QED BY <1>1 DEF Event, ServerMessage

\* The cases of Hear.
LEMMA HearIs ==
  ASSUME ServerTyped, messages \in Seq(Message), Hear
  PROVE  LET i == heard + 1
         IN  /\ i \in 1..MaxLog /\ heard < Len(log)
             /\ \/ \E k \in DOMAIN messages :
                     messages[k].id = i /\ messages' = [messages EXCEPT ![k] = Event(i)]
                \/ /\ PendingEcho # 0 /\ messages' = Adopted(PendingEcho, i)
                \/ UNCHANGED messages
                \/ /\ \A k \in DOMAIN messages : messages[k].id # i
                   /\ 2 * i >= Newest /\ messages' = <<Event(i)>> \o messages
  <1> DEFINE i == heard + 1
             known == {k \in DOMAIN messages : messages[k].id = i}
             echo == IF log[i] = "peer" THEN 0 ELSE PendingEcho
  <1>1. i \in 1..MaxLog /\ heard < Len(log)
    BY ResponseType, ConversationAssumption DEF Hear, ServerTyped
  <1>2. \/ known # {} /\ messages' = [messages EXCEPT ![Min(known)] = Event(i)]
        \/ known = {} /\ echo # 0 /\ messages' = Adopted(echo, i)
        \/ UNCHANGED messages
        \/ known = {} /\ 2 * i >= Newest /\ messages' = <<Event(i)>> \o messages
    BY DEF Hear, Event
  <1>3. CASE known # {} /\ messages' = [messages EXCEPT ![Min(known)] = Event(i)]
    <2>1. known \subseteq Nat /\ known \subseteq DOMAIN messages
      BY Positions
    <2>2. Min(known) \in known
      <3> HIDE DEF known
      <3> QED BY <1>3, <2>1, NatMin
    <2> QED BY <1>1, <1>3, <2>2
  <1>4. CASE known = {} /\ echo # 0 /\ messages' = Adopted(echo, i)
    BY <1>1, <1>4
  <1> QED BY <1>1, <1>2, <1>3, <1>4

LEMMA HearHeld ==
  ASSUME ServerTyped, messages \in Seq(Message), Hear
  PROVE  messages' \in Seq(Message) /\ \A k \in DOMAIN messages' : Held(messages'[k])
  <1> DEFINE i == heard + 1
  <1>1. i \in 1..MaxLog
    BY HearIs
  <1>2. Event(i) \in ServerMessage /\ Event(i) \in Message /\ Held(Event(i))
    BY <1>1, EventType, MessageTypes, ServersAreHeld
  <1>3. ASSUME NEW k \in DOMAIN messages, messages' = [messages EXCEPT ![k] = Event(i)]
        PROVE  messages' \in Seq(Message) /\ \A j \in DOMAIN messages' : Held(messages'[j])
    <2>1. DOMAIN messages = 1..Len(messages)
      BY Positions
    <2>2. messages' \in Seq(Message) /\ DOMAIN messages' = DOMAIN messages
      BY <1>2, <1>3, <2>1, ExceptSeq
    <2>3. \A j \in DOMAIN messages : messages'[j] = IF j = k THEN Event(i) ELSE messages[j]
      BY <1>3
    <2> HIDE DEF i
    <2> QED BY <1>2, <2>2, <2>3, ListedAreHeld
  <1>4. CASE PendingEcho # 0 /\ messages' = Adopted(PendingEcho, i)
    BY <1>1, <1>4, EchoIs, AdoptedHeld
  <1>5. CASE UNCHANGED messages
    BY <1>5, ListedAreHeld
  <1>6. CASE messages' = <<Event(i)>> \o messages
    <2>1. <<Event(i)>> \in Seq(Message) /\ DOMAIN <<Event(i)>> = {1} /\ <<Event(i)>>[1] = Event(i)
      BY <1>2
    <2>2. /\ messages' \in Seq(Message)
          /\ \A k \in DOMAIN messages' : \/ messages'[k] = Event(i)
                                         \/ \E j \in DOMAIN messages : messages'[k] = messages[j]
      BY <1>6, <2>1, ConcatIs DEF Joins
    <2> QED BY <1>2, <2>2, ListedAreHeld
  <1> QED BY <1>3, <1>4, <1>5, <1>6, HearIs

LEMMA BubbleIs ==
  ASSUME messages \in Seq(Message), NEW s \in Sends
  PROVE  /\ Bubble(s) \in SUBSET DOMAIN messages
         /\ \A k \in Bubble(s) : messages[k] \in OwnMessage /\ messages[k].id = s
         /\ Bubble(s) # {} => Min(Bubble(s)) \in Bubble(s)
  <1>1. Bubble(s) \in SUBSET DOMAIN messages /\ Bubble(s) \subseteq Nat
    BY Positions DEF Bubble
  <1>2. \A k \in Bubble(s) : messages[k].id = s /\ messages[k] \in Message
    BY Positions DEF Bubble
  <1>3. \A k \in Bubble(s) : messages[k] \in OwnMessage
    BY <1>2, MessageTypes
  <1> QED BY <1>1, <1>2, <1>3, NatMin

LEMMA SentHeld ==
  ASSUME ServerTyped, messages \in Seq(Message), NEW s \in Sends, Sent(s)
  PROVE  messages' \in Seq(Message) /\ \A k \in DOMAIN messages' : Held(messages'[k])
  <1>1. PICK i \in Ids : messages' = IF Bubble(s) = {} THEN messages
                                     ELSE Adopted(Min(Bubble(s)), i)
    BY DEF Sent
  <1>2. i \in 1..MaxLog
    BY ResponseType
  <1>3. CASE Bubble(s) = {}
    BY <1>1, <1>3, ListedAreHeld
  <1>4. CASE Bubble(s) # {}
    <2>1. Min(Bubble(s)) \in DOMAIN messages
      BY <1>4, BubbleIs
    <2> QED BY <1>1, <1>2, <1>4, <2>1, AdoptedHeld
  <1> QED BY <1>3, <1>4

Failed(m) == [m EXCEPT !.status = "error"]

LEMMA FailedType == ASSUME NEW m \in OwnMessage
                    PROVE  /\ Failed(m) \in OwnMessage /\ Failed(m).id = m.id
                           /\ Failed(m).ts = m.ts /\ ~IsSent(Failed(m)) /\ ~IsSent(m)
BY DEF Failed, OwnMessage, IsSent

LEMMA SendFailsIs ==
  ASSUME messages \in Seq(Message), NEW s \in Sends, SendFails(s)
  PROVE  /\ messages' \in Seq(Message) /\ DOMAIN messages' = DOMAIN messages
         /\ \A k \in DOMAIN messages : /\ messages'[k] \in Message
                                       /\ messages'[k].id = messages[k].id
                                       /\ messages'[k].ts = messages[k].ts
                                       /\ IsSent(messages'[k]) <=> IsSent(messages[k])
                                       /\ IsSent(messages[k]) => messages'[k] = messages[k]
  <1>1. messages' = [k \in DOMAIN messages |->
                       IF k \in Bubble(s) THEN Failed(messages[k]) ELSE messages[k]]
    BY DEF SendFails, Failed
  <1>2. DOMAIN messages = 1..Len(messages) /\ Len(messages) \in Nat
    BY Positions
  <1>3. ASSUME NEW k \in DOMAIN messages
        PROVE  /\ messages'[k] \in Message
               /\ messages'[k].id = messages[k].id
               /\ messages'[k].ts = messages[k].ts
               /\ IsSent(messages'[k]) <=> IsSent(messages[k])
               /\ IsSent(messages[k]) => messages'[k] = messages[k]
    <2>1. CASE k \in Bubble(s)
      <3>1. messages[k] \in OwnMessage
        BY <2>1, BubbleIs
      <3>2. messages'[k] = Failed(messages[k])
        BY <1>1, <2>1
      <3>3. messages'[k] \in Message
        BY <3>1, <3>2, FailedType DEF Message
      <3> QED BY <3>1, <3>2, <3>3, FailedType
    <2>2. CASE k \notin Bubble(s)
      <3>1. messages'[k] = messages[k]
        BY <1>1, <2>2
      <3> QED BY <3>1, ListedAreHeld
    <2> QED BY <2>1, <2>2
  <1>4. messages' \in Seq(Message)
    <2>1. messages' = [k \in 1..Len(messages) |-> messages'[k]]
      BY <1>1, <1>2
    <2>2. [k \in 1..Len(messages) |-> messages'[k]] \in Seq(Message)
      BY <1>2, <1>3, IsASeq
    <2> QED BY <2>1, <2>2
  <1>5. DOMAIN messages' = DOMAIN messages
    BY <1>1
  <1> QED BY <1>3, <1>4, <1>5

LEMMA SendFailsHeld ==
  ASSUME messages \in Seq(Message), NEW s \in Sends, SendFails(s)
  PROVE  messages' \in Seq(Message) /\ \A k \in DOMAIN messages' : Held(messages'[k])
BY SendFailsIs DEF Held

LEMMA DeleteHeld ==
  ASSUME messages \in Seq(Message), Delete
  PROVE  /\ messages' \in Seq(Message) /\ \A k \in DOMAIN messages' : Held(messages'[k])
         /\ edit' \in Edit /\ Held(edit'.message)
  <1>1. PICK k \in DOMAIN messages :
           /\ messages' = Kept(messages, DOMAIN messages \ {k})
           /\ edit' = [at |-> k, message |-> messages[k], reached |-> FALSE,
                       left |-> FALSE, copy |-> None]
    BY DEF Delete
  <1> DEFINE S == DOMAIN messages \ {k}
  <1>2. S \in SUBSET DOMAIN messages
    OBVIOUS
  <1>3. messages' \in Seq(Message)
        /\ \A j \in DOMAIN messages' : \E i \in DOMAIN messages : messages'[j] = messages[i]
    BY <1>1, <1>2, KeptType, KeptFrom
  <1>4. k \in Nat \ {0} /\ messages[k] \in Message /\ Held(messages[k])
    BY Positions, ListedAreHeld
  <1> QED BY <1>1, <1>3, <1>4, ListedAreHeld DEF Edit

\* What a deletion that fails puts back is the list it was taken from.
LEMMA PutBackHeld ==
  ASSUME messages \in Seq(Message), edit \in Edit, edit # None
  PROVE  PutBack \in Seq(Message) /\ \A k \in DOMAIN PutBack : Held(PutBack[k])
  <1> DEFINE at == Min({edit.at, Len(messages) + 1})
             n == Len(messages)
             back(k) == IF k < at THEN messages[k]
                        ELSE IF k = at THEN edit.message ELSE messages[k - 1]
  <1>1. PutBack = [k \in 1..(n + 1) |-> back(k)]
    BY DEF PutBack
  <1>2. edit.at \in Nat \ {0} /\ edit.message \in Message /\ Held(edit.message)
    BY DEF Edit, Held
  <1>3. n \in Nat /\ DOMAIN messages = 1..n
    BY Positions
  <1>4. at \in Nat \ {0} /\ at <= n + 1
    <2>1. {edit.at, n + 1} \subseteq Nat /\ {edit.at, n + 1} # {}
      BY <1>2, <1>3
    <2>2. at \in {edit.at, n + 1} /\ at <= n + 1
      BY <2>1, NatMin
    <2> QED BY <1>2, <1>3, <2>2
  <1> HIDE DEF at, n
  <1>5. ASSUME NEW k \in 1..(n + 1) PROVE back(k) \in Message /\ Held(back(k))
    <2>1. CASE k < at
      <3>1. k \in DOMAIN messages
        BY <1>3, <1>4, <2>1
      <3> QED BY <2>1, <3>1, ListedAreHeld
    <2>2. CASE k = at
      BY <1>2, <1>4, <2>2
    <2>3. CASE k > at
      <3>1. k - 1 \in DOMAIN messages
        BY <1>3, <1>4, <2>3
      <3>2. back(k) = messages[k - 1]
        BY <1>4, <2>3
      <3> QED BY <3>1, <3>2, ListedAreHeld
    <2> QED BY <1>3, <1>4, <2>1, <2>2, <2>3
  <1> HIDE DEF back
  <1>6. PutBack \in Seq(Message)
    BY <1>1, <1>3, <1>5, IsASeq
  <1> QED BY <1>1, <1>5, <1>6

\* What becomes of a deletion whose view is left.
LEMMA LeftEditIs ==
  ASSUME Typed
  PROVE  /\ edit = None => LeftEdit = None
         /\ edit # None => LeftEdit \in Edit /\ LeftEdit.message = edit.message
  <1>1. /\ messages \in Seq(Message) /\ edit \in {None} \cup Edit
        /\ pageKey \in PageKey /\ lastRead \in Nat
    BY DEF Typed, ViewTyped
  <1>2. CASE Deleting
    <2>1. edit \in Edit /\ edit # None
      BY <1>1, <1>2 DEF Deleting
    <2>2. SentOf(PutBack) \in Seq(ServerMessage)
      BY <1>1, <2>1, PutBackHeld, SentOfType
    <2> DEFINE copy == IF profile
                       THEN [messages |-> SentOf(PutBack), pageKey |-> pageKey,
                             lastRead |-> lastRead]
                       ELSE None
    <2>3. copy \in {None} \cup Copy
      BY <1>1, <2>2 DEF Copy
    <2>4. LeftEdit = [edit EXCEPT !.left = TRUE, !.copy = copy]
      BY <1>2 DEF LeftEdit
    <2> HIDE DEF copy
    <2> QED BY <2>1, <2>3, <2>4 DEF Edit
  <1>3. CASE ~Deleting
    BY <1>1, <1>3 DEF LeftEdit
  <1> QED BY <1>2, <1>3

LEMMA ApplyMoreHeld ==
  ASSUME messages \in Seq(Message), Answered(more), ApplyMore
  PROVE  messages' \in Seq(Message) /\ \A k \in DOMAIN messages' : Held(messages'[k])
  <1> DEFINE page == Versions(more.res.ids, more.res)
  <1>1. messages' = NewestFirst(messages \o page) /\ more.res.ids \in SUBSET (1..MaxLog)
    BY DEF ApplyMore, Answered
  <1>2. page \in Seq(Message) /\ \A k \in DOMAIN page : Held(page[k])
    BY <1>1, VersionsHeld
  <1> HIDE DEF page
  <1>3. messages \o page \in Seq(Message)
        /\ \A k \in DOMAIN (messages \o page) : Held((messages \o page)[k])
    BY <1>2, ConcatIs, ListedAreHeld DEF Joins
  <1> QED BY <1>1, <1>3, SortedAgain

LEMMA FromCacheHeld ==
  ASSUME Typed, cache # None, messages' = cache.messages
  PROVE  messages' \in Seq(Message) /\ \A k \in DOMAIN messages' : Held(messages'[k])
  <1>1. cache.messages \in Seq(ServerMessage)
    BY DEF Typed, ViewTyped, Copy
  <1> QED BY <1>1, SeqOfServerMessages, ServersAreHeld

LEMMA NothingHeld == ASSUME messages' = <<>>
                     PROVE  messages' \in Seq(Message) /\ \A k \in DOMAIN messages' : Held(messages'[k])
  <1>1. DOMAIN <<>> = {} /\ <<>> \in Seq(Message)
    BY EmptySeq
  <1> QED BY <1>1

\* A message being sent is put on top, whatever its date, and the list sorted.
Tops(new, all, s) ==
  /\ new \in OwnMessage /\ new \in Message /\ new.id = s
  /\ all \in Seq(Message) /\ messages' = NewestFirst(all)
  /\ \A k \in DOMAIN all : all[k] = new \/ \E i \in DOMAIN messages : all[k] = messages[i]
  /\ \A i \in DOMAIN messages : \E k \in DOMAIN all : all[k] = messages[i]

LEMMA SendIs ==
  ASSUME messages \in Seq(Message), NEW s \in Sends, Send(s)
  PROVE  \E new, all : Tops(new, all, s)
  <1>1. PICK now \in Clock :
           messages' = NewestFirst(<<[id |-> s, ts |-> now, status |-> "pending",
                                      unsent |-> FALSE]>> \o messages)
    BY DEF Send
  <1> DEFINE new == [id |-> s, ts |-> now, status |-> "pending", unsent |-> FALSE]
             one == <<new>>
             all == one \o messages
  <1>2. new \in OwnMessage /\ new \in Message /\ new.id = s
    BY ConversationAssumption DEF Message, OwnMessage
  <1>3. messages' = NewestFirst(all)
    BY <1>1
  <1> HIDE DEF new
  <1>4. one \in Seq(Message) /\ DOMAIN one = {1} /\ one[1] = new
    BY <1>2
  <1> HIDE DEF one
  <1>5. all \in Seq(Message) /\ Joins(all, one, messages)
    BY <1>4, ConcatIs
  <1> HIDE DEF all
  <1>6. /\ \A k \in DOMAIN all : all[k] = new \/ \E i \in DOMAIN messages : all[k] = messages[i]
        /\ \A i \in DOMAIN messages : \E k \in DOMAIN all : all[k] = messages[i]
    BY <1>4, <1>5 DEF Joins
  <1>7. Tops(new, all, s)
    BY <1>2, <1>3, <1>5, <1>6 DEF Tops
  <1> QED BY <1>7

\* Every step but a send lists what was listed, put away or the server's.
LEMMA HeldStep ==
  ASSUME Typed, [Next]_vars, \A s \in Sends : ~Send(s)
  PROVE  /\ messages' \in Seq(Message) /\ \A k \in DOMAIN messages' : Held(messages'[k])
         /\ edit' = None \/ (edit' \in Edit /\ Held(edit'.message))
  <1> USE DEF view, fetches, server
  <1> DEFINE Listed == messages' \in Seq(Message) /\ \A k \in DOMAIN messages' : Held(messages'[k])
             Put == edit' = None \/ (edit' \in Edit /\ Held(edit'.message))
  <1>1. messages \in Seq(Message) /\ ServerTyped /\ edit \in {None} \cup Edit
    BY DEF Typed, ViewTyped
  <1>2. UNCHANGED messages => Listed
    BY <1>1, ListedAreHeld
  <1>3. UNCHANGED edit => Put
    BY <1>1 DEF Held, Edit
  <1> HIDE DEF Listed
  <1>4. CASE UNCHANGED vars
    BY <1>2, <1>3, <1>4 DEF vars, Listed
  <1>5. CASE Write \/ Unsend \/ PeerReads \/ Lose \/ HearRead \/ HearDelete \/ Refresh
    BY <1>2, <1>3, <1>5 DEF Listed, Write, Unsend, PeerReads, Lose, HearRead, HearDelete, Refresh
  <1>6. CASE Answer \/ FailRefresh \/ FailLoad \/ FailMore \/ LoadMore \/ Removed
    BY <1>2, <1>3, <1>6 DEF Listed, Answer, FailRefresh, FailLoad, FailMore, LoadMore, Removed
  <1>7. CASE Hear
    <2>1. UNCHANGED edit
      BY <1>7 DEF Hear
    <2> QED BY <1>1, <1>3, <1>7, <2>1, HearHeld DEF Listed
  <1>8. CASE ApplyRefresh
    <2>1. UNCHANGED edit
      BY <1>8 DEF ApplyRefresh
    <2>2. refresh.res.ids \in SUBSET (1..MaxLog)
      BY <1>8 DEF ApplyRefresh, Typed, Answered
    <2>3. UNCHANGED messages \/ messages' = Merged(messages, refresh.res)
      BY <1>8 DEF ApplyRefresh
    <2>4. messages' = Merged(messages, refresh.res) => Listed
      BY <1>1, <2>2, MergedHeld DEF Listed
    <2> QED BY <1>2, <1>3, <2>1, <2>3, <2>4 DEF Listed
  <1>9. CASE ApplyLoad
    <2>1. UNCHANGED edit /\ messages' = Versions(load.res.ids, load.res)
      BY <1>9 DEF ApplyLoad
    <2>2. load.res.ids \in SUBSET (1..MaxLog)
      BY <1>9 DEF ApplyLoad, Typed, Answered
    <2> QED BY <1>3, <2>1, <2>2, VersionsHeld DEF Listed
  <1>10. CASE ApplyMore
    <2>1. UNCHANGED edit
      BY <1>10 DEF ApplyMore
    <2> QED BY <1>1, <1>3, <1>10, <2>1, ApplyMoreHeld DEF Typed, Listed
  <1>11. CASE Retry
    <2>1. UNCHANGED edit
      BY <1>11 DEF Retry
    <2>2. UNCHANGED messages \/ (cache # None /\ messages' = cache.messages)
      BY <1>11 DEF Retry, FromCache
    <2>4. cache # None /\ messages' = cache.messages => Listed
      BY FromCacheHeld DEF Listed
    <2> QED BY <1>2, <1>3, <2>1, <2>2, <2>4 DEF Listed
  <1>12. CASE \E s \in Sends : Accept(s)
    BY <1>2, <1>3, <1>12 DEF Listed, Accept
  <1>13. CASE \E s \in Sends : Sent(s)
    <2>1. UNCHANGED edit
      BY <1>13 DEF Sent
    <2> QED BY <1>1, <1>3, <1>13, <2>1, SentHeld DEF Listed
  <1>14. CASE \E s \in Sends : SendFails(s)
    <2>1. UNCHANGED edit
      BY <1>14 DEF SendFails
    <2> QED BY <1>1, <1>3, <1>14, <2>1, SendFailsHeld DEF Listed
  <1>15. CASE Delete
    BY <1>1, <1>15, DeleteHeld DEF Listed
  <1>16. CASE Reaches
    <2>1. UNCHANGED messages /\ edit # None /\ edit' = [edit EXCEPT !.reached = TRUE]
      BY <1>16 DEF Reaches
    <2>2. edit' \in Edit /\ edit'.message = edit.message
      BY <1>1, <2>1 DEF Edit
    <2> QED BY <1>1, <1>2, <2>1, <2>2 DEF Listed, Held, Edit
  <1>17. CASE RemoveFails
    <2>1. edit \in Edit /\ edit # None /\ messages' = PutBack /\ edit' = None
      BY <1>1, <1>17 DEF RemoveFails, Deleting
    <2> QED BY <1>1, <2>1, PutBackHeld DEF Listed
  <1>18. CASE Reopen
    <2>1. Put
      <3>1. edit' = LeftEdit
        BY <1>18 DEF Reopen
      <3> QED BY <1>1, <3>1, LeftEditIs DEF Held, Edit
    <2>2. messages' = <<>> \/ (cache # None /\ messages' = cache.messages)
      BY <1>18 DEF Reopen, FromCache, Blank
    <2>4. cache # None /\ messages' = cache.messages => Listed
      BY FromCacheHeld DEF Listed
    <2> QED BY <2>1, <2>2, <2>4, NothingHeld DEF Listed
  <1>19. CASE LeftRemoveFails
    BY <1>2, <1>19 DEF Listed, LeftRemoveFails
  <1> QED
    BY <1>4, <1>5, <1>6, <1>7, <1>8, <1>9, <1>10, <1>11, <1>12, <1>13, <1>14, <1>15, <1>16,
       <1>17, <1>18, <1>19 DEF Next, Fetched

LEMMA MessagesTyped == Typed /\ [Next]_vars => messages' \in Seq(Message)
  <1> SUFFICES ASSUME Typed, [Next]_vars PROVE messages' \in Seq(Message)
    OBVIOUS
  <1>1. CASE \E s \in Sends : Send(s)
    <2>1. messages \in Seq(Message)
      BY DEF Typed, ViewTyped
    <2> QED BY <1>1, <2>1, SendIs, SortedAgain DEF Tops
  <1> QED BY <1>1, HeldStep

LEMMA EditTyped == Typed /\ [Next]_vars => edit' \in {None} \cup Edit
  <1> SUFFICES ASSUME Typed, [Next]_vars PROVE edit' \in {None} \cup Edit
    OBVIOUS
  <1>1. CASE \E s \in Sends : Send(s)
    BY <1>1 DEF Send, Typed
  <1> QED BY <1>1, HeldStep

-----------------------------------------------------------------------------
(* Types *)

LEMMA ServerStep == Typed /\ [Next]_vars => ServerTyped'
  <1> SUFFICES ASSUME Typed, [Next]_vars PROVE ServerTyped'
    OBVIOUS
  <1> USE DEF server
  <1>0. ServerTyped
    BY DEF Typed
  <1>1. UNCHANGED <<server, heard>> => ServerTyped'
    BY <1>0 DEF ServerTyped
  <1>2. Len(log) \in Nat /\ Ids \subseteq 1..MaxLog
    BY <1>0, ResponseType
  <1>3. ASSUME NEW origin \in Sends \cup {"peer", "us"}, Posted(origin), UNCHANGED heard
        PROVE  ServerTyped'
    <2>1. log' \in Seq(Sends \cup {"peer", "us"}) /\ Len(log') = Len(log) + 1
      BY <1>0, <1>3, AppendProperties DEF ServerTyped, Posted
    <2> QED BY <1>0, <1>2, <1>3, <2>1, ConversationAssumption DEF ServerTyped, Posted
  <1>4. CASE Write
    BY <1>3, <1>4 DEF Write
  <1>5. CASE \E s \in Sends : Accept(s)
    BY <1>3, <1>5 DEF Accept
  <1>6. CASE Unsend
    BY <1>0, <1>2, <1>6 DEF Unsend, ServerTyped
  <1>7. CASE PeerReads
    BY <1>0, <1>2, <1>7 DEF PeerReads, ServerTyped
  <1>8. CASE Hear
    BY <1>0, <1>8 DEF Hear, ServerTyped
  <1>9. CASE Lose
    BY <1>0, <1>9 DEF Lose, ServerTyped
  <1>10. CASE HearDelete
    BY <1>0, <1>2, <1>10 DEF HearDelete, ServerTyped
  <1>11. CASE Reaches
    <2>1. edit.message.id \in 1..MaxLog
      <3>1. edit.message \in Message /\ IsSent(edit.message)
        BY <1>11 DEF Reaches, Typed, Edit
      <3> QED BY <3>1, MessageTypes
    <2>2. gone' \in SUBSET (1..MaxLog)
      BY <1>0, <1>11, <2>1 DEF Reaches, ServerTyped
    <2>3. UNCHANGED <<log, unsent, peerRead, heard>>
      BY <1>11 DEF Reaches
    <2> QED BY <1>0, <2>2, <2>3 DEF ServerTyped
  <1>12. CASE HearRead \/ Refresh \/ Fetched \/ Retry \/ LoadMore
              \/ Delete \/ Removed \/ RemoveFails \/ LeftRemoveFails \/ Reopen
    BY <1>1, <1>12 DEF HearRead, Refresh, Fetched, Answer, ApplyRefresh, FailRefresh, ApplyLoad,
       FailLoad, ApplyMore, FailMore, Retry, LoadMore, Delete, Removed, RemoveFails, LeftRemoveFails, Reopen
  <1>13. CASE \E s \in Sends : Send(s) \/ Sent(s) \/ SendFails(s)
    BY <1>1, <1>13 DEF Send, Sent, SendFails
  <1>14. CASE UNCHANGED vars
    BY <1>1, <1>14 DEF vars
  <1> QED BY <1>4, <1>5, <1>6, <1>7, <1>8, <1>9, <1>10, <1>11, <1>12, <1>13, <1>14 DEF Next

LEMMA FetchesStep ==
  Typed /\ [Next]_vars => Answered(load)' /\ Answered(refresh)' /\ Answered(more)'
  <1> SUFFICES ASSUME Typed, [Next]_vars
               PROVE  Answered(load)' /\ Answered(refresh)' /\ Answered(more)'
    OBVIOUS
  <1> USE DEF fetches
  <1>1. ServerTyped /\ Answered(load) /\ Answered(refresh) /\ Answered(more)
    BY DEF Typed
  <1>2. Answered(Free) /\ \A key : Answered(Asked(key))
    BY DEF Answered, Free, Asked
  <1>3. \A key : Answered([phase |-> "answered", res |-> Response(key)])
    BY <1>1, ResponseType DEF Answered
  <1>4. /\ load' = load => Answered(load)'
        /\ refresh' = refresh => Answered(refresh)'
        /\ more' = more => Answered(more)'
    BY <1>1 DEF Answered
  <1>5. /\ \A f : load' = f /\ Answered(f) => Answered(load)'
        /\ \A f : refresh' = f /\ Answered(f) => Answered(refresh)'
        /\ \A f : more' = f /\ Answered(f) => Answered(more)'
    BY DEF Answered
  <1>6. (UNCHANGED fetches) => Answered(load)' /\ Answered(refresh)' /\ Answered(more)'
    BY <1>4
  <1> HIDE DEF fetches
  <1>7. CASE Answer
    <2>1. load' = load \/ \E key : load' = [phase |-> "answered", res |-> Response(key)]
      BY <1>7 DEF Answer, Answers
    <2>2. refresh' = refresh \/ \E key : refresh' = [phase |-> "answered", res |-> Response(key)]
      BY <1>7 DEF Answer, Answers
    <2>3. more' = more \/ \E key : more' = [phase |-> "answered", res |-> Response(key)]
      BY <1>7 DEF Answer, Answers
    <2> QED BY <1>3, <1>4, <1>5, <2>1, <2>2, <2>3
  <1>8. CASE ApplyRefresh \/ FailRefresh \/ ApplyLoad \/ FailLoad \/ ApplyMore \/ FailMore
             \/ Refresh \/ HearDelete \/ Retry \/ LoadMore \/ Reopen
    <2>1. load' \in {load, Free, Asked(None)}
      BY <1>8 DEF ApplyRefresh, FailRefresh, ApplyLoad, FailLoad, ApplyMore, FailMore, Refresh,
         HearDelete, Retry, LoadMore, Reopen, RefreshDone, LoadDone, Reconcile
    <2>2. refresh' \in {refresh, Free, Asked(None)}
      BY <1>8 DEF ApplyRefresh, FailRefresh, ApplyLoad, FailLoad, ApplyMore, FailMore, Refresh,
         HearDelete, Retry, LoadMore, Reopen, RefreshDone, LoadDone, Reconcile
    <2>3. more' \in {more, Free, Asked(pageKey)}
      BY <1>8 DEF ApplyRefresh, FailRefresh, ApplyLoad, FailLoad, ApplyMore, FailMore, Refresh,
         HearDelete, Retry, LoadMore, Reopen, RefreshDone, LoadDone, Reconcile
    <2> QED BY <1>2, <1>4, <1>5, <2>1, <2>2, <2>3
  <1>9. CASE Write \/ Unsend \/ PeerReads \/ Hear \/ Lose \/ HearRead
             \/ Delete \/ Reaches \/ Removed \/ RemoveFails \/ LeftRemoveFails
    BY <1>6, <1>9 DEF Write, Unsend, PeerReads, Hear, Lose, HearRead, Delete, Reaches, Removed,
       RemoveFails, LeftRemoveFails
  <1>10. CASE \E s \in Sends : Accept(s) \/ Send(s) \/ Sent(s) \/ SendFails(s)
    BY <1>6, <1>10 DEF Accept, Send, Sent, SendFails
  <1>11. CASE UNCHANGED vars
    BY <1>6, <1>11 DEF vars
  <1> QED BY <1>7, <1>8, <1>9, <1>10, <1>11 DEF Next, Fetched

LEMMA KeyType == ASSUME NEW res, res.ids \in SUBSET (1..MaxLog)
                 PROVE  KeyOf(res) \in PageKey
BY LeastIs DEF KeyOf, PageKey

LEMMA ViewStep == Typed /\ [Next]_vars => ViewTyped'
  <1> SUFFICES ASSUME Typed, [Next]_vars PROVE ViewTyped'
    OBVIOUS
  <1> USE DEF view, server, fetches
  <1>1. /\ profile \in BOOLEAN /\ lastRead \in Nat /\ requested \in BOOLEAN /\ reverted \in BOOLEAN
        /\ pageKey \in PageKey /\ foreign \in BOOLEAN /\ cache \in {None} \cup Copy
        /\ ServerTyped /\ Answered(load) /\ Answered(refresh) /\ Answered(more)
    BY DEF Typed, ViewTyped
  <1>2. messages' \in Seq(Message)
    BY MessagesTyped
  <1>3. /\ profile' \in BOOLEAN /\ requested' \in BOOLEAN /\ reverted' \in BOOLEAN
        /\ foreign' \in BOOLEAN
    <2>0. /\ SyncCache => foreign' \in BOOLEAN
          /\ FromCache(cache) => profile'
          /\ Blank => ~profile'
      BY <1>1 DEF SyncCache, FromCache, Blank
    <2>1. CASE Write \/ Unsend \/ PeerReads \/ Hear \/ Lose \/ HearRead
               \/ Delete \/ Reaches \/ Removed \/ RemoveFails \/ LeftRemoveFails
      BY <1>1, <2>0, <2>1 DEF Write, Unsend, PeerReads, Hear, Lose, HearRead, Delete, Reaches,
         Removed, RemoveFails, LeftRemoveFails
    <2>2. CASE ApplyRefresh \/ FailRefresh \/ ApplyLoad \/ FailLoad \/ ApplyMore \/ FailMore
      BY <1>1, <2>0, <2>2 DEF ApplyRefresh, FailRefresh, ApplyLoad, FailLoad, ApplyMore, FailMore,
         RefreshDone, LoadDone
    <2>3. CASE Answer \/ Refresh \/ HearDelete \/ Retry \/ LoadMore \/ Reopen
      BY <1>1, <2>0, <2>3 DEF Answer, Refresh, HearDelete, Retry, LoadMore, Reopen, Reconcile,
         FromCache, Blank
    <2>4. CASE \E s \in Sends : Accept(s) \/ Send(s) \/ Sent(s) \/ SendFails(s)
      BY <1>1, <2>0, <2>4 DEF Accept, Send, Sent, SendFails
    <2>5. CASE UNCHANGED vars
      BY <1>1, <2>5 DEF vars
    <2> QED BY <2>1, <2>2, <2>3, <2>4, <2>5 DEF Next, Fetched
  <1>4. lastRead' \in Nat
    <2>1. CASE HearRead
      <3>1. PICK i \in Ids : lastRead' = 2 * i
        BY <2>1 DEF HearRead
      <3>2. i \in Nat
        BY DEF Ids
      <3> QED BY <3>1, <3>2
    <2>2. CASE ApplyRefresh
      <3>1. refresh.res.read \in Nat
        BY <1>1, <2>2 DEF ApplyRefresh, Answered
      <3> QED BY <1>1, <2>2, <3>1 DEF ApplyRefresh, Advanced
    <2>3. CASE ApplyLoad
      <3>1. load.res.read \in Nat
        BY <1>1, <2>3 DEF ApplyLoad, Answered
      <3> QED BY <1>1, <2>3, <3>1 DEF ApplyLoad, Advanced
    <2>4. CASE ApplyMore
      <3>1. more.res.read \in Nat
        BY <1>1, <2>4 DEF ApplyMore, Answered
      <3> QED BY <1>1, <2>4, <3>1 DEF ApplyMore, Advanced
    <2>5. CASE Retry \/ Reopen
      BY <1>1, <2>5 DEF Retry, Reopen, FromCache, Blank, Copy
    <2>6. CASE Write \/ Unsend \/ PeerReads \/ Hear \/ Lose
               \/ Delete \/ Reaches \/ Removed \/ RemoveFails \/ LeftRemoveFails
      BY <1>1, <2>6 DEF Write, Unsend, PeerReads, Hear, Lose, Delete, Reaches, Removed,
         RemoveFails, LeftRemoveFails
    <2>7. CASE FailRefresh \/ FailLoad \/ FailMore \/ Answer \/ Refresh \/ HearDelete \/ LoadMore
      BY <1>1, <2>7 DEF FailRefresh, FailLoad, FailMore, Answer, Refresh, HearDelete, LoadMore
    <2>8. CASE \E s \in Sends : Accept(s) \/ Send(s) \/ Sent(s) \/ SendFails(s)
      BY <1>1, <2>8 DEF Accept, Send, Sent, SendFails
    <2>9. CASE UNCHANGED vars
      BY <1>1, <2>9 DEF vars
    <2> QED BY <2>1, <2>2, <2>3, <2>4, <2>5, <2>6, <2>7, <2>8, <2>9 DEF Next, Fetched
  <1>5. pageKey' \in PageKey
    <2>1. CASE ApplyLoad
      <3>1. load.res.ids \in SUBSET (1..MaxLog) /\ pageKey' = KeyOf(load.res)
        BY <1>1, <2>1 DEF ApplyLoad, Answered
      <3> QED BY <3>1, KeyType
    <2>2. CASE ApplyMore
      <3>1. more.res.ids \in SUBSET (1..MaxLog) /\ pageKey' = KeyOf(more.res)
        BY <1>1, <2>2 DEF ApplyMore, Answered
      <3> QED BY <3>1, KeyType
    <2>3. CASE Retry \/ Reopen
      <3>1. UNCHANGED pageKey \/ pageKey' = None \/ (cache # None /\ pageKey' = cache.pageKey)
        BY <2>3 DEF Retry, Reopen, FromCache, Blank
      <3> QED BY <1>1, <3>1 DEF Copy, PageKey
    <2>4. CASE Write \/ Unsend \/ PeerReads \/ Hear \/ Lose \/ HearRead \/ Delete
               \/ Reaches \/ Removed \/ RemoveFails \/ LeftRemoveFails
      BY <1>1, <2>4 DEF Write, Unsend, PeerReads, Hear, Lose, HearRead, Delete, Reaches, Removed,
         RemoveFails, LeftRemoveFails
    <2>5. CASE ApplyRefresh \/ FailRefresh \/ FailLoad \/ FailMore \/ Answer \/ Refresh
               \/ HearDelete \/ LoadMore
      BY <1>1, <2>5 DEF ApplyRefresh, FailRefresh, FailLoad, FailMore, Answer, Refresh, HearDelete,
         LoadMore
    <2>6. CASE \E s \in Sends : Accept(s) \/ Send(s) \/ Sent(s) \/ SendFails(s)
      BY <1>1, <2>6 DEF Accept, Send, Sent, SendFails
    <2>7. CASE UNCHANGED vars
      BY <1>1, <2>7 DEF vars
    <2> QED BY <2>1, <2>2, <2>3, <2>4, <2>5, <2>6, <2>7 DEF Next, Fetched
  <1>6. cache' \in {None} \cup Copy
    <2>1. cache' = None \/ UNCHANGED cache \/ SyncCache \/ LeftRemoveFails
      <3>1. CASE Write \/ Unsend \/ PeerReads \/ Hear \/ Lose \/ HearRead
                 \/ Delete \/ Reaches \/ Removed \/ RemoveFails \/ LeftRemoveFails
        BY <3>1 DEF Write, Unsend, PeerReads, Hear, Lose, HearRead, Delete, Reaches, Removed,
           RemoveFails
      <3>2. CASE Fetched \/ Refresh \/ HearDelete \/ Retry \/ LoadMore \/ Reopen
        BY <3>2 DEF Fetched, ApplyRefresh, FailRefresh, ApplyLoad, FailLoad, ApplyMore, FailMore,
           Answer, Refresh, HearDelete, Retry, LoadMore, Reopen
      <3>3. CASE \E s \in Sends : Accept(s) \/ Send(s) \/ Sent(s) \/ SendFails(s)
        BY <3>3 DEF Accept, Send, Sent, SendFails
      <3>4. CASE UNCHANGED vars
        BY <3>4 DEF vars
      <3> QED BY <3>1, <3>2, <3>3, <3>4 DEF Next
    <2>2. SentOf(messages') \in Seq(ServerMessage)
      BY <1>2, SentOfType
    <2>3. CASE SyncCache
      BY <1>1, <1>4, <1>5, <2>2, <2>3 DEF SyncCache, Copy
    <2>4. CASE LeftRemoveFails
      <3>1. edit \in Edit
        BY <2>4 DEF LeftRemoveFails, Typed
      <3> QED BY <1>1, <2>4, <3>1 DEF LeftRemoveFails, Edit
    <2> QED BY <1>1, <2>1, <2>3, <2>4
  <1> QED BY <1>2, <1>3, <1>4, <1>5, <1>6 DEF ViewTyped

LEMMA OutStep == Typed /\ [Next]_vars => out' \in [Sends -> Outcome]
  <1> SUFFICES ASSUME Typed, [Next]_vars PROVE out' \in [Sends -> Outcome]
    OBVIOUS
  <1>1. out \in [Sends -> Outcome]
    BY DEF Typed
  <1>2. CASE \E s \in Sends : Accept(s) \/ Send(s) \/ Sent(s) \/ SendFails(s)
    BY <1>1, <1>2 DEF Accept, Send, Sent, SendFails, Outcome
  <1>3. CASE Reopen
    <2>1. out' = [s \in Sends |-> IF out[s] = "posted" THEN "left" ELSE out[s]]
      BY <1>3 DEF Reopen
    <2> QED BY <1>1, <2>1 DEF Outcome
  <1>4. CASE UNCHANGED out
    BY <1>1, <1>4
  <1>5. ~Reopen /\ (\A s \in Sends : ~(Accept(s) \/ Send(s) \/ Sent(s) \/ SendFails(s)))
        => UNCHANGED out
    BY DEF Next, vars, Write, Unsend, PeerReads, Hear, Lose, HearRead, HearDelete, Refresh, Fetched,
       Answer, ApplyRefresh, FailRefresh, ApplyLoad, FailLoad, ApplyMore, FailMore, Retry, LoadMore,
       Delete, Reaches, Removed, RemoveFails, LeftRemoveFails
  <1> QED BY <1>2, <1>3, <1>4, <1>5

LEMMA TypedStep == Typed /\ [Next]_vars => Typed'
BY ServerStep, ViewStep, FetchesStep, OutStep, EditTyped DEF Typed

-----------------------------------------------------------------------------
(* Messages sent here *)

LEMMA LogSteps ==
  ASSUME [Next]_vars
  PROVE  \/ UNCHANGED log
         \/ /\ \E origin \in {"peer", "us"} \cup Sends :
                 /\ log' = Append(log, origin)
                 /\ origin \in Sends => out[origin] \in {"posted", "left"}
            /\ UNCHANGED <<messages, edit, out>>
  <1> USE DEF view
  <1>1. CASE Write
    BY <1>1, ConversationAssumption DEF Write, Posted
  <1>2. CASE \E s \in Sends : Accept(s)
    BY <1>2 DEF Accept, Posted
  <1>3. ~Write /\ (\A s \in Sends : ~Accept(s)) => UNCHANGED log
    BY DEF Next, vars, server, Unsend, PeerReads, Hear, Lose, HearRead, HearDelete, Refresh, Fetched,
       Answer, ApplyRefresh, FailRefresh, ApplyLoad, FailLoad, ApplyMore, FailMore, Retry, LoadMore,
       Delete, Reaches, Removed, RemoveFails, LeftRemoveFails, Reopen, Send, Sent, SendFails
  <1> QED BY <1>1, <1>2, <1>3

LEMMA OutIsNew == Typed /\ [Next]_vars => \A s \in Sends : out'[s] = "new" => out[s] = "new"
  <1> SUFFICES ASSUME Typed, [Next]_vars, NEW s \in Sends, out'[s] = "new" PROVE out[s] = "new"
    OBVIOUS
  <1>1. out \in [Sends -> Outcome]
    BY DEF Typed
  <1>2. CASE \E r \in Sends : Accept(r) \/ Send(r) \/ Sent(r) \/ SendFails(r)
    BY <1>1, <1>2 DEF Accept, Send, Sent, SendFails
  <1>3. CASE Reopen
    <2>1. out' = [r \in Sends |-> IF out[r] = "posted" THEN "left" ELSE out[r]]
      BY <1>3 DEF Reopen
    <2> QED BY <1>1, <2>1
  <1>4. CASE UNCHANGED out
    BY <1>1, <1>4
  <1>5. ~Reopen /\ (\A r \in Sends : ~(Accept(r) \/ Send(r) \/ Sent(r) \/ SendFails(r)))
        => UNCHANGED out
    BY DEF Next, vars, Write, Unsend, PeerReads, Hear, Lose, HearRead, HearDelete, Refresh, Fetched,
       Answer, ApplyRefresh, FailRefresh, ApplyLoad, FailLoad, ApplyMore, FailMore, Retry, LoadMore,
       Delete, Reaches, Removed, RemoveFails, LeftRemoveFails
  <1> QED BY <1>2, <1>3, <1>4, <1>5

\* What holds of a longer log.
LEMMA Longer ==
  ASSUME ServerTyped, NEW origin \in {"peer", "us"} \cup Sends, log' = Append(log, origin)
  PROVE  /\ Len(log') = Len(log) + 1 /\ Len(log) \in Nat
         /\ Ids' = 1..(Len(log) + 1) /\ Ids = 1..Len(log)
         /\ \A i \in Ids' : log'[i] = IF i \in Ids THEN log[i] ELSE origin
         /\ \A i \in Ids' : i \in Ids \/ i = Len(log) + 1
  <1>1. Len(log) \in Nat
    BY ResponseType
  <1>2. /\ Len(log') = Len(log) + 1 /\ \A i \in 1..Len(log) : log'[i] = log[i]
        /\ log'[Len(log) + 1] = origin
    BY AppendProperties DEF ServerTyped
  <1> QED BY <1>1, <1>2 DEF Ids

LEMMA NewStep == Typed /\ NewIsNowhere /\ [Next]_vars => NewIsNowhere'
  <1> SUFFICES ASSUME Typed, NewIsNowhere, [Next]_vars, NEW s \in Sends, out'[s] = "new"
               PROVE  /\ \A k \in DOMAIN messages' : messages'[k].id # s
                      /\ edit' # None => edit'.message.id # s
                      /\ \A i \in Ids' : log'[i] # s
    BY DEF NewIsNowhere
  <1>1. out[s] = "new"
    BY OutIsNew
  <1>2. /\ \A k \in DOMAIN messages : messages[k].id # s
        /\ edit # None => edit.message.id # s
        /\ \A i \in Ids : log[i] # s
    BY <1>1 DEF NewIsNowhere
  <1>3. \A i \in Ids' : log'[i] # s
    <2>1. CASE UNCHANGED log
      BY <1>2, <2>1 DEF Ids
    <2>2. CASE \E origin \in {"peer", "us"} \cup Sends :
                 /\ log' = Append(log, origin)
                 /\ origin \in Sends => out[origin] \in {"posted", "left"}
      <3>1. PICK origin \in {"peer", "us"} \cup Sends :
                 /\ log' = Append(log, origin)
                 /\ origin \in Sends => out[origin] \in {"posted", "left"}
        BY <2>2
      <3>2. origin # s
        BY <1>1, <3>1, ConversationAssumption
      <3>3. ServerTyped
        BY DEF Typed
      <3> QED BY <1>2, <3>1, <3>2, <3>3, Longer
    <2> QED BY <2>1, <2>2, LogSteps
  <1>4. CASE \E r \in Sends : Send(r)
    <2>1. PICK r \in Sends : Send(r)
      BY <1>4
    <2>2. r # s
      BY <1>1, <2>1 DEF Send, Typed
    <2>3. UNCHANGED edit
      BY <2>1 DEF Send
    <2>4. messages \in Seq(Message)
      BY DEF Typed, ViewTyped
    <2>5. PICK new, all : Tops(new, all, r)
      BY <2>1, <2>4, SendIs
    <2>7. \A k \in DOMAIN all : all[k].id # s
      BY <1>2, <2>2, <2>5 DEF Tops
    <2>8. \A k \in DOMAIN messages' : messages'[k].id # s
      BY <2>5, <2>7, SortedAgain DEF Tops
    <2> QED BY <1>2, <1>3, <2>3, <2>8
  <1>5. CASE \A r \in Sends : ~Send(r)
    <2>1. \A m : Held(m) => m.id # s
      BY <1>2 DEF Held
    <2> QED BY <1>3, <1>5, <2>1, HeldStep
  <1> QED BY <1>4, <1>5

-----------------------------------------------------------------------------
(* Newest first *)

LEMMA SortedAlike ==
  ASSUME NEW s, NEW t, Sorted(s), DOMAIN t = DOMAIN s,
         \A k \in DOMAIN s : t[k].id = s[k].id /\ t[k].ts = s[k].ts
  PROVE  Sorted(t)
BY DEF Sorted

\* The newest of a sorted list is the first.
LEMMA NewestIs ==
  ASSUME messages \in Seq(Message), Sorted(messages), NEW k \in DOMAIN messages
  PROVE  messages[k].ts \in Nat /\ Newest \in Nat /\ messages[k].ts <= Newest
  <1> DEFINE S == {messages[j].ts : j \in DOMAIN messages} \cup {0}
             b == messages[1].ts
  <1>1. DOMAIN messages = 1..Len(messages) /\ 1 \in DOMAIN messages
        /\ \A j \in DOMAIN messages : messages[j].ts \in Nat /\ j >= 1
    BY Positions, MessageTypes
  <1>2. ASSUME NEW j \in DOMAIN messages PROVE messages[j].ts <= b
    <2>1. CASE j = 1
      BY <1>1, <2>1
    <2>2. CASE j # 1
      <3>1. 1 < j
        BY <1>1, <2>2
      <3>2. messages[1].ts >= messages[j].ts
        BY <1>1, <3>1 DEF Sorted
      <3> QED BY <1>1, <3>2
    <2> QED BY <2>1, <2>2
  <1>3. S \subseteq Nat /\ S # {} /\ b \in Nat /\ \A x \in S : x <= b
    BY <1>1, <1>2
  <1>4. Newest = Max(S) /\ messages[k].ts \in S
    BY DEF Newest
  <1> HIDE DEF S, b
  <1>5. Max(S) \in S /\ \A y \in S : Max(S) >= y
    BY <1>3, NatMax
  <1>6. Max(S) \in Nat /\ messages[k].ts <= Max(S)
    BY <1>1, <1>3, <1>4, <1>5
  <1> QED BY <1>1, <1>4, <1>6

LEMMA HearSorted ==
  ASSUME Typed, Hear, Sorted(messages)
  PROVE  Sorted(messages')
  <1> DEFINE i == heard + 1
  <1>0. ServerTyped /\ messages \in Seq(Message)
    BY DEF Typed, ViewTyped
  <1>1. i \in 1..MaxLog
    BY <1>0, HearIs
  <1>2. Event(i) \in Message /\ Event(i).id = i /\ Event(i).ts = 2 * i
    BY <1>1, EventType, MessageTypes
  <1> HIDE DEF i
  <1>3. ASSUME NEW k \in DOMAIN messages, messages[k].id = i,
               messages' = [messages EXCEPT ![k] = Event(i)]
        PROVE  Sorted(messages')
    <2>1. messages[k].ts = 2 * i
      <3>1. messages[k] \in Message /\ i \notin Sends
        BY <1>0, <1>1, Positions, ConversationAssumption
      <3> QED BY <1>3, <3>1, MessageTypes
    <2>2. DOMAIN messages' = DOMAIN messages
      BY <1>3
    <2>3. \A j \in DOMAIN messages : messages'[j] = IF j = k THEN Event(i) ELSE messages[j]
      BY <1>3
    <2>4. \A j \in DOMAIN messages : messages'[j].id = messages[j].id
                                     /\ messages'[j].ts = messages[j].ts
      BY <1>2, <1>3, <2>1, <2>3
    <2> QED BY <2>2, <2>4, SortedAlike
  <1>4. CASE PendingEcho # 0 /\ messages' = Adopted(PendingEcho, i)
    <2>1. PICK s \in Seq(Message) : Adopted(PendingEcho, i) = NewestFirst(s)
      BY <1>0, <1>1, <1>4, EchoIs, AdoptedIs
    <2> QED BY <1>4, <2>1, SortedAgain
  <1>5. CASE /\ \A k \in DOMAIN messages : messages[k].id # i
             /\ 2 * i >= Newest /\ messages' = <<Event(i)>> \o messages
    <2>1. /\ <<Event(i)>> \in Seq(Message) /\ Len(<<Event(i)>>) = 1 /\ <<Event(i)>>[1] = Event(i)
      BY <1>2
    <2>2. Len(messages) \in Nat /\ DOMAIN messages = 1..Len(messages)
      BY <1>0, Positions
    <2>3. /\ Len(messages') = 1 + Len(messages) /\ messages' \in Seq(Message)
          /\ \A k \in 1..(1 + Len(messages)) :
               messages'[k] = IF k <= 1 THEN <<Event(i)>>[k] ELSE messages[k - 1]
      BY <1>0, <1>5, <2>1, ConcatProperties
    <2>4. DOMAIN messages' = 1..(1 + Len(messages))
      BY <2>3, LenProperties
    <2>5. messages'[1] = Event(i) /\ \A k \in 2..(1 + Len(messages)) : messages'[k] = messages[k - 1]
      BY <2>1, <2>2, <2>3
    <2>6. ASSUME NEW j \in DOMAIN messages', NEW k \in DOMAIN messages', j < k
          PROVE  messages'[j].id # messages'[k].id /\ messages'[j].ts >= messages'[k].ts
      <3>1. k \in 2..(1 + Len(messages)) /\ k - 1 \in DOMAIN messages
        BY <2>2, <2>4, <2>6
      <3>2. messages'[k] = messages[k - 1]
        BY <2>5, <3>1
      <3>3. CASE j = 1
        <4>1. messages'[j] = Event(i)
          BY <2>5, <3>3
        <4>2. messages[k - 1].ts \in Nat /\ Newest \in Nat /\ messages[k - 1].ts <= Newest
          BY <1>0, <3>1, NewestIs
        <4>3. i \in Nat
          BY <1>1
        <4>4. 2 * i >= messages[k - 1].ts
          BY <1>5, <4>2, <4>3
        <4> QED BY <1>2, <1>5, <3>1, <3>2, <4>1, <4>4
      <3>4. CASE j # 1
        <4>1. j \in 2..(1 + Len(messages)) /\ j - 1 \in DOMAIN messages /\ j - 1 < k - 1
          BY <2>2, <2>4, <2>6, <3>4
        <4>2. messages'[j] = messages[j - 1]
          BY <2>5, <4>1
        <4> QED BY <3>1, <3>2, <4>1, <4>2 DEF Sorted
      <3> QED BY <3>3, <3>4
    <2> QED BY <2>6 DEF Sorted
  <1>6. CASE UNCHANGED messages
    BY <1>6
  <1> QED BY <1>0, <1>3, <1>4, <1>5, <1>6, HearIs DEF i

LEMMA SortedStep ==
  Typed /\ Cached /\ NewestFirstOnce /\ [Next]_vars => NewestFirstOnce'
  <1> SUFFICES ASSUME Typed, Cached, reverted \/ Sorted(messages), [Next]_vars,
                      ~reverted'
               PROVE  Sorted(messages')
    BY DEF NewestFirstOnce, Sorted
  <1> USE DEF view
  <1>0. ServerTyped /\ messages \in Seq(Message)
    BY DEF Typed, ViewTyped
  <1>1. /\ UNCHANGED <<messages, reverted>> => Sorted(messages')
        /\ UNCHANGED messages /\ ~reverted => Sorted(messages')
    OBVIOUS
  <1>2. \A s \in Seq(Message) : messages' = NewestFirst(s) => Sorted(messages')
    BY SortedAgain
  <1>3. cache # None /\ messages' = cache.messages /\ ~reverted /\ ~foreign => Sorted(messages')
    BY <1>0, SentOfType DEF Cached, CopyOf
  <1>4. CASE Write \/ Unsend \/ PeerReads \/ Lose \/ HearRead \/ HearDelete \/ Refresh
    BY <1>1, <1>4 DEF Write, Unsend, PeerReads, Lose, HearRead, HearDelete, Refresh
  <1>5. CASE Answer \/ FailRefresh \/ FailLoad \/ FailMore \/ LoadMore \/ Removed \/ Reaches
    BY <1>1, <1>5 DEF Answer, FailRefresh, FailLoad, FailMore, LoadMore, Removed, Reaches
  <1>6. CASE Hear
    <2>1. UNCHANGED reverted
      BY <1>6 DEF Hear
    <2> QED BY <1>6, <2>1, HearSorted
  <1>7. CASE ApplyRefresh
    <2>1. refresh.res.ids \in SUBSET (1..MaxLog)
      BY <1>7 DEF ApplyRefresh, Typed, Answered
    <2>2. (UNCHANGED messages /\ ~reverted) \/ messages' = Merged(messages, refresh.res)
      BY <1>7 DEF ApplyRefresh
    <2> QED BY <1>0, <2>1, <2>2, MergedIs
  <1>8. CASE ApplyLoad
    <2>1. messages' = Versions(load.res.ids, load.res)
      BY <1>8 DEF ApplyLoad
    <2>2. load.res.ids \in SUBSET (1..MaxLog)
      BY <1>8 DEF ApplyLoad, Typed, Answered
    <2> QED BY <2>1, <2>2, VersionsAre
  <1>9. CASE ApplyMore
    <2>1. messages' = NewestFirst(messages \o Versions(more.res.ids, more.res))
          /\ more.res.ids \in SUBSET (1..MaxLog)
      BY <1>9 DEF ApplyMore, Typed, Answered
    <2>2. messages \o Versions(more.res.ids, more.res) \in Seq(Message)
      BY <1>0, <2>1, VersionsHeld, ConcatIs
    <2> QED BY <1>2, <2>1, <2>2
  <1>10. CASE Retry
    <2>1. (UNCHANGED messages /\ ~reverted)
          \/ (cache # None /\ messages' = cache.messages /\ ~reverted /\ ~foreign)
      BY <1>10 DEF Retry, FromCache
    <2> QED BY <1>1, <1>3, <2>1
  <1>11. CASE \E s \in Sends : Accept(s)
    BY <1>1, <1>11 DEF Accept
  <1>12. CASE \E s \in Sends : Send(s)
    BY <1>0, <1>2, <1>12, SendIs DEF Tops
  <1>13. ASSUME NEW s \in Sends, Sent(s) PROVE Sorted(messages')
    <2>1. PICK i \in Ids : messages' = IF Bubble(s) = {} THEN messages
                                       ELSE Adopted(Min(Bubble(s)), i)
      BY <1>13 DEF Sent
    <2>2. reverted' = (reverted /\ Bubble(s) = {})
      BY <1>13 DEF Sent
    <2>3. CASE Bubble(s) = {}
      BY <2>1, <2>2, <2>3
    <2>4. CASE Bubble(s) # {}
      <3>1. Min(Bubble(s)) \in DOMAIN messages /\ i \in 1..MaxLog
        BY <1>0, <2>4, BubbleIs, ResponseType
      <3>2. \E t \in Seq(Message) : Adopted(Min(Bubble(s)), i) = NewestFirst(t)
        BY <1>0, <3>1, AdoptedIs
      <3> QED BY <1>2, <2>1, <2>4, <3>2
    <2> QED BY <2>3, <2>4
  <1>14. ASSUME NEW s \in Sends, SendFails(s) PROVE Sorted(messages')
    <2>1. UNCHANGED reverted
      BY <1>14 DEF SendFails
    <2>2. /\ DOMAIN messages' = DOMAIN messages
          /\ \A k \in DOMAIN messages : /\ messages'[k].id = messages[k].id
                                        /\ messages'[k].ts = messages[k].ts
      BY <1>0, <1>14, SendFailsIs
    <2> QED BY <2>1, <2>2, SortedAlike
  <1>15. CASE Delete
    <2>1. PICK k \in DOMAIN messages : messages' = Kept(messages, DOMAIN messages \ {k})
      BY <1>15 DEF Delete
    <2>2. UNCHANGED reverted
      BY <1>15 DEF Delete
    <2>3. DOMAIN messages \ {k} \in SUBSET DOMAIN messages
      OBVIOUS
    <2> QED BY <1>0, <2>1, <2>2, <2>3, KeptSorted
  <1>16. CASE RemoveFails
    BY <1>16 DEF RemoveFails
  <1>17. CASE Reopen
    <2>1. \/ cache # None /\ messages' = cache.messages /\ ~reverted /\ ~foreign
          \/ messages' = <<>>
      BY <1>17 DEF Reopen, FromCache, Blank
    <2>2. Sorted(<<>>)
      BY DEF Sorted
    <2> QED BY <1>3, <2>1, <2>2
  <1>18. CASE UNCHANGED vars
    BY <1>1, <1>18 DEF vars
  <1>19. CASE LeftRemoveFails
    BY <1>1, <1>19 DEF LeftRemoveFails
  <1> QED BY <1>4, <1>5, <1>6, <1>7, <1>8, <1>9, <1>10, <1>11, <1>12, <1>13, <1>14, <1>15, <1>16,
             <1>17, <1>18, <1>19 DEF Next, Fetched

-----------------------------------------------------------------------------
(* The copy *)

LEMMA SyncCopies ==
  ASSUME Typed, Cached, SyncCache, profile => profile'
  PROVE  Cached'
  <1>1. CASE profile'
    <2>1. cache' = [messages |-> SentOf(messages'), pageKey |-> pageKey', lastRead |-> lastRead']
      BY <1>1 DEF SyncCache
    <2> QED BY <1>1, <2>1 DEF Cached, CopyOf
  <1>2. CASE ~profile'
    <2>1. cache' = cache /\ foreign' = foreign /\ ~profile
      BY <1>2 DEF SyncCache
    <2> QED BY <2>1 DEF Cached, CopyOf
  <1> QED BY <1>1, <1>2

\* A message being sent is not the server's.
LEMMA SendKeepsSent ==
  ASSUME Typed, NewIsNowhere, NEW s \in Sends, Send(s), Sorted(messages)
  PROVE  SentOf(messages') = SentOf(messages)
  <1>0. messages \in Seq(Message)
    BY DEF Typed, ViewTyped
  <1> PICK new, all : Tops(new, all, s)
    BY <1>0, SendIs
  <1>1. /\ new \in OwnMessage /\ new.id = s /\ all \in Seq(Message) /\ messages' = NewestFirst(all)
        /\ \A k \in DOMAIN all : all[k] = new \/ \E i \in DOMAIN messages : all[k] = messages[i]
        /\ \A i \in DOMAIN messages : \E k \in DOMAIN all : all[k] = messages[i]
    BY DEF Tops
  <1>2. \A k \in DOMAIN messages : messages[k].id # s
    BY DEF Send, NewIsNowhere
  <1>3. new.id = s /\ ~IsSent(new)
    BY <1>1, MessageTypes
  <1>4. messages' \in Seq(Message) /\ Sorted(messages')
    BY <1>1, SortedAgain
  \* Nothing that was listed shares its id, so all of it stays.
  <1>5. ASSUME NEW i \in DOMAIN messages PROVE \E k \in DOMAIN messages' : messages'[k] = messages[i]
    <2>1. PICK j \in DOMAIN all : all[j] = messages[i]
      BY <1>1
    <2>2. PICK k \in DOMAIN messages', l \in First(all) :
             messages'[k] = all[l] /\ all[l].id = all[j].id
      BY <1>1, NewestFirstIds
    <2>3. all[l] # new
      BY <1>2, <1>3, <2>1, <2>2
    <2>4. l \in DOMAIN all
      BY DEF First
    <2>5. PICK h \in DOMAIN messages : all[l] = messages[h]
      BY <1>1, <2>3, <2>4
    <2>6. h = i
      <3>1. messages[h].id = messages[i].id
        BY <2>1, <2>2, <2>5
      <3>2. ~(h < i) /\ ~(i < h)
        BY <3>1 DEF Sorted
      <3>3. h \in Nat /\ i \in Nat
        BY <1>0, Positions
      <3> QED BY <3>2, <3>3
    <2> QED BY <2>2, <2>5, <2>6
  <1>6. ASSUME NEW k \in DOMAIN messages', IsSent(messages'[k])
        PROVE  \E i \in DOMAIN messages : messages'[k] = messages[i]
    <2>1. PICK j \in DOMAIN all : messages'[k] = all[j]
      BY <1>1, SortedAgain
    <2> QED BY <1>1, <1>3, <1>6, <2>1
  <1>7. /\ SentOf(messages) \in Seq(ServerMessage) /\ Sorted(SentOf(messages))
        /\ \A k \in DOMAIN SentOf(messages) :
             \E i \in DOMAIN messages : IsSent(messages[i]) /\ SentOf(messages)[k] = messages[i]
        /\ \A i \in DOMAIN messages : IsSent(messages[i]) =>
             \E k \in DOMAIN SentOf(messages) : SentOf(messages)[k] = messages[i]
    BY <1>0, SentOfType
  <1>8. /\ SentOf(messages') \in Seq(ServerMessage) /\ Sorted(SentOf(messages'))
        /\ \A k \in DOMAIN SentOf(messages') :
             \E i \in DOMAIN messages' : IsSent(messages'[i]) /\ SentOf(messages')[k] = messages'[i]
        /\ \A i \in DOMAIN messages' : IsSent(messages'[i]) =>
             \E k \in DOMAIN SentOf(messages') : SentOf(messages')[k] = messages'[i]
    BY <1>4, SentOfType
  <1>9. \A k \in DOMAIN SentOf(messages) :
          \E i \in DOMAIN SentOf(messages') : SentOf(messages)[k] = SentOf(messages')[i]
    <2> SUFFICES ASSUME NEW k \in DOMAIN SentOf(messages)
                 PROVE  \E i \in DOMAIN SentOf(messages') : SentOf(messages)[k] = SentOf(messages')[i]
      OBVIOUS
    <2>1. PICK i \in DOMAIN messages : IsSent(messages[i]) /\ SentOf(messages)[k] = messages[i]
      BY <1>7
    <2>2. PICK j \in DOMAIN messages' : messages'[j] = messages[i]
      BY <1>5
    <2> QED BY <1>8, <2>1, <2>2
  <1>10. \A k \in DOMAIN SentOf(messages') :
           \E i \in DOMAIN SentOf(messages) : SentOf(messages')[k] = SentOf(messages)[i]
    <2> SUFFICES ASSUME NEW k \in DOMAIN SentOf(messages')
                 PROVE  \E i \in DOMAIN SentOf(messages) : SentOf(messages')[k] = SentOf(messages)[i]
      OBVIOUS
    <2>1. PICK i \in DOMAIN messages' : IsSent(messages'[i]) /\ SentOf(messages')[k] = messages'[i]
      BY <1>8
    <2>2. PICK j \in DOMAIN messages : messages'[i] = messages[j]
      BY <1>6, <2>1
    <2> QED BY <1>7, <2>1, <2>2
  <1> QED BY <1>7, <1>8, <1>9, <1>10, SortedOnce

LEMMA FailKeepsSent ==
  ASSUME Typed, NEW s \in Sends, SendFails(s)
  PROVE  SentOf(messages') = SentOf(messages)
  <1>1. messages \in Seq(Message)
    BY DEF Typed, ViewTyped
  <1>2. /\ DOMAIN messages' = DOMAIN messages
        /\ \A k \in DOMAIN messages : /\ IsSent(messages'[k]) <=> IsSent(messages[k])
                                      /\ IsSent(messages[k]) => messages'[k] = messages[k]
    BY <1>1, SendFailsIs
  <1>3. SentAt(messages') = SentAt(messages) /\ SentAt(messages) \in SUBSET DOMAIN messages
    BY <1>2 DEF SentAt
  <1>4. \A k \in SentAt(messages) : messages'[k] = messages[k]
    BY <1>2 DEF SentAt
  <1>5. SentAt(messages) \in SUBSET Nat /\ IsFiniteSet(SentAt(messages))
    BY <1>1, <1>3, Positions
  <1> QED BY <1>3, <1>4, <1>5, KeptSame DEF SentOf

LEMMA CachedStep ==
  Typed /\ NewIsNowhere /\ NewestFirstOnce /\ Cached /\ [Next]_vars => Cached'
  <1> SUFFICES ASSUME Typed, NewIsNowhere, reverted \/ Sorted(messages), Cached, [Next]_vars
               PROVE  Cached'
    BY DEF NewestFirstOnce, Sorted
  <1> USE DEF view
  <1>0. messages \in Seq(Message)
    BY DEF Typed, ViewTyped
  <1>1. (UNCHANGED <<profile, messages, pageKey, lastRead, cache, foreign, reverted>>) => Cached'
    BY DEF Cached, CopyOf
  <1>2. cache' = None => Cached'
    BY DEF Cached
  <1>3. SyncCache /\ (profile => profile') => Cached'
    BY SyncCopies
  <1>4. FromCache(cache) /\ cache # None /\ UNCHANGED cache => Cached'
    <2> SUFFICES ASSUME FromCache(cache), cache # None, UNCHANGED cache PROVE Cached'
      OBVIOUS
    <2>1. cache \in Copy /\ cache.messages \in Seq(ServerMessage)
      BY DEF Typed, ViewTyped, Copy
    <2>2. /\ messages' = cache.messages /\ profile' /\ pageKey' = cache.pageKey
          /\ lastRead' = cache.lastRead
      BY DEF FromCache
    <2>3. cache = [messages |-> cache.messages, pageKey |-> cache.pageKey, lastRead |-> cache.lastRead]
      BY <2>1 DEF Copy
    <2>4. SentOf(messages') = messages'
      BY <2>1, <2>2, SentOfSent
    <2> QED BY <2>2, <2>3, <2>4 DEF Cached, CopyOf
  <1>5. CASE Write \/ Unsend \/ PeerReads \/ Lose \/ Refresh \/ Removed \/ Reaches
    BY <1>1, <1>5 DEF Write, Unsend, PeerReads, Lose, Refresh, Removed, Reaches
  <1>6. CASE Answer \/ FailRefresh \/ FailLoad \/ FailMore \/ LoadMore
    BY <1>1, <1>6 DEF Answer, FailRefresh, FailLoad, FailMore, LoadMore
  <1>7. CASE HearDelete
    BY <1>2, <1>7 DEF HearDelete
  <1>8. CASE HearRead \/ ApplyRefresh \/ ApplyLoad \/ ApplyMore \/ Delete \/ RemoveFails
    BY <1>3, <1>8 DEF HearRead, ApplyRefresh, ApplyLoad, ApplyMore, Delete, RemoveFails
  <1>9. CASE Hear
    BY <1>1, <1>3, <1>9 DEF Hear
  <1>10. CASE Retry
    BY <1>2, <1>4, <1>10 DEF Retry
  <1>11. CASE Reopen
    <2>1. (FromCache(cache) /\ cache # None /\ UNCHANGED cache) \/ cache' = None
      BY <1>11 DEF Reopen
    <2> QED BY <1>2, <1>4, <2>1
  <1>12. CASE \E s \in Sends : Accept(s)
    BY <1>1, <1>12 DEF Accept
  <1>13. ASSUME NEW s \in Sends, Send(s) PROVE Cached'
    <2>1. UNCHANGED <<profile, pageKey, lastRead, cache, foreign, reverted>>
      BY <1>13 DEF Send
    <2>2. Sorted(messages) => SentOf(messages') = SentOf(messages)
      BY <1>13, SendKeepsSent
    <2> QED BY <2>1, <2>2 DEF Cached, CopyOf
  <1>14. CASE \E s \in Sends : Sent(s)
    BY <1>3, <1>14 DEF Sent
  <1>15. ASSUME NEW s \in Sends, SendFails(s) PROVE Cached'
    <2>1. UNCHANGED <<profile, pageKey, lastRead, cache, foreign, reverted>>
      BY <1>15 DEF SendFails
    <2>2. SentOf(messages') = SentOf(messages)
      BY <1>15, FailKeepsSent
    <2> QED BY <2>1, <2>2 DEF Cached, CopyOf
  <1>16. CASE UNCHANGED vars
    BY <1>1, <1>16 DEF vars
  <1>17. CASE LeftRemoveFails
    <2>1. UNCHANGED <<profile, messages, pageKey, lastRead, reverted>>
          /\ (foreign' \/ UNCHANGED <<cache, foreign>>)
      BY <1>17 DEF LeftRemoveFails
    <2> QED BY <1>1, <2>1 DEF Cached
  <1> QED BY <1>5, <1>6, <1>7, <1>8, <1>9, <1>10, <1>11, <1>12, <1>13, <1>14, <1>15, <1>16, <1>17
      DEF Next, Fetched

-----------------------------------------------------------------------------
(* The marker, and what was requested *)

LEMMA MarkerStep ==
  Typed /\ Cached /\ [Next]_vars
    => (profile' => \/ lastRead' >= lastRead
                    \/ foreign /\ cache # None /\ lastRead' = cache.lastRead)
  <1> SUFFICES ASSUME Typed, Cached, [Next]_vars, profile',
                      ~(foreign /\ cache # None /\ lastRead' = cache.lastRead)
               PROVE  lastRead' >= lastRead
    OBVIOUS
  <1> USE DEF view
  <1>0. lastRead \in Nat /\ Answered(load) /\ Answered(refresh) /\ Answered(more)
    BY DEF Typed, ViewTyped
  <1>1. \A n \in Nat : Advanced(n) >= lastRead
    BY <1>0 DEF Advanced
  <1>2. cache # None /\ ~foreign => cache.lastRead = lastRead
    BY DEF Cached, CopyOf
  <1>3. UNCHANGED lastRead => lastRead' >= lastRead
    BY <1>0
  <1>4. CASE ApplyRefresh \/ ApplyLoad \/ ApplyMore
    <2>1. \E n \in Nat : lastRead' \in {lastRead, Advanced(n)}
      BY <1>0, <1>4 DEF ApplyRefresh, ApplyLoad, ApplyMore, Answered
    <2> QED BY <1>1, <1>3, <2>1
  <1>5. CASE HearRead
    <2>1. PICK i \in Ids : lastRead < 2 * i /\ lastRead' = 2 * i
      BY <1>5 DEF HearRead
    <2>2. i \in Nat
      BY DEF Ids
    <2> QED BY <1>0, <2>1, <2>2
  <1>6. CASE Retry \/ Reopen
    <2>1. lastRead' = lastRead \/ (cache # None /\ lastRead' = cache.lastRead)
      BY <1>6 DEF Retry, Reopen, FromCache, Blank
    <2> QED BY <1>2, <1>3, <2>1
  <1>7. CASE Write \/ Unsend \/ PeerReads \/ Hear \/ Lose \/ HearDelete \/ Refresh
             \/ Delete \/ Reaches \/ Removed \/ RemoveFails \/ LeftRemoveFails
    BY <1>3, <1>7 DEF Write, Unsend, PeerReads, Hear, Lose, HearDelete, Refresh, Delete, Reaches,
       Removed, RemoveFails, LeftRemoveFails
  <1>8. CASE Answer \/ FailRefresh \/ FailLoad \/ FailMore \/ LoadMore
    BY <1>3, <1>8 DEF Answer, FailRefresh, FailLoad, FailMore, LoadMore
  <1>9. CASE \E s \in Sends : Accept(s) \/ Send(s) \/ Sent(s) \/ SendFails(s)
    BY <1>3, <1>9 DEF Accept, Send, Sent, SendFails
  <1>10. CASE UNCHANGED vars
    BY <1>3, <1>10 DEF vars
  <1> QED BY <1>4, <1>5, <1>6, <1>7, <1>8, <1>9, <1>10 DEF Next, Fetched

LEMMA RequestStep == RequestKept /\ [Next]_vars => RequestKept'
  <1> SUFFICES ASSUME RequestKept, [Next]_vars PROVE RequestKept'
    OBVIOUS
  <1> USE DEF view, fetches, RequestKept, Busy
  <1>0. Asked(None).phase # "free" /\ Free.phase = "free"
    BY DEF Asked, Free
  <1>1. (UNCHANGED <<requested, load, refresh>>) => RequestKept'
    OBVIOUS
  <1>2. CASE Write \/ Unsend \/ PeerReads \/ Hear \/ Lose \/ HearRead
             \/ Delete \/ Reaches \/ Removed \/ RemoveFails \/ LeftRemoveFails
    BY <1>1, <1>2 DEF Write, Unsend, PeerReads, Hear, Lose, HearRead, Delete, Reaches, Removed,
       RemoveFails, LeftRemoveFails
  <1>3. CASE Answer
    <2>1. UNCHANGED requested
      BY <1>3 DEF Answer
    <2>2. /\ load' = load \/ load'.phase = "answered"
          /\ refresh' = refresh \/ refresh'.phase = "answered"
      BY <1>3 DEF Answer, Answers
    <2> QED BY <2>1, <2>2
  <1>4. CASE ApplyRefresh \/ FailRefresh
    BY <1>0, <1>4 DEF ApplyRefresh, FailRefresh, RefreshDone
  <1>5. CASE ApplyLoad \/ FailLoad
    BY <1>0, <1>5 DEF ApplyLoad, FailLoad, LoadDone
  <1>6. CASE Refresh \/ HearDelete
    BY <1>0, <1>6 DEF Refresh, HearDelete, Reconcile
  <1>7. CASE Retry
    BY <1>0, <1>7 DEF Retry, Reconcile
  <1>8. CASE ApplyMore \/ FailMore \/ LoadMore
    BY <1>1, <1>8 DEF ApplyMore, FailMore, LoadMore
  <1>9. CASE Reopen
    BY <1>9 DEF Reopen
  <1>10. CASE \E s \in Sends : Accept(s) \/ Send(s) \/ Sent(s) \/ SendFails(s)
    BY <1>1, <1>10 DEF Accept, Send, Sent, SendFails
  <1>11. CASE UNCHANGED vars
    BY <1>1, <1>11 DEF vars
  <1> QED BY <1>2, <1>3, <1>4, <1>5, <1>6, <1>7, <1>8, <1>9, <1>10, <1>11 DEF Next, Fetched

-----------------------------------------------------------------------------
(* A settled view *)

\* Of the server's messages within the page, s lists all and as they are.
InPage(m, page) == IsSent(m) /\ (page # {} => m.ts >= 2 * Least(page))

Shows(s, page, gotUnsent) ==
  /\ \A k \in DOMAIN s : InPage(s[k], page) =>
       s[k].id \in page /\ s[k].unsent = (s[k].id \in gotUnsent)
  /\ \A i \in page : \E k \in DOMAIN s : InPage(s[k], page) /\ s[k].id = i

LEMMA ConvergedIs == Converged <=> (settled => Shows(messages, PageOf(None), unsent))
  <1> DEFINE page == PageOf(None)
             shown == {k \in DOMAIN messages :
                         IsSent(messages[k]) /\ (page # {} => messages[k].ts >= 2 * Least(page))}
  <1>1. Converged <=> (settled => /\ {messages[k].id : k \in shown} = page
                                  /\ \A k \in shown : messages[k].unsent = (messages[k].id \in unsent))
    BY DEF Converged
  <1>2. Shows(messages, page, unsent)
          <=> /\ {messages[k].id : k \in shown} = page
              /\ \A k \in shown : messages[k].unsent = (messages[k].id \in unsent)
    <2>1. \A k \in DOMAIN messages : k \in shown <=> InPage(messages[k], page)
      BY DEF InPage
    <2>2. shown \subseteq DOMAIN messages
      OBVIOUS
    <2> HIDE DEF shown, page
    <2> QED BY <2>1, <2>2 DEF Shows
  <1> QED BY <1>1, <1>2

\* A page holds the newest of what is not deleted, and something if there is anything.
LEMMA PageIs ==
  ASSUME ServerTyped
  PROVE  LET page == PageOf(None)
         IN  /\ page \in SUBSET (1..MaxLog) /\ page \subseteq Ids \ gone
             /\ \A i \in Ids \ gone : (page # {} => i >= Least(page)) => i \in page
             /\ page = {} => Ids \ gone = {}
  <1> DEFINE S == Ids \ gone
             page == PageOf(None)
             after(i) == {j \in S : j > i}
  <1>1. page = {i \in S : Cardinality(after(i)) < PageSize}
    BY DEF PageOf
  <1>2. S \subseteq Nat /\ Len(log) \in Nat /\ \A x \in S : x <= Len(log)
    BY ResponseType DEF Ids
  <1>3. IsFiniteSet(S)
    <2>1. IsFiniteSet(1..Len(log))
      BY <1>2, FS_Interval
    <2> QED BY <2>1, FS_Subset DEF Ids
  <1>4. page \in SUBSET (1..MaxLog) /\ page \subseteq S
    BY <1>1, ResponseType
  <1>5. \A i \in S : IsFiniteSet(after(i)) /\ Cardinality(after(i)) \in Nat
    BY <1>3, FS_Subset, FS_CardinalityType
  <1>6. ASSUME NEW i \in S, page # {} => i >= Least(page) PROVE i \in page
    <2>1. CASE page = {}
      <3> DEFINE m == Max(S)
      <3>1. m \in S /\ \A y \in S : m >= y
        <4> HIDE DEF S
        <4> QED BY <1>2, NatMax
      <3>2. after(m) = {}
        <4>1. \A y \in S : m \in Nat /\ y \in Nat
          BY <1>2, <3>1
        <4> HIDE DEF m, S
        <4> QED BY <3>1, <4>1
      <3>3. Cardinality(after(m)) = 0
        BY <3>2, FS_EmptySet
      <3>4. m \in page
        <4> HIDE DEF m, S, after
        <4> QED BY <1>1, <3>1, <3>3, ConversationAssumption
      <3> QED BY <2>1, <3>4
    <2>2. CASE page # {}
      <3> DEFINE l == Least(page)
      <3>1. l \in page
        BY <1>4, <2>2, LeastIs
      <3>2. l \in S /\ i \in Nat /\ l \in Nat /\ i >= l
        BY <1>2, <1>4, <1>6, <2>2, <3>1
      <3>3. after(i) \in SUBSET after(l)
        <4> HIDE DEF l
        <4>1. ASSUME NEW x \in after(i) PROVE x \in after(l)
          <5>1. x \in S /\ x \in Nat /\ x > i
            BY <1>2
          <5> QED BY <3>2, <5>1
        <4> QED BY <4>1
      <3>4. Cardinality(after(i)) <= Cardinality(after(l))
        BY <1>5, <3>2, <3>3, FS_Subset
      <3>5. Cardinality(after(l)) < PageSize
        BY <1>1, <3>1
      <3>6. Cardinality(after(i)) < PageSize
        BY <1>5, <3>2, <3>4, <3>5, ConversationAssumption
      <3> HIDE DEF S, after
      <3> QED BY <1>1, <1>6, <3>6
    <2> QED BY <2>1, <2>2
  <1>7. page = {} => S = {}
    BY <1>6
  <1> QED BY <1>4, <1>6, <1>7

\* Sorting again changes nothing of what is shown.
LEMMA ShowsAgain ==
  ASSUME NEW s \in Seq(Message), NEW page \in SUBSET (1..MaxLog), NEW gotUnsent,
         \A k \in First(s) : InPage(s[k], page) =>
           s[k].id \in page /\ s[k].unsent = (s[k].id \in gotUnsent),
         \A i \in page : \E k \in DOMAIN s : InPage(s[k], page) /\ s[k].id = i
  PROVE  Shows(NewestFirst(s), page, gotUnsent)
  <1>1. \A k \in DOMAIN NewestFirst(s) : \E j \in First(s) : NewestFirst(s)[k] = s[j]
    BY NewestFirstIs
  <1>2. \A k \in DOMAIN NewestFirst(s) : InPage(NewestFirst(s)[k], page) =>
          /\ NewestFirst(s)[k].id \in page
          /\ NewestFirst(s)[k].unsent = (NewestFirst(s)[k].id \in gotUnsent)
    BY <1>1
  <1>3. ASSUME NEW i \in page
        PROVE  \E k \in DOMAIN NewestFirst(s) :
                  InPage(NewestFirst(s)[k], page) /\ NewestFirst(s)[k].id = i
    <2>1. PICK k \in DOMAIN s : InPage(s[k], page) /\ s[k].id = i
      OBVIOUS
    <2>2. PICK h \in DOMAIN NewestFirst(s), j \in First(s) :
             NewestFirst(s)[h] = s[j] /\ s[j].id = s[k].id
      BY NewestFirstIds
    <2>3. s[k] \in Message /\ s[j] \in Message /\ i \notin Sends
      <3>1. i \in 0..MaxLog
        BY ConversationAssumption
      <3>2. j \in DOMAIN s
        BY DEF First
      <3> QED BY <3>1, <3>2, Positions, ConversationAssumption
    <2>4. s[k] \in ServerMessage /\ s[j] \in ServerMessage
      BY <2>1, <2>2, <2>3, MessageTypes
    <2>5. IsSent(s[j]) /\ s[j].ts = s[k].ts
      BY <2>2, <2>4, MessageTypes
    <2>6. InPage(s[j], page)
      BY <2>1, <2>5 DEF InPage
    <2> QED BY <2>1, <2>2, <2>6
  <1> QED BY <1>2, <1>3 DEF Shows

LEMMA VersionShows ==
  ASSUME NEW page \in SUBSET (1..MaxLog), NEW res, NEW i \in page
  PROVE  /\ InPage(Version(i, res), page)
         /\ Version(i, res).id = i /\ Version(i, res).unsent = (i \in res.unsent)
  <1>1. IsSent(Version(i, res)) /\ Version(i, res).unsent = (i \in res.unsent)
    BY DEF Version, IsSent
  <1>2. Version(i, res).id = i /\ Version(i, res).ts = 2 * i
    BY VersionType
  <1>3. Least(page) \in page /\ Least(page) <= i
    BY LeastIs
  <1>4. i \in Nat /\ Least(page) \in Nat
    <2>1. \A j \in 1..MaxLog : j \in Nat
      OBVIOUS
    <2> HIDE DEF Least
    <2> QED BY <1>3, <2>1
  <1>5. 2 * i >= 2 * Least(page)
    BY <1>3, <1>4
  <1> QED BY <1>1, <1>2, <1>5 DEF InPage

\* What a refresh leaves unchanged is what it would have listed.
LEMMA UnchangedShows ==
  ASSUME messages \in Seq(Message), NEW res, res.ids \in SUBSET (1..MaxLog),
         ~Changed(messages, res)
  PROVE  Shows(messages, res.ids, res.unsent)
  <1>1. /\ \A i \in res.ids : i \in SentIds(messages)
        /\ \A k \in DOMAIN messages : Retained(messages[k], res)
        /\ \A k \in DOMAIN messages : IsSent(messages[k]) /\ messages[k].id \in res.ids =>
             messages[k] = Version(messages[k].id, res)
    BY DEF Changed
  <1>2. ASSUME NEW k \in DOMAIN messages, InPage(messages[k], res.ids)
        PROVE  messages[k].id \in res.ids /\ messages[k].unsent = (messages[k].id \in res.unsent)
    <2>1. IsSent(messages[k]) /\ (res.ids # {} => messages[k].ts >= 2 * Least(res.ids))
      BY <1>2 DEF InPage
    <2>2. messages[k].id \in res.ids
      <3>1. CASE res.ids # {} /\ messages[k].ts < 2 * Least(res.ids)
        <4>1. messages[k].ts \in Nat /\ Least(res.ids) \in Nat
          <5>1. messages[k] \in Message
            BY Positions
          <5>2. Least(res.ids) \in 1..MaxLog
            BY <3>1, LeastIs
          <5> QED BY <5>1, <5>2, MessageTypes
        <4> QED BY <2>1, <3>1, <4>1
      <3> QED BY <1>1, <2>1, <3>1 DEF Retained
    <2> QED BY <1>1, <2>1, <2>2, VersionShows, ZenonT(30)
  <1>3. ASSUME NEW i \in res.ids
        PROVE  \E k \in DOMAIN messages : InPage(messages[k], res.ids) /\ messages[k].id = i
    <2>1. PICK k \in DOMAIN messages : IsSent(messages[k]) /\ messages[k].id = i
      BY <1>1 DEF SentIds, SentAt
    <2>2. messages[k] = Version(i, res)
      BY <1>1, <2>1
    <2> QED BY <2>1, <2>2, VersionShows
  <1> QED BY <1>2, <1>3 DEF Shows

LEMMA MergedShows ==
  ASSUME messages \in Seq(Message), NEW res, res.ids \in SUBSET (1..MaxLog)
  PROVE  Shows(Merged(messages, res), res.ids, res.unsent)
  <1> DEFINE t == Merged(messages, res)
  <1>1. /\ t \in Seq(Message)
        /\ \A k \in DOMAIN t :
             \/ \E i \in res.ids : t[k] = Version(i, res)
             \/ \E i \in DOMAIN messages :
                   /\ t[k] = messages[i] /\ Retained(messages[i], res)
                   /\ ~(IsSent(messages[i]) /\ messages[i].id \in res.ids)
        /\ \A i \in res.ids : \E k \in DOMAIN t : t[k].id = i
    BY MergedIs
  <1> HIDE DEF t
  <1>2. ASSUME NEW k \in DOMAIN t, NEW i \in DOMAIN messages,
               t[k] = messages[i], Retained(messages[i], res),
               ~(IsSent(messages[i]) /\ messages[i].id \in res.ids)
        PROVE  ~InPage(t[k], res.ids)
    <2>1. CASE ~IsSent(messages[i])
      BY <1>2, <2>1 DEF InPage
    <2>2. CASE res.ids # {} /\ messages[i].ts < 2 * Least(res.ids)
      <3>1. messages[i].ts \in Nat /\ Least(res.ids) \in Nat
        <4>1. messages[i] \in Message
          BY Positions
        <4>2. Least(res.ids) \in 1..MaxLog
          BY <2>2, LeastIs
        <4> QED BY <4>1, <4>2, MessageTypes
      <3> QED BY <1>2, <2>2, <3>1 DEF InPage
    <2> QED BY <1>2, <2>1, <2>2 DEF Retained
  <1>3. ASSUME NEW k \in DOMAIN t, InPage(t[k], res.ids)
        PROVE  t[k].id \in res.ids /\ t[k].unsent = (t[k].id \in res.unsent)
    <2>1. PICK i \in res.ids : t[k] = Version(i, res)
      BY <1>1, <1>2, <1>3
    <2>2. Version(i, res).id = i /\ Version(i, res).unsent = (i \in res.unsent)
      BY VersionShows
    <2> QED BY <2>1, <2>2
  <1>4. ASSUME NEW i \in res.ids
        PROVE  \E k \in DOMAIN t : InPage(t[k], res.ids) /\ t[k].id = i
    <2>1. PICK k \in DOMAIN t : t[k].id = i
      BY <1>1
    <2>2. t[k] \in ServerMessage /\ t[k].ts = 2 * i
      <3>1. t[k] \in Message
        BY <1>1, Positions
      <3>2. i \notin Sends
        BY ConversationAssumption
      <3> QED BY <2>1, <3>1, <3>2, MessageTypes
    <2>3. IsSent(t[k])
      BY <2>2, MessageTypes
    <2>4. Least(res.ids) \in res.ids /\ Least(res.ids) <= i
      BY LeastIs
    <2>5. 2 * i >= 2 * Least(res.ids)
      <3>1. i \in Nat /\ Least(res.ids) \in Nat
        BY <2>4
      <3> QED BY <2>4, <3>1
    <2> QED BY <2>1, <2>2, <2>3, <2>5 DEF InPage
  <1> QED BY <1>3, <1>4 DEF Shows, t

LEMMA VersionsShow ==
  ASSUME NEW res, res.ids \in SUBSET (1..MaxLog)
  PROVE  Shows(Versions(res.ids, res), res.ids, res.unsent)
  <1> DEFINE t == Versions(res.ids, res)
  <1>1. /\ \A k \in DOMAIN t : \E i \in res.ids : t[k] = Version(i, res)
        /\ \A i \in res.ids : \E k \in DOMAIN t : t[k] = Version(i, res)
    BY VersionsAre
  <1> HIDE DEF t
  <1>2. Shows(t, res.ids, res.unsent)
    BY <1>1, VersionShows DEF Shows
  <1> QED BY <1>2 DEF t

\* A view stays settled only while the server says what it said.
LEMMA SettledSteps ==
  ASSUME Typed, Current, [Next]_vars, settled', ~ApplyRefresh, ~ApplyLoad
  PROVE  settled /\ UNCHANGED <<log, gone, unsent, heard>> /\ ~Hear
  <1> USE DEF server
  <1>1. CASE Write \/ Unsend \/ Lose \/ HearDelete \/ Delete \/ Reaches \/ RemoveFails
             \/ Retry \/ Reopen
    BY <1>1 DEF Write, Posted, Unsend, Lose, HearDelete, Delete, Reaches, RemoveFails, Retry, Reopen
  <1>2. CASE \E s \in Sends : Accept(s)
    BY <1>2 DEF Accept, Posted
  <1>3. Hear => settled /\ heard < Len(log) /\ heard = Len(log)
    BY DEF Hear, Current
  <1>4. ASSUME ~Hear, PeerReads \/ HearRead \/ Refresh \/ Answer \/ FailRefresh \/ FailLoad
                      \/ ApplyMore \/ FailMore \/ LoadMore \/ Removed \/ LeftRemoveFails
        PROVE  settled /\ UNCHANGED <<log, gone, unsent, heard>>
    BY <1>4 DEF PeerReads, HearRead, Refresh, Answer, FailRefresh, FailLoad, ApplyMore, FailMore,
       LoadMore, Removed, LeftRemoveFails
  <1>5. ASSUME \E s \in Sends : Send(s) \/ Sent(s) \/ SendFails(s)
        PROVE  settled /\ UNCHANGED <<log, gone, unsent, heard>>
    BY <1>5 DEF Send, Sent, SendFails
  <1>6. ASSUME UNCHANGED vars
        PROVE  settled /\ UNCHANGED <<log, gone, unsent, heard>>
    BY <1>6 DEF vars
  <1>7. ~Hear
    <2>1. Len(log) \in Nat
      BY ResponseType DEF Typed
    <2> QED BY <1>3, <2>1
  <1> QED BY <1>1, <1>2, <1>4, <1>5, <1>6, <1>7 DEF Next, Fetched

LEMMA CurrentStep == Typed /\ Current /\ [Next]_vars => Current'
  <1> SUFFICES ASSUME Typed, Current, [Next]_vars, settled'
               PROVE  /\ heard' = Len(log')
                      /\ more'.phase = "answered" =>
                           more'.res.ids \subseteq Ids' \ gone' /\ more'.res.unsent = unsent'
    BY DEF Current
  <1> USE DEF server
  <1>1. CASE ApplyRefresh \/ ApplyLoad
    <2>1. PICK res : UpToDate(res)
      BY <1>1 DEF ApplyRefresh, ApplyLoad
    <2>2. UNCHANGED <<log, gone, unsent, heard, more, out>>
      BY <1>1 DEF ApplyRefresh, ApplyLoad
    <2>3. more.phase # "answered"
      BY <2>1 DEF UpToDate, Busy
    <2> QED BY <2>1, <2>2, <2>3 DEF UpToDate, Ids
  <1>2. CASE ~ApplyRefresh /\ ~ApplyLoad
    <2>1. settled /\ UNCHANGED <<log, gone, unsent, heard>>
      BY <1>2, SettledSteps
    <2>2. heard' = Len(log') /\ Ids' = Ids
      BY <2>1 DEF Current, Ids
    <2>3. more'.phase = "answered" => more'.res.ids \subseteq Ids \ gone /\ more'.res.unsent = unsent
      <3>1. \/ more'.phase # "answered" \/ UNCHANGED more
            \/ \E key : more' = [phase |-> "answered", res |-> Response(key)]
        <4> USE DEF fetches
        <4>0. Free.phase # "answered" /\ Asked(pageKey).phase # "answered"
          BY DEF Free, Asked
        <4>1. CASE Answer
          BY <4>1 DEF Answer, Answers
        <4>2. CASE ApplyMore \/ FailMore \/ LoadMore \/ Reopen
          <5>1. more' = Free \/ more' = Asked(pageKey)
            BY <4>2 DEF ApplyMore, FailMore, LoadMore, Reopen
          <5> QED BY <4>0, <5>1
        <4>3. CASE Write \/ Unsend \/ PeerReads \/ Hear \/ Lose \/ HearRead \/ HearDelete
                   \/ Refresh \/ Delete \/ Reaches \/ Removed \/ RemoveFails \/ LeftRemoveFails
          BY <4>3 DEF Write, Unsend, PeerReads, Hear, Lose, HearRead, HearDelete, Refresh, Delete,
             Reaches, Removed, RemoveFails, LeftRemoveFails
        <4>4. CASE ApplyRefresh \/ FailRefresh \/ ApplyLoad \/ FailLoad \/ Retry
          BY <4>4 DEF ApplyRefresh, FailRefresh, ApplyLoad, FailLoad, Retry
        <4>5. CASE \E s \in Sends : Accept(s) \/ Send(s) \/ Sent(s) \/ SendFails(s)
          BY <4>5 DEF Accept, Send, Sent, SendFails
        <4>6. CASE UNCHANGED vars
          BY <4>6 DEF vars
        <4> QED BY <4>1, <4>2, <4>3, <4>4, <4>5, <4>6 DEF Next, Fetched
      <3>2. \A key : Response(key).ids \subseteq Ids \ gone /\ Response(key).unsent = unsent
        <4>1. ServerTyped
          BY DEF Typed
        <4> QED BY <4>1, ResponseType DEF Response
      <3>3. UNCHANGED more /\ more.phase = "answered" =>
              more'.res.ids \subseteq Ids \ gone /\ more'.res.unsent = unsent
        BY <2>1 DEF Current
      <3> QED BY <3>1, <3>2, <3>3
    <2> QED BY <2>1, <2>2, <2>3
  <1> QED BY <1>1, <1>2

\* The steps that list messages while the view is settled.

LEMMA MoreShows ==
  ASSUME Typed, Current, settled, Shows(messages, PageOf(None), unsent), ApplyMore
  PROVE  Shows(messages', PageOf(None), unsent)
  <1> DEFINE page == PageOf(None)
             old == Versions(more.res.ids, more.res)
             s == messages \o old
  <1>0. ServerTyped /\ messages \in Seq(Message)
    BY DEF Typed, ViewTyped
  <1>1. messages' = NewestFirst(s) /\ more.res.ids \in SUBSET (1..MaxLog)
    BY DEF ApplyMore, Typed, Answered
  <1>2. more.res.ids \subseteq Ids \ gone /\ more.res.unsent = unsent
    BY DEF Current, ApplyMore
  <1>3. /\ page \in SUBSET (1..MaxLog)
        /\ \A i \in Ids \ gone : (page # {} => i >= Least(page)) => i \in page
    BY <1>0, PageIs
  <1>4. old \in Seq(Message) /\ \A k \in DOMAIN old : \E i \in more.res.ids : old[k] = Version(i, more.res)
    BY <1>1, VersionsHeld, VersionsAre
  <1>5. ASSUME NEW i \in more.res.ids, InPage(Version(i, more.res), page)
        PROVE  i \in page
    <2>1. Version(i, more.res).ts = 2 * i /\ i \in Nat
      BY <1>1, VersionType
    <2>2. page # {} => i >= Least(page)
      <3>1. page # {} => Least(page) \in Nat
        BY <1>3, LeastIs
      <3>2. page # {} => 2 * i >= 2 * Least(page)
        BY <1>5, <2>1 DEF InPage
      <3> QED BY <2>1, <3>1, <3>2
    <2> QED BY <1>2, <1>3, <2>2
  <1> HIDE DEF page, old
  <1>6. /\ s \in Seq(Message)
        /\ \A k \in DOMAIN s : \/ \E i \in DOMAIN messages : s[k] = messages[i]
                               \/ \E i \in DOMAIN old : s[k] = old[i]
        /\ \A i \in DOMAIN messages : i \in DOMAIN s /\ s[i] = messages[i]
    <2>1. messages \in Seq(Message) /\ old \in Seq(Message)
      BY <1>0, <1>4
    <2>2. messages \o old \in Seq(Message) /\ Joins(messages \o old, messages, old)
      BY <2>1, ConcatIs
    <2>3. s \in Seq(Message) /\ Joins(s, messages, old)
      BY <2>2
    <2> HIDE DEF s
    <2> QED BY <2>3 DEF Joins
  <1> HIDE DEF s
  <1>7. Shows(messages, page, unsent)
    BY DEF page
  <1>8. ASSUME NEW k \in DOMAIN s, InPage(s[k], page)
        PROVE  s[k].id \in page /\ s[k].unsent = (s[k].id \in unsent)
    <2>1. CASE \E i \in DOMAIN messages : s[k] = messages[i]
      BY <1>7, <1>8, <2>1 DEF Shows
    <2>2. CASE \E i \in DOMAIN old : s[k] = old[i]
      <3>1. PICK i \in more.res.ids : s[k] = Version(i, more.res)
        BY <1>4, <2>2
      <3>2. i \in page
        BY <1>5, <1>8, <3>1
      <3> QED BY <1>2, <1>3, <3>1, <3>2, VersionShows
    <2> QED BY <1>6, <2>1, <2>2
  <1>9. \A i \in page : \E k \in DOMAIN s : InPage(s[k], page) /\ s[k].id = i
    BY <1>6, <1>7 DEF Shows
  <1>10. First(s) \subseteq DOMAIN s
    BY DEF First
  <1>11. Shows(NewestFirst(s), page, unsent)
    BY <1>3, <1>6, <1>8, <1>9, <1>10, ShowsAgain
  <1> QED BY <1>1, <1>11 DEF page

LEMMA SendShows ==
  ASSUME Typed, Shows(messages, PageOf(None), unsent), NEW s \in Sends, Send(s)
  PROVE  Shows(messages', PageOf(None), unsent)
  <1> DEFINE page == PageOf(None)
  <1>0. ServerTyped /\ messages \in Seq(Message)
    BY DEF Typed, ViewTyped
  <1> PICK new, all : Tops(new, all, s)
    BY <1>0, SendIs
  <1>1. /\ new \in OwnMessage /\ all \in Seq(Message) /\ messages' = NewestFirst(all)
        /\ \A k \in DOMAIN all : all[k] = new \/ \E i \in DOMAIN messages : all[k] = messages[i]
        /\ \A i \in DOMAIN messages : \E k \in DOMAIN all : all[k] = messages[i]
    BY DEF Tops
  <1>2. ~InPage(new, page)
    BY <1>1, MessageTypes DEF InPage
  <1>3. page \in SUBSET (1..MaxLog)
    BY <1>0, PageIs
  <1> HIDE DEF page
  <1>4. Shows(messages, page, unsent)
    BY DEF page
  <1>5. \A k \in DOMAIN all : InPage(all[k], page) =>
          all[k].id \in page /\ all[k].unsent = (all[k].id \in unsent)
    BY <1>1, <1>2, <1>4 DEF Shows
  <1>6. \A i \in page : \E k \in DOMAIN all : InPage(all[k], page) /\ all[k].id = i
    <2> SUFFICES ASSUME NEW i \in page PROVE \E k \in DOMAIN all : InPage(all[k], page) /\ all[k].id = i
      OBVIOUS
    <2>1. PICK j \in DOMAIN messages : InPage(messages[j], page) /\ messages[j].id = i
      BY <1>4 DEF Shows
    <2> QED BY <1>1, <2>1
  <1>7. First(all) \subseteq DOMAIN all
    BY DEF First
  <1>8. Shows(NewestFirst(all), page, unsent)
    BY <1>1, <1>3, <1>5, <1>6, <1>7, ShowsAgain
  <1> QED BY <1>1, <1>8 DEF page

LEMMA FailShows ==
  ASSUME Typed, Shows(messages, PageOf(None), unsent), NEW s \in Sends, SendFails(s)
  PROVE  Shows(messages', PageOf(None), unsent)
  <1>1. messages \in Seq(Message)
    BY DEF Typed, ViewTyped
  <1>2. /\ DOMAIN messages' = DOMAIN messages
        /\ \A k \in DOMAIN messages : /\ IsSent(messages'[k]) <=> IsSent(messages[k])
                                      /\ IsSent(messages[k]) => messages'[k] = messages[k]
    BY <1>1, SendFailsIs
  <1>3. \A k \in DOMAIN messages :
          /\ InPage(messages'[k], PageOf(None)) <=> InPage(messages[k], PageOf(None))
          /\ InPage(messages[k], PageOf(None)) => messages'[k] = messages[k]
    BY <1>2 DEF InPage
  <1> QED BY <1>2, <1>3 DEF Shows

\* The bubble that adopts the server's version stands for it: it is neither unsent
\* nor deleted, so that it does not matter which of the two the list keeps.
LEMMA SentShows ==
  ASSUME Typed, Shows(messages, PageOf(None), unsent), NEW s \in Sends, Sent(s), settled'
  PROVE  Shows(messages', PageOf(None), unsent)
  <1> DEFINE page == PageOf(None)
             k == Min(Bubble(s))
  <1>0. ServerTyped /\ messages \in Seq(Message)
    BY DEF Typed, ViewTyped
  <1>1. PICK i \in Ids : /\ messages' = IF Bubble(s) = {} THEN messages ELSE Adopted(k, i)
                         /\ Bubble(s) = {} \/ i \notin gone \cup unsent
    BY DEF Sent
  <1>2. CASE Bubble(s) = {}
    BY <1>1, <1>2
  <1>3. CASE Bubble(s) # {}
    <2>1. k \in DOMAIN messages /\ messages[k] \in OwnMessage
      BY <1>0, <1>3, BubbleIs
    <2>2. i \in 1..MaxLog /\ i \in Nat /\ i \in Ids \ gone /\ i \notin unsent
      BY <1>0, <1>1, <1>3, ResponseType
    <2> HIDE DEF k
    <2>3. PICK t \in Seq(Message) :
             /\ Adopted(k, i) = NewestFirst(t) /\ DOMAIN t = DOMAIN messages
             /\ \A j \in DOMAIN t : t[j] = IF j = k THEN Adoption(messages[k], i) ELSE messages[j]
      BY <1>0, <2>1, <2>2, AdoptedForm
    <2>4. page \in SUBSET (1..MaxLog)
          /\ \A j \in Ids \ gone : (page # {} => j >= Least(page)) => j \in page
      BY <1>0, PageIs
    <2> HIDE DEF page
    <2>5. Shows(messages, page, unsent)
      BY DEF page
    <2>6. /\ Adoption(messages[k], i) \in ServerMessage /\ Adoption(messages[k], i).id = i
          /\ Adoption(messages[k], i).unsent = FALSE
      <3>1. messages[k] \in Message /\ messages[k].unsent = FALSE
        BY <2>1 DEF Message, OwnMessage
      <3> QED BY <2>2, <3>1, AdoptionType
    <2>7. ASSUME InPage(Adoption(messages[k], i), page) PROVE i \in page
      <3>1. page # {} => 2 * i >= 2 * Least(page)
        BY <2>6, <2>7, MessageTypes DEF InPage
      <3>2. page # {} => Least(page) \in Nat
        <4>1. SUFFICES ASSUME page # {} PROVE Least(page) \in Nat
          OBVIOUS
        <4>2. page \in SUBSET (1..MaxLog)
          BY <2>4
        <4>3. Least(page) \in page
          BY <4>1, <4>2, LeastIs
        <4>4. Least(page) \in 1..MaxLog
          BY <4>2, <4>3
        <4> QED BY <4>4
      <3>3. page # {} => i >= Least(page)
        BY <2>2, <3>1, <3>2
      <3> QED BY <2>2, <2>4, <3>3
    <2>8. ASSUME NEW j \in First(t), InPage(t[j], page)
          PROVE  t[j].id \in page /\ t[j].unsent = (t[j].id \in unsent)
      <3>1. j \in DOMAIN messages
        BY <2>3 DEF First
      <3>2. CASE j = k
        <4>1. t[j] = Adoption(messages[k], i)
          BY <2>3, <3>1, <3>2
        <4>2. InPage(Adoption(messages[k], i), page)
          BY <2>8, <4>1
        <4>3. i \in page
          BY <2>7, <4>2
        <4>4. t[j].id = i /\ t[j].unsent = FALSE
          BY <2>6, <4>1
        <4>5. t[j].id \in page /\ (t[j].id \in unsent) = FALSE
          BY <2>2, <4>3, <4>4
        <4> QED BY <4>4, <4>5
      <3>3. CASE j # k
        <4>1. t[j] = messages[j]
          BY <2>3, <3>1, <3>3
        <4> QED BY <2>5, <2>8, <3>1, <4>1 DEF Shows
      <3> QED BY <3>2, <3>3
    <2>9. ASSUME NEW h \in page
          PROVE  \E j \in DOMAIN t : InPage(t[j], page) /\ t[j].id = h
      <3>1. PICK j \in DOMAIN messages : InPage(messages[j], page) /\ messages[j].id = h
        BY <2>5 DEF Shows
      <3>2. j # k
        BY <2>1, <3>1, MessageTypes DEF InPage
      <3> QED BY <2>3, <3>1, <3>2
    <2>10. Shows(NewestFirst(t), page, unsent)
      BY <2>4, <2>8, <2>9, ShowsAgain
    <2> QED BY <1>1, <1>3, <2>3, <2>10 DEF page, k
  <1> QED BY <1>2, <1>3

LEMMA PageStays == ASSUME UNCHANGED <<log, gone>> PROVE PageOf(None)' = PageOf(None)
BY DEF PageOf, Ids

LEMMA ConvergedStep ==
  Typed /\ Current /\ Converged /\ [Next]_vars => Converged'
  <1> SUFFICES ASSUME Typed, Current, Converged, [Next]_vars, settled'
               PROVE  Shows(messages', PageOf(None)', unsent')
    <2>1. Converged' <=> (settled => Shows(messages, PageOf(None), unsent))'
      BY ConvergedIs, PTL
    <2> QED BY <2>1
  <1> USE DEF server, view
  <1>0. ServerTyped /\ messages \in Seq(Message)
    BY DEF Typed, ViewTyped
  <1>1. CASE ApplyRefresh
    <2> DEFINE res == refresh.res
    <2>1. res = Response(None) /\ UNCHANGED <<log, gone, unsent>>
      BY <1>1 DEF ApplyRefresh, UpToDate
    <2>2. res.ids = PageOf(None) /\ res.unsent = unsent /\ res.ids \in SUBSET (1..MaxLog)
      BY <1>0, <2>1, ResponseType DEF Response
    <2>3. messages' = IF Changed(messages, res) THEN Merged(messages, res) ELSE messages
      BY <1>1 DEF ApplyRefresh
    <2> HIDE DEF res
    <2>4. Shows(messages', res.ids, res.unsent)
      BY <1>0, <2>2, <2>3, UnchangedShows, MergedShows
    <2> QED BY <2>1, <2>2, <2>4, PageStays
  <1>2. CASE ApplyLoad
    <2> DEFINE res == load.res
    <2>1. res = Response(None) /\ UNCHANGED <<log, gone, unsent>>
      BY <1>2 DEF ApplyLoad, UpToDate
    <2>2. res.ids = PageOf(None) /\ res.unsent = unsent /\ res.ids \in SUBSET (1..MaxLog)
      BY <1>0, <2>1, ResponseType DEF Response
    <2>3. messages' = Versions(res.ids, res)
      BY <1>2 DEF ApplyLoad
    <2> HIDE DEF res
    <2>4. Shows(messages', res.ids, res.unsent)
      BY <2>2, <2>3, VersionsShow
    <2> QED BY <2>1, <2>2, <2>4, PageStays
  <1>3. CASE ~ApplyRefresh /\ ~ApplyLoad
    <2>1. settled /\ UNCHANGED <<log, gone, unsent>> /\ ~Hear
      BY <1>3, SettledSteps
    <2>2. Shows(messages, PageOf(None), unsent)
      BY <2>1, ConvergedIs
    <2>3. Shows(messages', PageOf(None), unsent)
      <3>1. CASE ApplyMore
        BY <2>1, <2>2, <3>1, MoreShows
      <3>2. CASE \E s \in Sends : Accept(s) \/ Send(s) \/ Sent(s) \/ SendFails(s)
        <4>1. CASE \E s \in Sends : Accept(s)
          BY <2>2, <4>1 DEF Accept
        <4>2. CASE \E s \in Sends : Send(s) \/ Sent(s) \/ SendFails(s)
          BY <2>1, <2>2, <4>2, SendShows, SentShows, FailShows
        <4> QED BY <3>2, <4>1, <4>2
      <3>3. CASE Write \/ Unsend \/ Lose \/ HearDelete \/ Delete \/ Reaches \/ RemoveFails
                 \/ Retry \/ Reopen
        BY <3>3 DEF Write, Posted, Unsend, Lose, HearDelete, Delete, Reaches, RemoveFails, Retry,
           Reopen
      <3>4. CASE PeerReads \/ HearRead \/ Refresh \/ Answer \/ FailRefresh \/ FailLoad
                 \/ FailMore \/ LoadMore \/ Removed \/ LeftRemoveFails
        BY <2>2, <3>4 DEF PeerReads, HearRead, Refresh, Answer, FailRefresh, FailLoad, FailMore,
           LoadMore, Removed, LeftRemoveFails
      <3>5. CASE UNCHANGED vars
        BY <2>2, <3>5 DEF vars
      <3> QED BY <1>3, <2>1, <3>1, <3>2, <3>3, <3>4, <3>5 DEF Next, Fetched
    <2> QED BY <2>1, <2>3, PageStays
  <1> QED BY <1>1, <1>2, <1>3

-----------------------------------------------------------------------------
(* The theorems *)

IInv == /\ Typed /\ NewIsNowhere /\ Cached /\ NewestFirstOnce
        /\ Current /\ Converged /\ RequestKept

LEMMA InitInv == Init => IInv
  <1> SUFFICES ASSUME Init PROVE IInv
    OBVIOUS
  <1>1. DOMAIN <<>> = {} /\ messages = <<>> /\ <<>> \in Seq(Message)
        /\ log = <<>> /\ <<>> \in Seq(Sends \cup {"peer", "us"}) /\ Len(<<>>) = 0
    BY EmptySeq DEF Init
  <1>2. Typed
    <2>1. ServerTyped
      BY <1>1, ConversationAssumption DEF Init, ServerTyped
    <2>2. ViewTyped
      BY <1>1 DEF Init, ViewTyped, PageKey
    <2>3. Answered(load) /\ Answered(refresh) /\ Answered(more)
      BY DEF Init, Answered, Asked, Free
    <2>4. out \in [Sends -> Outcome] /\ edit = None
      BY DEF Init, Outcome
    <2> QED BY <2>1, <2>2, <2>3, <2>4 DEF Typed
  <1>3. NewIsNowhere
    BY <1>1 DEF Init, NewIsNowhere, Ids
  <1>4. Cached /\ NewestFirstOnce /\ Current /\ Converged /\ RequestKept
    BY <1>1 DEF Init, Cached, NewestFirstOnce, Current, Converged, RequestKept
  <1> QED BY <1>2, <1>3, <1>4 DEF IInv

LEMMA StepInv == IInv /\ [Next]_vars => IInv'
BY TypedStep, NewStep, CachedStep, SortedStep, CurrentStep, ConvergedStep, RequestStep
   DEF IInv

LEMMA Invariant == Spec => []IInv
  <1> QED BY InitInv, StepInv, PTL DEF Spec

(***************************************************************************)
(* Whatever the order in which answers, events, sends and deletions come,  *)
(* the list stays sorted and holds no message twice, but for the time in   *)
(* which a deletion that failed is put back where it was (conversation-    *)
(* state.svelte.ts:94-149, 212-239, 323-333, 398-424; merge-               *)
(* messages.ts:8-19).                                                      *)
(***************************************************************************)
THEOREM NewestFirstAlways == Spec => []NewestFirstOnce
  <1>1. IInv => NewestFirstOnce
    BY DEF IInv
  <1> QED BY <1>1, Invariant, PTL

(***************************************************************************)
(* A refresh answered with the latest state of the server brings the view  *)
(* to it: within the page nothing is missing, nothing deleted is left and  *)
(* what was unsent is unsent, whatever the clock of the client says of the *)
(* bubbles; and the view stays so until the server, a deletion or a        *)
(* reopening moves on, or a bubble becomes a message that was unsent or    *)
(* deleted while it was sent (conversation-state.svelte.ts:200-262,        *)
(* 450-475, merge-messages.ts:8-19, 32-85).                                *)
(***************************************************************************)
THEOREM RefreshesConverge == Spec => []Converged
  <1>1. IInv => Converged
    BY DEF IInv
  <1> QED BY <1>1, Invariant, PTL

(***************************************************************************)
(* Every handler that changes what is shown brings the copy along, so that *)
(* a conversation reopened shows what it showed, unless a deletion begun   *)
(* in a view that was left has failed since and overwritten the copy; the  *)
(* next handler that syncs rights it (conversation-state.svelte.ts:488-505 *)
(* and its callers, 274-290, 525-542).                                     *)
(***************************************************************************)
THEOREM CopiesAreViews == Spec => []CacheIsView
  <1>1. IInv => CacheIsView
    BY DEF IInv, Cached, CopyOf, CacheIsView
  <1> QED BY <1>1, Invariant, PTL

(***************************************************************************)
(* A refresh requested while a fetch is under way is remembered only as    *)
(* long as there is a fetch whose end runs it (conversation-               *)
(* state.svelte.ts:200-206, 252-262, 309-313).                             *)
(***************************************************************************)
THEOREM RequestsAreKept == Spec => []RequestKept
  <1>1. IInv => RequestKept
    BY DEF IInv
  <1> QED BY <1>1, Invariant, PTL

(***************************************************************************)
(* The peer's read marker never goes back while the conversation is known, *)
(* whatever the order of events, pages, refreshes and reopenings, but to   *)
(* that of a copy overwritten by a view that was left (conversation-       *)
(* state.svelte.ts:477-486, 150-161, 274-290, 525-542).                    *)
(***************************************************************************)
THEOREM MarkersAdvance == Spec => MarkerNeverBack
  <1>1. IInv /\ [Next]_vars
          => [profile' => \/ lastRead' >= lastRead
                          \/ foreign /\ cache # None /\ lastRead' = cache.lastRead]_vars
    BY MarkerStep DEF IInv
  <1> QED BY <1>1, Invariant, PTL DEF Spec, MarkerNeverBack
=============================================================================
