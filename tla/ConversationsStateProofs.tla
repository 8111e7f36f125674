---------------------- MODULE ConversationsStateProofs ----------------------
(***************************************************************************)
(* Proofs about ConversationsState, for any number of conversations,       *)
(* requests and deletes.                                                   *)
(***************************************************************************)
EXTENDS ConversationsState, FiniteSetTheorems, TLAPS

(* The part of the invariant about deletes.                                *)
DelsOK == /\ tomb \in [Convs -> Tombstone]
          /\ deletion \in [Deletions -> Deletion]
          /\ buried \in [Convs -> Ts]

\* A delete waits for fetches only once its requests are answered.
PhasesOK ==
  \A d \in Deletions :
    /\ deletion[d].phase = "free" => deletion[d].ids = {} /\ deletion[d].waits = {}
    /\ deletion[d].phase = "requested" => deletion[d].waits = {}

DelInv == DelsOK /\ TombstonesCounted /\ PhasesOK

-----------------------------------------------------------------------------
(* Operators on tombstones *)

LEMMA TombstoneOps ==
  ASSUME NEW t \in Tombstone, NEW e \in Nat, NEW n \in Nat
  PROVE  /\ Marked(t) \in Tombstone
         /\ Marked(t).refs = t.refs + 1 /\ Marked(t).inFlight = t.inFlight + 1
         /\ Marked(t).lastSettledEpoch = t.lastSettledEpoch
         /\ t.refs > 0 /\ t.inFlight > 0
              => /\ Settled(t, e) \in Tombstone
                 /\ Settled(t, e).refs = t.refs
                 /\ Settled(t, e).inFlight = t.inFlight - 1
                 /\ Settled(t, e).lastSettledEpoch = e
         /\ Released(t, n) \in Tombstone
         /\ t.refs > n => /\ Released(t, n).refs = t.refs - n
                          /\ Released(t, n).inFlight = t.inFlight
                          /\ Released(t, n).lastSettledEpoch = t.lastSettledEpoch
         /\ t.refs <= n => Released(t, n) = NoTombstone
         /\ NoTombstone \in Tombstone
<1>1. NoTombstone \in Tombstone
  BY DEF NoTombstone, Tombstone
<1>2. /\ Marked(t) \in Tombstone
      /\ Marked(t).refs = t.refs + 1 /\ Marked(t).inFlight = t.inFlight + 1
      /\ Marked(t).lastSettledEpoch = t.lastSettledEpoch
  <2>1. t.refs + 1 \in Nat /\ t.inFlight + 1 \in Nat
    BY DEF Tombstone
  <2> QED
    BY <2>1 DEF Tombstone, Marked
<1>3. ASSUME t.refs > 0, t.inFlight > 0
      PROVE  /\ Settled(t, e) \in Tombstone
             /\ Settled(t, e).refs = t.refs
             /\ Settled(t, e).inFlight = t.inFlight - 1
             /\ Settled(t, e).lastSettledEpoch = e
  <2> DEFINE i == t.inFlight - 1
  <2>1. i \in Nat /\ e \in Int
    BY <1>3 DEF Tombstone
  <2>2. Settled(t, e) = [t EXCEPT !.inFlight = i, !.lastSettledEpoch = e]
    BY <1>3 DEF Tombstone, Settled
  <2> HIDE DEF i
  <2>3. /\ Settled(t, e) \in Tombstone /\ Settled(t, e).refs = t.refs
        /\ Settled(t, e).inFlight = i /\ Settled(t, e).lastSettledEpoch = e
    BY <2>1, <2>2 DEF Tombstone
  <2> QED
    BY <2>3 DEF i
<1>4. ASSUME t.refs > n
      PROVE  /\ Released(t, n) \in Tombstone
             /\ Released(t, n).refs = t.refs - n
             /\ Released(t, n).inFlight = t.inFlight
             /\ Released(t, n).lastSettledEpoch = t.lastSettledEpoch
  <2>1. t.refs - n \in Nat
    BY <1>4 DEF Tombstone
  <2> QED
    BY <1>4, <2>1 DEF Tombstone, Released
<1>5. ASSUME t.refs <= n
      PROVE  Released(t, n) = NoTombstone
  BY <1>5 DEF Released
<1> QED
  BY <1>1, <1>2, <1>3, <1>4, <1>5 DEF Tombstone

LEMMA HoldersFinite ==
  ASSUME NEW c
  PROVE  /\ IsFiniteSet(Holders(c)) /\ IsFiniteSet(Requesters(c))
         /\ Cardinality(Holders(c)) \in Nat /\ Cardinality(Requesters(c)) \in Nat
         /\ Cardinality(Requesters(c)) <= Cardinality(Holders(c))
<1>1. Holders(c) \in SUBSET Deletions /\ Requesters(c) \in SUBSET Holders(c)
  BY DEF Holders, Requesters
<1>2. IsFiniteSet(Holders(c))
  BY <1>1, ConvsAssumption, FS_Subset
<1>3. IsFiniteSet(Requesters(c)) /\ Cardinality(Requesters(c)) <= Cardinality(Holders(c))
  BY <1>1, <1>2, FS_Subset
<1> QED
  BY <1>2, <1>3, FS_CardinalityType

LEMMA FreeDeletionType == FreeDeletion \in Deletion /\ Nothing \in [Convs -> Ts]
<1>1. Nothing \in [Convs -> Ts]
  BY BoundsAssumption DEF Nothing, Ts
<1>2. "free" \in Phases
  BY DEF Phases
<1> QED
  BY <1>1, <1>2 DEF FreeDeletion, Deletion

\* Releasing the references of the deletes that waited for fetch f only.
LEMMA SettleDelInv ==
  ASSUME DelInv, NEW f \in Fetches, Settle(f)
  PROVE  DelInv'
<1> USE DEF DelInv
<1>1. ASSUME NEW d \in Deletions
      PROVE  /\ deletion'[d] \in Deletion
             /\ d \in Releasable(f) => deletion'[d] = FreeDeletion
             /\ d \notin Releasable(f) => /\ deletion'[d].phase = deletion[d].phase
                                          /\ deletion'[d].ids = deletion[d].ids
                                          /\ deletion'[d].waits = deletion[d].waits \ {f}
  <2>1. FreeDeletion \in Deletion
    BY FreeDeletionType
  <2>2. deletion[d] \in Deletion /\ deletion[d].waits \ {f} \in SUBSET Fetches
    BY DEF DelsOK, Deletion
  <2>3. [deletion[d] EXCEPT !.waits = @ \ {f}] \in Deletion
    BY <2>2 DEF Deletion
  <2> QED
    BY <2>1, <2>2, <2>3 DEF Settle, Deletion
<1>2. deletion' \in [Deletions -> Deletion]
  BY <1>1 DEF Settle
<1>3. FreeDeletion.phase = "free" /\ FreeDeletion.ids = {} /\ FreeDeletion.waits = {}
  BY DEF FreeDeletion
<1>4. PhasesOK'
  BY <1>1, <1>3 DEF PhasesOK
<1>5. ASSUME NEW c \in Convs
      PROVE  /\ tomb'[c] \in Tombstone
             /\ tomb'[c].refs = Cardinality(Holders(c)')
             /\ tomb'[c].inFlight = Cardinality(Requesters(c)')
  <2> DEFINE R == {d \in Releasable(f) : c \in deletion[d].ids}
  <2>1. R \subseteq Holders(c) /\ R \cap Requesters(c) = {}
    BY DEF Releasable, Holders, Requesters
  <2>2. Holders(c)' = Holders(c) \ R
    BY <1>1, <1>3 DEF Holders
  <2>3. Requesters(c)' = Requesters(c)
    BY <1>1, <1>3, <2>1 DEF Holders, Requesters, Releasable
  <2>4. /\ IsFiniteSet(R) /\ Cardinality(R) \in Nat
        /\ Cardinality(Holders(c)') = Cardinality(Holders(c)) - Cardinality(R)
        /\ Cardinality(Holders(c)') \in Nat
        /\ Cardinality(Requesters(c)') <= Cardinality(Holders(c)')
    <3>1. IsFiniteSet(R)
      BY <2>1, HoldersFinite, FS_Subset
    <3>2. Holders(c) \cap R = R
      BY <2>1
    <3>3. IsFiniteSet(Holders(c)')
      BY <2>2, HoldersFinite, FS_Difference, <3>1
    <3>4. Requesters(c) \subseteq Holders(c)'
      BY <2>1, <2>2 DEF Requesters
    <3>5. Cardinality(Requesters(c)') <= Cardinality(Holders(c)')
      BY <2>3, <3>3, <3>4, FS_Subset
    <3> QED
      BY <3>1, <3>2, <3>3, <3>5, <2>2, HoldersFinite, FS_Difference, FS_CardinalityType
  <2>5. tomb[c] \in Tombstone /\ tomb[c].refs = Cardinality(Holders(c))
        /\ tomb[c].inFlight = Cardinality(Requesters(c))
    BY DEF DelsOK, TombstonesCounted
  <2>6. CASE R = {}
    <3>1. tomb'[c] = tomb[c]
      BY <2>6 DEF Settle
    <3> QED
      BY <3>1, <2>2, <2>3, <2>5, <2>6
  <2>7. CASE R # {}
    <3>1. tomb'[c] = Released(tomb[c], Cardinality(R))
      BY <2>7 DEF Settle
    <3>2. CASE tomb[c].refs > Cardinality(R)
      BY <3>1, <3>2, <2>3, <2>4, <2>5, TombstoneOps
    <3>3. CASE tomb[c].refs <= Cardinality(R)
      <4>1. tomb'[c] = NoTombstone /\ NoTombstone \in Tombstone
        BY <3>1, <3>3, <2>4, <2>5, TombstoneOps
      <4>2. Cardinality(Holders(c)') = 0 /\ Cardinality(Requesters(c)') = 0
        BY <2>3, <2>4, <2>5, <3>3, HoldersFinite
      <4> QED
        BY <4>1, <4>2 DEF NoTombstone
    <3> QED
      BY <3>2, <3>3, <2>4, <2>5 DEF Tombstone
  <2> QED
    BY <2>6, <2>7
<1>6. TombstonesCounted'
  BY <1>5 DEF TombstonesCounted
<1>7. DelsOK'
  BY <1>2, <1>5 DEF DelsOK, Settle
<1> QED
  BY <1>4, <1>6, <1>7

\* One finite set gains or loses the element d only.
LEMMA OneElement ==
  ASSUME NEW S, NEW T, NEW d, IsFiniteSet(S), S \ {d} = T \ {d}
  PROVE  /\ IsFiniteSet(T) /\ Cardinality(S) \in Nat /\ Cardinality(T) \in Nat
         /\ Cardinality(T) = Cardinality(S) - (IF d \in S THEN 1 ELSE 0)
                                            + (IF d \in T THEN 1 ELSE 0)
<1> DEFINE U == S \ {d}
<1>1. IsFiniteSet(U) /\ Cardinality(U) \in Nat /\ Cardinality(S) \in Nat
      /\ Cardinality(S) = Cardinality(U) + (IF d \in S THEN 1 ELSE 0)
  <2>1. S = IF d \in S THEN U \cup {d} ELSE U
    OBVIOUS
  <2>2. IsFiniteSet(U) /\ d \notin U
    BY FS_Subset
  <2> HIDE DEF U
  <2> QED
    BY <2>1, <2>2, FS_AddElement, FS_CardinalityType
<1>2. T = IF d \in T THEN U \cup {d} ELSE U
  OBVIOUS
<1>3. IsFiniteSet(T) /\ Cardinality(T) \in Nat
      /\ Cardinality(T) = Cardinality(U) + (IF d \in T THEN 1 ELSE 0)
  <2>1. d \notin U
    OBVIOUS
  <2> HIDE DEF U
  <2> QED
    BY <1>1, <1>2, <2>1, FS_AddElement, FS_CardinalityType
<1> QED
  BY <1>1, <1>3

\* A step that changes one delete only moves it in or out of the two sets.
LEMMA OneDeletion ==
  ASSUME DelInv, NEW d \in Deletions, NEW c,
         \A e \in Deletions \ {d} : deletion'[e] = deletion[e]
  PROVE  /\ Cardinality(Holders(c)') =
               Cardinality(Holders(c)) - (IF d \in Holders(c) THEN 1 ELSE 0)
                                       + (IF d \in Holders(c)' THEN 1 ELSE 0)
         /\ Cardinality(Requesters(c)') =
               Cardinality(Requesters(c)) - (IF d \in Requesters(c) THEN 1 ELSE 0)
                                          + (IF d \in Requesters(c)' THEN 1 ELSE 0)
         /\ Cardinality(Holders(c)') \in Nat /\ Cardinality(Requesters(c)') \in Nat
         /\ Cardinality(Requesters(c)') <= Cardinality(Holders(c)')
<1>1. Holders(c) \ {d} = Holders(c)' \ {d}
  BY DEF Holders
<1>2. Requesters(c) \ {d} = Requesters(c)' \ {d}
  BY <1>1 DEF Requesters, Holders
<1>3. IsFiniteSet(Holders(c)')
  BY <1>1, HoldersFinite, OneElement
<1>4. Requesters(c)' \subseteq Holders(c)'
  BY DEF Requesters
<1>5. Cardinality(Requesters(c)') <= Cardinality(Holders(c)')
  BY <1>3, <1>4, FS_Subset
<1> QED
  BY <1>1, <1>2, <1>5, HoldersFinite, OneElement

LEMMA DeleteConversationsDelInv ==
  ASSUME TypeOK, DelInv, NEW d \in Deletions, NEW ids \in SUBSET Convs,
         DeleteConversations(d, ids)
  PROVE  DelInv'
<1> DEFINE removed == [c \in Convs |-> IF c \in ids THEN ts[c] ELSE 0]
           new == [deletion[d] EXCEPT !.phase = "requested", !.ids = ids, !.removed = removed]
<1>1. deletion' = [deletion EXCEPT ![d] = new] /\ deletion[d] \in Deletion
  BY DEF DeleteConversations, DelInv, DelsOK
<1>2. removed \in [Convs -> Ts]
  BY BoundsAssumption DEF TypeOK, Ts
<1>3. /\ new \in Deletion /\ new.phase = "requested" /\ new.ids = ids
      /\ new.waits = deletion[d].waits
  <2> HIDE DEF removed
  <2> QED
    BY <1>1, <1>2 DEF Deletion, Phases
<1> HIDE DEF new
<1>4. deletion' \in [Deletions -> Deletion] /\ deletion'[d] = new
      /\ \A e \in Deletions \ {d} : deletion'[e] = deletion[e]
  BY <1>1, <1>3 DEF DelInv, DelsOK
<1>5. deletion[d].phase = "free" /\ deletion[d].ids = {}
  BY DEF DeleteConversations, DelInv, PhasesOK
<1>6. PhasesOK'
  BY <1>3, <1>4, <1>5 DEF DelInv, PhasesOK
<1>7. ASSUME NEW c \in Convs
      PROVE  /\ tomb'[c] \in Tombstone
             /\ tomb'[c].refs = Cardinality(Holders(c)')
             /\ tomb'[c].inFlight = Cardinality(Requesters(c)')
  <2>1. d \notin Holders(c) /\ d \notin Requesters(c)
    BY <1>5 DEF Holders, Requesters
  <2>2. (d \in Holders(c)' <=> c \in ids) /\ (d \in Requesters(c)' <=> c \in ids)
    BY <1>3, <1>4 DEF Holders, Requesters
  <2>3. tomb'[c] = IF c \in ids THEN Marked(tomb[c]) ELSE tomb[c]
    BY DEF DeleteConversations
  <2>4. tomb[c] \in Tombstone /\ tomb[c].refs = Cardinality(Holders(c))
        /\ tomb[c].inFlight = Cardinality(Requesters(c))
    BY DEF DelInv, DelsOK, TombstonesCounted
  <2>5. /\ Marked(tomb[c]) \in Tombstone /\ Marked(tomb[c]).refs = tomb[c].refs + 1
        /\ Marked(tomb[c]).inFlight = tomb[c].inFlight + 1
    BY <2>4, TombstoneOps
  <2>6. /\ Cardinality(Holders(c)') = Cardinality(Holders(c)) + (IF c \in ids THEN 1 ELSE 0)
        /\ Cardinality(Requesters(c)') =
             Cardinality(Requesters(c)) + (IF c \in ids THEN 1 ELSE 0)
    BY <1>4, <2>1, <2>2, OneDeletion, HoldersFinite
  <2> QED
    BY <2>3, <2>4, <2>5, <2>6, HoldersFinite
<1>8. tomb' \in [Convs -> Tombstone] /\ buried' = buried
  BY <1>7 DEF DeleteConversations, dels
<1> QED
  BY <1>4, <1>6, <1>7, <1>8 DEF DelInv, DelsOK, TombstonesCounted

\* A delete whose phase, conversations and fetches waited for stay as they were.
LEMMA SameHoldersDelInv ==
  ASSUME DelInv, NEW d \in Deletions, NEW new \in Deletion,
         deletion' = [deletion EXCEPT ![d] = new],
         new.phase = deletion[d].phase, new.ids = deletion[d].ids,
         new.waits = deletion[d].waits, UNCHANGED <<tomb, buried>>
  PROVE  DelInv'
<1>1. deletion' \in [Deletions -> Deletion] /\ deletion'[d] = new
      /\ \A e \in Deletions \ {d} : deletion'[e] = deletion[e]
  BY DEF DelInv, DelsOK
<1>2. \A c \in Convs : Holders(c)' = Holders(c) /\ Requesters(c)' = Requesters(c)
  BY <1>1 DEF Holders, Requesters
<1> QED
  BY <1>1, <1>2 DEF DelInv, DelsOK, TombstonesCounted, PhasesOK

LEMMA DeleteTakesEffectDelInv ==
  ASSUME TypeOK, DelInv, NEW d \in Deletions, NEW c \in Convs, DeleteTakesEffect(d, c)
  PROVE  DelInv'
<1> DEFINE effect == [deletion[d].effect EXCEPT ![c] = server[c]]
           new == [deletion[d] EXCEPT !.effect = effect]
<1>1. deletion[d] \in Deletion /\ server[c] \in Ts
  BY DEF DelInv, DelsOK, TypeOK
<1>2. effect \in [Convs -> Ts]
  BY <1>1 DEF Deletion
<1>3. deletion' = [deletion EXCEPT ![d] = new]
  BY <1>1 DEF DeleteTakesEffect, DelInv, DelsOK, Deletion
<1> HIDE DEF effect
<1>4. new \in Deletion /\ new.phase = deletion[d].phase
      /\ new.ids = deletion[d].ids /\ new.waits = deletion[d].waits
  BY <1>1, <1>2 DEF Deletion
<1> QED
  BY <1>3, <1>4, SameHoldersDelInv DEF DeleteTakesEffect

LEMMA DeleteAnsweredDelInv ==
  ASSUME TypeOK, DelInv, NEW d \in Deletions, NEW c \in Convs, NEW ok \in BOOLEAN,
         DeleteAnswered(d, c, ok)
  PROVE  DelInv'
<1> DEFINE answered == deletion[d].answered \cup {c}
           failed == FailedWith(d, c, ok)
           new == [deletion[d] EXCEPT !.answered = answered, !.failed = failed]
<1>1. deletion[d] \in Deletion
  BY DEF DelInv, DelsOK
<1>2. answered \in SUBSET Convs /\ failed \in SUBSET Convs
  BY <1>1 DEF Deletion, FailedWith
<1>3. deletion' = [deletion EXCEPT ![d] = new]
  BY <1>1 DEF DeleteAnswered, DelInv, DelsOK, Deletion
<1> HIDE DEF answered, failed
<1>4. new \in Deletion /\ new.phase = deletion[d].phase
      /\ new.ids = deletion[d].ids /\ new.waits = deletion[d].waits
  BY <1>1, <1>2 DEF Deletion
<1> QED
  BY <1>3, <1>4, SameHoldersDelInv DEF DeleteAnswered

\* The last answer of a batch: its requests are over, and its references are
\* released at once when no fetch is in flight.
LEMMA DeletesSettleDelInv ==
  ASSUME TypeOK, DelInv, NEW d \in Deletions, NEW c \in Convs, NEW ok \in BOOLEAN,
         DeletesSettle(d, c, ok)
  PROVE  DelInv'
<1> DEFINE ids == deletion[d].ids
           new == IF InFlight = {} THEN FreeDeletion
                  ELSE [FreeDeletion EXCEPT !.phase = "releasing", !.ids = ids,
                                            !.waits = InFlight]
<1>1. /\ deletion[d] \in Deletion /\ deletion[d].phase = "requested"
      /\ deletion' = [deletion EXCEPT ![d] = new]
      /\ ids \in SUBSET Convs /\ InFlight \in SUBSET Fetches
  BY DEF DelInv, DelsOK, DeletesSettle, Outcome, InFlight, Deletion
<1>2. /\ new \in Deletion /\ new.phase \in {"free", "releasing"}
      /\ InFlight = {} => new.phase = "free" /\ new.ids = {} /\ new.waits = {}
      /\ InFlight # {} => new.phase = "releasing" /\ new.ids = ids
  <2> HIDE DEF ids
  <2> QED
    BY <1>1, FreeDeletionType DEF Deletion, FreeDeletion, Phases
<1> HIDE DEF new
<1>3. deletion' \in [Deletions -> Deletion] /\ deletion'[d] = new
      /\ \A e \in Deletions \ {d} : deletion'[e] = deletion[e]
  BY <1>1, <1>2 DEF DelInv, DelsOK
<1>4. PhasesOK'
  BY <1>2, <1>3 DEF DelInv, PhasesOK
<1>5. ASSUME NEW i \in Convs
      PROVE  /\ tomb'[i] \in Tombstone
             /\ tomb'[i].refs = Cardinality(Holders(i)')
             /\ tomb'[i].inFlight = Cardinality(Requesters(i)')
  <2> DEFINE S == Settled(tomb[i], epoch)
  <2>1. tomb[i] \in Tombstone /\ epoch \in Nat /\ tomb[i].refs = Cardinality(Holders(i))
        /\ tomb[i].inFlight = Cardinality(Requesters(i))
    BY DEF DelInv, DelsOK, TombstonesCounted, TypeOK
  <2>2. (d \in Holders(i) <=> i \in ids) /\ (d \in Requesters(i) <=> i \in ids)
    BY <1>1 DEF Holders, Requesters
  <2>3. (d \in Holders(i)' <=> InFlight # {} /\ i \in ids) /\ d \notin Requesters(i)'
    BY <1>2, <1>3 DEF Holders, Requesters
  <2>4. /\ Cardinality(Requesters(i)') =
             Cardinality(Requesters(i)) - (IF i \in ids THEN 1 ELSE 0)
        /\ Cardinality(Holders(i)') =
             Cardinality(Holders(i)) - (IF i \in ids /\ InFlight = {} THEN 1 ELSE 0)
        /\ Cardinality(Holders(i)') \in Nat /\ Cardinality(Requesters(i)') \in Nat
        /\ Cardinality(Requesters(i)') <= Cardinality(Holders(i)')
    BY <1>3, <2>2, <2>3, OneDeletion, HoldersFinite
  <2>5. tomb'[i] = IF i \notin ids THEN tomb[i]
                   ELSE IF InFlight = {} THEN Released(S, 1) ELSE S
    BY DEF DeletesSettle
  <2>6. CASE i \notin ids
    BY <2>1, <2>4, <2>5, <2>6, HoldersFinite
  <2>7. CASE i \in ids
    <3>1. tomb[i].refs > 0 /\ tomb[i].inFlight > 0
      BY <2>1, <2>4, <2>7, HoldersFinite
    <3>2. S \in Tombstone /\ S.refs = tomb[i].refs /\ S.inFlight = tomb[i].inFlight - 1
      BY <2>1, <3>1, TombstoneOps
    <3> HIDE DEF S
    <3>3. CASE InFlight # {}
      BY <2>1, <2>4, <2>5, <2>7, <3>2, <3>3, HoldersFinite
    <3>4. CASE InFlight = {} /\ S.refs > 1
      BY <2>1, <2>4, <2>5, <2>7, <3>2, <3>4, TombstoneOps, HoldersFinite
    <3>5. CASE InFlight = {} /\ S.refs <= 1
      <4>1. tomb'[i] = NoTombstone /\ NoTombstone \in Tombstone
        BY <2>5, <2>7, <3>2, <3>5, TombstoneOps, <2>1
      <4>2. Cardinality(Holders(i)') = 0 /\ Cardinality(Requesters(i)') = 0
        BY <2>1, <2>4, <2>7, <3>2, <3>5, HoldersFinite
      <4> QED
        BY <4>1, <4>2 DEF NoTombstone
    <3> QED
      BY <3>2, <3>3, <3>4, <3>5 DEF Tombstone
  <2> QED
    BY <2>6, <2>7
<1>6. tomb' \in [Convs -> Tombstone] /\ buried' \in [Convs -> Ts]
  <2>1. tomb' \in [Convs -> Tombstone]
    BY <1>5 DEF DeletesSettle
  <2>2. deletion[d].effect \in [Convs -> Ts] /\ buried \in [Convs -> Ts]
    BY <1>1 DEF DelInv, DelsOK, Deletion
  <2>3. buried' \in [Convs -> Ts]
    BY <2>2 DEF DeletesSettle, Latest
  <2> QED
    BY <2>1, <2>3
<1> QED
  BY <1>3, <1>4, <1>5, <1>6 DEF DelInv, DelsOK, TombstonesCounted

\* A delete the server announces is marked, settled and released in one step.
LEMMA ConversationDeleteDelInv ==
  ASSUME TypeOK, DelInv, NEW d \in Deletions, NEW c \in Convs, ConversationDelete(d, c)
  PROVE  DelInv'
<1> DEFINE new == IF InFlight = {} THEN deletion[d]
                  ELSE [FreeDeletion EXCEPT !.phase = "releasing", !.ids = {c},
                                            !.waits = InFlight]
<1>1. /\ deletion[d] \in Deletion /\ deletion[d].phase = "free"
      /\ deletion' = [deletion EXCEPT ![d] = new]
      /\ InFlight \in SUBSET Fetches
  BY DEF DelInv, DelsOK, ConversationDelete, InFlight
<1>2. /\ new \in Deletion
      /\ InFlight = {} => new = deletion[d]
      /\ InFlight # {} => new.phase = "releasing" /\ new.ids = {c}
  BY <1>1, FreeDeletionType DEF Deletion, FreeDeletion, Phases
<1> HIDE DEF new
<1>3. deletion' \in [Deletions -> Deletion] /\ deletion'[d] = new
      /\ \A e \in Deletions \ {d} : deletion'[e] = deletion[e]
  BY <1>1, <1>2 DEF DelInv, DelsOK
<1>4. PhasesOK'
  BY <1>2, <1>3 DEF DelInv, PhasesOK
<1>5. ASSUME NEW i \in Convs
      PROVE  /\ tomb'[i] \in Tombstone
             /\ tomb'[i].refs = Cardinality(Holders(i)')
             /\ tomb'[i].inFlight = Cardinality(Requesters(i)')
  <2> DEFINE M == Marked(tomb[i])
             S == Settled(M, epoch)
  <2>1. tomb[i] \in Tombstone /\ epoch \in Nat /\ tomb[i].refs = Cardinality(Holders(i))
        /\ tomb[i].inFlight = Cardinality(Requesters(i))
    BY DEF DelInv, DelsOK, TombstonesCounted, TypeOK
  <2>2. d \notin Holders(i) /\ d \notin Requesters(i) /\ d \notin Requesters(i)'
        /\ (d \in Holders(i)' <=> InFlight # {} /\ i = c)
    BY <1>1, <1>2, <1>3 DEF Holders, Requesters
  <2>3. /\ Cardinality(Requesters(i)') = Cardinality(Requesters(i))
        /\ Cardinality(Holders(i)') =
             Cardinality(Holders(i)) + (IF i = c /\ InFlight # {} THEN 1 ELSE 0)
        /\ Cardinality(Holders(i)') \in Nat /\ Cardinality(Requesters(i)') \in Nat
        /\ Cardinality(Requesters(i)') <= Cardinality(Holders(i)')
    BY <1>3, <2>2, OneDeletion, HoldersFinite
  <2>4. tomb'[i] = IF i # c THEN tomb[i] ELSE IF InFlight = {} THEN Released(S, 1) ELSE S
    BY DEF ConversationDelete, DelInv, DelsOK
  <2>5. /\ M \in Tombstone /\ M.refs = tomb[i].refs + 1 /\ M.inFlight = tomb[i].inFlight + 1
    BY <2>1, TombstoneOps
  <2> HIDE DEF M
  <2>6. S \in Tombstone /\ S.refs = tomb[i].refs + 1 /\ S.inFlight = tomb[i].inFlight
    <3>1. M.refs > 0 /\ M.inFlight > 0 /\ M.inFlight - 1 = tomb[i].inFlight
      BY <2>1, <2>5, HoldersFinite
    <3> QED
      BY <2>1, <2>5, <3>1, TombstoneOps
  <2> HIDE DEF S
  <2>7. CASE i # c
    BY <2>1, <2>3, <2>4, <2>7, HoldersFinite
  <2>8. CASE i = c /\ InFlight # {}
    BY <2>1, <2>3, <2>4, <2>6, <2>8, HoldersFinite
  <2>9. CASE i = c /\ InFlight = {} /\ S.refs > 1
    BY <2>1, <2>3, <2>4, <2>6, <2>9, TombstoneOps, HoldersFinite
  <2>10. CASE i = c /\ InFlight = {} /\ S.refs <= 1
    <3>1. tomb'[i] = NoTombstone /\ NoTombstone \in Tombstone
      BY <2>4, <2>6, <2>10, <2>1, TombstoneOps
    <3>2. Cardinality(Holders(i)') = 0 /\ Cardinality(Requesters(i)') = 0
      BY <2>1, <2>3, <2>6, <2>10, HoldersFinite
    <3> QED
      BY <3>1, <3>2 DEF NoTombstone
  <2> QED
    BY <2>6, <2>7, <2>8, <2>9, <2>10 DEF Tombstone
<1>6. tomb' \in [Convs -> Tombstone] /\ buried' \in [Convs -> Ts]
  <2>1. tomb' \in [Convs -> Tombstone]
    BY <1>5 DEF ConversationDelete, DelInv, DelsOK
  <2>2. notices \in [Convs -> Ts] /\ buried \in [Convs -> Ts]
    BY DEF DelInv, DelsOK, TypeOK
  <2>3. buried' \in [Convs -> Ts]
    BY <2>2 DEF ConversationDelete, Latest
  <2> QED
    BY <2>1, <2>3
<1> QED
  BY <1>3, <1>4, <1>5, <1>6 DEF DelInv, DelsOK, TombstonesCounted

LEMMA SameDelsDelInv ==
  ASSUME DelInv, UNCHANGED dels
  PROVE  DelInv'
BY DEF DelInv, DelsOK, TombstonesCounted, PhasesOK, Holders, Requesters, dels

LEMMA DelInvStep == TypeOK /\ DelInv /\ [Next]_vars => DelInv'
<1> SUFFICES ASSUME TypeOK, DelInv, [Next]_vars
             PROVE  DelInv'
  OBVIOUS
<1>1. ASSUME NEW f \in Fetches, FetchSteps(f)
      PROVE  DelInv'
  <2>1. CASE ServerAnswers(f)
    BY <2>1, SameDelsDelInv DEF ServerAnswers
  <2>2. CASE LoadArrives(f) \/ LoadFails(f)
    BY <2>2, SettleDelInv DEF LoadArrives, LoadFails, EndLoad
  <2>3. CASE ReconcileArrives(f) \/ ReconcileFails(f)
    BY <2>3, SettleDelInv DEF ReconcileArrives, ReconcileFails, EndReconcile
  <2>4. CASE SyncArrives(f) \/ SyncFails(f)
    BY <2>4, SettleDelInv DEF SyncArrives, SyncFails, EndSync
  <2> QED
    BY <1>1, <2>1, <2>2, <2>3, <2>4 DEF FetchSteps
<1>2. ASSUME NEW d \in Deletions, AnswerSteps(d)
      PROVE  DelInv'
  BY <1>2, DeleteAnsweredDelInv, DeletesSettleDelInv DEF AnswerSteps
<1>3. CASE UserSteps
  <2>1. CASE Retry \/ SetFilters
    BY <2>1, SameDelsDelInv DEF Retry, SetFilters, RetryWith
  <2>2. CASE RunPaging \/ Refresh \/ RefreshAgain \/ EnsureLoaded
    BY <2>2, SameDelsDelInv DEF RunPaging, Refresh, RefreshAgain, EnsureLoaded
  <2>3. ASSUME NEW d \in Deletions, NEW ids \in SUBSET Convs, DeleteConversations(d, ids)
        PROVE  DelInv'
    BY <2>3, DeleteConversationsDelInv
  <2> QED
    BY <1>3, <2>1, <2>2, <2>3 DEF UserSteps
<1>4. CASE ServerSteps
  <2>1. ASSUME NEW c \in Convs, PeerMessage(c) \/ OtherDeviceDeletes(c) \/ MessageSent(c)
        PROVE  DelInv'
    BY <2>1, SameDelsDelInv DEF PeerMessage, OtherDeviceDeletes, MessageSent
  <2>2. ASSUME NEW d \in Deletions, NEW c \in Convs,
               DeleteTakesEffect(d, c) \/ ConversationDelete(d, c)
        PROVE  DelInv'
    BY <2>2, DeleteTakesEffectDelInv, ConversationDeleteDelInv
  <2> QED
    BY <1>4, <2>1, <2>2 DEF ServerSteps
<1>5. CASE UNCHANGED vars
  BY <1>5, SameDelsDelInv DEF vars
<1> QED
  BY <1>1, <1>2, <1>3, <1>4, <1>5 DEF Next

-----------------------------------------------------------------------------
(* Types of the rest of the state *)

LEMMA RequestType ==
  ASSUME NEW k \in Kinds, NEW e \in Nat, NEW view \in Filters, NEW page \in Nat,
         NEW loaded \in [Convs -> Ts]
  PROVE  /\ Request(k, e, view, page, loaded) \in Fetch
         /\ \A s \in States, a \in Fetches \cup {NoFetch} :
              /\ [Request(k, e, view, page, loaded) EXCEPT !.state = s] \in Fetch
              /\ [Request(k, e, view, page, loaded) EXCEPT !.state = s, !.after = a] \in Fetch
<1>1. Nothing \in [Convs -> Ts] /\ "asked" \in States /\ NoFetch \in Fetches \cup {NoFetch}
  BY FreeDeletionType DEF States
<1>2. Request(k, e, view, page, loaded) \in Fetch
  BY <1>1 DEF Request, Fetch
<1> QED
  BY <1>2 DEF Fetch

LEMMA ServerReadTypes ==
  ASSUME TypeOK, NEW f \in Fetches
  PROVE  /\ Merged(f) \in [Convs -> Ts]
         /\ NextAfter(fetch[f].view, fetch[f].page) \in Nat
<1>1. fetch[f] \in Fetch /\ server \in [Convs -> Ts] /\ 0 \in Ts
  BY BoundsAssumption DEF TypeOK, Ts
<1>2. fetch[f].got \in [Convs -> Ts] /\ fetch[f].page \in Nat
  BY <1>1 DEF Fetch
<1> QED
  BY <1>1, <1>2 DEF Merged, Page, NextAfter

\* The requests that replace another or start.
LEMMA ReconcileType ==
  ASSUME TypeOK, filter' \in Filters, ts' \in [Convs -> Ts]
  PROVE  /\ ClaimedReconcile \in Fetch /\ WaitingReconcile \in Fetch
         /\ \A f \in Fetches : FreeFetch(f) \in Fetch
<1>1. /\ epoch + 1 \in Nat /\ filter \in Filters /\ initial \in Fetches \cup {NoFetch}
      /\ Nothing \in [Convs -> Ts] /\ {"reconcile", "free"} \subseteq Kinds
      /\ {"waiting", "idle"} \subseteq States
      /\ \A f \in Fetches : fetch[f].view \in Filters
  BY FreeDeletionType DEF TypeOK, Kinds, States, Fetch
<1> QED
  BY <1>1, RequestType DEF ClaimedReconcile, WaitingReconcile, FreeFetch

LEMMA BeginReconcileType ==
  ASSUME TypeOK, filter' \in Filters, ts' \in [Convs -> Ts], NEW f \in Fetches,
         BeginReconcile(f)
  PROVE  refreshing' \in BOOLEAN /\ fetch' \in [Fetches -> Fetch] /\ epoch' \in Nat
BY ReconcileType DEF TypeOK, BeginReconcile

LEMMA EndLoadType ==
  ASSUME TypeOK, filter' \in Filters, ts' \in [Convs -> Ts], NEW f \in Fetches, EndLoad(f)
  PROVE  /\ fetch' \in [Fetches -> Fetch] /\ epoch' \in Nat /\ requested' \in BOOLEAN
         /\ initial' \in Fetches \cup {NoFetch}
BY ReconcileType DEF TypeOK, EndLoad

LEMMA EndReconcileType ==
  ASSUME TypeOK, filter' \in Filters, ts' \in [Convs -> Ts], NEW f \in Fetches,
         EndReconcile(f)
  PROVE  /\ fetch' \in [Fetches -> Fetch] /\ epoch' \in Nat /\ requested' \in BOOLEAN
         /\ initial' \in Fetches \cup {NoFetch} /\ refreshing' \in BOOLEAN
<1>1. fetch' \in [Fetches -> Fetch] /\ epoch' \in Nat /\ refreshing' \in BOOLEAN
  BY ReconcileType, BeginReconcileType DEF TypeOK, EndReconcile
<1> QED
  BY <1>1 DEF TypeOK, EndReconcile

LEMMA FetchStepType ==
  ASSUME TypeOK, DelsOK', NEW f \in Fetches, FetchSteps(f)
  PROVE  TypeOK'
<1>0. fetch[f] \in Fetch /\ fetch[f].got \in [Convs -> Ts] /\ fetch[f].next \in Nat /\ 0 \in Ts
  BY BoundsAssumption DEF TypeOK, Fetch, Ts
<1>1. CASE ServerAnswers(f)
  <2> DEFINE next == NextAfter(fetch[f].view, fetch[f].page)
             one == [fetch[f] EXCEPT !.state = "answered", !.got = Merged(f), !.next = next]
             two == [fetch[f] EXCEPT !.page = next, !.got = Merged(f)]
  <2>1. next \in Nat /\ Merged(f) \in [Convs -> Ts] /\ "answered" \in States
    BY ServerReadTypes DEF States
  <2>2. fetch' = [fetch EXCEPT ![f] = one] \/ fetch' = [fetch EXCEPT ![f] = two]
    BY <1>0, <1>1 DEF ServerAnswers, Fetch, TypeOK
  <2>3. one \in Fetch /\ two \in Fetch
    <3> HIDE DEF next
    <3> QED
      BY <1>0, <2>1 DEF Fetch
  <2> HIDE DEF one, two
  <2>4. fetch' \in [Fetches -> Fetch]
    BY <2>2, <2>3 DEF TypeOK
  <2> QED
    BY <1>1, <2>4 DEF ServerAnswers, TypeOK, env, list, ui, dels, DelsOK
<1>2. CASE LoadArrives(f)
  <2>1. /\ filter' = filter /\ rows' \in [Convs -> Nat] /\ ts' \in [Convs -> Ts]
        /\ nextPage' \in Nat /\ placed' \in BOOLEAN /\ loading' \in BOOLEAN
    <3>1. filter' = filter /\ loading' \in BOOLEAN
      BY <1>2 DEF LoadArrives, LoadingAfter, IsStale, TypeOK
    <3>2. CASE UNCHANGED list
      BY <3>1, <3>2 DEF TypeOK, list
    <3>3. CASE ~UNCHANGED list
      <4> DEFINE pushed == Pushed(f)
      <4>1. /\ rows' = [c \in Convs |-> IF c \in pushed THEN rows[c] + 1 ELSE rows[c]]
            /\ ts' = [c \in Convs |-> IF c \in pushed THEN fetch[f].got[c] ELSE ts[c]]
            /\ nextPage' = fetch[f].next /\ placed' = TRUE
        BY <1>2, <3>3 DEF LoadArrives
      <4> HIDE DEF pushed
      <4> QED
        BY <1>0, <3>1, <4>1 DEF TypeOK
    <3> QED
      BY <3>2, <3>3
  <2> QED
    BY <1>2, <2>1, EndLoadType DEF LoadArrives, TypeOK, env, DelsOK
<1>3. CASE LoadFails(f)
  <2>1. loading' \in BOOLEAN /\ error' \in BOOLEAN
    BY <1>3 DEF LoadFails, LoadingAfter, IsStale, TypeOK
  <2> QED
    BY <1>3, <2>1, EndLoadType DEF LoadFails, TypeOK, env, list, DelsOK
<1>4. CASE ReconcileArrives(f)
  <2>1. /\ filter' = filter /\ rows' \in [Convs -> Nat] /\ ts' \in [Convs -> Ts]
        /\ nextPage' \in Nat /\ placed' \in BOOLEAN /\ error' \in BOOLEAN
    <3>1. CASE UNCHANGED <<list, error>>
      BY <1>4, <3>1 DEF ReconcileArrives, TypeOK, list
    <3>2. CASE ~UNCHANGED <<list, error>>
      <4> DEFINE got == fetch[f].got
                 InWindow(t) == fetch[f].next = 0 \/ \E c \in Convs : got[c] > 0 /\ got[c] < t
                 pushed == Pushed(f)
                 gone == {c \in Convs : got[c] = 0 /\ ~Blocked(c, f) /\ InWindow(ts[c])}
      <4>1. /\ rows' = [c \in Convs |-> IF c \in pushed THEN rows[c] + 1
                                       ELSE IF c \in gone THEN 0 ELSE rows[c]]
            /\ ts' = [c \in Convs |-> IF rows'[c] = 0 THEN 0
                                     ELSE IF got[c] > 0 THEN got[c] ELSE ts[c]]
            /\ nextPage' = fetch[f].next /\ placed' = TRUE /\ error' = FALSE
            /\ filter' = filter
        BY <1>4, <3>2 DEF ReconcileArrives
      <4> HIDE DEF pushed, gone
      <4>2. ASSUME NEW c \in Convs
            PROVE  rows'[c] \in Nat /\ ts'[c] \in Ts
        BY <1>0, <4>1 DEF TypeOK
      <4> QED
        BY <1>0, <4>1, <4>2 DEF TypeOK
    <3> QED
      BY <3>1, <3>2
  <2> QED
    BY <1>4, <2>1, EndReconcileType DEF ReconcileArrives, TypeOK, env, DelsOK
<1>5. CASE ReconcileFails(f)
  BY <1>5, EndReconcileType DEF ReconcileFails, TypeOK, env, list, ui, DelsOK
<1>6. CASE SyncArrives(f) \/ SyncFails(f)
  <2>1. rows' \in [Convs -> Nat] /\ ts' \in [Convs -> Ts] /\ error' \in BOOLEAN
    <3>1. CASE UNCHANGED <<rows, ts, error>>
      BY <3>1 DEF TypeOK
    <3>2. CASE ~UNCHANGED <<rows, ts, error>>
      <4> DEFINE pushed == Pushed(f)
                 updated == {c \in Convs : fetch[f].got[c] > 0 /\ rows[c] > 0}
      <4>1. /\ rows' = [c \in Convs |-> IF c \in pushed THEN rows[c] + 1 ELSE rows[c]]
            /\ ts' = [c \in Convs |-> IF c \in updated \cup pushed THEN fetch[f].got[c] ELSE ts[c]]
            /\ error' = FALSE
        BY <1>6, <3>2 DEF SyncArrives, SyncFails
      <4> HIDE DEF pushed, updated
      <4>2. ASSUME NEW c \in Convs
            PROVE  rows'[c] \in Nat /\ ts'[c] \in Ts
        BY <1>0, <4>1 DEF TypeOK
      <4> QED
        BY <4>1, <4>2
    <3> QED
      BY <3>1, <3>2
  <2>2. EndSync(f)
    BY <1>6 DEF SyncArrives, SyncFails
  <2>3. fetch' \in [Fetches -> Fetch]
    BY <2>1, <2>2, ReconcileType DEF EndSync, TypeOK
  <2> QED
    BY <2>1, <2>2, <2>3 DEF EndSync, TypeOK, env, DelsOK
<1> QED
  BY <1>1, <1>2, <1>3, <1>4, <1>5, <1>6 DEF FetchSteps

LEMMA UserStepType ==
  ASSUME TypeOK, DelsOK', UserSteps
  PROVE  TypeOK'
<1>0. /\ Nothing \in [Convs -> Ts] /\ Nothing \in [Convs -> Nat] /\ 0 \in Ts /\ epoch + 1 \in Nat
      /\ {"hard", "page", "sync"} \subseteq Kinds
  BY FreeDeletionType, BoundsAssumption DEF Nothing, Kinds, TypeOK, Ts
<1>1. ASSUME NEW view \in Filters, RetryWith(view), filter' \in Filters
      PROVE  TypeOK'
  <2>1. PICK f \in Fetches : BeginHardLoad(f, view)
    BY <1>1 DEF RetryWith
  <2>2. Request("hard", epoch + 1, view, 1, Nothing) \in Fetch
    BY <1>0, RequestType
  <2>3. fetch' \in [Fetches -> Fetch] /\ epoch' \in Nat /\ initial' \in Fetches \cup {NoFetch}
        /\ loading' \in BOOLEAN /\ error' \in BOOLEAN
    BY <1>0, <2>1, <2>2 DEF BeginHardLoad, TypeOK
  <2> QED
    BY <1>0, <1>1, <2>3 DEF RetryWith, TypeOK, env, dels, DelsOK
<1>2. CASE Retry
  BY <1>1, <1>2 DEF Retry, TypeOK
<1>3. CASE SetFilters
  BY <1>1, <1>3 DEF SetFilters
<1>4. CASE RunPaging
  <2>1. PICK f \in Fetches :
          fetch' = [fetch EXCEPT ![f] = Request("page", epoch + 1, filter, nextPage, Nothing)]
    BY <1>4 DEF RunPaging
  <2>2. Request("page", epoch + 1, filter, nextPage, Nothing) \in Fetch
    BY <1>0, RequestType DEF TypeOK
  <2> QED
    BY <1>0, <1>4, <2>1, <2>2 DEF RunPaging, TypeOK, env, list, ui, dels, DelsOK
<1>5. CASE Refresh
  <2>1. filter' \in Filters /\ ts' \in [Convs -> Ts]
    BY <1>5 DEF Refresh, TypeOK, list
  <2>2. fetch' \in [Fetches -> Fetch] /\ epoch' \in Nat /\ refreshing' \in BOOLEAN
    BY <1>5, <2>1, BeginReconcileType DEF Refresh
  <2> QED
    BY <1>5, <2>2 DEF Refresh, TypeOK, env, list, ui, dels, DelsOK
<1>6. CASE RefreshAgain
  BY <1>6 DEF RefreshAgain, TypeOK, env, list, ui, dels, DelsOK
<1>7. CASE EnsureLoaded
  <2>1. PICK f \in Fetches :
          fetch' = [fetch EXCEPT ![f] = Request("sync", epoch, filter, 1, Nothing)]
    BY <1>7 DEF EnsureLoaded
  <2>2. Request("sync", epoch, filter, 1, Nothing) \in Fetch
    BY <1>0, RequestType DEF TypeOK
  <2> QED
    BY <1>7, <2>1, <2>2 DEF EnsureLoaded, TypeOK, env, list, ui, dels, DelsOK
<1>8. ASSUME NEW d \in Deletions, NEW ids \in SUBSET Convs, DeleteConversations(d, ids)
      PROVE  TypeOK'
  <2>1. rows' \in [Convs -> Nat] /\ ts' \in [Convs -> Ts]
    BY <1>0, <1>8 DEF DeleteConversations, TypeOK
  <2> QED
    BY <1>8, <2>1 DEF DeleteConversations, TypeOK, env, ui, DelsOK
<1> QED
  BY <1>2, <1>3, <1>4, <1>5, <1>6, <1>7, <1>8 DEF UserSteps

LEMMA ServerStepType ==
  ASSUME TypeOK, DelsOK', ServerSteps
  PROVE  TypeOK'
<1>0. 0 \in Ts
  BY BoundsAssumption DEF Ts
<1>1. ASSUME NEW c \in Convs, PeerMessage(c)
      PROVE  TypeOK'
  <2>1. clock' \in Ts /\ server' \in [Convs -> Ts]
    BY <1>1, BoundsAssumption DEF PeerMessage, TypeOK, Ts
  <2> QED
    BY <1>1, <2>1 DEF PeerMessage, TypeOK, list, ui, dels, DelsOK
<1>2. ASSUME NEW c \in Convs, OtherDeviceDeletes(c)
      PROVE  TypeOK'
  BY <1>0, <1>2 DEF OtherDeviceDeletes, ServerDeletes, TypeOK, list, ui, dels, DelsOK
<1>3. ASSUME NEW c \in Convs, MessageSent(c)
      PROVE  TypeOK'
  BY <1>3 DEF MessageSent, TypeOK, env, ui, dels, DelsOK
<1>4. ASSUME NEW d \in Deletions, NEW c \in Convs, DeleteTakesEffect(d, c)
      PROVE  TypeOK'
  BY <1>0, <1>4 DEF DeleteTakesEffect, ServerDeletes, TypeOK, list, ui, DelsOK
<1>5. ASSUME NEW d \in Deletions, NEW c \in Convs, ConversationDelete(d, c)
      PROVE  TypeOK'
  <2>1. rows' \in [Convs -> Nat] /\ ts' \in [Convs -> Ts] /\ notices' \in [Convs -> Ts]
    BY <1>0, <1>5 DEF ConversationDelete, Removed, TypeOK
  <2> QED
    BY <1>5, <2>1 DEF ConversationDelete, TypeOK, ui, DelsOK
<1> QED
  BY <1>1, <1>2, <1>3, <1>4, <1>5 DEF ServerSteps

LEMMA AnswerStepType ==
  ASSUME TypeOK, DelsOK', NEW d \in Deletions, AnswerSteps(d)
  PROVE  TypeOK'
<1>1. ASSUME NEW c \in Convs, NEW ok \in BOOLEAN, DeleteAnswered(d, c, ok)
      PROVE  TypeOK'
  BY <1>1 DEF DeleteAnswered, TypeOK, env, list, ui, DelsOK
<1>2. ASSUME NEW c \in Convs, NEW ok \in BOOLEAN, DeletesSettle(d, c, ok)
      PROVE  TypeOK'
  <2>1. deletion[d].removed \in [Convs -> Ts]
    BY DEF TypeOK, Deletion
  <2>2. rows' \in [Convs -> Nat] /\ ts' \in [Convs -> Ts]
    BY <1>2, <2>1 DEF DeletesSettle, TypeOK
  <2> QED
    BY <1>2, <2>2 DEF DeletesSettle, TypeOK, env, ui, DelsOK
<1> QED
  BY <1>1, <1>2 DEF AnswerSteps

LEMMA InitInv == Init => TypeOK /\ DelInv
<1> SUFFICES ASSUME Init
             PROVE  TypeOK /\ DelInv
  OBVIOUS
<1>1. /\ Nothing \in [Convs -> Ts] /\ Nothing \in [Convs -> Nat] /\ {"hard", "free"} \subseteq Kinds
      /\ "idle" \in States /\ FreeDeletion \in Deletion /\ NoTombstone \in Tombstone
  BY FreeDeletionType DEF Nothing, Kinds, States, NoTombstone, Tombstone
<1>2. clock \in Ts
  BY ConvsAssumption, BoundsAssumption, FS_CardinalityType DEF Init, Ts
<1>3. fetch \in [Fetches -> Fetch]
  BY <1>1, RequestType DEF Init
<1>4. TypeOK
  BY <1>1, <1>2, <1>3 DEF Init, TypeOK
<1>5. PhasesOK
  BY DEF Init, PhasesOK, FreeDeletion
<1>6. ASSUME NEW c \in Convs
      PROVE  Holders(c) = {} /\ Requesters(c) = {}
  BY DEF Init, Holders, Requesters, FreeDeletion
<1>7. TombstonesCounted
  BY <1>6, FS_EmptySet DEF Init, TombstonesCounted, NoTombstone
<1> QED
  BY <1>4, <1>5, <1>7 DEF TypeOK, DelInv, DelsOK

LEMMA InvStep == TypeOK /\ DelInv /\ [Next]_vars => (TypeOK /\ DelInv)'
<1> SUFFICES ASSUME TypeOK, DelInv, [Next]_vars
             PROVE  TypeOK' /\ DelInv'
  OBVIOUS
<1>1. DelInv' /\ DelsOK'
  BY DelInvStep DEF DelInv
<1>2. CASE UNCHANGED vars
  BY <1>1, <1>2 DEF vars, env, list, ui, dels, TypeOK
<1>3. CASE Next
  <2>1. CASE \E f \in Fetches : FetchSteps(f)
    BY <1>1, <2>1, FetchStepType
  <2>2. CASE \E d \in Deletions : AnswerSteps(d)
    BY <1>1, <2>2, AnswerStepType
  <2> QED
    BY <1>1, <1>3, <2>1, <2>2, UserStepType, ServerStepType DEF Next
<1> QED
  BY <1>1, <1>2, <1>3

(***************************************************************************)
(* Every variable keeps its type: in particular no counter of a tombstone  *)
(* goes below zero (pending-deletes.ts), whatever deletes overlap.         *)
(***************************************************************************)
THEOREM TypeCorrect == Spec => []TypeOK
BY InitInv, InvStep, PTL DEF Spec

(***************************************************************************)
(* A tombstone's references are exactly the deletes that hold it, and its  *)
(* requests in flight exactly those on the wire (pending-deletes.ts:6-35,  *)
(* conversations-state.svelte.ts:563-588): it neither lapses early nor     *)
(* blocks a conversation for good.                                         *)
(***************************************************************************)
THEOREM TombstonesAreCounted == Spec => []TombstonesCounted
<1>1. Spec => [](TypeOK /\ DelInv)
  BY InitInv, InvStep, PTL DEF Spec
<1>2. DelInv => TombstonesCounted
  BY DEF DelInv
<1> QED
  BY <1>1, <1>2, PTL

-----------------------------------------------------------------------------
(* One row per conversation *)

LEMMA FetchStepRows ==
  ASSUME TypeOK, NoDuplicateRows, NEW f \in Fetches, FetchSteps(f)
  PROVE  NoDuplicateRows'
<1>1. CASE LoadArrives(f)
  <2>1. \A c \in Convs : rows'[c] = rows[c] \/ (rows[c] = 0 /\ rows'[c] = rows[c] + 1)
    BY <1>1 DEF LoadArrives, Pushed, TypeOK, list
  <2> QED
    BY <2>1 DEF NoDuplicateRows
<1>2. CASE ReconcileArrives(f)
  <2>1. \A c \in Convs : \/ rows'[c] = rows[c] \/ rows'[c] = 0
                         \/ (rows[c] = 0 /\ rows'[c] = rows[c] + 1)
    BY <1>2 DEF ReconcileArrives, Pushed, TypeOK, list
  <2> QED
    BY <2>1 DEF NoDuplicateRows
<1>3. CASE SyncArrives(f)
  <2>1. \A c \in Convs : rows'[c] = rows[c] \/ (rows[c] = 0 /\ rows'[c] = rows[c] + 1)
    BY <1>3 DEF SyncArrives, Pushed, TypeOK
  <2> QED
    BY <2>1 DEF NoDuplicateRows
<1>4. CASE ServerAnswers(f) \/ LoadFails(f) \/ ReconcileFails(f) \/ SyncFails(f)
  BY <1>4 DEF ServerAnswers, LoadFails, ReconcileFails, SyncFails, list, NoDuplicateRows
<1> QED
  BY <1>1, <1>2, <1>3, <1>4 DEF FetchSteps

LEMMA RowsStep == TypeOK /\ NoDuplicateRows /\ [Next]_vars => NoDuplicateRows'
<1> SUFFICES ASSUME TypeOK, NoDuplicateRows, [Next]_vars
             PROVE  NoDuplicateRows'
  OBVIOUS
<1>1. CASE \E f \in Fetches : FetchSteps(f)
  BY <1>1, FetchStepRows
<1>2. CASE Retry \/ SetFilters
  BY <1>2 DEF Retry, SetFilters, RetryWith, Nothing, NoDuplicateRows
<1>3. CASE RunPaging \/ Refresh \/ RefreshAgain \/ EnsureLoaded \/ UNCHANGED vars
  BY <1>3 DEF RunPaging, Refresh, RefreshAgain, EnsureLoaded, vars, list, NoDuplicateRows
<1>4. ASSUME NEW d \in Deletions, NEW ids \in SUBSET Convs, DeleteConversations(d, ids)
      PROVE  NoDuplicateRows'
  <2>1. \A c \in Convs : rows'[c] <= rows[c]
    BY <1>4 DEF DeleteConversations, TypeOK
  <2> QED
    BY <1>4, <2>1 DEF DeleteConversations, TypeOK, NoDuplicateRows
<1>5. ASSUME NEW d \in Deletions, NEW c \in Convs, NEW ok \in BOOLEAN, DeletesSettle(d, c, ok)
      PROVE  NoDuplicateRows'
  BY <1>5 DEF DeletesSettle, Restorable, TypeOK, NoDuplicateRows
<1>6. ASSUME NEW d \in Deletions, NEW c \in Convs, ConversationDelete(d, c)
      PROVE  NoDuplicateRows'
  BY <1>6 DEF ConversationDelete, Removed, TypeOK, NoDuplicateRows
<1>7. ASSUME NEW d \in Deletions, NEW c \in Convs,
             \/ PeerMessage(c) \/ OtherDeviceDeletes(c) \/ MessageSent(c)
             \/ DeleteTakesEffect(d, c) \/ \E ok \in BOOLEAN : DeleteAnswered(d, c, ok)
      PROVE  NoDuplicateRows'
  BY <1>7 DEF PeerMessage, OtherDeviceDeletes, MessageSent, DeleteTakesEffect, DeleteAnswered,
              list, NoDuplicateRows
<1> QED
  BY <1>1, <1>2, <1>3, <1>4, <1>5, <1>6, <1>7
     DEF Next, AnswerSteps, UserSteps, ServerSteps, PeerMessage, OtherDeviceDeletes,
         MessageSent, list, NoDuplicateRows

(***************************************************************************)
(* No order of loads, syncs, reconciles, deletes and rollbacks lists a     *)
(* conversation twice (conversations-state.svelte.ts:302-346, 400-418).    *)
(***************************************************************************)
THEOREM RowsAreUnique == Spec => []NoDuplicateRows
<1>1. Init => NoDuplicateRows
  BY DEF Init, Nothing, NoDuplicateRows
<1> QED
  BY <1>1, RowsStep, InitInv, InvStep, PTL DEF Spec

-----------------------------------------------------------------------------
(***************************************************************************)
(* The tombstones keep late answers out of the list: for any number of     *)
(* conversations, requests and deletes, an answer the server gave before a *)
(* delete never brings the deleted conversation back.                      *)
(*                                                                         *)
(* The argument: a delete that settles while requests are in flight keeps  *)
(* its reference until all of them have ended (DeletesSettle, waits), and  *)
(* stamps the tombstone with the current epoch, which none of them is      *)
(* newer than (EpochsOK).  A request that reads the server after the       *)
(* delete cannot see an old activity (ActivityOK).                         *)
(***************************************************************************)

Pending(f) == fetch[f].state \in {"asked", "answered"}

EpochsOK == \A f \in Fetches : Pending(f) => fetch[f].epoch <= epoch /\ ~IsFree(f)

\* What the server shows is newer than anything it ever deleted.
ActivityOK ==
  \A c \in Convs :
    /\ server[c] <= clock
    /\ server[c] > 0 => /\ notices[c] < server[c] /\ buried[c] < server[c]
                        /\ \A d \in Deletions : deletion[d].effect[c] < server[c]
    /\ notices[c] <= clock /\ buried[c] <= clock
    /\ \A d \in Deletions : deletion[d].effect[c] <= clock

\* A settled delete of c still waits for f, which is no newer than it.
Remembered(f, c) ==
  \E d \in Deletions : /\ deletion[d].phase = "releasing"
                       /\ c \in deletion[d].ids /\ f \in deletion[d].waits
                       /\ fetch[f].epoch <= tomb[c].lastSettledEpoch

LateAnswersRemembered ==
  \A f \in Fetches, c \in Convs :
    Pending(f) /\ fetch[f].got[c] > 0 /\ fetch[f].got[c] <= buried[c] => Remembered(f, c)

\* A request that is not stale asked for the filter the list shows.
ViewsOK ==
  \A f \in Fetches : Pending(f) =>
    /\ fetch[f].epoch = epoch => fetch[f].view = filter
    /\ \A c \in Convs : fetch[f].got[c] > 0 => c \in Matches[fetch[f].view]

-----------------------------------------------------------------------------
(* What a step can do to a request *)

Fresh(r) == /\ fetch'[r].state = "asked" /\ fetch'[r].got = Nothing
            /\ fetch'[r].epoch = epoch' /\ fetch'[r].view = filter'
            /\ fetch'[r].kind # "free"
            /\ \/ fetch'[r].kind # "page" /\ fetch'[r].page = 1
               \/ /\ fetch'[r].kind = "page" /\ fetch'[r].page = nextPage
                  /\ nextPage # 0 /\ nextPage' = nextPage
            /\ fetch'[r].kind = "sync" \/ epoch' > epoch
Quiet(r) == fetch'[r].state \in {"idle", "waiting"}
Reads(r) == /\ fetch[r].state = "asked" /\ fetch'[r].got = Merged(r)
            /\ fetch'[r].epoch = fetch[r].epoch /\ fetch'[r].view = fetch[r].view
            /\ fetch'[r].kind = fetch[r].kind
            /\ \/ /\ fetch'[r].state = "answered" /\ fetch'[r].page = fetch[r].page
                  /\ fetch'[r].next = NextAfter(fetch[r].view, fetch[r].page)
               \/ /\ fetch'[r].state = "asked" /\ IsReconcile(r)
                  /\ HasMore(fetch[r].view, fetch[r].page)
                  /\ fetch'[r].page = fetch[r].page + 1
            /\ UNCHANGED <<env, epoch, filter, list, dels>>
Evolves(r) == Fresh(r) \/ Quiet(r) \/ fetch'[r] = fetch[r] \/ Reads(r)

LEMMA RequestFields ==
  ASSUME NEW k, NEW e, NEW view, NEW page, NEW loaded
  PROVE  /\ Request(k, e, view, page, loaded).state = "asked"
         /\ Request(k, e, view, page, loaded).got = Nothing
         /\ Request(k, e, view, page, loaded).epoch = e
         /\ Request(k, e, view, page, loaded).view = view
         /\ Request(k, e, view, page, loaded).kind = k
         /\ Request(k, e, view, page, loaded).page = page
BY DEF Request

LEMMA ReconcileFields ==
  /\ WaitingReconcile.state = "waiting"
  /\ \A f \in Fetches : FreeFetch(f).state = "idle"
BY DEF WaitingReconcile, FreeFetch, Request

LEMMA BeginReconcileEvolves ==
  ASSUME TypeOK, NEW f \in Fetches, BeginReconcile(f), filter' = filter
  PROVE  /\ epoch' >= epoch
         /\ Fresh(f) \/ Quiet(f)
         /\ \A r \in Fetches \ {f} : fetch'[r] = fetch[r]
<1>1. CASE fetch' = [fetch EXCEPT ![f] = WaitingReconcile] /\ UNCHANGED epoch
  BY <1>1, ReconcileFields DEF TypeOK, Quiet
<1>2. CASE fetch' = [fetch EXCEPT ![f] = ClaimedReconcile] /\ epoch' = epoch + 1
  BY <1>2, RequestFields DEF TypeOK, Fresh, ClaimedReconcile
<1> QED
  BY <1>1, <1>2 DEF BeginReconcile

LEMMA EndLoadEvolves ==
  ASSUME TypeOK, NEW f \in Fetches, EndLoad(f), filter' = filter
  PROVE  /\ epoch' >= epoch /\ Quiet(f)
         /\ \A r \in Fetches : Fresh(r) \/ Quiet(r) \/ fetch'[r] = fetch[r]
<1>1. epoch' >= epoch /\ (Woken(f) # {} => epoch' = epoch + 1)
  BY DEF EndLoad, TypeOK
<1>2. fetch'[f] = FreeFetch(f)
  BY DEF EndLoad
<1>3. ASSUME NEW r \in Fetches \ {f}, r \in Woken(f)
      PROVE  Fresh(r)
  <2>1. epoch' = epoch + 1 /\ epoch' > epoch
    BY <1>1, <1>3 DEF TypeOK
  <2> QED
    BY <1>3, <2>1, RequestFields DEF EndLoad, Fresh, ClaimedReconcile
<1>4. ASSUME NEW r \in Fetches \ {f}, r \notin Woken(f)
      PROVE  fetch'[r] = fetch[r]
  BY <1>4 DEF EndLoad
<1> QED
  BY <1>1, <1>2, <1>3, <1>4, ReconcileFields DEF Quiet

LEMMA EndReconcileEvolves ==
  ASSUME TypeOK, NEW f \in Fetches, EndReconcile(f), filter' = filter
  PROVE  /\ epoch' >= epoch
         /\ Fresh(f) \/ Quiet(f)
         /\ \A r \in Fetches \ {f} : fetch'[r] = fetch[r]
<1>1. CASE BeginReconcile(f)
  BY <1>1, BeginReconcileEvolves
<1>2. CASE fetch' = [fetch EXCEPT ![f] = FreeFetch(f)] /\ UNCHANGED epoch
  BY <1>2, ReconcileFields DEF TypeOK, Quiet
<1> QED
  BY <1>1, <1>2 DEF EndReconcile

\* How a step leaves the epoch, the filter and every request.
LEMMA StepEvolves ==
  ASSUME TypeOK, [Next]_vars
  PROVE  /\ epoch' >= epoch /\ (filter' = filter \/ epoch' > epoch)
         /\ \A r \in Fetches : Evolves(r)
<1> DEFINE Goal == /\ epoch' >= epoch /\ (filter' = filter \/ epoch' > epoch)
                   /\ \A r \in Fetches : Evolves(r)
<1>0. epoch \in Nat
  BY DEF TypeOK
<1>1. ASSUME NEW f \in Fetches, FetchSteps(f)
      PROVE  Goal
  <2>1. CASE ServerAnswers(f)
    <3>1. UNCHANGED <<env, epoch, filter, list, dels>> /\ fetch[f].state = "asked"
      BY <2>1 DEF ServerAnswers
    <3>2. \A r \in Fetches \ {f} : fetch'[r] = fetch[r]
      BY <2>1 DEF ServerAnswers, TypeOK
    <3>3. /\ fetch'[f].got = Merged(f) /\ fetch'[f].epoch = fetch[f].epoch
          /\ fetch'[f].view = fetch[f].view /\ fetch'[f].kind = fetch[f].kind
      BY <2>1 DEF ServerAnswers, TypeOK, Fetch
    <3>4. \/ /\ fetch'[f].state = "answered" /\ fetch'[f].page = fetch[f].page
             /\ fetch'[f].next = NextAfter(fetch[f].view, fetch[f].page)
          \/ /\ fetch'[f].state = "asked" /\ IsReconcile(f)
             /\ HasMore(fetch[f].view, fetch[f].page)
             /\ fetch'[f].page = fetch[f].page + 1
      BY <2>1 DEF ServerAnswers, TypeOK, Fetch, IsReconcile, WindowCovered, NextAfter
    <3> QED
      BY <1>0, <3>1, <3>2, <3>3, <3>4 DEF Evolves, Reads
  <2>2. CASE LoadArrives(f) \/ LoadFails(f)
    BY <1>0, <2>2, EndLoadEvolves DEF LoadArrives, LoadFails, Evolves
  <2>3. CASE ReconcileArrives(f) \/ ReconcileFails(f)
    <3>1. EndReconcile(f) /\ filter' = filter
      BY <2>3 DEF ReconcileArrives, ReconcileFails
    <3> QED
      BY <1>0, <3>1, EndReconcileEvolves DEF Evolves
  <2>4. CASE SyncArrives(f) \/ SyncFails(f)
    <3>1. EndSync(f)
      BY <2>4 DEF SyncArrives, SyncFails
    <3>2. fetch'[f].state = "idle" /\ \A r \in Fetches \ {f} : fetch'[r] = fetch[r]
      BY <3>1, ReconcileFields DEF EndSync, TypeOK
    <3> QED
      BY <1>0, <3>1, <3>2 DEF EndSync, Evolves, Quiet
  <2> QED
    BY <1>1, <2>1, <2>2, <2>3, <2>4 DEF FetchSteps
<1>2. ASSUME NEW view \in Filters, RetryWith(view), filter' = view
      PROVE  Goal
  <2>1. PICK f \in Fetches : BeginHardLoad(f, view)
    BY <1>2 DEF RetryWith
  <2>2. epoch' = epoch + 1 /\ Fresh(f) /\ \A r \in Fetches \ {f} : fetch'[r] = fetch[r]
    BY <1>2, <2>1, RequestFields DEF BeginHardLoad, TypeOK, Fresh
  <2> QED
    BY <1>0, <2>2 DEF Evolves
<1>3. CASE UserSteps
  <2>1. CASE Retry
    <3>1. filter \in Filters
      BY DEF TypeOK
    <3> QED
      BY <1>2, <2>1, <3>1 DEF Retry
  <2>2. CASE SetFilters
    BY <1>2, <2>2 DEF SetFilters
  <2>3. CASE RunPaging
    <3>1. PICK f \in Fetches :
            fetch' = [fetch EXCEPT ![f] = Request("page", epoch + 1, filter, nextPage, Nothing)]
      BY <2>3 DEF RunPaging
    <3>2. epoch' = epoch + 1 /\ Fresh(f) /\ \A r \in Fetches \ {f} : fetch'[r] = fetch[r]
      BY <2>3, <3>1, RequestFields DEF RunPaging, TypeOK, Fresh, list
    <3> QED
      BY <1>0, <3>2 DEF Evolves
  <2>4. CASE Refresh
    BY <1>0, <2>4, BeginReconcileEvolves DEF Refresh, Evolves
  <2>5. CASE EnsureLoaded
    <3>1. PICK f \in Fetches :
            fetch' = [fetch EXCEPT ![f] = Request("sync", epoch, filter, 1, Nothing)]
      BY <2>5 DEF EnsureLoaded
    <3>2. UNCHANGED <<epoch, filter>> /\ Fresh(f)
          /\ \A r \in Fetches \ {f} : fetch'[r] = fetch[r]
      BY <2>5, <3>1, RequestFields DEF EnsureLoaded, TypeOK, Fresh
    <3> QED
      BY <1>0, <3>2 DEF Evolves
  <2>6. CASE RefreshAgain \/ \E d \in Deletions, ids \in SUBSET Convs : DeleteConversations(d, ids)
    <3>1. UNCHANGED <<epoch, filter, fetch>>
      BY <2>6 DEF RefreshAgain, DeleteConversations
    <3> QED
      BY <1>0, <3>1 DEF Evolves
  <2> QED
    BY <1>3, <2>1, <2>2, <2>3, <2>4, <2>5, <2>6 DEF UserSteps
<1>4. CASE ServerSteps \/ \E d \in Deletions : AnswerSteps(d)
  <2>1. UNCHANGED <<epoch, filter, fetch>>
    <3>1. ASSUME NEW d \in Deletions, NEW c \in Convs, NEW ok \in BOOLEAN,
                 DeleteAnswered(d, c, ok) \/ DeletesSettle(d, c, ok)
          PROVE  UNCHANGED <<epoch, filter, fetch>>
      BY <3>1 DEF DeleteAnswered, DeletesSettle
    <3>2. ASSUME NEW c \in Convs, PeerMessage(c) \/ OtherDeviceDeletes(c) \/ MessageSent(c)
          PROVE  UNCHANGED <<epoch, filter, fetch>>
      BY <3>2 DEF PeerMessage, OtherDeviceDeletes, MessageSent
    <3>3. ASSUME NEW d \in Deletions, NEW c \in Convs,
                 DeleteTakesEffect(d, c) \/ ConversationDelete(d, c)
          PROVE  UNCHANGED <<epoch, filter, fetch>>
      BY <3>3 DEF DeleteTakesEffect, ConversationDelete
    <3> QED
      BY <1>4, <3>1, <3>2, <3>3 DEF ServerSteps, AnswerSteps
  <2> QED
    BY <1>0, <2>1 DEF Evolves
<1>5. CASE UNCHANGED vars
  BY <1>0, <1>5 DEF vars, Evolves
<1> QED
  BY <1>1, <1>3, <1>4, <1>5 DEF Next

\* Both facts about the requests in flight are inductive.
LEMMA EpochsStep ==
  ASSUME TypeOK, TypeOK', EpochsOK, [Next]_vars
  PROVE  EpochsOK'
<1> SUFFICES ASSUME NEW r \in Fetches, Pending(r)'
             PROVE  fetch'[r].epoch <= epoch' /\ ~IsFree(r)'
  BY DEF EpochsOK
<1>1. Evolves(r) /\ epoch' >= epoch /\ epoch \in Nat /\ epoch' \in Nat
      /\ fetch[r].epoch \in Nat
  BY StepEvolves DEF TypeOK, Fetch
<1>2. CASE Fresh(r)
  BY <1>1, <1>2 DEF Fresh, IsFree
<1>3. CASE Quiet(r)
  BY <1>3 DEF Quiet, Pending
<1>4. CASE fetch'[r] = fetch[r] \/ Reads(r)
  BY <1>1, <1>4 DEF Reads, EpochsOK, Pending, IsFree
<1> QED
  BY <1>1, <1>2, <1>3, <1>4 DEF Evolves

LEMMA ViewsStep ==
  ASSUME TypeOK, TypeOK', EpochsOK, ViewsOK, [Next]_vars
  PROVE  ViewsOK'
<1> SUFFICES ASSUME NEW r \in Fetches, Pending(r)'
             PROVE  /\ fetch'[r].epoch = epoch' => fetch'[r].view = filter'
                    /\ \A c \in Convs : fetch'[r].got[c] > 0 => c \in Matches[fetch'[r].view]
  BY DEF ViewsOK
<1>1. /\ Evolves(r) /\ epoch' >= epoch /\ (filter' = filter \/ epoch' > epoch)
      /\ epoch \in Nat /\ epoch' \in Nat /\ fetch[r].epoch \in Nat
  BY StepEvolves DEF TypeOK, Fetch
<1>2. CASE Fresh(r)
  BY <1>2 DEF Fresh, Nothing
<1>3. CASE Quiet(r)
  BY <1>3 DEF Quiet, Pending
<1>4. CASE fetch'[r] = fetch[r]
  BY <1>1, <1>4 DEF ViewsOK, EpochsOK, Pending
<1>5. CASE Reads(r)
  <2>1. \A c \in Convs : Merged(r)[c] > 0 => fetch[r].got[c] > 0 \/ c \in Visible(fetch[r].view)
    BY DEF Merged, Page
  <2> QED
    BY <1>5, <2>1 DEF Reads, ViewsOK, Pending, Visible
<1> QED
  BY <1>1, <1>2, <1>3, <1>4, <1>5 DEF Evolves

-----------------------------------------------------------------------------
(* What the server shows is newer than what was deleted *)

\* A step that neither changes the server nor records a new effect.
LEMMA SameActivity ==
  ASSUME TypeOK, ActivityOK, UNCHANGED <<server, clock, notices, buried>>,
         \A d \in Deletions, c \in Convs :
           deletion'[d].effect[c] = deletion[d].effect[c] \/ deletion'[d].effect[c] = 0
  PROVE  ActivityOK'
<1>1. clock \in Nat
  BY BoundsAssumption DEF TypeOK, Ts
<1> QED
  BY <1>1 DEF ActivityOK

LEMMA SettleEffects ==
  ASSUME TypeOK, NEW f \in Fetches, Settle(f), NEW d \in Deletions, NEW c \in Convs
  PROVE  deletion'[d].effect[c] = deletion[d].effect[c] \/ deletion'[d].effect[c] = 0
<1>1. deletion[d] \in Deletion
  BY DEF TypeOK
<1>2. CASE d \in Releasable(f)
  BY <1>2 DEF Settle, FreeDeletion, Nothing
<1>3. CASE d \notin Releasable(f)
  BY <1>1, <1>3 DEF Settle, Deletion
<1> QED
  BY <1>2, <1>3

LEMMA ActivityStep ==
  ASSUME TypeOK, ActivityOK, [Next]_vars
  PROVE  ActivityOK'
<1>0. /\ clock \in Nat /\ \A c \in Convs : /\ server[c] \in Nat /\ notices[c] \in Nat
                                           /\ buried[c] \in Nat
      /\ \A d \in Deletions : deletion[d] \in Deletion
      /\ \A d \in Deletions, c \in Convs : deletion[d].effect[c] \in Nat
  BY BoundsAssumption DEF TypeOK, Ts, Deletion
<1>1. ASSUME NEW f \in Fetches, FetchSteps(f)
      PROVE  ActivityOK'
  <2>1. CASE ServerAnswers(f)
    BY <2>1, SameActivity DEF ServerAnswers, env, dels
  <2>2. CASE ~ServerAnswers(f)
    <3>1. Settle(f)
      BY <1>1, <2>2 DEF FetchSteps, LoadArrives, LoadFails, ReconcileArrives, ReconcileFails,
                        SyncArrives, SyncFails, EndLoad, EndReconcile, EndSync
    <3>2. UNCHANGED env
      BY <1>1, <2>2 DEF FetchSteps, LoadArrives, LoadFails, ReconcileArrives, ReconcileFails,
                        SyncArrives, SyncFails, EndSync
    <3>3. UNCHANGED <<server, clock, notices, buried>>
      BY <3>1, <3>2 DEF Settle, env
    <3> QED
      BY <3>1, <3>3, SettleEffects, SameActivity
  <2> QED
    BY <2>1, <2>2
<1>2. CASE Retry \/ SetFilters \/ RunPaging \/ Refresh \/ RefreshAgain \/ EnsureLoaded
  <2>1. UNCHANGED <<env, dels>>
    BY <1>2 DEF Retry, SetFilters, RetryWith, RunPaging, Refresh, RefreshAgain, EnsureLoaded
  <2> QED
    BY <2>1, SameActivity DEF env, dels
<1>3. ASSUME NEW d \in Deletions, NEW ids \in SUBSET Convs, DeleteConversations(d, ids)
      PROVE  ActivityOK'
  <2>1. \A e \in Deletions : deletion'[e].effect = deletion[e].effect
    BY <1>0, <1>3 DEF DeleteConversations, TypeOK, Deletion
  <2> QED
    BY <1>3, <2>1, SameActivity DEF DeleteConversations, env
<1>4. ASSUME NEW d \in Deletions, NEW i \in Convs, NEW ok \in BOOLEAN, DeleteAnswered(d, i, ok)
      PROVE  ActivityOK'
  <2>1. \A e \in Deletions : deletion'[e].effect = deletion[e].effect
    BY <1>0, <1>4 DEF DeleteAnswered, TypeOK, Deletion
  <2> QED
    BY <1>4, <2>1, SameActivity DEF DeleteAnswered, env
<1>5. ASSUME NEW d \in Deletions, NEW i \in Convs, NEW ok \in BOOLEAN, DeletesSettle(d, i, ok)
      PROVE  ActivityOK'
  <2>1. \A e \in Deletions, c \in Convs :
          deletion'[e].effect[c] = deletion[e].effect[c] \/ deletion'[e].effect[c] = 0
    BY <1>0, <1>5 DEF DeletesSettle, TypeOK, FreeDeletion, Nothing
  <2>2. \A c \in Convs : buried'[c] = buried[c] \/ buried'[c] = deletion[d].effect[c]
    BY <1>5 DEF DeletesSettle, Latest
  <2> QED
    BY <1>0, <1>5, <2>1, <2>2 DEF DeletesSettle, env, ActivityOK
<1>6. ASSUME NEW d \in Deletions, NEW i \in Convs, ConversationDelete(d, i)
      PROVE  ActivityOK'
  <2>1. \A e \in Deletions, c \in Convs :
          deletion'[e].effect[c] = deletion[e].effect[c] \/ deletion'[e].effect[c] = 0
    <3>1. \/ deletion' = deletion
          \/ deletion' = [deletion EXCEPT ![d] =
               [FreeDeletion EXCEPT !.phase = "releasing", !.ids = {i}, !.waits = InFlight]]
      BY <1>6 DEF ConversationDelete
    <3> DEFINE new == [FreeDeletion EXCEPT !.phase = "releasing", !.ids = {i},
                                           !.waits = InFlight]
    <3>2. new.effect = Nothing
      BY DEF FreeDeletion
    <3> HIDE DEF new
    <3>3. \A e \in Deletions : deletion'[e] = deletion[e] \/ deletion'[e] = new
      BY <3>1 DEF TypeOK, new
    <3> QED
      BY <3>2, <3>3 DEF Nothing
  <2>2. \A c \in Convs : /\ buried'[c] = buried[c] \/ buried'[c] = notices[c]
                         /\ notices'[c] = notices[c] \/ notices'[c] = 0
    BY <1>6 DEF ConversationDelete, Latest, TypeOK
  <2>3. server' = server /\ clock' = clock
    BY <1>6 DEF ConversationDelete
  <2>4. ASSUME NEW c \in Convs
        PROVE  /\ server'[c] <= clock'
               /\ server'[c] > 0 => /\ notices'[c] < server'[c] /\ buried'[c] < server'[c]
                                    /\ \A e \in Deletions : deletion'[e].effect[c] < server'[c]
               /\ notices'[c] <= clock' /\ buried'[c] <= clock'
               /\ \A e \in Deletions : deletion'[e].effect[c] <= clock'
    BY <1>0, <2>1, <2>2, <2>3 DEF ActivityOK
  <2> QED
    BY <2>4 DEF ActivityOK
<1>7. ASSUME NEW d \in Deletions, NEW i \in Convs, DeleteTakesEffect(d, i)
      PROVE  ActivityOK'
  <2>1. \A e \in Deletions, c \in Convs :
          deletion'[e].effect[c] = deletion[e].effect[c]
            \/ (c = i /\ deletion'[e].effect[c] = server[i])
    BY <1>0, <1>7 DEF DeleteTakesEffect, TypeOK, Deletion
  <2>2. /\ \A c \in Convs : /\ server'[c] = IF c = i THEN 0 ELSE server[c]
                            /\ notices'[c] = IF c = i THEN server[i] ELSE notices[c]
        /\ clock' = clock /\ buried' = buried
    BY <1>7 DEF DeleteTakesEffect, ServerDeletes, TypeOK
  <2> QED
    BY <1>0, <2>1, <2>2 DEF ActivityOK
<1>8. ASSUME NEW i \in Convs, PeerMessage(i)
      PROVE  ActivityOK'
  <2>1. /\ \A c \in Convs : server'[c] = IF c = i THEN clock + 1 ELSE server[c]
        /\ clock' = clock + 1 /\ notices' = notices /\ UNCHANGED dels
    BY <1>8 DEF PeerMessage, TypeOK
  <2> QED
    BY <1>0, <2>1 DEF ActivityOK, dels
<1>9. ASSUME NEW i \in Convs, OtherDeviceDeletes(i)
      PROVE  ActivityOK'
  <2>1. /\ \A c \in Convs : /\ server'[c] = IF c = i THEN 0 ELSE server[c]
                            /\ notices'[c] = IF c = i THEN server[i] ELSE notices[c]
        /\ clock' = clock /\ UNCHANGED dels
    BY <1>9 DEF OtherDeviceDeletes, ServerDeletes, TypeOK
  <2> QED
    BY <1>0, <2>1 DEF ActivityOK, dels
<1>10. ASSUME NEW i \in Convs, MessageSent(i)
       PROVE  ActivityOK'
  BY <1>10, SameActivity DEF MessageSent, env, dels
<1>11. CASE UNCHANGED vars
  BY <1>11, SameActivity DEF vars, env, dels
<1>12. CASE UserSteps
  BY <1>2, <1>3, <1>12 DEF UserSteps
<1>13. CASE ServerSteps
  BY <1>6, <1>7, <1>8, <1>9, <1>10, <1>13 DEF ServerSteps
<1> QED
  BY <1>1, <1>4, <1>5, <1>11, <1>12, <1>13 DEF Next, AnswerSteps

-----------------------------------------------------------------------------
(* Settled deletes are remembered while requests older than them run *)

\* The deletes that f lets go of are not those that wait for another request.
LEMMA SettleRemembers ==
  ASSUME TypeOK, DelInv, NEW f \in Fetches, Settle(f), NEW r \in Fetches, r # f,
         NEW c \in Convs, Remembered(r, c), fetch'[r].epoch = fetch[r].epoch
  PROVE  Remembered(r, c)'
<1>1. PICK d \in Deletions : /\ deletion[d].phase = "releasing"
                            /\ c \in deletion[d].ids /\ r \in deletion[d].waits
                            /\ fetch[r].epoch <= tomb[c].lastSettledEpoch
  BY DEF Remembered
<1>2. d \notin Releasable(f) /\ d \in Holders(c)
  BY <1>1 DEF Releasable, Holders
<1>3. /\ deletion'[d].phase = "releasing" /\ c \in deletion'[d].ids
      /\ r \in deletion'[d].waits
  <2>1. deletion[d] \in Deletion /\ deletion'[d] = [deletion[d] EXCEPT !.waits = @ \ {f}]
    BY <1>2 DEF Settle, TypeOK
  <2> QED
    BY <1>1, <2>1 DEF Deletion
<1>4. tomb'[c].lastSettledEpoch = tomb[c].lastSettledEpoch
  <2> DEFINE R == {e \in Releasable(f) : c \in deletion[e].ids}
  <2>1. R \subseteq Holders(c) \ {d}
    BY <1>2 DEF Releasable, Holders
  <2>2. IsFiniteSet(R) /\ Cardinality(R) \in Nat /\ Cardinality(R) < Cardinality(Holders(c))
    <3>1. /\ IsFiniteSet(Holders(c) \ {d})
          /\ Cardinality(Holders(c) \ {d}) = Cardinality(Holders(c)) - 1
      BY <1>2, HoldersFinite, FS_RemoveElement
    <3>2. IsFiniteSet(R) /\ Cardinality(R) <= Cardinality(Holders(c) \ {d})
      BY <2>1, <3>1, FS_Subset
    <3> QED
      BY <3>1, <3>2, HoldersFinite, FS_CardinalityType
  <2>3. tomb[c] \in Tombstone /\ tomb[c].refs > Cardinality(R)
    BY <2>2, HoldersFinite DEF DelInv, DelsOK, TombstonesCounted
  <2>4. tomb'[c] = tomb[c] \/ tomb'[c] = Released(tomb[c], Cardinality(R))
    BY DEF Settle
  <2> QED
    BY <2>2, <2>3, <2>4, TombstoneOps
<1> QED
  BY <1>1, <1>3, <1>4 DEF Remembered

\* A settling delete remembers its conversations for every request in flight.
LEMMA DeletesSettleRemembers ==
  ASSUME TypeOK, DelInv, EpochsOK, NEW d \in Deletions, NEW i \in Convs, NEW ok \in BOOLEAN,
         DeletesSettle(d, i, ok), NEW r \in Fetches, Pending(r), NEW c \in Convs,
         Remembered(r, c) \/ buried'[c] # buried[c]
  PROVE  Remembered(r, c)'
<1> DEFINE new == [FreeDeletion EXCEPT !.phase = "releasing", !.ids = deletion[d].ids,
                                       !.waits = InFlight]
<1>1. r \in InFlight /\ fetch'[r].epoch = fetch[r].epoch /\ fetch[r].epoch <= epoch
  BY DEF EpochsOK, InFlight, IsFree, DeletesSettle
<1>2. deletion' = [deletion EXCEPT ![d] = new] /\ deletion[d].phase = "requested"
  BY <1>1 DEF DeletesSettle, Outcome
<1>3. new.phase = "releasing" /\ new.ids = deletion[d].ids /\ new.waits = InFlight
  BY DEF FreeDeletion
<1> HIDE DEF new
<1>4. deletion'[d] = new /\ \A e \in Deletions \ {d} : deletion'[e] = deletion[e]
  BY <1>2 DEF TypeOK
<1>5. CASE c \in deletion[d].ids
  <2>1. tomb'[c] = Settled(tomb[c], epoch)
    BY <1>1, <1>5 DEF DeletesSettle
  <2>2. tomb[c].refs > 0 /\ tomb[c].inFlight > 0 /\ tomb[c] \in Tombstone /\ epoch \in Nat
    <3>1. d \in Holders(c) /\ d \in Requesters(c)
      BY <1>2, <1>5 DEF Holders, Requesters
    <3>2. Cardinality(Requesters(c)) > 0
      BY <3>1, HoldersFinite, FS_EmptySet
    <3> QED
      BY <3>2, HoldersFinite DEF DelInv, DelsOK, TombstonesCounted, TypeOK
  <2>3. tomb'[c].lastSettledEpoch = epoch
    BY <2>1, <2>2, TombstoneOps
  <2> QED
    BY <1>1, <1>3, <1>4, <1>5, <2>3 DEF Remembered
<1>6. CASE c \notin deletion[d].ids
  <2>1. tomb'[c] = tomb[c] /\ buried'[c] = buried[c]
    BY <1>6 DEF DeletesSettle, TypeOK
  <2>2. \A e \in Deletions : deletion[e].phase = "releasing" => deletion'[e] = deletion[e]
    BY <1>2, <1>4
  <2> QED
    BY <1>1, <2>1, <2>2 DEF Remembered
<1> QED
  BY <1>5, <1>6

\* So does a delete the server announces.
LEMMA ConversationDeleteRemembers ==
  ASSUME TypeOK, DelInv, EpochsOK, NEW d \in Deletions, NEW i \in Convs,
         ConversationDelete(d, i), NEW r \in Fetches, Pending(r), NEW c \in Convs,
         Remembered(r, c) \/ buried'[c] # buried[c]
  PROVE  Remembered(r, c)'
<1> DEFINE new == [FreeDeletion EXCEPT !.phase = "releasing", !.ids = {i}, !.waits = InFlight]
           M == Marked(tomb[i])
<1>1. r \in InFlight /\ fetch'[r].epoch = fetch[r].epoch /\ fetch[r].epoch <= epoch
  BY DEF EpochsOK, InFlight, IsFree, ConversationDelete
<1>2. deletion' = [deletion EXCEPT ![d] = new] /\ deletion[d].phase = "free"
      /\ tomb' = [tomb EXCEPT ![i] = Settled(M, epoch)]
  BY <1>1 DEF ConversationDelete
<1>3. new.phase = "releasing" /\ new.ids = {i} /\ new.waits = InFlight
  BY DEF FreeDeletion
<1> HIDE DEF new
<1>4. deletion'[d] = new /\ \A e \in Deletions \ {d} : deletion'[e] = deletion[e]
  BY <1>2 DEF TypeOK
<1>5. CASE c = i
  <2>1. tomb[i] \in Tombstone /\ epoch \in Nat /\ tomb'[i] = Settled(M, epoch)
    BY <1>2 DEF TypeOK
  <2>2. M \in Tombstone /\ M.refs > 0 /\ M.inFlight > 0
    <3>1. M \in Tombstone /\ M.refs = tomb[i].refs + 1 /\ M.inFlight = tomb[i].inFlight + 1
      BY <2>1, TombstoneOps
    <3>2. tomb[i].refs \in Nat /\ tomb[i].inFlight \in Nat
      BY <2>1 DEF Tombstone
    <3> HIDE DEF M
    <3> QED
      BY <3>1, <3>2
  <2> HIDE DEF M
  <2>3. tomb'[i].lastSettledEpoch = epoch
    BY <2>1, <2>2, TombstoneOps
  <2> QED
    BY <1>1, <1>3, <1>4, <1>5, <2>3 DEF Remembered
<1>6. CASE c # i
  <2>1. tomb'[c] = tomb[c] /\ buried'[c] = buried[c]
    BY <1>2, <1>6 DEF ConversationDelete, TypeOK
  <2>2. \A e \in Deletions : deletion[e].phase = "releasing" => deletion'[e] = deletion[e]
    BY <1>2, <1>4
  <2> QED
    BY <1>1, <2>1, <2>2 DEF Remembered
<1> QED
  BY <1>5, <1>6

\* The other deletes leave what is remembered alone.
LEMMA QuietDeleteRemembers ==
  ASSUME TypeOK, NEW d \in Deletions, NEW r \in Fetches, NEW c \in Convs, Remembered(r, c),
         \/ \E ids \in SUBSET Convs : DeleteConversations(d, ids)
         \/ \E i \in Convs : DeleteTakesEffect(d, i)
         \/ \E i \in Convs, ok \in BOOLEAN : DeleteAnswered(d, i, ok)
  PROVE  Remembered(r, c)'
<1>1. ASSUME NEW ids \in SUBSET Convs, DeleteConversations(d, ids)
      PROVE  Remembered(r, c)'
  <2>1. tomb[c] \in Tombstone /\ Marked(tomb[c]).lastSettledEpoch = tomb[c].lastSettledEpoch
    BY TombstoneOps DEF TypeOK
  <2>2. tomb'[c].lastSettledEpoch = tomb[c].lastSettledEpoch
    BY <1>1, <2>1 DEF DeleteConversations
  <2>3. deletion[d].phase = "free" /\ \A e \in Deletions \ {d} : deletion'[e] = deletion[e]
    BY <1>1 DEF DeleteConversations, TypeOK
  <2> QED
    BY <1>1, <2>2, <2>3 DEF DeleteConversations, Remembered
<1>2. ASSUME NEW i \in Convs, DeleteTakesEffect(d, i)
      PROVE  Remembered(r, c)'
  <2>1. deletion[d].phase = "requested" /\ \A e \in Deletions \ {d} : deletion'[e] = deletion[e]
    BY <1>2 DEF DeleteTakesEffect, TypeOK
  <2> QED
    BY <1>2, <2>1 DEF DeleteTakesEffect, Remembered
<1>3. ASSUME NEW i \in Convs, NEW ok \in BOOLEAN, DeleteAnswered(d, i, ok)
      PROVE  Remembered(r, c)'
  <2>1. deletion[d].phase = "requested" /\ \A e \in Deletions \ {d} : deletion'[e] = deletion[e]
    BY <1>3 DEF DeleteAnswered, Outcome, TypeOK
  <2> QED
    BY <1>3, <2>1 DEF DeleteAnswered, Remembered
<1> QED
  BY <1>1, <1>2, <1>3

LEMMA LateAnswersStep ==
  ASSUME TypeOK, TypeOK', DelInv, EpochsOK, ActivityOK, LateAnswersRemembered, [Next]_vars
  PROVE  LateAnswersRemembered'
<1> SUFFICES ASSUME NEW r \in Fetches, NEW c \in Convs,
                    Pending(r)', fetch'[r].got[c] > 0, fetch'[r].got[c] <= buried'[c]
             PROVE  Remembered(r, c)'
  BY DEF LateAnswersRemembered
<1>0. ~Fresh(r) /\ ~Quiet(r)
  BY DEF Fresh, Quiet, Nothing, Pending
<1>1. CASE Reads(r)
  <2>1. buried'[c] = buried[c] /\ fetch'[r].epoch = fetch[r].epoch /\ Pending(r)
        /\ UNCHANGED <<deletion, tomb>>
    BY <1>1 DEF Reads, dels, Pending
  <2>2. fetch[r].got[c] > 0 /\ fetch[r].got[c] = fetch'[r].got[c]
    <3>1. Merged(r)[c] = fetch[r].got[c] \/ Merged(r)[c] = server[c]
          \/ Merged(r)[c] = 0
      BY DEF Merged, Page
    <3>2. fetch[r].got[c] > 0 => Merged(r)[c] = fetch[r].got[c]
      BY DEF Merged
    <3>3. Merged(r)[c] > 0 /\ Merged(r)[c] <= buried[c]
      BY <1>1, <2>1 DEF Reads
    <3>4. fetch[r].got[c] \in Nat /\ server[c] \in Nat /\ buried[c] \in Nat
      BY BoundsAssumption DEF TypeOK, Fetch, Ts
    <3>5. Merged(r)[c] # server[c]
      BY <3>3, <3>4 DEF ActivityOK
    <3>6. fetch[r].got[c] > 0
      BY <3>1, <3>3, <3>4, <3>5
    <3> QED
      BY <1>1, <3>2, <3>6 DEF Reads
  <2>3. Remembered(r, c)
    BY <2>1, <2>2 DEF LateAnswersRemembered
  <2> QED
    BY <2>1, <2>3 DEF Remembered
<1>2. CASE fetch'[r] = fetch[r]
  <2>1. Pending(r) /\ fetch[r].got[c] > 0
    BY <1>2 DEF Pending
  <2>2. Remembered(r, c) \/ buried'[c] # buried[c]
    BY <1>2, <2>1 DEF LateAnswersRemembered
  <2>3. ASSUME NEW d \in Deletions, NEW i \in Convs, NEW ok \in BOOLEAN,
               DeletesSettle(d, i, ok) \/ ConversationDelete(d, i)
        PROVE  Remembered(r, c)'
    BY <2>1, <2>2, <2>3, DeletesSettleRemembers, ConversationDeleteRemembers
  <2>4. ASSUME UNCHANGED dels
        PROVE  Remembered(r, c)'
    BY <1>2, <2>2, <2>4 DEF dels, Remembered
  <2>5. ASSUME NEW f \in Fetches, FetchSteps(f), Settle(f), Fresh(f) \/ Quiet(f)
        PROVE  Remembered(r, c)'
    <3>1. r # f
      BY <1>0, <2>5
    <3>2. Remembered(r, c)
      BY <2>2, <2>5 DEF Settle
    <3> QED
      BY <1>2, <2>5, <3>1, <3>2, SettleRemembers
  <2>6. ASSUME NEW f \in Fetches, FetchSteps(f)
        PROVE  Remembered(r, c)'
    <3>1. CASE ServerAnswers(f)
      BY <2>4, <3>1 DEF ServerAnswers
    <3>2. CASE LoadArrives(f) \/ LoadFails(f)
      <4>1. EndLoad(f) /\ filter' = filter
        BY <3>2 DEF LoadArrives, LoadFails
      <4> QED
        BY <2>5, <2>6, <4>1, EndLoadEvolves DEF EndLoad
    <3>3. CASE ReconcileArrives(f) \/ ReconcileFails(f)
      <4>1. EndReconcile(f) /\ filter' = filter
        BY <3>3 DEF ReconcileArrives, ReconcileFails
      <4> QED
        BY <2>5, <2>6, <4>1, EndReconcileEvolves DEF EndReconcile
    <3>4. CASE SyncArrives(f) \/ SyncFails(f)
      <4>1. EndSync(f)
        BY <3>4 DEF SyncArrives, SyncFails
      <4>2. Quiet(f)
        BY <4>1, ReconcileFields DEF EndSync, Quiet, TypeOK
      <4> QED
        BY <2>5, <2>6, <4>1, <4>2 DEF EndSync
    <3> QED
      BY <2>6, <3>1, <3>2, <3>3, <3>4 DEF FetchSteps
  <2>7. ASSUME NEW d \in Deletions,
               \/ \E ids \in SUBSET Convs : DeleteConversations(d, ids)
               \/ \E i \in Convs : DeleteTakesEffect(d, i)
               \/ \E i \in Convs, ok \in BOOLEAN : DeleteAnswered(d, i, ok)
        PROVE  Remembered(r, c)'
    <3>1. UNCHANGED buried
      BY <2>7 DEF DeleteConversations, DeleteTakesEffect, DeleteAnswered
    <3> QED
      BY <2>2, <2>7, <3>1, QuietDeleteRemembers
  <2>8. CASE UserSteps
    <3>1. CASE Retry \/ SetFilters \/ RunPaging \/ Refresh \/ RefreshAgain \/ EnsureLoaded
      BY <2>4, <3>1 DEF Retry, SetFilters, RetryWith, RunPaging, Refresh, RefreshAgain,
                        EnsureLoaded
    <3> QED
      BY <2>7, <2>8, <3>1 DEF UserSteps
  <2>9. CASE ServerSteps
    <3>1. ASSUME NEW i \in Convs, PeerMessage(i) \/ OtherDeviceDeletes(i) \/ MessageSent(i)
          PROVE  Remembered(r, c)'
      BY <2>4, <3>1 DEF PeerMessage, OtherDeviceDeletes, MessageSent
    <3>2. TRUE \in BOOLEAN
      OBVIOUS
    <3> QED
      BY <2>3, <2>7, <2>9, <3>1, <3>2 DEF ServerSteps
  <2>10. CASE \E d \in Deletions : AnswerSteps(d)
    BY <2>3, <2>7, <2>10 DEF AnswerSteps
  <2>11. CASE UNCHANGED vars
    BY <2>4, <2>11 DEF vars
  <2> QED
    BY <2>6, <2>8, <2>9, <2>10, <2>11 DEF Next
<1> QED
  BY <1>0, <1>1, <1>2, StepEvolves DEF Evolves

-----------------------------------------------------------------------------
(* The theorems *)

IInv == /\ TypeOK /\ DelInv
        /\ EpochsOK /\ ViewsOK /\ ActivityOK /\ LateAnswersRemembered

LEMMA InitIInv == Init => IInv
<1> SUFFICES ASSUME Init
             PROVE  IInv
  OBVIOUS
<1>1. TypeOK /\ DelInv
  BY InitInv
<1>2. \A f \in Fetches : Pending(f) =>
        fetch[f].epoch = 1 /\ fetch[f].got = Nothing /\ fetch[f].view = filter /\ ~IsFree(f)
  <2>1. ASSUME NEW f \in Fetches, f # initial
        PROVE  fetch[f].state = "idle"
    BY <2>1 DEF Init, Request
  <2>2. fetch[initial] = Request("hard", 1, filter, 1, Nothing) /\ initial \in Fetches
    BY DEF Init
  <2> QED
    BY <2>1, <2>2, RequestFields DEF Pending, IsFree
<1>3. EpochsOK /\ ViewsOK
  BY <1>2 DEF Init, EpochsOK, ViewsOK, Nothing
<1>4. LateAnswersRemembered
  BY <1>2 DEF LateAnswersRemembered, Nothing
<1>5. ActivityOK
  <2>1. clock \in Nat
    BY <1>1, BoundsAssumption DEF TypeOK, Ts
  <2>2. \A c \in Convs : /\ server[c] <= clock /\ notices[c] = 0 /\ buried[c] = 0
                         /\ \A d \in Deletions : deletion[d].effect[c] = 0
    BY DEF Init, Nothing, FreeDeletion
  <2> QED
    BY <2>1, <2>2 DEF ActivityOK
<1> QED
  BY <1>1, <1>3, <1>4, <1>5 DEF IInv

LEMMA IInvStep == IInv /\ [Next]_vars => IInv'
<1> SUFFICES ASSUME IInv, [Next]_vars
             PROVE  IInv'
  OBVIOUS
<1>1. TypeOK' /\ DelInv'
  BY InvStep DEF IInv
<1> QED
  BY <1>1, EpochsStep, ViewsStep, ActivityStep, LateAnswersStep DEF IInv

LEMMA Invariance == Spec => []IInv
BY InitIInv, IInvStep, PTL DEF Spec

LEMMA RememberedBlocks == IInv => LateAnswersBlocked
<1> SUFFICES ASSUME IInv, NEW f \in Fetches, NEW c \in Convs, Pending(f),
                    fetch[f].got[c] > 0, fetch[f].got[c] <= buried[c]
             PROVE  Blocked(c, f)
  BY DEF LateAnswersBlocked, Pending
<1>1. PICK d \in Deletions : /\ deletion[d].phase = "releasing" /\ c \in deletion[d].ids
                            /\ fetch[f].epoch <= tomb[c].lastSettledEpoch
  BY DEF IInv, LateAnswersRemembered, Remembered
<1>2. d \in Holders(c)
  BY <1>1 DEF Holders
<1>3. Cardinality(Holders(c)) > 0
  BY <1>2, HoldersFinite, FS_EmptySet
<1> QED
  BY <1>1, <1>3 DEF IInv, DelInv, TombstonesCounted, Blocked, Blocks

(***************************************************************************)
(* As long as an answer that shows a deleted conversation may arrive, its  *)
(* tombstone is there and blocks it: PendingDeletes.blocks is never asked  *)
(* too late (pending-deletes.ts:37-49, fetch-epochs.ts:23-25).             *)
(***************************************************************************)
THEOREM LateAnswersAreBlocked == Spec => []LateAnswersBlocked
BY Invariance, RememberedBlocks, PTL

\* Where rows appear: in an answer that arrives unblocked, or a rollback.
LEMMA AppearingRow ==
  ASSUME TypeOK, [Next]_vars, NEW c \in Convs, rows[c] = 0, rows'[c] > 0
  PROVE  \/ PutBack(c)
         \/ \E f \in Fetches : /\ Pending(f) /\ ~IsStale(f) /\ fetch[f].got[c] > 0
                                /\ ~Blocked(c, f) /\ ts'[c] = fetch[f].got[c]
                                /\ buried' = buried /\ filter' = filter
<1>0. rows'[c] # rows[c]
  OBVIOUS
<1>1. ASSUME NEW f \in Fetches, LoadArrives(f)
      PROVE  /\ Pending(f) /\ ~IsStale(f) /\ fetch[f].got[c] > 0
             /\ ~Blocked(c, f) /\ ts'[c] = fetch[f].got[c]
             /\ buried' = buried /\ filter' = filter
  BY <1>0, <1>1 DEF LoadArrives, EndLoad, Pushed, Settle, Pending, list
<1>2. ASSUME NEW f \in Fetches, ReconcileArrives(f)
      PROVE  /\ Pending(f) /\ ~IsStale(f) /\ fetch[f].got[c] > 0
             /\ ~Blocked(c, f) /\ ts'[c] = fetch[f].got[c]
             /\ buried' = buried /\ filter' = filter
  BY <1>0, <1>2 DEF ReconcileArrives, EndReconcile, Pushed, Settle, Pending, list
<1>3. ASSUME NEW f \in Fetches, SyncArrives(f)
      PROVE  /\ Pending(f) /\ ~IsStale(f) /\ fetch[f].got[c] > 0
             /\ ~Blocked(c, f) /\ ts'[c] = fetch[f].got[c]
             /\ buried' = buried /\ filter' = filter
  BY <1>0, <1>3 DEF SyncArrives, EndSync, Pushed, Settle, Pending
<1>4. ASSUME NEW f \in Fetches, ServerAnswers(f) \/ LoadFails(f) \/ ReconcileFails(f) \/ SyncFails(f)
      PROVE  FALSE
  BY <1>0, <1>4 DEF ServerAnswers, LoadFails, ReconcileFails, SyncFails, list
<1>5. ASSUME NEW d \in Deletions, NEW i \in Convs, NEW ok \in BOOLEAN, DeletesSettle(d, i, ok)
      PROVE  PutBack(c)
  <2>1. deletion[d].phase = "requested" /\ ts'[c] = deletion[d].removed[c]
    BY <1>0, <1>5 DEF DeletesSettle, Outcome, Restorable
  <2>2. deletion'[d].phase # "requested"
    <3>1. deletion'[d] = IF InFlight = {} THEN FreeDeletion
                         ELSE [FreeDeletion EXCEPT !.phase = "releasing",
                                 !.ids = deletion[d].ids, !.waits = InFlight]
      BY <1>5 DEF DeletesSettle, TypeOK
    <3> QED
      BY <3>1 DEF FreeDeletion
  <2> QED
    BY <2>1, <2>2 DEF PutBack
<1>6. ASSUME NEW d \in Deletions, NEW i \in Convs,
             \/ \E ids \in SUBSET Convs : DeleteConversations(d, ids)
             \/ DeleteTakesEffect(d, i) \/ ConversationDelete(d, i)
             \/ \E ok \in BOOLEAN : DeleteAnswered(d, i, ok)
      PROVE  FALSE
  <2>1. CASE \E ids \in SUBSET Convs : DeleteConversations(d, ids)
    <3>1. PICK ids \in SUBSET Convs : DeleteConversations(d, ids)
      BY <2>1
    <3>2. c \notin ids
      BY <3>1 DEF DeleteConversations
    <3> QED
      BY <1>0, <3>1, <3>2 DEF DeleteConversations
  <2>2. CASE ConversationDelete(d, i)
    BY <1>0, <2>2 DEF ConversationDelete, Removed, TypeOK
  <2>3. CASE DeleteTakesEffect(d, i) \/ \E ok \in BOOLEAN : DeleteAnswered(d, i, ok)
    BY <1>0, <2>3 DEF DeleteTakesEffect, DeleteAnswered, list
  <2> QED
    BY <1>6, <2>1, <2>2, <2>3
<1>7. ASSUME \/ Retry \/ SetFilters \/ RunPaging \/ Refresh \/ RefreshAgain \/ EnsureLoaded
             \/ \E i \in Convs : PeerMessage(i) \/ OtherDeviceDeletes(i) \/ MessageSent(i)
             \/ UNCHANGED vars
      PROVE  FALSE
  BY <1>0, <1>7 DEF Retry, SetFilters, RetryWith, Nothing, RunPaging, Refresh, RefreshAgain,
                    EnsureLoaded, PeerMessage, OtherDeviceDeletes, MessageSent, vars, list
<1> QED
  BY <1>1, <1>2, <1>3, <1>4, <1>5, <1>6, <1>7
     DEF Next, FetchSteps, AnswerSteps, UserSteps, ServerSteps

(***************************************************************************)
(* A deleted conversation is not brought back by an answer older than the  *)
(* delete: a row appears only with later activity or as the rollback of a  *)
(* failed delete (conversations-state.svelte.ts:222-262, 302-346).         *)
(***************************************************************************)
THEOREM DeletedStayDeleted == Spec => NoResurrection
<1>1. IInv /\ [Next]_vars =>
        [\A c \in Convs : rows[c] = 0 /\ rows'[c] > 0
           => ts'[c] > buried[c] \/ PutBack(c)]_vars
  <2> SUFFICES ASSUME IInv, [Next]_vars, NEW c \in Convs, rows[c] = 0, rows'[c] > 0,
                      ~PutBack(c)
               PROVE  ts'[c] > buried[c]
    OBVIOUS
  <2>1. PICK f \in Fetches : /\ Pending(f) /\ fetch[f].got[c] > 0 /\ ~Blocked(c, f)
                            /\ ts'[c] = fetch[f].got[c]
    BY AppearingRow DEF IInv
  <2>2. ~(fetch[f].got[c] <= buried[c])
    BY <2>1, RememberedBlocks DEF LateAnswersBlocked, Pending
  <2>3. fetch[f].got[c] \in Nat /\ buried[c] \in Nat
    BY BoundsAssumption DEF IInv, TypeOK, Fetch, Ts
  <2> QED
    BY <2>1, <2>2, <2>3
<1> QED
  BY <1>1, Invariance, PTL DEF Spec, NoResurrection

(***************************************************************************)
(* A row that appears matches the filter now chosen: an answer to the      *)
(* filter before is stale (conversations-state.svelte.ts:145-147, 326-346).*)
(***************************************************************************)
THEOREM AnswersMatchFilter == Spec => NoForeignRows
<1>1. IInv /\ [Next]_vars =>
        [\A c \in Convs : rows[c] = 0 /\ rows'[c] > 0
           => c \in Matches[filter'] \/ PutBack(c)]_vars
  <2> SUFFICES ASSUME IInv, [Next]_vars, NEW c \in Convs, rows[c] = 0, rows'[c] > 0,
                      ~PutBack(c)
               PROVE  c \in Matches[filter']
    OBVIOUS
  <2>1. PICK f \in Fetches : /\ Pending(f) /\ ~IsStale(f) /\ fetch[f].got[c] > 0
                            /\ filter' = filter
    BY AppearingRow DEF IInv
  <2> QED
    BY <2>1 DEF IInv, ViewsOK, IsStale
<1> QED
  BY <1>1, Invariance, PTL DEF Spec, NoForeignRows

-----------------------------------------------------------------------------
(***************************************************************************)
(* The cursor never passes a conversation that is not shown.  Two facts    *)
(* carry it: only one request of the current epoch sets the cursor, and    *)
(* while the server's list stands still every answer is an exact part of   *)
(* it (AnswersOK), so what the new cursor passes was in the answer, on the *)
(* pages before it, or kept out by a tombstone whose delete is either on   *)
(* the wire or failed and was put back (SettledShown).                     *)
(***************************************************************************)

Claims(f) == Pending(f) /\ (IsLoad(f) \/ IsReconcile(f))

\* One reconcile at a time, and only reconciles wait for a load.
OneRefresh ==
  /\ \A f \in Fetches : IsReconcile(f) => refreshing
  /\ \A f, g \in Fetches : IsReconcile(f) /\ IsReconcile(g) => f = g
  /\ \A f \in Waiting : IsReconcile(f)

\* One request of the current epoch that may set the cursor.
OneCurrent ==
  \A f, g \in Fetches : Claims(f) /\ Claims(g) /\ ~IsStale(f) /\ ~IsStale(g) => f = g

\* A page that is not stale is the page the cursor names.
CursorOK ==
  /\ nextPage > 0 => placed
  /\ \A f \in Fetches : Pending(f) =>
       /\ fetch[f].page > 0
       /\ fetch[f].kind = "page" /\ ~IsStale(f) => fetch[f].page = nextPage

ClocksOK == /\ clock >= Cardinality(Convs)
            /\ \A c \in Convs : tomb[c].lastSettledEpoch <= epoch

\* Rows and batches show the server's own activity, and no delete has had an effect.
RowsOfServer ==
  /\ \A c \in Convs : rows[c] > 0 => server[c] > 0 /\ ts[c] = server[c]
  /\ \A d \in Deletions, c \in Convs :
       /\ deletion[d].removed[c] > 0 => deletion[d].removed[c] = server[c]
       /\ deletion[d].effect[c] = 0
       /\ deletion[d].phase = "requested" /\ c \in deletion[d].ids
            => deletion[d].removed[c] > 0
       /\ c \in deletion[d].answered => c \in deletion[d].failed

\* How far into the server's list the answer of f reaches, and where it starts.
From(f) == IF fetch[f].kind = "page" THEN (fetch[f].page - 1) * PageSize ELSE 0
UpTo(f) == IF fetch[f].state = "asked" THEN (fetch[f].page - 1) * PageSize
                                       ELSE fetch[f].page * PageSize
ReadBy(f) == [c \in Convs |->
                IF /\ c \in Visible(fetch[f].view)
                   /\ From(f) < Position(fetch[f].view, c)
                   /\ Position(fetch[f].view, c) <= UpTo(f)
                THEN server[c] ELSE 0]
AnswersOK ==
  \A f \in Fetches : Pending(f) =>
    /\ fetch[f].got = ReadBy(f)
    /\ fetch[f].state = "answered"
         => fetch[f].next = NextAfter(fetch[f].view, fetch[f].page)

\* What a settled tombstone keeps out of an answer that is not stale is shown.
SettledShown ==
  \A c \in Visible(filter) :
    tomb[c].refs > 0 /\ tomb[c].inFlight = 0 /\ tomb[c].lastSettledEpoch >= epoch
      => rows[c] > 0

StillOK == ServerStandsStill => RowsOfServer /\ AnswersOK /\ SettledShown
GapInv == OneRefresh /\ OneCurrent /\ CursorOK /\ ClocksOK /\ StillOK /\ NoGap

LEMMA Positions ==
  ASSUME TypeOK, NEW view \in Filters, NEW c \in Visible(view)
  PROVE  /\ Position(view, c) \in Nat \ {0}
         /\ Cardinality(Visible(view)) \in Nat
         /\ Position(view, c) <= Cardinality(Visible(view))
         /\ \A d \in Visible(view) :
              server[c] >= server[d] => Position(view, c) <= Position(view, d)
<1> DEFINE Above(d) == {e \in Visible(view) : server[e] >= server[d]}
<1>1. IsFiniteSet(Visible(view)) /\ Visible(view) \subseteq Convs
  <2>1. Visible(view) \subseteq Convs
    BY FiltersAssumption DEF Visible
  <2> QED
    BY <2>1, ConvsAssumption, FS_Subset
<1>2. ASSUME NEW d \in Visible(view)
      PROVE  IsFiniteSet(Above(d)) /\ Cardinality(Above(d)) <= Cardinality(Visible(view))
  BY <1>1, FS_Subset
<1>3. \A d \in Convs : server[d] \in Nat
  BY BoundsAssumption DEF TypeOK, Ts
<1>4. c \in Above(c)
  BY <1>1, <1>3
<1>5. Cardinality(Above(c)) \in Nat /\ Cardinality(Above(c)) # 0
  BY <1>2, <1>4, FS_CardinalityType, FS_EmptySet
<1>6. ASSUME NEW d \in Visible(view), server[c] >= server[d]
      PROVE  Cardinality(Above(c)) <= Cardinality(Above(d))
  <2>1. Above(c) \subseteq Above(d)
    BY <1>1, <1>3, <1>6
  <2> QED
    BY <1>2, <2>1, FS_Subset
<1> QED
  BY <1>1, <1>2, <1>5, <1>6, FS_CardinalityType DEF Position

LEMMA PageEnds ==
  ASSUME NEW p \in Nat \ {0}
  PROVE  /\ (p - 1) * PageSize \in Nat /\ p * PageSize \in Nat
         /\ (p - 1) * PageSize <= p * PageSize
         /\ ((p + 1) - 1) * PageSize = p * PageSize
         /\ (1 - 1) * PageSize = 0
<1>1. PageSize \in Nat /\ p - 1 \in Nat
  BY PagesAssumption
<1>2. p * PageSize = (p - 1) * PageSize + PageSize
  BY <1>1
<1>3. (p - 1) * PageSize \in Nat
  BY <1>1
<1>4. (p + 1) - 1 = p /\ 1 - 1 = 0
  OBVIOUS
<1> QED
  BY <1>1, <1>2, <1>3, <1>4

\* Settling a request leaves the deletes on the wire alone.
LEMMA SettleRequesters ==
  ASSUME TypeOK, NEW f \in Fetches, Settle(f), NEW c \in Convs
  PROVE  /\ Requesters(c)' = Requesters(c)
         /\ \/ tomb'[c] = NoTombstone
            \/ /\ tomb[c].refs >= tomb'[c].refs /\ tomb'[c].inFlight = tomb[c].inFlight
               /\ tomb'[c].lastSettledEpoch = tomb[c].lastSettledEpoch
         /\ buried' = buried
         /\ \A d \in Deletions : \/ deletion'[d] = FreeDeletion
                                 \/ \E W : deletion'[d] = [deletion[d] EXCEPT !.waits = W]
<1>1. \A d \in Deletions : \/ d \in Releasable(f) /\ deletion'[d] = FreeDeletion
                           \/ /\ d \notin Releasable(f)
                              /\ deletion'[d] = [deletion[d] EXCEPT !.waits = @ \ {f}]
  BY DEF Settle
<1>2. \A d \in Deletions : deletion[d] \in Deletion
  BY DEF TypeOK
<1>3. FreeDeletion.phase = "free"
  BY DEF FreeDeletion
<1>4. \A d \in Deletions : d \in Releasable(f) => deletion[d].phase = "releasing"
  BY DEF Releasable
<1>5. Requesters(c)' = Requesters(c)
  <2>1. ASSUME NEW d \in Deletions
        PROVE  /\ deletion'[d].phase = "requested" <=> deletion[d].phase = "requested"
               /\ deletion'[d].phase = "requested" => deletion'[d].ids = deletion[d].ids
    <3>1. CASE d \in Releasable(f)
      BY <3>1, <1>1, <1>3, <1>4
    <3>2. CASE d \notin Releasable(f)
      BY <3>2, <1>1, <1>2 DEF Deletion
    <3> QED
      BY <3>1, <3>2
  <2> QED
    BY <2>1 DEF Requesters, Holders
<1>6. \/ tomb'[c] = NoTombstone
      \/ /\ tomb[c].refs >= tomb'[c].refs /\ tomb'[c].inFlight = tomb[c].inFlight
         /\ tomb'[c].lastSettledEpoch = tomb[c].lastSettledEpoch
  <2> DEFINE R == {d \in Releasable(f) : c \in deletion[d].ids}
  <2>1. tomb'[c] = IF R = {} THEN tomb[c] ELSE Released(tomb[c], Cardinality(R))
    BY DEF Settle
  <2>2. IsFiniteSet(R) /\ Cardinality(R) \in Nat /\ tomb[c] \in Tombstone
    <3>1. R \subseteq Deletions
      BY DEF Releasable
    <3> QED
      BY <3>1, ConvsAssumption, FS_Subset, FS_CardinalityType DEF TypeOK
  <2> HIDE DEF R
  <2> QED
    BY <2>1, <2>2 DEF Released, Tombstone
<1> QED
  BY <1>1, <1>5, <1>6 DEF Settle

\* A tombstone counts requests in flight exactly while a delete is on the wire.
LEMMA RequestersCounted ==
  ASSUME DelInv, NEW c \in Convs
  PROVE  tomb[c].inFlight > 0 <=> Requesters(c) # {}
BY HoldersFinite, FS_EmptySet DEF DelInv, TombstonesCounted

LEMMA RefreshFields ==
  /\ WaitingReconcile.kind = "reconcile"
  /\ ClaimedReconcile.kind = "reconcile"
  /\ \A f \in Fetches : FreeFetch(f).kind = "free" /\ FreeFetch(f).state = "idle"
BY DEF WaitingReconcile, ClaimedReconcile, FreeFetch, Request

\* No request becomes a reconcile.
LEMMA SameReconciles ==
  ASSUME OneRefresh, refreshing' = refreshing,
         \A r \in Fetches : /\ IsReconcile(r)' => IsReconcile(r)
                            /\ fetch'[r].state = "waiting" => IsReconcile(r)'
  PROVE  OneRefresh'
BY DEF OneRefresh, Waiting

\* One request starts, of a kind that is not a reconcile.
LEMMA StartsOther ==
  ASSUME TypeOK, OneRefresh, refreshing' = refreshing, NEW f \in Fetches, NEW new,
         fetch' = [fetch EXCEPT ![f] = new],
         new.kind # "reconcile", new.state # "waiting"
  PROVE  OneRefresh'
<1>1. \A r \in Fetches : fetch'[r] = IF r = f THEN new ELSE fetch[r]
  BY DEF TypeOK
<1> QED
  BY <1>1, SameReconciles DEF OneRefresh, Waiting, IsReconcile

LEMMA StartsRequest ==
  ASSUME TypeOK, OneRefresh, refreshing' = refreshing, NEW f \in Fetches,
         NEW k, NEW e, NEW view, NEW page, NEW loaded, k # "reconcile",
         fetch' = [fetch EXCEPT ![f] = Request(k, e, view, page, loaded)]
  PROVE  OneRefresh'
<1>1. /\ Request(k, e, view, page, loaded).kind # "reconcile"
      /\ Request(k, e, view, page, loaded).state # "waiting"
  BY RequestFields
<1> QED
  BY <1>1, StartsOther

\* The only reconcile is, or becomes, the one of f.
LEMMA BeginsReconcile ==
  ASSUME TypeOK, OneRefresh, NEW f \in Fetches, BeginReconcile(f),
         \A r \in Fetches : IsReconcile(r) => r = f
  PROVE  OneRefresh'
<1>1. /\ refreshing' = TRUE
      /\ \A r \in Fetches \ {f} : fetch'[r] = fetch[r]
      /\ fetch'[f].kind = "reconcile"
  BY RefreshFields DEF BeginReconcile, TypeOK
<1> QED
  BY <1>1 DEF OneRefresh, Waiting, IsReconcile

LEMMA EndReconcileRefresh ==
  ASSUME TypeOK, OneRefresh, NEW f \in Fetches, IsReconcile(f), EndReconcile(f)
  PROVE  OneRefresh'
<1>1. \A r \in Fetches : IsReconcile(r) => r = f
  BY DEF OneRefresh
<1>2. CASE BeginReconcile(f)
  BY <1>1, <1>2, BeginsReconcile
<1>3. CASE ~BeginReconcile(f)
  <2>1. fetch' = [fetch EXCEPT ![f] = FreeFetch(f)]
    BY <1>3 DEF EndReconcile
  <2>2. \A r \in Fetches : ~IsReconcile(r)' /\ fetch'[r].state # "waiting"
    BY <1>1, <2>1, RefreshFields DEF TypeOK, OneRefresh, Waiting, IsReconcile
  <2> QED
    BY <2>2 DEF OneRefresh, Waiting
<1> QED
  BY <1>2, <1>3

LEMMA EndLoadRefresh ==
  ASSUME TypeOK, OneRefresh, refreshing' = refreshing, NEW f \in Fetches, EndLoad(f)
  PROVE  OneRefresh'
<1>1. ASSUME NEW r \in Fetches
      PROVE  /\ IsReconcile(r)' => IsReconcile(r)
             /\ fetch'[r].state = "waiting" => IsReconcile(r)'
  <2>1. fetch'[r] = IF r = f THEN FreeFetch(f)
                    ELSE IF r \in Woken(f) THEN ClaimedReconcile ELSE fetch[r]
    BY DEF EndLoad
  <2>2. r \in Woken(f) => IsReconcile(r)
    BY DEF Woken, OneRefresh
  <2> QED
    BY <2>1, <2>2, RefreshFields DEF OneRefresh, Waiting, IsReconcile
<1> QED
  BY <1>1, SameReconciles

LEMMA OneRefreshStep ==
  ASSUME TypeOK, OneRefresh, [Next]_vars
  PROVE  OneRefresh'
<1>1. ASSUME NEW f \in Fetches, FetchSteps(f)
      PROVE  OneRefresh'
  <2>1. CASE ServerAnswers(f)
    <3>1. \A r \in Fetches : /\ IsReconcile(r)' => IsReconcile(r)
                             /\ fetch'[r].state = "waiting" => IsReconcile(r)'
      BY <2>1 DEF ServerAnswers, IsReconcile, TypeOK, Fetch, OneRefresh, Waiting
    <3> QED
      BY <2>1, <3>1, SameReconciles DEF ServerAnswers
  <2>2. CASE LoadArrives(f) \/ LoadFails(f)
    BY <2>2, EndLoadRefresh DEF LoadArrives, LoadFails
  <2>3. CASE ReconcileArrives(f) \/ ReconcileFails(f)
    BY <2>3, EndReconcileRefresh DEF ReconcileArrives, ReconcileFails
  <2>4. CASE SyncArrives(f) \/ SyncFails(f)
    <3>1. EndSync(f)
      BY <2>4 DEF SyncArrives, SyncFails
    <3> QED
      BY <3>1, RefreshFields, StartsOther DEF EndSync
  <2> QED
    BY <1>1, <2>1, <2>2, <2>3, <2>4 DEF FetchSteps
<1>2. ASSUME NEW view \in Filters, RetryWith(view)
      PROVE  OneRefresh'
  <2>1. PICK f \in Fetches : BeginHardLoad(f, view)
    BY <1>2 DEF RetryWith
  <2> QED
    BY <1>2, <2>1, StartsRequest DEF BeginHardLoad, RetryWith
<1>3. CASE Retry \/ SetFilters
  BY <1>2, <1>3 DEF Retry, SetFilters, TypeOK
<1>4. CASE RunPaging \/ EnsureLoaded
  BY <1>4, StartsRequest DEF RunPaging, EnsureLoaded
<1>5. CASE Refresh
  BY <1>5, BeginsReconcile DEF Refresh, OneRefresh
<1>6. ASSUME UNCHANGED <<fetch, refreshing>>
      PROVE  OneRefresh'
  BY <1>6 DEF OneRefresh, Waiting, IsReconcile
<1>7. CASE RefreshAgain \/ UNCHANGED vars
  BY <1>6, <1>7 DEF RefreshAgain, vars
<1>8. ASSUME NEW d \in Deletions, NEW ids \in SUBSET Convs, DeleteConversations(d, ids)
      PROVE  OneRefresh'
  BY <1>6, <1>8 DEF DeleteConversations
<1>9. ASSUME NEW d \in Deletions, NEW c \in Convs, NEW ok \in BOOLEAN,
             DeleteAnswered(d, c, ok) \/ DeletesSettle(d, c, ok)
      PROVE  OneRefresh'
  BY <1>6, <1>9 DEF DeleteAnswered, DeletesSettle
<1>10. ASSUME NEW c \in Convs, PeerMessage(c) \/ OtherDeviceDeletes(c) \/ MessageSent(c)
       PROVE  OneRefresh'
  BY <1>6, <1>10 DEF PeerMessage, OtherDeviceDeletes, MessageSent
<1>11. ASSUME NEW d \in Deletions, NEW c \in Convs,
              DeleteTakesEffect(d, c) \/ ConversationDelete(d, c)
       PROVE  OneRefresh'
  BY <1>6, <1>11 DEF DeleteTakesEffect, ConversationDelete
<1> QED
  BY <1>1, <1>3, <1>4, <1>5, <1>7, <1>8, <1>9, <1>10, <1>11
     DEF Next, UserSteps, ServerSteps, AnswerSteps

\* At most one request starts in a step.
LEMMA OneStarts ==
  ASSUME TypeOK, OneRefresh, [Next]_vars, NEW f \in Fetches, NEW g \in Fetches, f # g
  PROVE  \E r \in {f, g} : fetch'[r] = fetch[r] \/ Quiet(r) \/ Reads(r)
<1> DEFINE Goal == \E r \in {f, g} : fetch'[r] = fetch[r] \/ Quiet(r) \/ Reads(r)
<1>1. ASSUME NEW h \in Fetches, \A r \in Fetches \ {h} : fetch'[r] = fetch[r] \/ Quiet(r)
      PROVE  Goal
  BY <1>1
<1>2. ASSUME NEW h, NEW new, fetch' = [fetch EXCEPT ![h] = new]
      PROVE  Goal
  BY <1>2 DEF TypeOK
<1>3. ASSUME NEW h \in Fetches, EndLoad(h)
      PROVE  Goal
  <2>1. \A r \in Fetches : fetch'[r] = IF r = h THEN FreeFetch(h)
                                       ELSE IF r \in Woken(h) THEN ClaimedReconcile
                                       ELSE fetch[r]
    BY <1>3 DEF EndLoad
  <2>2. f \in Woken(h) /\ g \in Woken(h) => FALSE
    BY DEF Woken, Waiting, OneRefresh
  <2> QED
    BY <2>1, <2>2, RefreshFields DEF Quiet
<1>4. ASSUME NEW h \in Fetches, BeginReconcile(h)
      PROVE  Goal
  BY <1>2, <1>4 DEF BeginReconcile
<1>5. ASSUME NEW h \in Fetches, FetchSteps(h)
      PROVE  Goal
  <2>1. CASE ServerAnswers(h)
    BY <1>2, <2>1 DEF ServerAnswers
  <2>2. CASE LoadArrives(h) \/ LoadFails(h)
    BY <1>3, <2>2 DEF LoadArrives, LoadFails
  <2>3. CASE ReconcileArrives(h) \/ ReconcileFails(h)
    BY <1>2, <1>4, <2>3 DEF ReconcileArrives, ReconcileFails, EndReconcile
  <2>4. CASE SyncArrives(h) \/ SyncFails(h)
    BY <1>2, <2>4 DEF SyncArrives, SyncFails, EndSync
  <2> QED
    BY <1>5, <2>1, <2>2, <2>3, <2>4 DEF FetchSteps
<1>6. CASE Retry \/ SetFilters \/ RunPaging \/ EnsureLoaded \/ Refresh
  BY <1>2, <1>4, <1>6 DEF Retry, SetFilters, RetryWith, BeginHardLoad, RunPaging,
                          EnsureLoaded, Refresh
<1>7. ASSUME UNCHANGED fetch
      PROVE  Goal
  BY <1>7
<1>8. CASE RefreshAgain \/ UNCHANGED vars
  BY <1>7, <1>8 DEF RefreshAgain, vars
<1>9. ASSUME NEW d \in Deletions, NEW ids \in SUBSET Convs, DeleteConversations(d, ids)
      PROVE  Goal
  BY <1>7, <1>9 DEF DeleteConversations
<1>10. ASSUME NEW d \in Deletions, NEW c \in Convs, NEW ok \in BOOLEAN,
              DeleteAnswered(d, c, ok) \/ DeletesSettle(d, c, ok)
       PROVE  Goal
  BY <1>7, <1>10 DEF DeleteAnswered, DeletesSettle
<1>11. ASSUME NEW c \in Convs, PeerMessage(c) \/ OtherDeviceDeletes(c) \/ MessageSent(c)
       PROVE  Goal
  BY <1>7, <1>11 DEF PeerMessage, OtherDeviceDeletes, MessageSent
<1>12. ASSUME NEW d \in Deletions, NEW c \in Convs,
              DeleteTakesEffect(d, c) \/ ConversationDelete(d, c)
       PROVE  Goal
  BY <1>7, <1>12 DEF DeleteTakesEffect, ConversationDelete
<1> QED
  BY <1>5, <1>6, <1>8, <1>9, <1>10, <1>11, <1>12
     DEF Next, UserSteps, ServerSteps, AnswerSteps

LEMMA OneCurrentStep ==
  ASSUME TypeOK, TypeOK', EpochsOK, OneRefresh, OneCurrent, [Next]_vars
  PROVE  OneCurrent'
<1> SUFFICES ASSUME NEW f \in Fetches, NEW g \in Fetches, f # g,
                    Claims(f)', Claims(g)', ~IsStale(f)', ~IsStale(g)'
             PROVE  FALSE
  BY DEF OneCurrent
<1>1. ASSUME NEW r \in Fetches, Claims(r)', ~IsStale(r)', ~Fresh(r) \/ epoch' = epoch
      PROVE  epoch' = epoch /\ Claims(r) /\ ~IsStale(r)
  <2>1. epoch' >= epoch /\ Evolves(r)
    BY StepEvolves
  <2>2. fetch'[r] = fetch[r] \/ Reads(r)
    BY <1>1, <2>1 DEF Evolves, Quiet, Fresh, Claims, Pending, IsLoad, IsReconcile, TypeOK
  <2>3. Claims(r) /\ fetch'[r].epoch = fetch[r].epoch
    BY <1>1, <2>2 DEF Reads, Claims, Pending, IsLoad, IsReconcile
  <2>4. epoch' <= epoch
    BY <1>1, <2>3 DEF IsStale, EpochsOK, Claims
  <2> QED
    BY <1>1, <2>1, <2>3, <2>4 DEF IsStale, TypeOK
<1>2. CASE epoch' = epoch
  BY <1>1, <1>2 DEF OneCurrent
<1>3. CASE epoch' # epoch
  <2>1. Fresh(f) /\ Fresh(g)
    BY <1>1, <1>3
  <2>2. PICK r \in {f, g} : fetch'[r] = fetch[r] \/ Quiet(r) \/ Reads(r)
    BY OneStarts
  <2>3. r \in Fetches /\ Claims(r)' /\ ~IsStale(r)'
    BY <2>2
  <2>4. ~Quiet(r)
    BY <2>3 DEF Quiet, Claims, Pending
  <2>5. fetch'[r].epoch = fetch[r].epoch /\ Pending(r)
    BY <2>2, <2>3, <2>4 DEF Reads, Pending, Claims
  <2>6. epoch' <= epoch /\ epoch' >= epoch
    BY <2>3, <2>5, StepEvolves DEF IsStale, EpochsOK
  <2> QED
    BY <1>3, <2>6 DEF TypeOK
<1> QED
  BY <1>2, <1>3

\* An answer that is applied.
Applies(f) == /\ LoadArrives(f) \/ ReconcileArrives(f) \/ SyncArrives(f)
              /\ ~IsStale(f)

\* The steps, by what they do to the list.
LEMMA ListSteps ==
  ASSUME TypeOK, [Next]_vars
  PROVE  \/ \E f \in Fetches : Applies(f)
         \/ \E f \in Fetches : Settle(f) /\ UNCHANGED <<env, list>>
         \/ RetryWith(filter') /\ filter' \in Filters
         \/ \E d \in Deletions, ids \in SUBSET Convs : DeleteConversations(d, ids)
         \/ \E d \in Deletions, c \in Convs, ok \in BOOLEAN :
              DeleteAnswered(d, c, ok) \/ DeletesSettle(d, c, ok)
         \/ \E c \in Convs : PeerMessage(c) \/ OtherDeviceDeletes(c) \/ MessageSent(c)
         \/ \E d \in Deletions, c \in Convs :
              DeleteTakesEffect(d, c) \/ ConversationDelete(d, c)
         \/ UNCHANGED <<env, list, dels>>
<1>1. ASSUME NEW f \in Fetches, FetchSteps(f)
      PROVE  \/ Applies(f)
             \/ Settle(f) /\ UNCHANGED <<env, list>>
             \/ UNCHANGED <<env, list, dels>>
  <2>1. CASE ServerAnswers(f)
    BY <2>1 DEF ServerAnswers
  <2>2. CASE LoadArrives(f) \/ LoadFails(f)
    BY <2>2 DEF LoadArrives, LoadFails, EndLoad, Applies
  <2>3. CASE ReconcileArrives(f) \/ ReconcileFails(f)
    BY <2>3 DEF ReconcileArrives, ReconcileFails, EndReconcile, Applies
  <2>4. CASE SyncArrives(f) \/ SyncFails(f)
    BY <2>4 DEF SyncArrives, SyncFails, EndSync, Applies, list
  <2> QED
    BY <1>1, <2>1, <2>2, <2>3, <2>4 DEF FetchSteps
<1>2. CASE Retry \/ SetFilters
  BY <1>2 DEF Retry, SetFilters, TypeOK
<1>3. CASE RunPaging \/ Refresh \/ RefreshAgain \/ EnsureLoaded \/ UNCHANGED vars
  BY <1>3 DEF RunPaging, Refresh, RefreshAgain, EnsureLoaded, vars
<1> QED
  BY <1>1, <1>2, <1>3 DEF Next, UserSteps, ServerSteps, AnswerSteps

\* A request that is applied is over, or another epoch has begun.
LEMMA AppliesEnds ==
  ASSUME TypeOK, NEW f \in Fetches, Applies(f)
  PROVE  /\ Pending(f) /\ filter' = filter /\ UNCHANGED env /\ Settle(f)
         /\ Quiet(f) \/ epoch' > epoch
<1>1. CASE LoadArrives(f)
  BY <1>1, EndLoadEvolves DEF LoadArrives, EndLoad, Pending
<1>2. CASE ReconcileArrives(f)
  <2>1. EndReconcile(f) /\ filter' = filter /\ fetch[f].state = "answered" /\ UNCHANGED env
    BY <1>2 DEF ReconcileArrives
  <2>2. Quiet(f) \/ epoch' > epoch
    BY <2>1, ReconcileFields DEF EndReconcile, BeginReconcile, Quiet, TypeOK
  <2> QED
    BY <2>1, <2>2 DEF EndReconcile, Pending
<1>3. CASE SyncArrives(f)
  BY <1>3, ReconcileFields DEF SyncArrives, EndSync, Quiet, Pending, TypeOK
<1> QED
  BY <1>1, <1>2, <1>3 DEF Applies

LEMMA CursorMoves ==
  ASSUME TypeOK, [Next]_vars
  PROVE  /\ nextPage' > 0 => placed' \/ (nextPage' = nextPage /\ placed' = placed)
         /\ nextPage' # nextPage
              => \/ epoch' > epoch
                 \/ \E f \in Fetches : Claims(f) /\ ~IsStale(f) /\ Quiet(f)
<1>1. ASSUME NEW f \in Fetches, Applies(f)
      PROVE  /\ placed' \/ (nextPage' = nextPage /\ placed' = placed)
             /\ nextPage' # nextPage => /\ Claims(f) /\ ~IsStale(f)
                                        /\ Quiet(f) \/ epoch' > epoch
  <2>1. CASE LoadArrives(f) \/ ReconcileArrives(f)
    <3>1. placed' /\ Claims(f) /\ ~IsStale(f)
      BY <1>1, <2>1 DEF LoadArrives, ReconcileArrives, Applies, Claims, Pending
    <3> QED
      BY <1>1, <3>1, AppliesEnds
  <2>2. CASE SyncArrives(f)
    BY <2>2 DEF SyncArrives, EndSync
  <2> QED
    BY <1>1, <2>1, <2>2 DEF Applies
<1>2. CASE RetryWith(filter')
  <2>1. epoch' > epoch
    BY <1>2 DEF RetryWith, BeginHardLoad, TypeOK
  <2> QED
    BY <1>2, <2>1 DEF RetryWith
<1>3. ASSUME UNCHANGED list
      PROVE  nextPage' = nextPage /\ placed' = placed
  BY <1>3 DEF list
<1>4. ASSUME NEW d \in Deletions, NEW c \in Convs,
             \/ \E ok \in BOOLEAN : DeleteAnswered(d, c, ok) \/ DeletesSettle(d, c, ok)
             \/ DeleteTakesEffect(d, c) \/ ConversationDelete(d, c)
      PROVE  nextPage' = nextPage /\ placed' = placed
  BY <1>4 DEF DeleteAnswered, DeletesSettle, DeleteTakesEffect, ConversationDelete, list
<1>5. ASSUME NEW c \in Convs, PeerMessage(c) \/ OtherDeviceDeletes(c) \/ MessageSent(c)
      PROVE  nextPage' = nextPage /\ placed' = placed
  BY <1>5 DEF PeerMessage, OtherDeviceDeletes, MessageSent, list
<1>6. ASSUME NEW d \in Deletions, NEW ids \in SUBSET Convs, DeleteConversations(d, ids)
      PROVE  nextPage' = nextPage /\ placed' = placed
  BY <1>6 DEF DeleteConversations
<1> QED
  BY <1>1, <1>2, <1>3, <1>4, <1>5, <1>6, ListSteps

LEMMA CursorStep ==
  ASSUME TypeOK, TypeOK', EpochsOK, OneCurrent, CursorOK, [Next]_vars
  PROVE  CursorOK'
<1>0. nextPage \in Nat /\ nextPage' \in Nat /\ epoch \in Nat /\ epoch' \in Nat
  BY DEF TypeOK
<1>1. nextPage' > 0 => placed'
  BY CursorMoves DEF CursorOK
<1>2. ASSUME NEW r \in Fetches, Pending(r)'
      PROVE  /\ fetch'[r].page > 0
             /\ fetch'[r].kind = "page" /\ ~IsStale(r)' => fetch'[r].page = nextPage'
  <2>1. Evolves(r) /\ epoch' >= epoch /\ ~Quiet(r)
    BY <1>2, StepEvolves DEF Quiet, Pending
  <2>2. CASE Fresh(r)
    BY <1>0, <2>2 DEF Fresh
  <2>3. CASE ~Fresh(r)
    <3>1. fetch'[r] = fetch[r] \/ Reads(r)
      BY <2>1, <2>3 DEF Evolves
    <3>2. Pending(r) /\ fetch[r].page \in Nat /\ fetch[r].page > 0
      BY <3>1, <1>2 DEF Reads, Pending, CursorOK, TypeOK, Fetch
    <3>3. fetch'[r].page > 0
      BY <3>1, <3>2 DEF Reads
    <3>4. ASSUME fetch'[r].kind = "page", ~IsStale(r)'
          PROVE  fetch'[r].page = nextPage'
      <4>1. /\ fetch[r].kind = "page" /\ fetch'[r].page = fetch[r].page
            /\ fetch'[r].epoch = fetch[r].epoch
        BY <3>1, <3>4 DEF Reads, IsReconcile
      <4>2. epoch' = epoch /\ ~IsStale(r)
        BY <1>0, <2>1, <3>2, <3>4, <4>1 DEF EpochsOK, IsStale
      <4>3. fetch[r].page = nextPage
        BY <3>2, <4>1, <4>2 DEF CursorOK
      <4>4. nextPage' = nextPage
        <5>1. Claims(r)
          BY <3>2, <4>1 DEF Claims, IsLoad
        <5> QED
          BY <1>0, <2>1, <4>2, <5>1, CursorMoves DEF OneCurrent
      <4> QED
        BY <4>1, <4>3, <4>4
    <3> QED
      BY <3>3, <3>4
  <2> QED
    BY <2>2, <2>3
<1> QED
  BY <1>1, <1>2 DEF CursorOK

LEMMA ClocksStep ==
  ASSUME TypeOK, TypeOK', DelInv, ClocksOK, [Next]_vars
  PROVE  ClocksOK'
<1>0. /\ clock \in Nat /\ {epoch, epoch'} \subseteq Nat /\ epoch' >= epoch
      /\ Cardinality(Convs) \in Nat
      /\ \A c \in Convs : tomb[c] \in Tombstone
  BY BoundsAssumption, ConvsAssumption, FS_CardinalityType, StepEvolves DEF TypeOK, Ts
<1>1. \A c \in Convs : Marked(tomb[c]).lastSettledEpoch = tomb[c].lastSettledEpoch
  BY <1>0, TombstoneOps
<1>2. \A c \in Convs : LET t == Settled(tomb[c], epoch) IN
        /\ t \in Tombstone \/ t.lastSettledEpoch = epoch
        /\ t.lastSettledEpoch <= epoch
        /\ Released(t, 1).lastSettledEpoch <= epoch
  BY <1>0 DEF ClocksOK, Settled, Released, NoTombstone, Tombstone
<1>3. \A c \in Convs : LET t == Settled(Marked(tomb[c]), epoch) IN
        /\ t.lastSettledEpoch <= epoch
        /\ Released(t, 1).lastSettledEpoch <= epoch
  BY <1>0 DEF ClocksOK, Settled, Released, NoTombstone, Tombstone, Marked
<1>4. ASSUME UNCHANGED <<clock, tomb>>
      PROVE  ClocksOK'
  BY <1>0, <1>4 DEF ClocksOK, Tombstone, TypeOK
<1>5. ASSUME NEW f \in Fetches, Settle(f), UNCHANGED env
      PROVE  ClocksOK'
  <2>1. \A c \in Convs : tomb'[c] = NoTombstone
                         \/ tomb'[c].lastSettledEpoch = tomb[c].lastSettledEpoch
    BY <1>5, SettleRequesters
  <2>2. NoTombstone.lastSettledEpoch = -1
    BY DEF NoTombstone
  <2>3. \A c \in Convs : tomb'[c].lastSettledEpoch <= epoch
    BY <1>0, <2>1, <2>2 DEF ClocksOK
  <2>4. \A c \in Convs : tomb'[c].lastSettledEpoch \in Int
    BY DEF TypeOK, Tombstone
  <2> QED
    BY <1>0, <1>5, <2>3, <2>4 DEF ClocksOK, env
<1>6. ASSUME NEW d \in Deletions, NEW ids \in SUBSET Convs, DeleteConversations(d, ids)
      PROVE  ClocksOK'
  BY <1>0, <1>1, <1>6 DEF ClocksOK, DeleteConversations, env, TypeOK
<1>7. ASSUME NEW d \in Deletions, NEW i \in Convs, NEW ok \in BOOLEAN, DeletesSettle(d, i, ok)
      PROVE  ClocksOK'
  <2>1. \A c \in Convs : \/ tomb'[c] = tomb[c]
                         \/ tomb'[c] = Settled(tomb[c], epoch)
                         \/ tomb'[c] = Released(Settled(tomb[c], epoch), 1)
    BY <1>7 DEF DeletesSettle
  <2>2. \A c \in Convs : tomb'[c].lastSettledEpoch <= epoch
    BY <1>2, <2>1 DEF ClocksOK
  <2> QED
    BY <1>0, <1>7, <2>2 DEF ClocksOK, DeletesSettle, env
<1>8. ASSUME NEW d \in Deletions, NEW i \in Convs, ConversationDelete(d, i)
      PROVE  ClocksOK'
  <2>1. \A c \in Convs : \/ tomb'[c] = tomb[c]
                         \/ tomb'[c] = Settled(Marked(tomb[c]), epoch)
                         \/ tomb'[c] = Released(Settled(Marked(tomb[c]), epoch), 1)
    BY <1>8 DEF ConversationDelete, TypeOK
  <2>2. \A c \in Convs : tomb'[c].lastSettledEpoch <= epoch
    BY <1>3, <2>1 DEF ClocksOK
  <2> QED
    BY <1>0, <1>8, <2>2 DEF ClocksOK, ConversationDelete
<1>9. ASSUME NEW c \in Convs, PeerMessage(c)
      PROVE  ClocksOK'
  BY <1>0, <1>9 DEF ClocksOK, PeerMessage, dels
<1>10. ASSUME NEW f \in Fetches, Applies(f)
       PROVE  ClocksOK'
  BY <1>5, <1>10, AppliesEnds
<1>11. CASE UNCHANGED <<env, list, dels>> \/ RetryWith(filter')
  BY <1>4, <1>11 DEF env, dels, RetryWith
<1>12. ASSUME NEW d \in Deletions, NEW c \in Convs,
              DeleteTakesEffect(d, c) \/ \E ok \in BOOLEAN : DeleteAnswered(d, c, ok)
       PROVE  ClocksOK'
  BY <1>4, <1>12 DEF DeleteTakesEffect, ServerDeletes, DeleteAnswered, env
<1>13. ASSUME NEW c \in Convs, OtherDeviceDeletes(c) \/ MessageSent(c)
       PROVE  ClocksOK'
  BY <1>4, <1>13 DEF OtherDeviceDeletes, ServerDeletes, MessageSent, env, dels
<1> QED
  BY <1>5, <1>6, <1>7, <1>8, <1>9, <1>10, <1>11, <1>12, <1>13, ListSteps

\* While the server's list stands still, steps leave it and what it announces alone.
LEMMA StillSteps ==
  ASSUME TypeOK, ClocksOK, [Next]_vars, ServerStandsStill'
  PROVE  /\ ServerStandsStill /\ server' = server
         /\ \/ \E f \in Fetches : Applies(f)
            \/ \E f \in Fetches : Settle(f) /\ UNCHANGED list
            \/ RetryWith(filter')
            \/ \E d \in Deletions, ids \in SUBSET Convs : DeleteConversations(d, ids)
            \/ \E d \in Deletions, c \in Convs, ok \in BOOLEAN :
                 DeleteAnswered(d, c, ok) \/ DeletesSettle(d, c, ok)
            \/ \E c \in Convs : MessageSent(c)
            \/ UNCHANGED <<list, dels>>
<1>0. /\ clock \in Nat /\ Cardinality(Convs) \in Nat
      /\ \A c \in Convs : server[c] \in Nat /\ notices[c] \in Nat /\ buried[c] \in Nat
      /\ server \in [Convs -> Ts] /\ notices \in [Convs -> Ts] /\ buried \in [Convs -> Ts]
  BY BoundsAssumption, ConvsAssumption, FS_CardinalityType DEF TypeOK, Ts
<1>1. ASSUME NEW c \in Convs, PeerMessage(c)
      PROVE  FALSE
  BY <1>0, <1>1 DEF PeerMessage, ServerStandsStill, ClocksOK
<1>2. ASSUME NEW c \in Convs, server[c] > 0, ServerDeletes(c)
      PROVE  FALSE
  <2>1. notices'[c] > 0
    BY <1>0, <1>2 DEF ServerDeletes
  <2> QED
    BY <2>1 DEF ServerStandsStill, Nothing
<1>3. ASSUME NEW d \in Deletions, NEW c \in Convs, ConversationDelete(d, c)
      PROVE  FALSE
  <2>1. buried'[c] > 0
    BY <1>0, <1>3 DEF ConversationDelete, Latest
  <2> QED
    BY <2>1 DEF ServerStandsStill, Nothing
<1>4. ASSUME UNCHANGED <<clock, notices>>, \A c \in Convs : buried[c] <= buried'[c]
      PROVE  ServerStandsStill
  <2>1. \A c \in Convs : buried[c] = 0
    BY <1>0, <1>4 DEF ServerStandsStill, Nothing
  <2>2. buried = Nothing
    BY <1>0, <2>1 DEF Nothing
  <2> QED
    BY <1>4, <2>2 DEF ServerStandsStill
<1>5. ASSUME UNCHANGED env, buried' = buried
      PROVE  ServerStandsStill /\ server' = server
  BY <1>5 DEF env, ServerStandsStill
<1>6. ASSUME NEW f \in Fetches, Settle(f), UNCHANGED env
      PROVE  ServerStandsStill /\ server' = server
  BY <1>5, <1>6 DEF Settle
<1>7. ASSUME NEW d \in Deletions, NEW c \in Convs, NEW ok \in BOOLEAN, DeletesSettle(d, c, ok)
      PROVE  ServerStandsStill /\ server' = server
  <2>1. \A i \in Convs : deletion[d].effect[i] \in Nat
    BY BoundsAssumption DEF TypeOK, Deletion, Ts
  <2>2. \A i \in Convs : buried[i] <= buried'[i]
    BY <1>0, <1>7, <2>1 DEF DeletesSettle, Latest
  <2> QED
    BY <1>4, <1>7, <2>2 DEF DeletesSettle, env
<1>8. ASSUME NEW d \in Deletions,
             \/ \E ids \in SUBSET Convs : DeleteConversations(d, ids)
             \/ \E c \in Convs, ok \in BOOLEAN : DeleteAnswered(d, c, ok)
      PROVE  ServerStandsStill /\ server' = server
  BY <1>5, <1>8 DEF DeleteConversations, DeleteAnswered
<1>9. ASSUME NEW c \in Convs, MessageSent(c)
      PROVE  ServerStandsStill /\ server' = server
  BY <1>5, <1>9 DEF MessageSent, dels
<1>10. ASSUME UNCHANGED <<env, list, dels>> \/ RetryWith(filter')
       PROVE  ServerStandsStill /\ server' = server
  BY <1>5, <1>10 DEF RetryWith, dels
<1>11. ASSUME NEW d \in Deletions, NEW c \in Convs,
              OtherDeviceDeletes(c) \/ DeleteTakesEffect(d, c)
       PROVE  FALSE
  BY <1>2, <1>11 DEF OtherDeviceDeletes, DeleteTakesEffect
<1>12. ASSUME NEW c \in Convs, OtherDeviceDeletes(c)
       PROVE  FALSE
  BY <1>2, <1>12 DEF OtherDeviceDeletes
<1>13. ASSUME NEW f \in Fetches, Applies(f)
       PROVE  ServerStandsStill /\ server' = server
  BY <1>6, <1>13, AppliesEnds
<1> QED
  BY <1>1, <1>3, <1>6, <1>7, <1>8, <1>9, <1>10, <1>11, <1>12, <1>13, ListSteps

\* What an answer shows while the list stands still is the server's own activity.
LEMMA GotOfServer ==
  ASSUME TypeOK, AnswersOK, NEW f \in Fetches, Pending(f), NEW c \in Convs,
         fetch[f].got[c] > 0
  PROVE  server[c] > 0 /\ fetch[f].got[c] = server[c]
<1>1. fetch[f].got[c] = IF /\ c \in Visible(fetch[f].view)
                           /\ From(f) < Position(fetch[f].view, c)
                           /\ Position(fetch[f].view, c) <= UpTo(f)
                        THEN server[c] ELSE 0
  BY DEF AnswersOK, ReadBy
<1> QED
  BY <1>1 DEF Visible

\* A request read the same list as there is after a step that leaves the server alone.
LEMMA SameList ==
  ASSUME server' = server, NEW r \in Fetches
  PROVE  /\ Visible(fetch[r].view)' = Visible(fetch'[r].view)
         /\ \A c \in Convs : Position(fetch[r].view, c)' = Position(fetch'[r].view, c)
         /\ NextAfter(fetch[r].view, fetch[r].page)'
              = NextAfter(fetch'[r].view, fetch'[r].page)
         /\ ReadBy(r)' = [c \in Convs |->
              IF /\ c \in Visible(fetch'[r].view)
                 /\ From(r)' < Position(fetch'[r].view, c)
                 /\ Position(fetch'[r].view, c) <= UpTo(r)'
              THEN server[c] ELSE 0]
<1>1. Visible(fetch[r].view)' = Visible(fetch'[r].view)
  BY DEF Visible
<1>2. \A c \in Convs : Position(fetch[r].view, c)' = Position(fetch'[r].view, c)
  BY DEF Position, Visible
<1>3. NextAfter(fetch[r].view, fetch[r].page)'
        = NextAfter(fetch'[r].view, fetch'[r].page)
  BY <1>1 DEF NextAfter, HasMore
<1> QED
  BY <1>1, <1>2, <1>3 DEF ReadBy

LEMMA AnswersStep ==
  ASSUME TypeOK, TypeOK', CursorOK, AnswersOK, server' = server, [Next]_vars
  PROVE  AnswersOK'
<1> SUFFICES ASSUME NEW r \in Fetches, Pending(r)'
             PROVE  /\ fetch'[r].got = ReadBy(r)'
                    /\ fetch'[r].state = "answered"
                         => fetch'[r].next = NextAfter(fetch'[r].view, fetch'[r].page)
  BY SameList DEF AnswersOK
<1>1. Evolves(r) /\ ~Quiet(r)
  BY StepEvolves DEF Quiet, Pending
<1>2. fetch[r].view \in Filters /\ fetch'[r].view \in Filters
  BY DEF TypeOK, Fetch
<1>3. CASE Fresh(r)
  <2>1. fetch'[r].state = "asked" /\ fetch'[r].got = Nothing
    BY <1>3 DEF Fresh
  <2>2. ASSUME NEW c \in Convs, c \in Visible(fetch'[r].view),
               From(r)' < Position(fetch'[r].view, c),
               Position(fetch'[r].view, c) <= UpTo(r)'
        PROVE  FALSE
    <3>1. Position(fetch'[r].view, c) \in Nat \ {0}
      BY <1>2, <2>2, Positions
    <3>2. CASE fetch'[r].kind = "page"
      <4>1. From(r)' = UpTo(r)' /\ From(r)' = (fetch'[r].page - 1) * PageSize
        BY <2>1, <3>2 DEF From, UpTo
      <4>2. fetch'[r].page \in Nat \ {0}
        BY <1>3, <3>2 DEF Fresh, TypeOK
      <4> QED
        BY <2>2, <3>1, <4>1, <4>2, PageEnds
    <3>3. CASE fetch'[r].kind # "page"
      <4>1. fetch'[r].page = 1
        BY <1>3, <3>3 DEF Fresh
      <4>2. UpTo(r)' = 0
        BY <2>1, <4>1, PageEnds DEF UpTo
      <4> QED
        BY <2>2, <3>1, <4>2
    <3> QED
      BY <3>2, <3>3
  <2>3. ReadBy(r)' = Nothing
    BY <2>2, SameList DEF Nothing
  <2> QED
    BY <2>1, <2>3
<1>4. CASE fetch'[r] = fetch[r]
  <2>1. Pending(r) /\ From(r)' = From(r) /\ UpTo(r)' = UpTo(r)
    BY <1>4 DEF Pending, From, UpTo
  <2>2. ReadBy(r)' = ReadBy(r)
    BY <1>4, <2>1, SameList DEF ReadBy
  <2> QED
    BY <1>4, <2>1, <2>2 DEF AnswersOK
<1>5. CASE Reads(r)
  <2> DEFINE view == fetch[r].view
             p == fetch[r].page
             from == IF fetch[r].kind = "page" THEN (p - 1) * PageSize ELSE 0
  <2>1. /\ fetch[r].state = "asked" /\ Pending(r) /\ fetch'[r].got = Merged(r)
        /\ fetch'[r].view = view /\ fetch'[r].kind = fetch[r].kind
    BY <1>5 DEF Reads, Pending
  <2>2. p \in Nat \ {0}
    BY <2>1 DEF CursorOK, TypeOK, Fetch
  <2>3. From(r)' = from /\ UpTo(r)' = p * PageSize
    <3>1. CASE fetch'[r].state = "answered" /\ fetch'[r].page = p
      BY <2>1, <3>1 DEF From, UpTo
    <3>2. CASE fetch'[r].state = "asked" /\ fetch'[r].page = p + 1 /\ IsReconcile(r)
      BY <2>1, <2>2, <3>2, PageEnds DEF From, UpTo, IsReconcile
    <3> QED
      BY <1>5, <3>1, <3>2 DEF Reads
  <2>4. fetch[r].got = ReadBy(r) /\ From(r) = from /\ UpTo(r) = (p - 1) * PageSize
    BY <2>1 DEF AnswersOK, From, UpTo
  <2>5. ASSUME NEW c \in Convs
        PROVE  Merged(r)[c] = IF c \in Visible(view) /\ from < Position(view, c)
                                   /\ Position(view, c) <= p * PageSize
                              THEN server[c] ELSE 0
    <3> DEFINE pos == Position(view, c)
    <3>1. Merged(r)[c] = IF ReadBy(r)[c] > 0 THEN ReadBy(r)[c] ELSE Page(view, p)[c]
      BY <2>4 DEF Merged
    <3>2. ReadBy(r)[c] = IF c \in Visible(view) /\ from < pos /\ pos <= (p - 1) * PageSize
                         THEN server[c] ELSE 0
      BY <2>4 DEF ReadBy
    <3>3. Page(view, p)[c] = IF c \in Visible(view)
                                  /\ pos \in ((p - 1) * PageSize + 1)..(p * PageSize)
                             THEN server[c] ELSE 0
      BY DEF Page
    <3>4. CASE c \notin Visible(view)
      BY <3>1, <3>2, <3>3, <3>4
    <3>5. CASE c \in Visible(view)
      <4>1. pos \in Nat \ {0} /\ server[c] > 0 /\ server[c] \in Nat
        <5>1. pos \in Nat \ {0}
          BY <1>2, <3>5, Positions
        <5>2. server[c] > 0 /\ server[c] \in Nat
          BY <3>5, BoundsAssumption DEF Visible, TypeOK, Ts
        <5> QED
          BY <5>1, <5>2
      <4>2. /\ (p - 1) * PageSize \in Nat /\ p * PageSize \in Nat
            /\ (p - 1) * PageSize <= p * PageSize
        BY <2>2, PageEnds
      <4> DEFINE lo == (p - 1) * PageSize
                 hi == p * PageSize
      <4>3. from = lo \/ from = 0
        OBVIOUS
      <4> HIDE DEF pos, lo, hi, from
      <4>4. pos \in (lo + 1)..hi <=> lo < pos /\ pos <= hi
        BY <4>1, <4>2 DEF lo, hi
      <4>5. ReadBy(r)[c] = IF from < pos /\ pos <= lo THEN server[c] ELSE 0
        BY <3>2, <3>5 DEF lo, pos, from
      <4>6. Page(view, p)[c] = IF lo < pos /\ pos <= hi THEN server[c] ELSE 0
        BY <3>3, <3>5, <4>4 DEF lo, hi, pos
      <4>7. Merged(r)[c] = IF from < pos /\ pos <= hi THEN server[c] ELSE 0
        <5>1. /\ pos \in Int /\ lo \in Int /\ hi \in Int /\ lo <= hi /\ 0 < pos
              /\ server[c] \in Int
          BY <4>1, <4>2 DEF lo, hi
        <5> QED
          BY <3>1, <4>1, <4>3, <4>5, <4>6, <5>1
      <4> QED
        BY <3>5, <4>7 DEF lo, hi, pos, from
    <3> QED
      BY <3>4, <3>5
  <2>6. fetch'[r].got = ReadBy(r)'
    BY <2>1, <2>3, <2>5, SameList DEF Merged
  <2>7. fetch'[r].state = "answered" => fetch'[r].next = NextAfter(view, p) /\ fetch'[r].page = p
    BY <1>5 DEF Reads
  <2> QED
    BY <2>1, <2>6, <2>7
<1> QED
  BY <1>1, <1>3, <1>4, <1>5 DEF Evolves

\* While the list stands still, every answer to a delete is a failure.
LEMMA StillFails ==
  ASSUME TypeOK, RowsOfServer, NEW d \in Deletions, NEW c \in Convs, NEW ok \in BOOLEAN,
         Outcome(d, c, ok)
  PROVE  FailedWith(d, c, ok) = deletion[d].failed \cup {c}
<1>1. deletion[d].removed[c] > 0 /\ deletion[d].removed[c] = server[c]
      /\ deletion[d].effect[c] = 0
  BY DEF Outcome, RowsOfServer
<1>2. ~ok
  BY <1>1 DEF Outcome
<1> QED
  BY <1>2 DEF FailedWith

\* An applied answer shows the server's activity, and takes no conversation of it away.
LEMMA AppliedRows ==
  ASSUME TypeOK, RowsOfServer, AnswersOK, NEW f \in Fetches, Applies(f), NEW c \in Convs,
         rows'[c] > 0
  PROVE  server[c] > 0 /\ ts'[c] = server[c]
<1>1. Pending(f)
  BY AppliesEnds
<1>2. fetch[f].got[c] > 0 => server[c] > 0 /\ fetch[f].got[c] = server[c]
  BY <1>1, GotOfServer
<1>3. rows[c] > 0 => server[c] > 0 /\ ts[c] = server[c]
  BY DEF RowsOfServer
<1>4. rows[c] \in Nat /\ fetch[f].got[c] \in Nat
  BY BoundsAssumption DEF TypeOK, Fetch, Ts
<1>5. c \in Pushed(f) <=> fetch[f].got[c] > 0 /\ rows[c] = 0 /\ ~Blocked(c, f)
  BY DEF Pushed
<1>6. CASE LoadArrives(f)
  <2>1. /\ rows'[c] = IF c \in Pushed(f) THEN rows[c] + 1 ELSE rows[c]
        /\ ts'[c] = IF c \in Pushed(f) THEN fetch[f].got[c] ELSE ts[c]
    BY <1>6 DEF LoadArrives, Applies
  <2> QED
    BY <1>2, <1>3, <1>4, <1>5, <2>1
<1>7. CASE ReconcileArrives(f)
  <2>1. /\ rows[c] > 0 \/ c \in Pushed(f)
        /\ ts'[c] = IF fetch[f].got[c] > 0 THEN fetch[f].got[c] ELSE ts[c]
    BY <1>4, <1>7 DEF ReconcileArrives, Applies
  <2> QED
    BY <1>2, <1>3, <1>4, <1>5, <2>1
<1>8. CASE SyncArrives(f)
  <2>1. /\ rows'[c] = IF c \in Pushed(f) THEN rows[c] + 1 ELSE rows[c]
        /\ ts'[c] = IF c \in Pushed(f) \/ (fetch[f].got[c] > 0 /\ rows[c] > 0)
                    THEN fetch[f].got[c] ELSE ts[c]
    BY <1>8 DEF SyncArrives, Applies
  <2> QED
    BY <1>2, <1>3, <1>4, <1>5, <2>1
<1> QED
  BY <1>6, <1>7, <1>8 DEF Applies

\* What RowsOfServer says of the batches.
Batch(d, c) ==
  /\ deletion[d].removed[c] > 0 => deletion[d].removed[c] = server[c]
  /\ deletion[d].effect[c] = 0
  /\ deletion[d].phase = "requested" /\ c \in deletion[d].ids => deletion[d].removed[c] > 0
  /\ c \in deletion[d].answered => c \in deletion[d].failed

LEMMA SettleBatches ==
  ASSUME TypeOK, RowsOfServer, server' = server, NEW f \in Fetches, Settle(f),
         NEW d \in Deletions, NEW c \in Convs
  PROVE  Batch(d, c)'
<1>1. deletion[d] \in Deletion /\ Batch(d, c)
  BY DEF TypeOK, RowsOfServer, Batch
<1>2. CASE deletion'[d] = FreeDeletion
  BY <1>2 DEF Batch, FreeDeletion, Nothing
<1>3. ASSUME NEW W, deletion'[d] = [deletion[d] EXCEPT !.waits = W]
      PROVE  Batch(d, c)'
  BY <1>1, <1>3 DEF Batch, Deletion
<1> QED
  BY <1>2, <1>3, SettleRequesters

LEMMA RowsStepStill ==
  ASSUME TypeOK, TypeOK', ClocksOK, RowsOfServer, AnswersOK, [Next]_vars,
         ServerStandsStill'
  PROVE  RowsOfServer'
<1>0. server' = server /\ \A c \in Convs : rows[c] \in Nat /\ server[c] \in Nat /\ ts[c] \in Nat
      /\ \A d \in Deletions : deletion[d] \in Deletion
  BY StillSteps, BoundsAssumption DEF TypeOK, Ts
<1> DEFINE Row(c) == rows'[c] > 0 => server'[c] > 0 /\ ts'[c] = server'[c]
<1>1. ASSUME \A c \in Convs : Row(c), \A d \in Deletions, c \in Convs : Batch(d, c)'
      PROVE  RowsOfServer'
  BY <1>1 DEF RowsOfServer, Batch
<1>2. ASSUME UNCHANGED list
      PROVE  \A c \in Convs : Row(c)
  BY <1>0, <1>2 DEF RowsOfServer, list
<1>3. ASSUME UNCHANGED dels
      PROVE  \A d \in Deletions, c \in Convs : Batch(d, c)'
  BY <1>0, <1>3 DEF RowsOfServer, Batch, dels
<1>4. ASSUME NEW f \in Fetches, Applies(f)
      PROVE  RowsOfServer'
  <2>1. Settle(f)
    BY <1>4, AppliesEnds
  <2>2. \A c \in Convs : Row(c)
    BY <1>0, <1>4, AppliedRows
  <2>3. \A d \in Deletions, c \in Convs : Batch(d, c)'
    BY <1>0, <2>1, SettleBatches
  <2> QED
    BY <1>1, <2>2, <2>3
<1>5. ASSUME NEW f \in Fetches, Settle(f), UNCHANGED list
      PROVE  RowsOfServer'
  <2>1. \A d \in Deletions, c \in Convs : Batch(d, c)'
    BY <1>0, <1>5, SettleBatches
  <2> QED
    BY <1>1, <1>2, <1>5, <2>1
<1>6. CASE RetryWith(filter')
  <2>1. UNCHANGED dels /\ rows' = Nothing
    BY <1>6 DEF RetryWith
  <2> QED
    BY <1>1, <1>3, <2>1 DEF Nothing
<1>7. ASSUME NEW e \in Deletions, NEW ids \in SUBSET Convs, DeleteConversations(e, ids)
      PROVE  RowsOfServer'
  <2>1. ASSUME NEW c \in Convs
        PROVE  Row(c)
    <3>1. /\ rows'[c] = IF c \in ids THEN rows[c] - 1 ELSE rows[c]
          /\ rows'[c] > 0 => ts'[c] = ts[c]
      BY <1>7 DEF DeleteConversations
    <3> QED
      BY <1>0, <3>1 DEF RowsOfServer
  <2>2. ASSUME NEW d \in Deletions, NEW c \in Convs
        PROVE  Batch(d, c)'
    <3>1. Batch(d, c)
      BY DEF RowsOfServer, Batch
    <3>2. CASE d # e
      <4>1. deletion'[d] = deletion[d]
        BY <1>7, <3>2 DEF DeleteConversations, TypeOK
      <4> QED
        BY <1>0, <3>1, <4>1 DEF Batch
    <3>3. CASE d = e
      <4>1. /\ deletion'[d].removed[c] = IF c \in ids THEN ts[c] ELSE 0
            /\ deletion'[d].effect = deletion[d].effect
            /\ deletion'[d].ids = ids
            /\ deletion'[d].answered = deletion[d].answered
            /\ deletion'[d].failed = deletion[d].failed
        BY <1>0, <1>7, <3>3, ZenonT(30) DEF DeleteConversations, Deletion, TypeOK
      <4>2. c \in ids => ts[c] = server[c] /\ server[c] > 0
        BY <1>7 DEF DeleteConversations, RowsOfServer
      <4> QED
        BY <1>0, <3>1, <4>1, <4>2 DEF Batch
    <3> QED
      BY <3>2, <3>3
  <2> QED
    BY <1>1, <2>1, <2>2
<1>8. ASSUME NEW e \in Deletions, NEW i \in Convs, NEW ok \in BOOLEAN, DeleteAnswered(e, i, ok)
      PROVE  RowsOfServer'
  <2>1. FailedWith(e, i, ok) = deletion[e].failed \cup {i}
    BY <1>8, StillFails DEF DeleteAnswered
  <2>2. ASSUME NEW d \in Deletions, NEW c \in Convs
        PROVE  Batch(d, c)'
    <3>1. Batch(d, c)
      BY DEF RowsOfServer, Batch
    <3>2. CASE d # e
      <4>1. deletion'[d] = deletion[d]
        BY <1>8, <3>2 DEF DeleteAnswered, TypeOK
      <4> QED
        BY <1>0, <3>1, <4>1 DEF Batch
    <3>3. CASE d = e
      <4>1. /\ deletion'[d].removed = deletion[d].removed
            /\ deletion'[d].effect = deletion[d].effect
            /\ deletion'[d].ids = deletion[d].ids /\ deletion'[d].phase = deletion[d].phase
            /\ deletion'[d].answered = deletion[d].answered \cup {i}
            /\ deletion'[d].failed = deletion[d].failed \cup {i}
        BY <1>0, <1>8, <2>1, <3>3 DEF DeleteAnswered, Deletion, TypeOK
      <4> QED
        BY <1>0, <3>1, <4>1 DEF Batch
    <3> QED
      BY <3>2, <3>3
  <2> QED
    BY <1>1, <1>2, <1>8, <2>2 DEF DeleteAnswered
<1>9. ASSUME NEW e \in Deletions, NEW i \in Convs, NEW ok \in BOOLEAN, DeletesSettle(e, i, ok)
      PROVE  RowsOfServer'
  <2>1. ASSUME NEW c \in Convs
        PROVE  Row(c)
    <3> DEFINE back == Restorable(e, FailedWith(e, i, ok))
    <3>1. /\ rows'[c] = IF c \in back THEN rows[c] + 1 ELSE rows[c]
          /\ ts'[c] = IF c \in back THEN deletion[e].removed[c] ELSE ts[c]
      BY <1>9 DEF DeletesSettle
    <3>2. c \in back => deletion[e].removed[c] > 0
      BY DEF Restorable
    <3> HIDE DEF back
    <3> QED
      BY <1>0, <3>1, <3>2 DEF RowsOfServer
  <2>2. ASSUME NEW d \in Deletions, NEW c \in Convs
        PROVE  Batch(d, c)'
    <3>1. CASE d # e
      BY <1>0, <1>9, <3>1 DEF DeletesSettle, Batch, RowsOfServer
    <3>2. CASE d = e
      <4>1. /\ deletion'[d].removed = Nothing /\ deletion'[d].effect = Nothing
            /\ deletion'[d].answered = {} /\ deletion'[d].phase # "requested"
        BY <1>9, <3>2 DEF DeletesSettle, FreeDeletion, TypeOK
      <4> QED
        BY <4>1 DEF Batch, Nothing
    <3> QED
      BY <3>1, <3>2
  <2> QED
    BY <1>1, <2>1, <2>2
<1>10. ASSUME NEW i \in Convs, MessageSent(i)
       PROVE  RowsOfServer'
  <2>1. ASSUME NEW c \in Convs
        PROVE  Row(c)
    BY <1>0, <1>10 DEF MessageSent, RowsOfServer, TypeOK
  <2> QED
    BY <1>1, <1>3, <1>10, <2>1 DEF MessageSent
<1>11. CASE UNCHANGED <<list, dels>>
  BY <1>1, <1>2, <1>3, <1>11
<1> QED
  BY <1>4, <1>5, <1>6, <1>7, <1>8, <1>9, <1>10, <1>11, StillSteps

\* A reconcile takes no conversation away that the server still lists.
LEMMA NoneGone ==
  ASSUME TypeOK, CursorOK, ViewsOK, RowsOfServer, AnswersOK,
         NEW f \in Fetches, Applies(f), NEW c \in Visible(filter), rows[c] > 0
  PROVE  rows'[c] > 0
<1>0. c \in Convs /\ filter \in Filters
  BY FiltersAssumption DEF TypeOK, Visible
<1>1. rows[c] \in Nat
  BY <1>0 DEF TypeOK
<1>2. CASE LoadArrives(f) \/ SyncArrives(f)
  BY <1>0, <1>1, <1>2 DEF LoadArrives, SyncArrives, Applies, list
<1>3. CASE ReconcileArrives(f)
  <2> DEFINE got == fetch[f].got
             InWindow(t) == fetch[f].next = 0 \/ \E e \in Convs : got[e] > 0 /\ got[e] < t
             n == fetch[f].page * PageSize
  <2>1. /\ fetch[f].state = "answered" /\ Pending(f) /\ fetch[f].kind = "reconcile"
        /\ ~IsStale(f)
    BY <1>3 DEF ReconcileArrives, IsReconcile, Pending, Applies
  <2>2. fetch[f].view = filter /\ fetch[f].page \in Nat \ {0}
    BY <2>1 DEF ViewsOK, IsStale, CursorOK, TypeOK, Fetch
  <2>3. /\ fetch[f].next = NextAfter(filter, fetch[f].page)
        /\ \A e \in Convs : got[e] = IF /\ e \in Visible(filter)
                                        /\ 0 < Position(filter, e) /\ Position(filter, e) <= n
                                     THEN server[e] ELSE 0
    BY <2>1, <2>2 DEF AnswersOK, ReadBy, From, UpTo
  <2>4. ASSUME got[c] = 0, InWindow(ts[c])
        PROVE  FALSE
    <3>1. /\ Position(filter, c) \in Nat \ {0} /\ n \in Nat
          /\ Position(filter, c) <= Cardinality(Visible(filter))
          /\ Cardinality(Visible(filter)) \in Nat
      BY <1>0, <2>2, Positions, PageEnds
    <3>2. server[c] > 0 /\ ts[c] = server[c]
      BY <1>0 DEF RowsOfServer
    <3>3. n < Position(filter, c)
      BY <1>0, <2>3, <2>4, <3>1, <3>2
    <3>4. fetch[f].next # 0
      BY <2>2, <2>3, <3>1, <3>3 DEF NextAfter, HasMore
    <3>5. PICK e \in Convs : got[e] > 0 /\ got[e] < ts[c]
      BY <2>4, <3>4
    <3>6. /\ e \in Visible(filter) /\ Position(filter, e) <= n /\ server[e] < server[c]
      BY <2>3, <3>2, <3>5
    <3>7. /\ Position(filter, e) \in Nat /\ server[e] \in Nat /\ server[c] \in Nat
      BY <1>0, <3>6, Positions, BoundsAssumption DEF TypeOK, Ts
    <3>8. Position(filter, c) <= Position(filter, e)
      BY <1>0, <3>6, <3>7, Positions
    <3> HIDE DEF n
    <3> QED
      BY <3>1, <3>3, <3>6, <3>7, <3>8
  <2>5. rows'[c] # 0
    <3>1. rows'[c] = IF c \in Pushed(f) THEN rows[c] + 1
                     ELSE IF got[c] = 0 /\ ~Blocked(c, f) /\ InWindow(ts[c])
                     THEN 0 ELSE rows[c]
      BY <1>0, <1>3, <2>1 DEF ReconcileArrives
    <3> HIDE DEF got, InWindow
    <3> QED
      BY <1>1, <2>4, <3>1
  <2>6. rows'[c] = rows[c] + 1 \/ rows'[c] = 0 \/ rows'[c] = rows[c]
    BY <1>0, <1>3, <2>1 DEF ReconcileArrives
  <2> QED
    BY <1>1, <2>5, <2>6
<1> QED
  BY <1>2, <1>3 DEF Applies

\* A row that is shown goes only to a delete, or with the whole list.
LEMMA ShownStays ==
  ASSUME TypeOK, DelInv, ClocksOK, CursorOK, ViewsOK, RowsOfServer, AnswersOK,
         [Next]_vars, ServerStandsStill', NEW c \in Visible(filter), rows[c] > 0
  PROVE  \/ rows'[c] > 0 \/ Requesters(c)' # {}
         \/ epoch' > epoch /\ ~placed'
<1> DEFINE Goal == \/ rows'[c] > 0 \/ Requesters(c)' # {}
                   \/ epoch' > epoch /\ ~placed'
<1>0. c \in Convs /\ rows[c] \in Nat
  BY FiltersAssumption DEF TypeOK, Visible
<1>1. ASSUME NEW f \in Fetches, Applies(f)
      PROVE  Goal
  BY <1>1, NoneGone
<1>2. ASSUME UNCHANGED rows
      PROVE  Goal
  BY <1>2
<1>3. CASE RetryWith(filter')
  BY <1>3 DEF RetryWith, BeginHardLoad, TypeOK
<1>4. ASSUME NEW d \in Deletions, NEW ids \in SUBSET Convs, DeleteConversations(d, ids)
      PROVE  Goal
  <2>1. CASE c \in ids
    <3>1. deletion'[d].phase = "requested" /\ deletion'[d].ids = ids
      BY <1>4 DEF DeleteConversations, TypeOK, Deletion
    <3>2. d \in Requesters(c)'
      BY <2>1, <3>1 DEF Requesters, Holders
    <3> QED
      BY <3>2
  <2>2. CASE c \notin ids
    BY <1>0, <1>4, <2>2 DEF DeleteConversations
  <2> QED
    BY <2>1, <2>2
<1>5. ASSUME NEW d \in Deletions, NEW i \in Convs, NEW ok \in BOOLEAN, DeletesSettle(d, i, ok)
      PROVE  Goal
  BY <1>0, <1>5 DEF DeletesSettle
<1>6. ASSUME NEW d \in Deletions, NEW i \in Convs, NEW ok \in BOOLEAN, DeleteAnswered(d, i, ok)
      PROVE  Goal
  BY <1>2, <1>6 DEF DeleteAnswered, list
<1>7. ASSUME NEW i \in Convs, MessageSent(i)
      PROVE  Goal
  BY <1>2, <1>7 DEF MessageSent
<1>8. ASSUME UNCHANGED list
      PROVE  Goal
  BY <1>2, <1>8 DEF list
<1> QED
  BY <1>1, <1>3, <1>4, <1>5, <1>6, <1>7, <1>8, StillSteps

\* A delete on the wire stays there, or fails and puts its row back.
LEMMA RequestedStays ==
  ASSUME TypeOK, DelInv, ClocksOK, RowsOfServer, [Next]_vars, ServerStandsStill',
         NEW c \in Convs, Requesters(c) # {}
  PROVE  Requesters(c)' # {} \/ rows'[c] > 0
<1> DEFINE Goal == Requesters(c)' # {} \/ rows'[c] > 0
<1>0. PICK q \in Requesters(c) : TRUE
  OBVIOUS
<1>1. /\ q \in Deletions /\ deletion[q].phase = "requested" /\ c \in deletion[q].ids
      /\ rows[c] \in Nat
  BY DEF Requesters, Holders, TypeOK
<1>2. ASSUME deletion'[q].phase = deletion[q].phase, deletion'[q].ids = deletion[q].ids
      PROVE  Goal
  <2>1. q \in Requesters(c)'
    BY <1>1, <1>2 DEF Requesters, Holders
  <2> QED
    BY <2>1
<1>3. ASSUME NEW f \in Fetches, Settle(f)
      PROVE  Goal
  BY <1>3, SettleRequesters
<1>4. ASSUME UNCHANGED dels
      PROVE  Goal
  BY <1>2, <1>4 DEF dels
<1>5. ASSUME NEW d \in Deletions, NEW ids \in SUBSET Convs, DeleteConversations(d, ids)
      PROVE  Goal
  BY <1>1, <1>2, <1>5 DEF DeleteConversations, TypeOK
<1>6. ASSUME NEW d \in Deletions, NEW i \in Convs, NEW ok \in BOOLEAN, DeleteAnswered(d, i, ok)
      PROVE  Goal
  BY <1>1, <1>2, <1>6 DEF DeleteAnswered, TypeOK, Deletion
<1>7. ASSUME NEW d \in Deletions, NEW i \in Convs, NEW ok \in BOOLEAN, DeletesSettle(d, i, ok)
      PROVE  Goal
  <2>1. CASE d # q
    <3>1. deletion'[q] = deletion[q]
      BY <1>1, <1>7, <2>1 DEF DeletesSettle, TypeOK
    <3> QED
      BY <1>2, <3>1
  <2>2. CASE d = q
    <3>1. FailedWith(d, i, ok) = deletion[d].failed \cup {i}
      BY <1>7, StillFails DEF DeletesSettle
    <3>2. c \in FailedWith(d, i, ok) /\ deletion[d].removed[c] > 0
      BY <1>1, <1>7, <2>2, <3>1 DEF DeletesSettle, RowsOfServer
    <3>3. rows[c] = 0 => c \in Restorable(d, FailedWith(d, i, ok))
      BY <3>2 DEF Restorable
    <3>4. rows'[c] = IF c \in Restorable(d, FailedWith(d, i, ok))
                     THEN rows[c] + 1 ELSE rows[c]
      BY <1>7 DEF DeletesSettle
    <3> QED
      BY <1>1, <3>3, <3>4
  <2> QED
    BY <2>1, <2>2
<1>8. ASSUME NEW f \in Fetches, Applies(f)
      PROVE  Goal
  BY <1>3, <1>8, AppliesEnds
<1>9. CASE RetryWith(filter')
  BY <1>4, <1>9 DEF RetryWith
<1>10. ASSUME NEW i \in Convs, MessageSent(i)
       PROVE  Goal
  BY <1>4, <1>10 DEF MessageSent
<1>11. CASE UNCHANGED <<list, dels>>
  BY <1>4, <1>11
<1> QED
  BY <1>3, <1>5, <1>6, <1>7, <1>8, <1>9, <1>10, <1>11, StillSteps

\* A tombstone is stamped only when a delete of its conversation ends.
LEMMA StampsAreOfDeletes ==
  ASSUME TypeOK, DelInv, ClocksOK, [Next]_vars, ServerStandsStill', NEW c \in Convs
  PROVE  \/ tomb'[c].refs = 0
         \/ /\ tomb'[c].refs <= tomb[c].refs
            /\ tomb'[c].lastSettledEpoch = tomb[c].lastSettledEpoch
         \/ /\ epoch' = epoch
            /\ Requesters(c) # {} \/ Requesters(c)' # {}
<1> DEFINE Goal == \/ tomb'[c].refs = 0
                   \/ /\ tomb'[c].refs <= tomb[c].refs
                      /\ tomb'[c].lastSettledEpoch = tomb[c].lastSettledEpoch
                   \/ /\ epoch' = epoch
                      /\ Requesters(c) # {} \/ Requesters(c)' # {}
<1>0. tomb[c].refs \in Nat
  BY DEF TypeOK, Tombstone
<1>1. ASSUME tomb'[c] = tomb[c]
      PROVE  Goal
  BY <1>0, <1>1
<1>2. ASSUME NEW f \in Fetches, Settle(f)
      PROVE  Goal
  BY <1>2, SettleRequesters DEF NoTombstone
<1>3. ASSUME NEW d \in Deletions, NEW ids \in SUBSET Convs, DeleteConversations(d, ids)
      PROVE  Goal
  <2>1. CASE c \in ids
    <3>1. deletion'[d].phase = "requested" /\ deletion'[d].ids = ids
      BY <1>3 DEF DeleteConversations, TypeOK, Deletion
    <3>2. d \in Requesters(c)'
      BY <2>1, <3>1 DEF Requesters, Holders
    <3> QED
      BY <1>3, <3>2 DEF DeleteConversations
  <2>2. CASE c \notin ids
    BY <1>1, <1>3, <2>2 DEF DeleteConversations
  <2> QED
    BY <2>1, <2>2
<1>4. ASSUME NEW d \in Deletions, NEW i \in Convs, NEW ok \in BOOLEAN, DeletesSettle(d, i, ok)
      PROVE  Goal
  <2>1. CASE c \in deletion[d].ids
    <3>1. d \in Requesters(c)
      BY <1>4, <2>1 DEF DeletesSettle, Outcome, Requesters, Holders
    <3> QED
      BY <1>4, <3>1 DEF DeletesSettle
  <2>2. CASE c \notin deletion[d].ids
    BY <1>1, <1>4, <2>2 DEF DeletesSettle
  <2> QED
    BY <2>1, <2>2
<1>5. ASSUME NEW d \in Deletions, NEW i \in Convs, NEW ok \in BOOLEAN, DeleteAnswered(d, i, ok)
      PROVE  Goal
  BY <1>1, <1>5 DEF DeleteAnswered
<1>6. ASSUME UNCHANGED dels
      PROVE  Goal
  BY <1>1, <1>6 DEF dels
<1>7. ASSUME NEW f \in Fetches, Applies(f)
      PROVE  Goal
  BY <1>2, <1>7, AppliesEnds
<1>8. ASSUME NEW i \in Convs, MessageSent(i)
      PROVE  Goal
  BY <1>6, <1>8 DEF MessageSent
<1>9. CASE RetryWith(filter') \/ UNCHANGED <<list, dels>>
  BY <1>6, <1>9 DEF RetryWith
<1> QED
  BY <1>2, <1>3, <1>4, <1>5, <1>7, <1>8, <1>9, StillSteps

LEMMA SettledShownStep ==
  ASSUME TypeOK, TypeOK', DelInv, DelInv', ClocksOK, CursorOK, ViewsOK, RowsOfServer,
         AnswersOK, SettledShown, [Next]_vars, ServerStandsStill'
  PROVE  SettledShown'
<1> SUFFICES ASSUME NEW c \in Visible(filter)',
                    tomb'[c].refs > 0, tomb'[c].inFlight = 0,
                    tomb'[c].lastSettledEpoch >= epoch'
             PROVE  rows'[c] > 0
  BY DEF SettledShown
<1>0. c \in Convs
  BY FiltersAssumption DEF TypeOK, Visible
<1>1. /\ tomb[c] \in Tombstone /\ tomb'[c] \in Tombstone /\ epoch \in Nat /\ epoch' \in Nat
      /\ epoch' >= epoch /\ (filter' = filter \/ epoch' > epoch)
  BY <1>0, StepEvolves DEF TypeOK
<1>2. tomb[c].lastSettledEpoch <= epoch
  BY <1>0 DEF ClocksOK
<1>3. epoch' = epoch
  BY <1>0, <1>1, <1>2, StampsAreOfDeletes DEF Tombstone
<1>4. filter' = filter /\ server' = server
  BY <1>1, <1>3, StillSteps
<1>5. c \in Visible(filter)
  BY <1>4 DEF Visible
<1>6. Requesters(c)' = {}
  <2>1. Requesters(c)' \subseteq Deletions
    BY DEF Requesters, Holders
  <2>2. IsFiniteSet(Requesters(c)')
    BY <2>1, ConvsAssumption, FS_Subset
  <2>3. Cardinality(Requesters(c)') = 0
    BY <1>0 DEF DelInv, TombstonesCounted
  <2> QED
    BY <2>2, <2>3, FS_EmptySet
<1>7. CASE Requesters(c) # {}
  BY <1>0, <1>6, <1>7, RequestedStays
<1>8. CASE Requesters(c) = {}
  <2>1. /\ tomb'[c].refs <= tomb[c].refs
        /\ tomb'[c].lastSettledEpoch = tomb[c].lastSettledEpoch
    BY <1>0, <1>6, <1>8, StampsAreOfDeletes
  <2>2. tomb[c].inFlight = 0
    BY <1>0, <1>1, <1>8, RequestersCounted DEF Tombstone
  <2>3. rows[c] > 0
    BY <1>1, <1>3, <1>5, <2>1, <2>2 DEF SettledShown, Tombstone
  <2> QED
    BY <1>1, <1>3, <1>5, <1>6, <2>3, ShownStays
<1> QED
  BY <1>7, <1>8

\* What the list does not lose sight of.
Reachable(c) == \/ rows[c] > 0 \/ Requesters(c) # {}
                \/ nextPage > 0 /\ Position(filter, c) > (nextPage - 1) * PageSize

\* An answer that sets the cursor brings, or finds, everything before it.
LEMMA CursorCovers ==
  ASSUME TypeOK, TypeOK', DelInv, ClocksOK, CursorOK, ViewsOK, RowsOfServer, AnswersOK,
         SettledShown, NoGap, [Next]_vars, ServerStandsStill, ServerStandsStill',
         NEW f \in Fetches, Applies(f), LoadArrives(f) \/ ReconcileArrives(f),
         NEW c \in Visible(filter)
  PROVE  \/ rows'[c] > 0 \/ Requesters(c)' # {}
         \/ nextPage' > 0 /\ Position(filter, c) > (nextPage' - 1) * PageSize
<1> DEFINE got == fetch[f].got
           p == fetch[f].page
           pos == Position(filter, c)
<1>0. c \in Convs /\ filter \in Filters /\ rows[c] \in Nat
  BY FiltersAssumption DEF TypeOK, Visible
<1>1. /\ fetch[f].state = "answered" /\ Pending(f) /\ ~IsStale(f) /\ placed'
      /\ IsLoad(f) \/ IsReconcile(f)
  BY DEF LoadArrives, ReconcileArrives, Pending, Applies
<1>2. fetch[f].view = filter /\ p \in Nat \ {0}
  BY <1>1 DEF ViewsOK, IsStale, CursorOK, TypeOK, Fetch
<1>3. nextPage' = NextAfter(filter, p)
  BY <1>1, <1>2 DEF LoadArrives, ReconcileArrives, AnswersOK
<1>4. /\ pos \in Nat \ {0} /\ pos <= Cardinality(Visible(filter))
      /\ Cardinality(Visible(filter)) \in Nat
      /\ (p - 1) * PageSize \in Nat /\ p * PageSize \in Nat
      /\ ((p + 1) - 1) * PageSize = p * PageSize
  BY <1>0, <1>2, Positions, PageEnds
<1>5. got[c] = IF From(f) < pos /\ pos <= p * PageSize THEN server[c] ELSE 0
  BY <1>0, <1>1, <1>2 DEF AnswersOK, ReadBy, UpTo
<1>6. server[c] > 0
  BY DEF Visible
<1>7. ASSUME rows[c] > 0 \/ Requesters(c) # {}
      PROVE  rows'[c] > 0 \/ Requesters(c)' # {}
  BY <1>0, <1>1, <1>7, ShownStays, RequestedStays
<1>8. CASE pos > p * PageSize
  <2>1. HasMore(filter, p)
    <3> HIDE DEF pos, p
    <3> QED
      BY <1>4, <1>8 DEF HasMore
  <2>2. nextPage' = p + 1
    BY <1>3, <2>1 DEF NextAfter
  <2> QED
    BY <1>2, <1>4, <1>8, <2>2
<1>9. CASE pos <= From(f)
  <2>1. fetch[f].kind = "page" /\ From(f) = (p - 1) * PageSize
    BY <1>4, <1>9 DEF From
  <2>2. nextPage = p /\ placed
    BY <1>1, <1>2, <2>1 DEF CursorOK
  <2>3. ~(pos > (nextPage - 1) * PageSize)
    <3> HIDE DEF pos, p
    <3> QED
      BY <1>4, <1>9, <2>1, <2>2
  <2>4. rows[c] > 0 \/ Requesters(c) # {}
    BY <2>2, <2>3 DEF NoGap
  <2> QED
    BY <1>7, <2>4
<1>10. CASE From(f) < pos /\ pos <= p * PageSize
  <2>1. got[c] > 0
    BY <1>5, <1>6, <1>10
  <2>2. CASE rows[c] > 0 \/ Requesters(c) # {}
    BY <1>7, <2>2
  <2>3. CASE rows[c] = 0 /\ Requesters(c) = {}
    <3>1. tomb[c] \in Tombstone /\ tomb[c].inFlight = 0
      BY <1>0, <2>3, RequestersCounted, SMTT(20) DEF TypeOK, Tombstone
    <3>2. ~Blocked(c, f)
      <4>1. SUFFICES ASSUME Blocked(c, f)
                     PROVE  FALSE
        OBVIOUS
      <4>2. tomb[c].refs > 0 /\ tomb[c].lastSettledEpoch >= epoch
        BY <1>1, <3>1, <4>1 DEF Blocked, Blocks, IsStale, Tombstone, TypeOK
      <4> QED
        BY <2>3, <3>1, <4>2 DEF SettledShown
    <3>3. c \in Pushed(f)
      BY <1>0, <2>1, <2>3, <3>2 DEF Pushed
    <3>4. rows'[c] = rows[c] + 1
      BY <1>0, <1>1, <3>3 DEF LoadArrives, ReconcileArrives
    <3> QED
      BY <1>0, <3>4
  <2> QED
    BY <1>0, <2>2, <2>3
<1>11. From(f) \in Int
  BY <1>4 DEF From
<1> QED
  <2> HIDE DEF pos, p
  <2> QED
    BY <1>4, <1>8, <1>9, <1>10, <1>11 DEF pos

LEMMA FilterMoves == ASSUME TypeOK, [Next]_vars PROVE filter' = filter \/ RetryWith(filter')
<1>1. ASSUME NEW f \in Fetches, FetchSteps(f)
      PROVE  filter' = filter
  BY <1>1 DEF FetchSteps, ServerAnswers, LoadArrives, LoadFails, ReconcileArrives,
              ReconcileFails, SyncArrives, SyncFails, EndSync
<1>2. CASE UserSteps
  BY <1>2 DEF UserSteps, Retry, SetFilters, RunPaging, Refresh, RefreshAgain, EnsureLoaded,
              DeleteConversations
<1>3. CASE ServerSteps
  BY <1>3 DEF ServerSteps, PeerMessage, OtherDeviceDeletes, MessageSent, DeleteTakesEffect,
              ConversationDelete
<1>4. CASE \E d \in Deletions : AnswerSteps(d)
  BY <1>4 DEF AnswerSteps, DeleteAnswered, DeletesSettle
<1> QED
  BY <1>1, <1>2, <1>3, <1>4 DEF Next, vars

LEMMA NoGapStep ==
  ASSUME TypeOK, TypeOK', DelInv, DelInv', EpochsOK, ViewsOK, GapInv, [Next]_vars
  PROVE  NoGap'
<1> SUFFICES ASSUME ServerStandsStill', placed', NEW c \in Visible(filter)'
             PROVE  Reachable(c)'
  BY DEF NoGap, Reachable
<1>0. ServerStandsStill /\ server' = server /\ ClocksOK /\ CursorOK
      /\ RowsOfServer /\ AnswersOK /\ SettledShown /\ NoGap
  BY StillSteps DEF GapInv, StillOK
<1>1. c \in Convs
  BY FiltersAssumption DEF TypeOK, Visible
<1>2. ASSUME NEW f \in Fetches, Applies(f), LoadArrives(f) \/ ReconcileArrives(f)
      PROVE  Reachable(c)'
  <2>1. filter' = filter
    BY <1>2, AppliesEnds
  <2>2. c \in Visible(filter) /\ Position(filter, c)' = Position(filter, c)
    BY <1>0, <2>1 DEF Visible, Position
  <2>3. \/ rows'[c] > 0 \/ Requesters(c)' # {}
        \/ nextPage' > 0 /\ Position(filter, c) > (nextPage' - 1) * PageSize
    BY <1>0, <1>2, <2>2, CursorCovers
  <2> QED
    BY <2>2, <2>3 DEF Reachable
<1>3. ASSUME nextPage' = nextPage, placed' = placed, filter' = filter
      PROVE  Reachable(c)'
  <2>1. c \in Visible(filter) /\ Position(filter, c)' = Position(filter, c)
    BY <1>0, <1>3 DEF Visible, Position
  <2>2. Reachable(c)
    BY <1>0, <1>3, <2>1 DEF NoGap, Reachable
  <2>3. CASE rows[c] > 0
    BY <1>0, <2>1, <2>3, ShownStays DEF Reachable
  <2>4. CASE Requesters(c) # {}
    BY <1>0, <1>1, <2>4, RequestedStays DEF Reachable
  <2>5. CASE nextPage > 0 /\ Position(filter, c) > (nextPage - 1) * PageSize
    BY <1>3, <2>1, <2>5 DEF Reachable
  <2> QED
    BY <2>2, <2>3, <2>4, <2>5 DEF Reachable
<1>4. ASSUME NEW f \in Fetches, Applies(f)
      PROVE  Reachable(c)'
  BY <1>2, <1>3, <1>4 DEF Applies, SyncArrives, EndSync
<1>5. CASE RetryWith(filter')
  BY <1>5 DEF RetryWith
<1>6. ASSUME nextPage' = nextPage, placed' = placed, ~RetryWith(filter')
      PROVE  Reachable(c)'
  <2>1. filter' = filter
    BY <1>6, FilterMoves
  <2> QED
    BY <1>3, <1>6, <2>1
<1>7. CASE UNCHANGED list
  BY <1>5, <1>6, <1>7 DEF list
<1>8. ASSUME NEW d \in Deletions, NEW ids \in SUBSET Convs, DeleteConversations(d, ids)
      PROVE  Reachable(c)'
  BY <1>5, <1>6, <1>8 DEF DeleteConversations
<1>9. ASSUME NEW d \in Deletions, NEW i \in Convs, NEW ok \in BOOLEAN,
             DeleteAnswered(d, i, ok) \/ DeletesSettle(d, i, ok)
      PROVE  Reachable(c)'
  BY <1>3, <1>5, <1>6, <1>9 DEF DeleteAnswered, DeletesSettle, list
<1>10. ASSUME NEW i \in Convs, MessageSent(i)
       PROVE  Reachable(c)'
  BY <1>5, <1>6, <1>10 DEF MessageSent
<1> QED
  BY <1>0, <1>4, <1>5, <1>7, <1>8, <1>9, <1>10, StillSteps DEF Settle

LEMMA StillStep ==
  ASSUME TypeOK, TypeOK', DelInv, DelInv', ViewsOK, GapInv, [Next]_vars
  PROVE  StillOK'
<1> SUFFICES ASSUME ServerStandsStill'
             PROVE  (RowsOfServer /\ AnswersOK /\ SettledShown)'
  BY DEF StillOK
<1>1. /\ server' = server /\ ClocksOK /\ CursorOK
      /\ RowsOfServer /\ AnswersOK /\ SettledShown
  BY StillSteps DEF GapInv, StillOK
<1>2. RowsOfServer'
  BY <1>1, RowsStepStill
<1>3. AnswersOK'
  BY <1>1, AnswersStep
<1>4. SettledShown'
  BY <1>1, SettledShownStep
<1> QED
  BY <1>2, <1>3, <1>4

LEMMA GapInvStep == IInv /\ IInv' /\ GapInv /\ [Next]_vars => GapInv'
<1> SUFFICES ASSUME IInv, IInv', GapInv, [Next]_vars
             PROVE  GapInv'
  OBVIOUS
<1>1. /\ TypeOK /\ DelInv /\ EpochsOK /\ ViewsOK
      /\ TypeOK' /\ DelInv'
  BY DEF IInv
<1>2. OneRefresh /\ OneCurrent /\ CursorOK /\ ClocksOK
  BY DEF GapInv
<1>3. OneRefresh'
  BY <1>1, <1>2, OneRefreshStep
<1>4. OneCurrent'
  BY <1>1, <1>2, OneCurrentStep
<1>5. CursorOK'
  BY <1>1, <1>2, CursorStep
<1>6. ClocksOK'
  BY <1>1, <1>2, ClocksStep
<1>7. StillOK'
  BY <1>1, StillStep
<1>8. NoGap'
  BY <1>1, NoGapStep
<1> QED
  BY <1>3, <1>4, <1>5, <1>6, <1>7, <1>8 DEF GapInv

LEMMA InitGapInv == Init => GapInv
<1> SUFFICES ASSUME Init
             PROVE  GapInv
  OBVIOUS
<1>0. TypeOK
  BY InitInv
<1>1. \A f \in Fetches : f # initial => fetch[f].state = "idle" /\ fetch[f].kind = "free"
  BY RequestFields DEF Init, Request
<1>2. fetch[initial] = Request("hard", 1, filter, 1, Nothing) /\ initial \in Fetches
  BY DEF Init
<1>3. /\ fetch[initial].kind = "hard" /\ fetch[initial].state = "asked"
      /\ fetch[initial].page = 1 /\ fetch[initial].got = Nothing
      /\ fetch[initial].view = filter
  BY <1>2, RequestFields DEF Request
<1>4. \A f \in Fetches : Pending(f) => f = initial
  BY <1>1 DEF Pending
<1>5. OneRefresh
  BY <1>1, <1>3 DEF OneRefresh, IsReconcile, Waiting
<1>6. OneCurrent
  BY <1>4 DEF OneCurrent, Claims
<1>7. CursorOK
  BY <1>3, <1>4 DEF CursorOK, Init
<1>8. ClocksOK
  BY ConvsAssumption, FS_CardinalityType DEF ClocksOK, Init, NoTombstone
<1>9. NoGap
  BY DEF NoGap, Init
<1>10. RowsOfServer
  BY DEF RowsOfServer, Init, Nothing, FreeDeletion
<1>11. AnswersOK
  <2>1. ReadBy(initial) = Nothing
    <3>1. From(initial) = 0 /\ UpTo(initial) = 0
      BY <1>3, PagesAssumption DEF From, UpTo
    <3>2. \A c \in Visible(filter) : Position(filter, c) \in Nat \ {0}
      BY <1>0, Positions DEF TypeOK
    <3> QED
      BY <1>3, <3>1, <3>2 DEF ReadBy, Nothing
  <2> QED
    BY <1>3, <1>4, <2>1 DEF AnswersOK
<1>12. SettledShown
  <2>1. Visible(filter) \subseteq Convs
    BY <1>0, FiltersAssumption DEF TypeOK, Visible
  <2> QED
    BY <2>1 DEF SettledShown, Init, NoTombstone
<1> QED
  BY <1>5, <1>6, <1>7, <1>8, <1>9, <1>10, <1>11, <1>12 DEF GapInv, StillOK

(***************************************************************************)
(* As long as the server's list stands still, every conversation the       *)
(* filter shows has its row, or a delete of it is on the wire, or it lies  *)
(* behind the cursor and the next page brings it: no order of pages,       *)
(* reconciles, syncs, deletes and rollbacks makes paging skip one          *)
(* (conversations-state.svelte.ts:302-346, 400-418, 563-588).              *)
(***************************************************************************)
THEOREM NothingIsSkipped == Spec => []NoGap
<1>1. Spec => [](IInv /\ GapInv)
  BY InitIInv, IInvStep, InitGapInv, GapInvStep, PTL DEF Spec
<1>2. GapInv => NoGap
  BY DEF GapInv
<1> QED
  BY <1>1, <1>2, PTL
=============================================================================
