------------------------ MODULE ReconciledListProofs ------------------------
(***************************************************************************)
(* Theorems about Reconciler, for every throttle, and about a list that    *)
(* subscribes to it, for any profiles, fetches and taps.                   *)
(*                                                                         *)
(* ResyncOnItsWay is inductive once the types are known: the wait is       *)
(* chosen so that the age of the last reconcile and what is left of the    *)
(* timer add up to the throttle, both change together, and only a trigger  *)
(* that is accepted makes the age smaller.                                 *)
(*                                                                         *)
(* Of the list, everything turns on the newest fetch (Covers): once the    *)
(* server has read it, it is no older than what is shown, was read after   *)
(* whatever it must list, or a refresh is remembered and will follow it.   *)
(***************************************************************************)
EXTENDS ReconciledList, TLAPS, SequenceTheorems, WellFoundedInduction

IInv == TypeOK /\ ResyncOnItsWay

Times == /\ age \in 0..Throttle /\ timer \in 0..Throttle \cup {Off}
         /\ activating \in Nat /\ asking \in Nat
Flags == /\ firstConnect \in BOOLEAN /\ wasHidden \in BOOLEAN
         /\ owed \in BOOLEAN

LEMMA InitIInv == Init => IInv
  <1>1. Init => Times
    BY ThrottleAssumption DEF Init, Times
  <1>2. Init => Flags /\ ~owed
    BY Zenon DEF Init, Flags
  <1> QED BY <1>1, <1>2, Zenon DEF IInv, TypeOK, Times, Flags, ResyncOnItsWay

\* A trigger keeps a resync on its way: accepted, it is being started.
LEMMA TriggerKeepsIt ==
  ASSUME Times, Trigger
  PROVE  /\ age' \in 0..Throttle /\ asking' \in Nat
         /\ asking > 0 => asking' > 0
         /\ age' = age \/ asking' > 0
         /\ age >= Throttle => asking' > 0
  BY ThrottleAssumption DEF Times, Trigger, Throttled

LEMMA NumbersStep ==
  ASSUME Times, Next
  PROVE  /\ Times'
         /\ (OnItsWay /\ ~AuthAnswers) => OnItsWay'
  <1> USE ThrottleAssumption, OffAssumption DEF Times, OnItsWay
  <1>1. CASE Connected
    <2>1. CASE firstConnect
      BY <1>1, <2>1 DEF Connected
    <2>2. CASE ~firstConnect
      <3>1. Trigger /\ UNCHANGED <<timer, activating>>
        BY <1>1, <2>2, Zenon DEF Connected
      <3> QED BY <3>1, TriggerKeepsIt
    <2> QED BY <2>1, <2>2
  <1>2. CASE Hidden \/ Visible
    BY <1>2 DEF Hidden, Visible
  <1>3. CASE Activated
    <2>1. Trigger /\ UNCHANGED timer /\ activating > 0 /\ activating' = activating - 1
      BY <1>3, Zenon DEF Activated
    <2> QED BY <2>1, TriggerKeepsIt
  <1>4. CASE EventsDropped
    BY <1>4 DEF EventsDropped, Wait
  <1>5. CASE TimerFires
    <2>1. Trigger /\ timer = 0 /\ timer' = Off /\ UNCHANGED activating
      BY <1>5, Zenon DEF TimerFires
    <2> QED BY <2>1, TriggerKeepsIt
  <1>6. CASE AuthAnswers
    BY <1>6 DEF AuthAnswers
  <1>7. CASE Tick
    BY <1>7 DEF Tick
  <1> QED BY <1>1, <1>2, <1>3, <1>4, <1>5, <1>6, <1>7, Zenon DEF Next

LEMMA NextIInv == IInv /\ [Next]_vars => IInv'
  <1> SUFFICES ASSUME IInv, [Next]_vars PROVE IInv'
    OBVIOUS
  <1>1. CASE UNCHANGED vars
    BY <1>1, Zenon DEF vars, page, IInv, TypeOK, ResyncOnItsWay, OnItsWay
  <1>2. CASE Next
    <2>1. Times /\ Flags /\ (owed => OnItsWay)
      BY Zenon DEF IInv, TypeOK, Times, Flags, ResyncOnItsWay
    <2>2. Times' /\ ((OnItsWay /\ ~AuthAnswers) => OnItsWay')
      BY <1>2, <2>1, NumbersStep
    <2>3. Flags'
      <3>1. CASE EventsDropped
        <4>1. /\ owed' = (owed \/ timer = Off \/ ~Throttled)
              /\ UNCHANGED <<firstConnect, wasHidden>>
          BY <3>1, Zenon DEF EventsDropped, page
        <4> QED BY <2>1, <4>1, Zenon DEF Flags
      <3>2. CASE ~EventsDropped
        BY <1>2, <2>1, <3>2, Zenon DEF Flags, Next, Connected, Hidden, Visible, Activated,
                                  TimerFires, AuthAnswers, Tick, page
      <3> QED BY <3>1, <3>2
    <2>4. owed' => OnItsWay'
      <3>1. CASE AuthAnswers
        BY <3>1, Zenon DEF AuthAnswers
      <3>2. CASE EventsDropped
        <4>1. CASE timer = Off \/ ~Throttled
          BY <2>1, <3>2, <4>1, ThrottleAssumption, OffAssumption
             DEF EventsDropped, Wait, Throttled, Times, OnItsWay
        <4>2. CASE ~(timer = Off \/ ~Throttled)
          <5>1. owed' = owed
            BY <2>1, <3>2, <4>2, Zenon DEF EventsDropped, Flags
          <5>2. CASE AuthAnswers
            BY <5>2, Zenon DEF AuthAnswers
          <5> QED BY <2>1, <2>2, <5>1, <5>2, Zenon
        <4> QED BY <4>1, <4>2
      <3>3. CASE ~AuthAnswers /\ ~EventsDropped
        <4>1. owed' = owed
          BY <1>2, <3>3, Zenon DEF Next, Connected, Hidden, Visible, Activated, TimerFires, Tick
        <4> QED BY <2>1, <2>2, <3>3, <4>1, Zenon
      <3> QED BY <3>1, <3>2, <3>3
    <2> QED BY <2>2, <2>3, <2>4, Zenon DEF IInv, TypeOK, Times, Flags, ResyncOnItsWay
  <1> QED BY <1>1, <1>2

(***************************************************************************)
(* The age and the timer stay within the throttle (reconcile.ts:55-68).    *)
(***************************************************************************)
THEOREM TypeCorrect == Spec => []TypeOK
  <1>1. IInv => TypeOK
    BY DEF IInv
  <1> QED BY <1>1, InitIInv, NextIInv, PTL DEF Spec

(***************************************************************************)
(* A resync that is owed is starting, or its timer is set and will not be  *)
(* throttled when it fires, whatever reconnects and returns to the         *)
(* foreground come first (reconcile.ts:55-71).                             *)
(***************************************************************************)
THEOREM OwedResyncIsOnItsWay == Spec => []ResyncOnItsWay
  <1>1. IInv => ResyncOnItsWay
    BY DEF IInv
  <1> QED BY <1>1, InitIInv, NextIInv, PTL DEF Spec

-----------------------------------------------------------------------------
(* The list: what its invariants rest on *)

\* A refresh asked for while a fetch runs will follow it.
Following == requested /\ List!Busy

Asked == fetch[newest].state = "asked"
Read == fetch[newest].state = "read"

\* What the server sent it knows, and nothing missed is still on the wire.
Sent ==
  /\ \A i \in 1..Len(wire) : /\ missed[wire[i].key] < wire[i].version
                             /\ wire[i].version <= server[wire[i].key]
  /\ \A k \in Keys : missed[k] <= server[k] /\ heard[k] <= server[k] /\ applied[k] <= server[k]
  /\ \A k \in lifted : server[k] # 0

\* Nothing is owed for a profile that is not viewable.
Viewed == \A k \in Keys \ viewable : heard[k] = 0 /\ missed[k] = 0 /\ k \notin lifted

\* What the newest fetch has read is no older than what was applied, lists who was heard,
\* and covers what is lifted or missed, or else another fetch follows.
Covers ==
  Read => \A k \in Keys :
    /\ applied[k] <= fetch[newest].got[k] /\ fetch[newest].got[k] <= server[k]
    /\ heard[k] # 0 => fetch[newest].got[k] # 0 \/ fetch[newest].items[k] # 0
    /\ destroyed \/ Following \/ (k \in lifted => fetch[newest].got[k] # 0)
    /\ destroyed \/ Following \/ OnItsWay \/ fetch[newest].got[k] >= missed[k]

Typed == List!TypeOK /\ missed \in [Keys -> Nat]

\* UnhiddenReturns and DroppedIsMadeUpFor, of one key.
Returns(k) == rows[k] # 0 \/ destroyed \/ Following \/ Asked \/ (Read /\ fetch[newest].got[k] # 0)
MadeUpFor(k) ==
  \/ rows[k] >= missed[k] \/ destroyed \/ OnItsWay \/ Following \/ Asked
  \/ Read /\ fetch[newest].got[k] >= missed[k]

ListInv ==
  /\ Typed /\ Sent /\ Viewed /\ Covers
  /\ NoUnviewableRows /\ ReceivedStaysListed
  /\ (\A k \in lifted : Returns(k)) /\ (\A k \in Keys : MadeUpFor(k))

-----------------------------------------------------------------------------
(* Rows and fetches *)

LEMMA ZeroRows == List!NoRows \in List!Rows /\ \A k \in Keys : List!NoRows[k] = 0
  BY ListAssumption DEF List!NoRows, List!Rows

LEMMA BegunType ==
  ASSUME NEW load \in BOOLEAN
  PROVE  /\ List!Begun(load) \in List!Fetch
         /\ List!Begun(load).state = "asked" /\ List!Begun(load).load = load
  BY ZeroRows DEF List!Begun, List!FreeFetch, List!Fetch

LEMMA FreeType == List!FreeFetch \in List!Fetch /\ List!FreeFetch.state = "free"
  BY ZeroRows DEF List!FreeFetch, List!Fetch

\* The types, one by one.
LEMMA Types ==
  ASSUME Typed
  PROVE  /\ server \in [Keys -> Nat] /\ rows \in [Keys -> Nat] /\ heard \in [Keys -> Nat]
         /\ applied \in [Keys -> Nat] /\ missed \in [Keys -> Nat]
         /\ wire \in Seq([key: Keys, version: 1..MaxTaps])
         /\ viewable \subseteq Keys /\ lifted \subseteq Keys
         /\ loading \in BOOLEAN /\ refreshing \in BOOLEAN /\ requested \in BOOLEAN
         /\ error \in BOOLEAN /\ loaded \in BOOLEAN /\ destroyed \in BOOLEAN
         /\ newest \in Fetches /\ fetch \in [Fetches -> List!Fetch]
         /\ \A f \in Fetches : /\ fetch[f] \in List!Fetch
                               /\ fetch[f].state \in {"free", "asked", "read"}
                               /\ fetch[f].load \in BOOLEAN
                               /\ fetch[f].got \in [Keys -> Nat]
                               /\ fetch[f].items \in [Keys -> Nat]
         /\ buffer = IF fetch[newest].state = "free" THEN None ELSE newest
  <1>1. List!Rows \subseteq [Keys -> Nat]
    BY ListAssumption DEF List!Rows
  <1>2. ASSUME NEW f \in Fetches
        PROVE  /\ fetch[f] \in List!Fetch
               /\ fetch[f].state \in {"free", "asked", "read"} /\ fetch[f].load \in BOOLEAN
               /\ fetch[f].got \in [Keys -> Nat] /\ fetch[f].items \in [Keys -> Nat]
    <2>1. fetch[f] \in List!Fetch
      BY DEF Typed, List!TypeOK
    <2> QED BY <1>1, <2>1 DEF List!Fetch
  <1> QED BY <1>1, <1>2 DEF Typed, List!TypeOK

\* What a step leaves of the fetches: a new one takes the slot, or the newest stays, or
\* the newest is over.
Turned ==
  \/ fetch'[newest'].state = "asked"
  \/ newest' = newest /\ fetch'[newest] = fetch[newest] /\ (Following /\ ~destroyed => Following')
  \/ newest' = newest /\ fetch'[newest].state = "free" /\ (Following /\ ~destroyed => Following')

FetchesTyped ==
  /\ newest \in Fetches /\ fetch \in [Fetches -> List!Fetch]
  /\ loading \in BOOLEAN /\ refreshing \in BOOLEAN /\ requested \in BOOLEAN
  /\ buffer = IF fetch[newest].state = "free" THEN None ELSE newest

LEMMA BeginStep ==
  ASSUME Typed, NEW load \in BOOLEAN, List!Begin(load)
  PROVE  /\ newest' \in Fetches /\ fetch' \in [Fetches -> List!Fetch] /\ requested' = FALSE
         /\ fetch'[newest'].state = "asked" /\ buffer' = newest'
  <1> DEFINE f == CHOOSE g \in Fetches : fetch[g].state = "free"
  <1>1. f \in Fetches
    BY DEF List!Begin
  <1>2. /\ fetch' = [fetch EXCEPT ![f] = List!Begun(load)]
        /\ newest' = f /\ buffer' = f /\ requested' = FALSE
    BY DEF List!Begin
  <1> HIDE DEF f
  <1> QED BY <1>1, <1>2, BegunType, Types

LEMMA AskRefreshStep ==
  ASSUME Typed, List!AskRefresh
  PROVE  /\ FetchesTyped' /\ Turned
         /\ ~destroyed => Following' \/ Asked'
         /\ UNCHANGED <<rows, error, loaded, destroyed, applied>>
  <1>1. UNCHANGED <<rows, error, loaded, destroyed, applied>>
    BY DEF List!AskRefresh
  <1>2. CASE destroyed
    BY <1>2, Types DEF List!AskRefresh, List!flags, FetchesTyped, Turned, Following, List!Busy
  <1>3. CASE ~destroyed /\ List!Busy
    BY <1>3, Types DEF List!AskRefresh, List!Remembered, FetchesTyped, Turned, Following, List!Busy
  <1>4. CASE ~destroyed /\ ~List!Busy
    <2>1. List!Begin(FALSE) /\ refreshing' = TRUE /\ UNCHANGED loading
      BY <1>4 DEF List!AskRefresh
    <2> QED BY <1>1, <1>4, <2>1, BeginStep, Types DEF FetchesTyped, Turned, Asked
  <1> QED BY <1>1, <1>2, <1>3, <1>4

LEMMA HardLoadStep ==
  ASSUME Typed, List!HardLoad
  PROVE  /\ FetchesTyped' /\ Turned /\ Asked'
         /\ error' = FALSE /\ ~destroyed
         /\ UNCHANGED <<server, wire, viewable, rows, loaded, destroyed, heard, applied, lifted>>
  <1>1. /\ List!Begin(TRUE) /\ loading' = TRUE /\ error' = FALSE /\ ~destroyed
        /\ UNCHANGED <<server, wire, viewable, rows, refreshing, loaded, destroyed, heard, applied,
                       lifted>>
    BY DEF List!HardLoad, List!world
  <1> QED BY <1>1, BeginStep, Types DEF FetchesTyped, Turned, Asked

\* The end of a fetch.
LEMMA EndsStep ==
  ASSUME Typed, NEW f \in Fetches, List!Ends(f), fetch[f].state # "free"
  PROVE  /\ FetchesTyped' /\ Turned
         /\ f = newest => Asked' \/ (newest' = newest /\ fetch'[newest].state = "free")
         /\ f # newest => Asked' \/ (newest' = newest /\ fetch'[newest] = fetch[newest])
         /\ Following /\ ~destroyed => Following' \/ Asked'
         /\ UNCHANGED <<server, wire, viewable, destroyed, heard>>
  <1>1. /\ loading' = (loading /\ ~fetch[f].load) /\ List!RunRequested(f)
        /\ UNCHANGED <<server, wire, viewable, destroyed, heard>>
    BY DEF List!Ends, List!world
  <1>2. /\ loading \in BOOLEAN /\ refreshing \in BOOLEAN /\ requested \in BOOLEAN
        /\ destroyed \in BOOLEAN /\ fetch[f].load \in BOOLEAN /\ newest \in Fetches
        /\ fetch \in [Fetches -> List!Fetch]
        /\ buffer = IF fetch[newest].state = "free" THEN None ELSE newest
    BY Types
  <1>3. CASE List!StartsRequested(f)
    <2>1. /\ refreshing' = TRUE /\ requested' = FALSE /\ newest' = f /\ buffer' = f
          /\ fetch' = [fetch EXCEPT ![f] = List!Begun(FALSE)]
      BY <1>1, <1>3 DEF List!RunRequested
    <2>2. fetch' \in [Fetches -> List!Fetch] /\ fetch'[newest'].state = "asked"
      BY <1>2, <2>1, BegunType
    <2>3. loading' \in BOOLEAN
      BY <1>1, <1>2
    <2> QED BY <1>1, <2>1, <2>2, <2>3 DEF FetchesTyped, Turned, Asked
  <1>4. CASE ~List!StartsRequested(f)
    <2>1. /\ refreshing' = (refreshing /\ fetch[f].load)
          /\ requested' = (requested /\ ~destroyed)
          /\ newest' = newest /\ buffer' = IF buffer = f THEN None ELSE buffer
          /\ fetch' = [fetch EXCEPT ![f] = List!FreeFetch]
      BY <1>1, <1>4 DEF List!RunRequested, List!BufferAfter
    <2>2. Following /\ ~destroyed => Following'
      BY <1>1, <1>2, <1>4, <2>1, Zenon DEF Following, List!Busy, List!StartsRequested
    <2>3. /\ fetch' \in [Fetches -> List!Fetch]
          /\ \A g \in Fetches : fetch'[g] = IF g = f THEN List!FreeFetch ELSE fetch[g]
      BY <1>2, <2>1, FreeType
    <2>4. buffer' = IF fetch'[newest].state = "free" THEN None ELSE newest
      BY <1>2, <2>1, <2>3, FreeType, ListAssumption
    <2>5. loading' \in BOOLEAN /\ refreshing' \in BOOLEAN /\ requested' \in BOOLEAN
      BY <1>1, <2>1, Zenon
    <2>6. FetchesTyped'
      BY <1>2, <2>1, <2>3, <2>4, <2>5 DEF FetchesTyped
    <2>7. f = newest => fetch'[newest].state = "free"
      BY <2>3, FreeType
    <2>8. f # newest => fetch'[newest] = fetch[newest]
      BY <1>2, <2>3
    <2> QED BY <1>1, <2>1, <2>2, <2>6, <2>7, <2>8 DEF Turned
  <1> QED BY <1>3, <1>4

-----------------------------------------------------------------------------
(* Items on the wire *)

LEMMA NatMin == ASSUME NEW T, T \subseteq Nat, T # {}
                PROVE  \E x \in T : \A y \in T : x <= y
  <1>1. PICK x \in T : \A y \in T : ~ (<<y, x>> \in OpToRel(<, Nat))
    BY NatLessThanWellFounded, WFMin
  <1>2. ASSUME NEW y \in T PROVE x <= y
    <2>1. x \in Nat /\ y \in Nat
      OBVIOUS
    <2>2. ~(y < x)
      BY <1>1, <2>1 DEF OpToRel
    <2> QED BY <2>1, <2>2
  <1> QED BY <1>2

\* A bounded set of naturals has a maximum.
LEMMA MaxBounded == ASSUME NEW S, S # {}, S \subseteq Nat, NEW b \in Nat, \A x \in S : x <= b
                    PROVE  Max(S) \in S
  <1> DEFINE T == {n \in Nat : \E x \in S : n = b - x}
  <1>1. T # {}
    <2>1. PICK x \in S : TRUE
      OBVIOUS
    <2>2. b - x \in T
      BY <2>1
    <2> QED BY <2>2
  <1>2. PICK t \in T : \A u \in T : t <= u
    <2>1. T \subseteq Nat
      OBVIOUS
    <2> HIDE DEF T
    <2> QED BY <1>1, <2>1, NatMin
  <1>3. PICK x \in S : t = b - x
    BY <1>2
  <1>4. ASSUME NEW y \in S PROVE x >= y
    <2>1. b - y \in T
      OBVIOUS
    <2>2. t <= b - y
      BY <1>2, <2>1
    <2> QED BY <1>3, <2>2
  <1> QED BY <1>4 DEF Max

LEMMA WireItem ==
  ASSUME Typed, NEW i \in 1..Len(wire)
  PROVE  /\ wire[i] \in [key: Keys, version: 1..MaxTaps]
         /\ wire[i].key \in Keys /\ wire[i].version \in Nat /\ wire[i].version # 0
         /\ wire[i].version <= MaxTaps
  <1>1. wire[i] \in [key: Keys, version: 1..MaxTaps]
    BY Types, ElementOfSeq
  <1> QED BY <1>1, ListAssumption

LEMMA OnWireKnown ==
  ASSUME Typed, Sent, NEW k \in Keys
  PROVE  OnWire(k) \in Nat /\ OnWire(k) <= server[k]
  <1> DEFINE J == {j \in 1..Len(wire) : wire[j].key = k}
             S == {0} \cup {wire[i].version : i \in J}
  <1>1. \A x \in S : x = 0 \/ \E i \in 1..Len(wire) : wire[i].key = k /\ x = wire[i].version
    OBVIOUS
  <1>2. ASSUME NEW x \in S PROVE x \in Nat /\ x <= MaxTaps /\ x <= server[k]
    <2>1. CASE x = 0
      BY <2>1, Types, ListAssumption
    <2>2. ASSUME NEW i \in 1..Len(wire), wire[i].key = k, x = wire[i].version
          PROVE  x \in Nat /\ x <= MaxTaps /\ x <= server[k]
      BY <2>2, WireItem DEF Sent
    <2> QED BY <1>1, <2>1, <2>2
  <1>3. 0 \in S
    OBVIOUS
  <1>4. OnWire(k) = Max(S)
    BY DEF OnWire
  <1> HIDE DEF S
  <1>5. Max(S) \in S
    <2>1. S # {} /\ S \subseteq Nat /\ \A x \in S : x <= MaxTaps
      BY <1>2, <1>3
    <2> QED BY <2>1, MaxBounded, ListAssumption
  <1> QED BY <1>2, <1>4, <1>5

-----------------------------------------------------------------------------
(* What a step preserves *)

\* A step that turns the fetches, shows nothing else and lifts nobody unless a fetch follows.
LEMMA CoversTurned ==
  ASSUME Typed, Typed', Covers, Turned, destroyed' = destroyed, server' = server,
         \A k \in Keys : /\ applied'[k] = applied[k]
                         /\ heard'[k] \in {heard[k], 0} /\ missed'[k] \in {missed[k], 0},
         \A k \in lifted' \ lifted : destroyed \/ Following' \/ Asked',
         OnItsWay => OnItsWay' \/ destroyed \/ Following' \/ Asked'
  PROVE  Covers'
  <1>1. CASE ~Read'
    BY <1>1 DEF Covers
  <1>2. CASE Read'
    <2>1. newest' = newest /\ fetch'[newest] = fetch[newest]
      BY <1>2 DEF Turned, Read
    <2>2. Following /\ ~destroyed => Following'
      BY <1>2 DEF Turned, Read
    <2>3. Read /\ ~Asked'
      BY <1>2, <2>1 DEF Read, Asked
    <2> SUFFICES ASSUME NEW k \in Keys
                 PROVE  /\ applied'[k] <= fetch[newest].got[k] /\ fetch[newest].got[k] <= server'[k]
                        /\ heard'[k] # 0 => fetch[newest].got[k] # 0 \/ fetch[newest].items[k] # 0
                        /\ destroyed \/ Following' \/ (k \in lifted' => fetch[newest].got[k] # 0)
                        /\ destroyed \/ Following' \/ OnItsWay' \/ fetch[newest].got[k] >= missed'[k]
      BY <2>1 DEF Covers
    <2>4. /\ applied[k] <= fetch[newest].got[k] /\ fetch[newest].got[k] <= server[k]
          /\ heard[k] # 0 => fetch[newest].got[k] # 0 \/ fetch[newest].items[k] # 0
          /\ destroyed \/ Following \/ (k \in lifted => fetch[newest].got[k] # 0)
          /\ destroyed \/ Following \/ OnItsWay \/ fetch[newest].got[k] >= missed[k]
      BY <2>3 DEF Covers
    <2>5. fetch[newest].got[k] \in Nat /\ missed[k] \in Nat
      BY Types
    <2> QED BY <2>2, <2>3, <2>4, <2>5
  <1> QED BY <1>1, <1>2

\* The same of what is lifted and missed, for the keys whose row stays, when the newest fetch
\* goes on or gives way to another.
LEMMA RowsTurned ==
  ASSUME Typed, Typed', destroyed' = destroyed, NEW k \in Keys, rows'[k] = rows[k],
         \/ Asked'
         \/ newest' = newest /\ fetch'[newest] = fetch[newest],
         Following /\ ~destroyed => Following' \/ Asked'
  PROVE  /\ (k \in lifted => Returns(k)) /\ (k \in lifted' \ lifted => destroyed \/ Following' \/ Asked')
           => (k \in lifted' => Returns(k)')
         /\ MadeUpFor(k) /\ missed'[k] \in {missed[k], 0}
              /\ (OnItsWay => OnItsWay' \/ destroyed \/ Following' \/ Asked')
           => MadeUpFor(k)'
  <1>1. rows[k] \in Nat /\ missed[k] \in Nat
    BY Types
  <1> QED BY <1>1 DEF Returns, MadeUpFor, Asked, Read

\* What the observers keep when only they, the server and the rows of others move.
LEMMA SentKept ==
  ASSUME Typed, Sent, UNCHANGED wire, \A k \in Keys : server[k] <= server'[k] /\ server'[k] \in Nat,
         \A k \in Keys : /\ missed'[k] \in {missed[k], 0} /\ heard'[k] \in {heard[k], 0}
                         /\ applied'[k] = applied[k],
         \A k \in lifted' : k \in Keys /\ (k \in lifted \/ server[k] # 0)
  PROVE  Sent'
  <1>1. ASSUME NEW i \in 1..Len(wire)
        PROVE  missed'[wire[i].key] < wire[i].version /\ wire[i].version <= server'[wire[i].key]
    <2>1. /\ wire[i].key \in Keys /\ wire[i].version \in Nat /\ wire[i].version # 0
          /\ missed[wire[i].key] < wire[i].version /\ wire[i].version <= server[wire[i].key]
          /\ server[wire[i].key] \in Nat
      BY WireItem, Types DEF Sent
    <2> QED BY <2>1
  <1>2. ASSUME NEW k \in Keys
        PROVE  missed'[k] <= server'[k] /\ heard'[k] <= server'[k] /\ applied'[k] <= server'[k]
    <2>1. /\ server[k] \in Nat /\ missed[k] \in Nat /\ heard[k] \in Nat /\ applied[k] \in Nat
          /\ missed[k] <= server[k] /\ heard[k] <= server[k] /\ applied[k] <= server[k]
      BY Types DEF Sent
    <2> QED BY <2>1
  <1>3. ASSUME NEW k \in lifted' PROVE server'[k] # 0
    <2>1. k \in Keys /\ server[k] \in Nat /\ server[k] # 0
      BY <1>3, Types DEF Sent
    <2> QED BY <2>1
  <1> QED BY <1>1, <1>2, <1>3 DEF Sent

LEMMA RowTypes ==
  ASSUME Typed
  PROVE  /\ server \in List!Rows /\ rows \in List!Rows /\ heard \in List!Rows
         /\ applied \in List!Rows /\ FetchesTyped
         /\ \A f \in Fetches : fetch[f].got \in List!Rows /\ fetch[f].items \in List!Rows
         /\ List!Rows = [Keys -> 0..MaxTaps]
  BY Types DEF Typed, List!TypeOK, List!Fetch, FetchesTyped, List!Rows

LEMMA TypedNext ==
  ASSUME FetchesTyped', server' \in List!Rows, rows' \in List!Rows, heard' \in List!Rows,
         applied' \in List!Rows, wire' \in Seq([key: Keys, version: 1..MaxTaps]),
         viewable' \subseteq Keys, lifted' \subseteq Keys, error' \in BOOLEAN,
         loaded' \in BOOLEAN, destroyed' \in BOOLEAN, missed' \in [Keys -> Nat]
  PROVE  Typed'
  BY DEF Typed, List!TypeOK, FetchesTyped

\* The types of a step that only turns the fetches.
LEMMA TypedTurned ==
  ASSUME Typed, FetchesTyped', UNCHANGED <<server, wire, viewable, rows, heard, applied>>,
         lifted' \subseteq Keys, error' \in BOOLEAN, loaded' \in BOOLEAN,
         destroyed' \in BOOLEAN, missed' \in [Keys -> Nat]
  PROVE  Typed'
  BY TypedNext, RowTypes, Types

-----------------------------------------------------------------------------
(* The steps *)

\* The page and the timers, and events that are lost with the connection.
LEMMA LosesStep ==
  ASSUME ListInv, Loses,
         \/ missed' = missed /\ (OnItsWay => OnItsWay')
         \/ /\ OnItsWay' /\ wire' # wire
            /\ missed' = [k \in Keys |-> IF k \in viewable /\ OnWire(k) # 0 THEN OnWire(k)
                                         ELSE missed[k]]
  PROVE  ListInv'
  <1> USE DEF ListInv
  <1>1. /\ UNCHANGED <<server, viewable, rows, loading, refreshing, requested, error, loaded,
                       destroyed, newest, buffer, fetch, heard, applied, lifted>>
        /\ wire' = wire \/ wire' = <<>>
    BY DEF Loses, List!Lose, listVars, List!flags
  <1>2. \A k \in Keys : OnWire(k) \in Nat /\ OnWire(k) <= server[k]
    BY OnWireKnown
  <1>3. /\ missed' \in [Keys -> Nat]
        /\ \A k \in Keys : missed'[k] <= server[k]
        /\ \A k \in Keys \ viewable : missed'[k] = missed[k]
    BY <1>2, Types DEF Sent
  <1>4. wire' \in Seq([key: Keys, version: 1..MaxTaps])
    BY <1>1, Types, EmptySeq
  <1>5. FetchesTyped'
    BY <1>1, Types DEF FetchesTyped
  <1>6. Typed'
    BY <1>1, <1>3, <1>4, <1>5, TypedNext, RowTypes, Types
  <1>7. Sent'
    <2>1. CASE wire' = <<>>
      BY <1>1, <1>3, <2>1 DEF Sent
    <2>2. CASE wire' = wire
      BY <1>1, <2>2 DEF Sent
    <2> QED BY <1>1, <2>1, <2>2
  <1>8. Viewed'
    BY <1>1, <1>3 DEF Viewed
  <1>9. Following' = Following /\ Asked' = Asked /\ Read' = Read
    BY <1>1 DEF Following, Asked, Read, List!Busy
  <1>10. Covers'
    <2>1. CASE missed' = missed /\ (OnItsWay => OnItsWay')
      BY <1>1, <1>9, <2>1 DEF Covers
    <2>2. CASE OnItsWay'
      BY <1>1, <1>9, <2>2 DEF Covers
    <2> QED BY <2>1, <2>2
  <1>11. NoUnviewableRows' /\ ReceivedStaysListed'
    BY <1>1 DEF NoUnviewableRows, ReceivedStaysListed, List!NoUnviewableRows,
               List!ReceivedStaysListed
  <1>12. \A k \in lifted' : Returns(k)'
    BY <1>1, <1>9 DEF Returns
  <1>13. \A k \in Keys : MadeUpFor(k)'
    BY <1>1, <1>9 DEF MadeUpFor
  <1> QED BY <1>6, <1>7, <1>8, <1>10, <1>11, <1>12, <1>13

\* A refresh, for the reconciler or the user; the one of the reconciler stands in for the
\* resync that was on its way.
LEMMA RefreshStep ==
  ASSUME ListInv, List!Refresh, UNCHANGED missed
  PROVE  ListInv'
  <1> USE DEF ListInv
  <1>1. /\ List!AskRefresh
        /\ UNCHANGED <<server, wire, viewable, heard, lifted, missed>>
    BY DEF List!Refresh, List!world
  <1>2. /\ FetchesTyped' /\ Turned
        /\ ~destroyed => Following' \/ Asked'
        /\ UNCHANGED <<rows, error, loaded, destroyed, applied>>
    BY <1>1, AskRefreshStep
  <1>3. Typed'
    BY <1>1, <1>2, TypedTurned, Types
  <1>4. Sent'
    BY <1>1, <1>2 DEF Sent
  <1>5. Viewed'
    BY <1>1 DEF Viewed
  <1>6. Covers'
    BY <1>1, <1>2, <1>3, CoversTurned
  <1>7. NoUnviewableRows' /\ ReceivedStaysListed'
    BY <1>1, <1>2 DEF NoUnviewableRows, ReceivedStaysListed, List!NoUnviewableRows,
                      List!ReceivedStaysListed
  <1>8. (\A k \in lifted' : Returns(k)') /\ (\A k \in Keys : MadeUpFor(k)')
    BY <1>2 DEF Returns, MadeUpFor
  <1> QED BY <1>3, <1>4, <1>5, <1>6, <1>7, <1>8

LEMMA UnhideStep ==
  ASSUME ListInv, NEW k \in Keys, List!Unhide(k), UNCHANGED missed, OnItsWay => OnItsWay'
  PROVE  ListInv'
  <1> USE DEF ListInv
  <1>1. /\ List!AskRefresh /\ k \notin viewable /\ viewable' = viewable \cup {k}
        /\ lifted' = IF server[k] # 0 THEN lifted \cup {k} ELSE lifted
        /\ UNCHANGED <<server, wire, heard, missed>>
    BY DEF List!Unhide
  <1>2. /\ FetchesTyped' /\ Turned
        /\ ~destroyed => Following' \/ Asked'
        /\ UNCHANGED <<rows, error, loaded, destroyed, applied>>
    BY <1>1, AskRefreshStep
  <1>3. Typed'
    <2>1. viewable' \subseteq Keys /\ lifted' \subseteq Keys
      BY <1>1, Types
    <2> QED BY <1>1, <1>2, <2>1, TypedNext, RowTypes, Types
  <1>4. Sent'
    <2>1. \A j \in lifted' : server[j] # 0
      BY <1>1 DEF Sent
    <2> QED BY <1>1, <1>2, <2>1 DEF Sent
  <1>5. Viewed'
    BY <1>1 DEF Viewed
  <1>6. Covers'
    BY <1>1, <1>2, <1>3, CoversTurned
  <1>7. NoUnviewableRows' /\ ReceivedStaysListed'
    BY <1>1, <1>2 DEF NoUnviewableRows, ReceivedStaysListed, List!NoUnviewableRows,
                      List!ReceivedStaysListed
  <1>8. (\A j \in lifted' : Returns(j)') /\ (\A j \in Keys : MadeUpFor(j)')
    BY <1>2 DEF Returns, MadeUpFor
  <1> QED BY <1>3, <1>4, <1>5, <1>6, <1>7, <1>8

LEMMA HardLoadKeeps ==
  ASSUME ListInv, List!HardLoad, UNCHANGED missed
  PROVE  ListInv'
  <1> USE DEF ListInv
  <1>1. /\ FetchesTyped' /\ Turned /\ Asked' /\ error' = FALSE
        /\ UNCHANGED <<server, wire, viewable, rows, loaded, destroyed, heard, applied, lifted>>
    BY HardLoadStep
  <1>2. Typed'
    BY <1>1, TypedTurned, Types
  <1>3. Sent' /\ Viewed'
    BY <1>1 DEF Sent, Viewed
  <1>4. Covers'
    BY <1>1 DEF Covers, Asked, Read
  <1>5. NoUnviewableRows' /\ ReceivedStaysListed'
    BY <1>1 DEF NoUnviewableRows, ReceivedStaysListed, List!NoUnviewableRows,
                List!ReceivedStaysListed
  <1>6. (\A k \in lifted' : Returns(k)') /\ (\A k \in Keys : MadeUpFor(k)')
    BY <1>1 DEF Returns, MadeUpFor
  <1> QED BY <1>2, <1>3, <1>4, <1>5, <1>6

LEMMA TapStep ==
  ASSUME ListInv, NEW k \in Keys, List!Tap(k), UNCHANGED missed, OnItsWay => OnItsWay'
  PROVE  ListInv'
  <1> USE DEF ListInv
  <1>1. /\ server[k] < MaxTaps /\ server' = [server EXCEPT ![k] = @ + 1]
        /\ wire' = Append(wire, [key |-> k, version |-> server[k] + 1])
        /\ UNCHANGED <<viewable, rows, loading, refreshing, requested, error, loaded, destroyed,
                       newest, buffer, fetch, heard, applied, lifted, missed>>
    BY DEF List!Tap, List!flags
  <1> DEFINE item == [key |-> k, version |-> server[k] + 1]
  <1>2. /\ server[k] \in Nat /\ server[k] + 1 \in 1..MaxTaps
        /\ server' \in List!Rows
    <2>1. server \in [Keys -> 0..MaxTaps] /\ server[k] \in 0..MaxTaps /\ MaxTaps \in Nat
      BY RowTypes, ListAssumption
    <2>2. server[k] + 1 \in 1..MaxTaps /\ server[k] + 1 \in 0..MaxTaps
      BY <1>1, <2>1
    <2>3. [server EXCEPT ![k] = server[k] + 1] \in [Keys -> 0..MaxTaps]
      BY <2>1, <2>2
    <2>4. server' \in [Keys -> 0..MaxTaps]
      BY <1>1, <2>3
    <2>5. server' \in List!Rows
      BY <2>4, RowTypes
    <2> QED BY <2>1, <2>2, <2>5
  <1>3. /\ item \in [key: Keys, version: 1..MaxTaps]
        /\ wire \in Seq([key: Keys, version: 1..MaxTaps])
    BY <1>2, Types
  <1>4. /\ wire' \in Seq([key: Keys, version: 1..MaxTaps])
        /\ Len(wire') = Len(wire) + 1 /\ Len(wire) \in Nat
        /\ \A i \in 1..Len(wire) : wire'[i] = wire[i]
        /\ wire'[Len(wire) + 1] = item
    <2> HIDE DEF item
    <2>1. wire' = Append(wire, item)
      BY <1>1 DEF item
    <2> QED BY <1>3, <2>1, AppendProperties, LenProperties
  <1>5. Typed'
    BY <1>1, <1>2, <1>4, TypedNext, RowTypes, Types DEF FetchesTyped
  <1>6. Sent'
    <2>2. \A j \in Keys : server[j] \in Nat /\ server'[j] \in Nat /\ server[j] <= server'[j]
      BY <1>1, Types
    <2>1. ASSUME NEW i \in 1..Len(wire')
          PROVE  missed[wire'[i].key] < wire'[i].version /\ wire'[i].version <= server'[wire'[i].key]
      <3>1. CASE i = Len(wire) + 1
        <4>1. missed[k] \in Nat /\ missed[k] <= server[k] /\ server'[k] = server[k] + 1
          BY <1>1, <1>2, Types DEF Sent
        <4> QED BY <1>2, <1>4, <3>1, <4>1
      <3>2. CASE i \in 1..Len(wire)
        <4>1. /\ wire'[i] = wire[i] /\ wire[i].key \in Keys /\ wire[i].version \in Nat
              /\ missed[wire[i].key] < wire[i].version
              /\ wire[i].version <= server[wire[i].key]
          BY <1>4, <3>2, WireItem DEF Sent
        <4>2. server[wire[i].key] <= server'[wire[i].key] /\ server[wire[i].key] \in Nat
              /\ server'[wire[i].key] \in Nat
          BY <2>2, <4>1
        <4> QED BY <4>1, <4>2
      <3> QED BY <1>4, <3>1, <3>2
    <2>3. \A j \in Keys : /\ missed[j] <= server'[j] /\ heard[j] <= server'[j]
                          /\ applied[j] <= server'[j]
      BY <2>2, Types DEF Sent
    <2>4. \A j \in lifted : server'[j] # 0
      <3>1. \A j \in lifted : j \in Keys /\ server[j] # 0
        BY Types DEF Sent
      <3> QED BY <2>2, <3>1
    <2> QED BY <1>1, <2>1, <2>3, <2>4 DEF Sent
  <1>7. Viewed' /\ NoUnviewableRows' /\ ReceivedStaysListed'
    BY <1>1 DEF Viewed, NoUnviewableRows, ReceivedStaysListed, List!NoUnviewableRows,
                List!ReceivedStaysListed
  <1>8. Following' = Following /\ Asked' = Asked /\ Read' = Read
    BY <1>1 DEF Following, Asked, Read, List!Busy
  <1>9. (\A j \in lifted' : Returns(j)') /\ (\A j \in Keys : MadeUpFor(j)')
    BY <1>1, <1>8 DEF Returns, MadeUpFor
  <1>10. Covers'
    <2>1. ASSUME Read, NEW j \in Keys PROVE fetch[newest].got[j] <= server'[j]
      <3>1. fetch[newest].got[j] \in Nat /\ server[j] \in Nat /\ server'[j] \in Nat
        BY <1>1, Types
      <3>2. fetch[newest].got[j] <= server[j] /\ server[j] <= server'[j]
        BY <1>1, <2>1, Types DEF Covers
      <3> QED BY <3>1, <3>2
    <2> QED BY <1>1, <1>8, <2>1 DEF Covers
  <1> QED BY <1>5, <1>6, <1>7, <1>9, <1>10

LEMMA HideStep ==
  ASSUME ListInv, NEW k \in Keys, List!Hide(k), missed' = [missed EXCEPT ![k] = 0],
         OnItsWay => OnItsWay'
  PROVE  ListInv'
  <1> USE DEF ListInv
  <1>1. /\ viewable' = viewable \ {k}
        /\ rows' = IF destroyed THEN rows ELSE [rows EXCEPT ![k] = 0]
        /\ heard' = [heard EXCEPT ![k] = 0] /\ lifted' = lifted \ {k}
        /\ UNCHANGED <<server, wire, loading, refreshing, requested, error, loaded, destroyed,
                       newest, buffer, fetch, applied>>
    BY DEF List!Hide, List!flags
  <1>2. /\ rows' \in List!Rows /\ heard' \in List!Rows /\ missed' \in [Keys -> Nat]
    <2>1. ASSUME NEW row \in List!Rows PROVE [row EXCEPT ![k] = 0] \in List!Rows
      <3>1. 0 \in 0..MaxTaps
        BY ListAssumption
      <3> QED BY <3>1, RowTypes
    <2>2. [missed EXCEPT ![k] = 0] \in [Keys -> Nat]
      BY Types
    <2> QED BY <1>1, <2>1, <2>2, RowTypes
  <1>3. Typed'
    BY <1>1, <1>2, TypedNext, RowTypes, Types DEF FetchesTyped
  <1>4. \A j \in Keys : /\ missed'[j] = (IF j = k THEN 0 ELSE missed[j])
                        /\ heard'[j] = (IF j = k THEN 0 ELSE heard[j])
    BY <1>1, Types
  <1>5. Sent'
    <2>1. \A j \in Keys : server[j] <= server'[j] /\ server'[j] \in Nat
      BY <1>1, Types
    <2>2. \A j \in lifted' : j \in Keys /\ (j \in lifted \/ server[j] # 0)
      BY <1>1, Types
    <2> QED BY <1>1, <1>4, <2>1, <2>2, SentKept
  <1>6. Viewed'
    BY <1>1, <1>4 DEF Viewed
  <1>7. Following' = Following /\ Asked' = Asked /\ Read' = Read
    BY <1>1 DEF Following, Asked, Read, List!Busy
  <1>8. Covers'
    <2>1. Turned
      BY <1>1, <1>7 DEF Turned
    <2> QED BY <1>1, <1>3, <1>4, <2>1, CoversTurned
  <1>9. NoUnviewableRows' /\ ReceivedStaysListed'
    BY <1>1, <1>4, Types DEF NoUnviewableRows, ReceivedStaysListed, List!NoUnviewableRows,
                             List!ReceivedStaysListed
  <1>10. (\A j \in lifted' : Returns(j)') /\ (\A j \in Keys : MadeUpFor(j)')
    <2>1. ASSUME NEW j \in Keys, j # k
          PROVE  (j \in lifted' => Returns(j)') /\ MadeUpFor(j)'
      <3>1. rows'[j] = rows[j] /\ missed'[j] = missed[j]
        BY <1>1, <1>4, <2>1, Types
      <3> QED BY <1>1, <1>7, <2>1, <3>1 DEF Returns, MadeUpFor
    <2>2. k \notin lifted' /\ missed'[k] = 0 /\ rows'[k] \in Nat
      BY <1>1, <1>2, <1>4, ListAssumption, Types
    <2>3. MadeUpFor(k)'
      BY <2>2 DEF MadeUpFor
    <2>4. lifted' \subseteq Keys
      BY <1>1, Types
    <2> QED BY <2>1, <2>2, <2>3, <2>4
  <1> QED BY <1>3, <1>5, <1>6, <1>8, <1>9, <1>10

LEMMA ReadsStep ==
  ASSUME ListInv, NEW f \in Fetches, List!ServerReads(f), UNCHANGED missed, OnItsWay => OnItsWay'
  PROVE  ListInv'
  <1> USE DEF ListInv
  <1>1. /\ fetch[f].state = "asked"
        /\ fetch' = [fetch EXCEPT ![f].state = "read", ![f].got = server]
        /\ UNCHANGED <<server, wire, viewable, rows, loading, refreshing, requested, error, loaded,
                       destroyed, newest, buffer, heard, applied, lifted, missed>>
    BY DEF List!ServerReads, List!world, List!flags
  <1>2. /\ fetch' \in [Fetches -> List!Fetch]
        /\ fetch'[f].state = "read" /\ fetch'[f].got = server
        /\ \A g \in Fetches \ {f} : fetch'[g] = fetch[g]
    <2>1. fetch[f] \in List!Fetch /\ server \in List!Rows /\ fetch \in [Fetches -> List!Fetch]
      BY Types, RowTypes
    <2> DEFINE to == [fetch[f] EXCEPT !.state = "read", !.got = server]
    <2>2. to \in List!Fetch /\ to.state = "read" /\ to.got = server
      BY <2>1 DEF List!Fetch
    <2>3. fetch' = [fetch EXCEPT ![f] = to]
      BY <1>1, <2>1
    <2> HIDE DEF to
    <2> QED BY <2>1, <2>2, <2>3
  <1>3. FetchesTyped'
    BY <1>1, <1>2, Types DEF FetchesTyped
  <1>4. Typed'
    BY <1>1, <1>3, TypedTurned, Types
  <1>5. Sent' /\ Viewed' /\ NoUnviewableRows' /\ ReceivedStaysListed'
    BY <1>1 DEF Sent, Viewed, NoUnviewableRows, ReceivedStaysListed, List!NoUnviewableRows,
                List!ReceivedStaysListed
  <1>6. Following' = Following
    BY <1>1 DEF Following, List!Busy
  <1>7. CASE f # newest
    <2>1. newest' = newest /\ fetch'[newest] = fetch[newest]
      BY <1>1, <1>2, <1>7, Types
    <2>2. Asked' = Asked /\ Read' = Read
      BY <2>1 DEF Asked, Read
    <2>3. Covers'
      BY <1>1, <1>6, <2>1, <2>2 DEF Covers
    <2>4. (\A k \in lifted' : Returns(k)') /\ (\A k \in Keys : MadeUpFor(k)')
      BY <1>1, <1>6, <2>1, <2>2 DEF Returns, MadeUpFor
    <2> QED BY <1>4, <1>5, <2>3, <2>4
  <1>8. CASE f = newest
    <2>1. newest' = newest /\ fetch'[newest].got = server /\ Read'
      BY <1>1, <1>2, <1>8 DEF Read
    <2>2. Covers'
      <3>1. ASSUME NEW k \in Keys
            PROVE  /\ applied[k] <= server[k] /\ server[k] >= missed[k] /\ server[k] <= server[k]
                   /\ heard[k] # 0 => server[k] # 0
                   /\ k \in lifted => server[k] # 0
        BY Types DEF Sent
      <3> QED BY <1>1, <2>1, <3>1 DEF Covers
    <2>3. \A k \in lifted' : Returns(k)'
      BY <1>1, <2>1 DEF Returns, Sent
    <2>4. \A k \in Keys : MadeUpFor(k)'
      <3>1. \A k \in Keys : server[k] >= missed[k]
        BY Types DEF Sent
      <3> QED BY <1>1, <2>1, <3>1 DEF MadeUpFor
    <2> QED BY <1>4, <1>5, <2>2, <2>3, <2>4
  <1> QED BY <1>7, <1>8

LEMMA ReceiveStep ==
  ASSUME ListInv, List!Receive, UNCHANGED missed, OnItsWay => OnItsWay'
  PROVE  ListInv'
  <1> USE DEF ListInv
  <1> DEFINE item == Head(wire)
  <1>1. /\ wire # <<>> /\ wire' = Tail(wire)
        /\ UNCHANGED <<server, viewable, loading, refreshing, requested, error, loaded, destroyed,
                       newest, buffer, applied, lifted, missed>>
        /\ \/ destroyed /\ UNCHANGED <<rows, fetch, heard>>
           \/ /\ ~destroyed
              /\ fetch' = [f \in Fetches |->
                             IF f = buffer THEN [fetch[f] EXCEPT !.items[item.key] = item.version]
                             ELSE fetch[f]]
              /\ rows' = IF item.key \in viewable THEN [rows EXCEPT ![item.key] = item.version]
                         ELSE rows
              /\ heard' = IF item.key \in viewable THEN [heard EXCEPT ![item.key] = item.version]
                          ELSE heard
    BY DEF List!Receive, List!Upsert, List!flags
  <1>2. /\ Len(wire) \in Nat /\ Len(wire) # 0
        /\ wire' \in Seq([key: Keys, version: 1..MaxTaps])
        /\ Len(wire') = Len(wire) - 1 /\ item = wire[1]
        /\ \A i \in 1..Len(wire') : wire'[i] = wire[i + 1]
    BY <1>1, Types, HeadTailProperties, LenProperties, EmptySeq
  <1>3. /\ item.key \in Keys /\ item.version \in Nat /\ item.version # 0
        /\ item.version \in 0..MaxTaps
        /\ missed[item.key] < item.version /\ item.version <= server[item.key]
    BY <1>2, WireItem, ListAssumption DEF Sent
  <1> HIDE DEF item
  <1>4. /\ rows' \in List!Rows /\ heard' \in List!Rows
        /\ \/ rows' = rows /\ heard' = heard
           \/ \A k \in Keys : /\ rows'[k] = IF k = item.key THEN item.version ELSE rows[k]
                              /\ heard'[k] = IF k = item.key THEN item.version ELSE heard[k]
        /\ \A k \in Keys \ viewable : rows'[k] = rows[k] /\ heard'[k] = heard[k]
    BY <1>1, <1>3, RowTypes, ZenonT(30)
  <1>5. /\ fetch' \in [Fetches -> List!Fetch]
        /\ \A f \in Fetches : /\ fetch'[f].state = fetch[f].state
                              /\ fetch'[f].got = fetch[f].got
                              /\ \A k \in Keys : fetch[f].items[k] # 0 => fetch'[f].items[k] # 0
        /\ ~destroyed /\ buffer \in Fetches => fetch'[buffer].items[item.key] # 0
    <2>1. CASE destroyed
      BY <1>1, <2>1, Types
    <2>2. CASE ~destroyed
      <3> DEFINE to(f) == [fetch[f] EXCEPT !.items = [fetch[f].items EXCEPT ![item.key] = item.version]]
      <3>1. ASSUME NEW f \in Fetches
            PROVE  /\ to(f) \in List!Fetch
                   /\ to(f).state = fetch[f].state /\ to(f).got = fetch[f].got
                   /\ to(f).items[item.key] # 0
                   /\ \A k \in Keys : fetch[f].items[k] # 0 => to(f).items[k] # 0
        <4>1. fetch[f] \in List!Fetch /\ fetch[f].items \in [Keys -> 0..MaxTaps]
          BY Types, RowTypes
        <4>2. [fetch[f].items EXCEPT ![item.key] = item.version] \in List!Rows
          BY <1>3, <4>1, RowTypes
        <4> QED BY <1>3, <4>1, <4>2 DEF List!Fetch
      <3>2. fetch' = [f \in Fetches |-> IF f = buffer THEN to(f) ELSE fetch[f]]
        BY <1>1, <2>2
      <3> HIDE DEF to
      <3>3. fetch' \in [Fetches -> List!Fetch]
        BY <3>1, <3>2, Types
      <3>4. \A f \in Fetches : fetch'[f] = IF f = buffer THEN to(f) ELSE fetch[f]
        BY <3>2
      <3> QED BY <2>2, <3>1, <3>3, <3>4
    <2> QED BY <2>1, <2>2, Types
  <1>6. FetchesTyped'
    BY <1>1, <1>5, Types DEF FetchesTyped
  <1>7. Typed'
    BY <1>1, <1>2, <1>4, <1>6, TypedNext, RowTypes, Types
  <1>8. Sent'
    <2>1. ASSUME NEW i \in 1..Len(wire')
          PROVE  /\ missed[wire'[i].key] < wire'[i].version
                 /\ wire'[i].version <= server[wire'[i].key]
      <3>1. wire'[i] = wire[i + 1] /\ i + 1 \in 1..Len(wire)
        BY <1>2
      <3> QED BY <3>1 DEF Sent
    <2>2. \A k \in Keys : heard'[k] <= server[k]
      BY <1>3, <1>4 DEF Sent
    <2> QED BY <1>1, <2>1, <2>2 DEF Sent
  <1>9. Viewed'
    BY <1>1, <1>4 DEF Viewed
  <1>10. /\ Following' = Following /\ Asked' = Asked /\ Read' = Read
         /\ newest' = newest /\ newest \in Fetches /\ fetch'[newest].got = fetch[newest].got
         /\ \A k \in Keys : fetch[newest].items[k] # 0 => fetch'[newest].items[k] # 0
    BY <1>1, <1>5, Types DEF Following, Asked, Read, List!Busy
  <1>11. Covers'
    <2> SUFFICES ASSUME Read, NEW k \in Keys
                 PROVE  heard'[k] # 0 => fetch[newest].got[k] # 0 \/ fetch'[newest].items[k] # 0
      BY <1>1, <1>10 DEF Covers
    <2>1. CASE heard'[k] = heard[k]
      BY <1>10, <2>1 DEF Covers
    <2>2. CASE k = item.key /\ ~destroyed
      <3>1. buffer = newest
        BY Types DEF Read
      <3> QED BY <1>5, <1>10, <2>2, <3>1
    <2> QED BY <1>1, <1>4, <2>1, <2>2
  <1>12. NoUnviewableRows' /\ ReceivedStaysListed'
    BY <1>1, <1>3, <1>4 DEF NoUnviewableRows, ReceivedStaysListed, List!NoUnviewableRows,
                           List!ReceivedStaysListed
  <1>13. \A k \in lifted' : Returns(k)'
    <2> SUFFICES ASSUME NEW k \in lifted PROVE Returns(k)'
      BY <1>1
    <2>1. k \in Keys /\ (rows[k] # 0 => rows'[k] # 0)
      BY <1>3, <1>4, Types
    <2> QED BY <1>1, <1>10, <2>1 DEF Returns
  <1>14. ASSUME NEW k \in Keys PROVE MadeUpFor(k)'
    <2>1. CASE rows'[k] = rows[k]
      BY <1>1, <1>10, <2>1 DEF MadeUpFor
    <2>2. CASE k = item.key /\ rows'[k] = item.version
      <3>1. rows'[k] >= missed[k]
        BY <1>3, <2>2, Types
      <3> QED BY <1>1, <3>1 DEF MadeUpFor
    <2> QED BY <1>4, <2>1, <2>2
  <1> QED BY <1>7, <1>8, <1>9, <1>11, <1>12, <1>13, <1>14

\* An answer that is not applied, and a failure: nothing else is shown, and a fetch follows
\* wherever one was to.
LEMMA OverStep ==
  ASSUME ListInv, NEW f \in Fetches, fetch[f].state # "free", List!Ends(f),
         UNCHANGED <<rows, loaded, applied>>, error' \in BOOLEAN,
         f = newest => destroyed \/ (lifted' = {} /\ missed' = [k \in Keys |-> 0]),
         lifted' \subseteq lifted, missed' \in {missed, [k \in Keys |-> 0]}, OnItsWay => OnItsWay'
  PROVE  ListInv'
  <1> USE DEF ListInv
  <1>1. /\ FetchesTyped' /\ Turned
        /\ f = newest => Asked' \/ (newest' = newest /\ fetch'[newest].state = "free")
        /\ f # newest => Asked' \/ (newest' = newest /\ fetch'[newest] = fetch[newest])
        /\ Following /\ ~destroyed => Following' \/ Asked'
        /\ UNCHANGED <<server, wire, viewable, destroyed, heard>>
    BY EndsStep
  <1>2. /\ missed' \in [Keys -> Nat] /\ lifted' \subseteq Keys
        /\ \A k \in Keys : missed'[k] \in {missed[k], 0}
    BY Types, SMTT(20)
  <1>3. Typed'
    BY <1>1, <1>2, TypedTurned, Types
  <1>4. Sent'
    BY <1>1, <1>2, SentKept, Types DEF Sent
  <1>5. Viewed'
    BY <1>1, <1>2 DEF Viewed
  <1>6. Covers'
    BY <1>1, <1>2, <1>3, CoversTurned
  <1>7. NoUnviewableRows' /\ ReceivedStaysListed'
    BY <1>1 DEF NoUnviewableRows, ReceivedStaysListed, List!NoUnviewableRows,
                List!ReceivedStaysListed
  <1>8. CASE f # newest
    <2>1. Asked' \/ (newest' = newest /\ fetch'[newest] = fetch[newest])
      BY <1>1, <1>8
    <2>2. \A k \in lifted' : Returns(k)'
      BY <1>1, <1>2, <1>3, <2>1, RowsTurned, Types
    <2>3. \A k \in Keys : MadeUpFor(k)'
      BY <1>1, <1>2, <1>3, <2>1, RowsTurned
    <2> QED BY <1>3, <1>4, <1>5, <1>6, <1>7, <2>2, <2>3
  <1>9. CASE f = newest
    <2>1. (\A k \in lifted' : Returns(k)') /\ (\A k \in Keys : MadeUpFor(k)')
      <3>1. CASE destroyed
        BY <1>1, <3>1 DEF Returns, MadeUpFor
      <3>2. CASE ~destroyed
        BY <1>9, <3>2, Types DEF MadeUpFor
      <3> QED BY <3>1, <3>2
    <2> QED BY <1>3, <1>4, <1>5, <1>6, <1>7, <2>1
  <1> QED BY <1>8, <1>9

LEMMA AnsweredStep ==
  ASSUME ListInv, NEW f \in Fetches, List!Answered(f), UNCHANGED missed, OnItsWay => OnItsWay'
  PROVE  ListInv'
  <1> USE DEF ListInv
  <1>1. fetch[f].state = "read" /\ List!Ends(f) /\ UNCHANGED <<lifted, missed>>
    BY DEF List!Answered
  <1>2. CASE List!Superseded(f)
    <2>1. UNCHANGED <<rows, loaded, error, applied>> /\ (destroyed \/ f # newest)
      BY <1>2 DEF List!Answered, List!Superseded
    <2>2. error' \in BOOLEAN
      BY <2>1, Types
    <2> QED BY <1>1, <2>1, <2>2, OverStep
  <1>3. CASE ~List!Superseded(f)
    <2>1. /\ ~destroyed /\ f = newest /\ loaded' = TRUE /\ error' = FALSE
          /\ rows' = List!Snapshot(f) /\ applied' = fetch[f].got
      BY <1>3 DEF List!Answered, List!Superseded
    <2>2. /\ FetchesTyped'
          /\ Asked' \/ (newest' = newest /\ fetch'[newest].state = "free")
          /\ Following => Following' \/ Asked'
          /\ UNCHANGED <<server, wire, viewable, destroyed, heard>>
      BY <1>1, <2>1, EndsStep
    <2>3. rows' = [k \in Keys |-> IF k \notin viewable THEN 0
                                  ELSE IF fetch[f].got[k] # 0 THEN fetch[f].got[k]
                                  ELSE fetch[f].items[k]]
      BY <2>1 DEF List!Snapshot
    <2>4. /\ fetch[f].got \in [Keys -> 0..MaxTaps] /\ fetch[f].items \in [Keys -> 0..MaxTaps]
          /\ 0 \in 0..MaxTaps
      BY RowTypes, ListAssumption
    <2>5. rows' \in List!Rows /\ applied' \in List!Rows
      <3>1. rows' \in [Keys -> 0..MaxTaps]
        BY <2>3, <2>4
      <3> QED BY <2>1, <2>4, <3>1, RowTypes
    <2>6. Typed'
      BY <1>1, <2>1, <2>2, <2>5, TypedNext, RowTypes, Types
    <2>7. Read /\ ~Read'
      BY <1>1, <2>1, <2>2 DEF Read, Asked
    <2>8. Sent'
      <3>1. \A k \in Keys : applied'[k] <= server[k]
        BY <2>1, <2>7 DEF Covers
      <3> QED BY <1>1, <2>2, <3>1 DEF Sent
    <2>9. Viewed' /\ Covers'
      BY <1>1, <2>2, <2>7 DEF Viewed, Covers
    <2>10. NoUnviewableRows' /\ ReceivedStaysListed'
      <3>1. ASSUME NEW k \in Keys, heard[k] # 0 PROVE rows'[k] # 0
        <4>1. k \in viewable
          BY <3>1 DEF Viewed
        <4>2. fetch[f].got[k] # 0 \/ fetch[f].items[k] # 0
          BY <2>1, <2>7, <3>1 DEF Covers
        <4> QED BY <2>3, <4>1, <4>2
      <3> QED BY <2>2, <2>3, <3>1 DEF NoUnviewableRows, ReceivedStaysListed,
                 List!NoUnviewableRows, List!ReceivedStaysListed
    <2>11. ASSUME NEW k \in lifted PROVE Returns(k)'
      <3>1. k \in Keys /\ k \in viewable
        BY Types DEF Viewed
      <3>2. Following \/ fetch[f].got[k] # 0
        BY <2>1, <2>7, <3>1 DEF Covers
      <3>3. fetch[f].got[k] # 0 => rows'[k] # 0
        BY <2>3, <3>1
      <3> QED BY <2>2, <3>2, <3>3 DEF Returns
    <2>12. ASSUME NEW k \in Keys PROVE MadeUpFor(k)'
      <3>1. missed[k] \in Nat /\ fetch[f].got[k] \in Nat /\ fetch[f].items[k] \in Nat
        BY Types
      <3>2. Following \/ OnItsWay \/ fetch[f].got[k] >= missed[k]
        BY <2>1, <2>7 DEF Covers
      <3>3. k \notin viewable => missed[k] = 0
        BY DEF Viewed
      <3>4. fetch[f].got[k] >= missed[k] => rows'[k] >= missed[k]
        BY <2>3, <3>1, <3>3
      <3> QED BY <1>1, <2>2, <3>2, <3>4 DEF MadeUpFor
    <2> QED BY <1>1, <2>6, <2>8, <2>9, <2>10, <2>11, <2>12
  <1> QED BY <1>2, <1>3

LEMMA FailsStep ==
  ASSUME ListInv, NEW f \in Fetches, List!Fails(f), missed' = NothingMissed, OnItsWay => OnItsWay'
  PROVE  ListInv'
  <1> USE DEF ListInv
  <1>1. /\ fetch[f].state # "free" /\ List!Ends(f) /\ UNCHANGED <<rows, loaded, applied>>
        /\ missed' = [k \in Keys |-> 0]
    BY DEF List!Fails, NothingMissed
  <1>2. /\ error' \in BOOLEAN /\ lifted' \subseteq lifted
        /\ f = newest => destroyed \/ lifted' = {}
    <2>1. error \in BOOLEAN /\ fetch[f].load \in BOOLEAN
      BY Types
    <2>2. CASE List!Superseded(f)
      BY <2>1, <2>2 DEF List!Fails, List!Superseded
    <2>3. CASE ~List!Superseded(f)
      <3>1. error' = (error \/ fetch[f].load) /\ lifted' = {}
        BY <2>3 DEF List!Fails
      <3>2. error' \in BOOLEAN
        BY <2>1, <3>1, Zenon
      <3> QED BY <3>1, <3>2
    <2> QED BY <2>2, <2>3
  <1> QED BY <1>1, <1>2, OverStep

LEMMA DestroyStep ==
  ASSUME ListInv, List!Destroy, UNCHANGED missed
  PROVE  ListInv'
  <1> USE DEF ListInv
  <1>1. /\ destroyed' = TRUE
        /\ UNCHANGED <<server, wire, viewable, rows, loading, refreshing, requested, error, loaded,
                       newest, buffer, fetch, heard, applied, lifted, missed>>
    BY DEF List!Destroy, List!world, List!flags
  <1>2. Typed'
    BY <1>1, TypedNext, RowTypes, Types DEF FetchesTyped
  <1>3. Sent' /\ Viewed' /\ NoUnviewableRows' /\ ReceivedStaysListed'
    BY <1>1 DEF Sent, Viewed, NoUnviewableRows, ReceivedStaysListed, List!NoUnviewableRows,
                List!ReceivedStaysListed
  <1>4. Covers' /\ (\A k \in lifted' : Returns(k)') /\ (\A k \in Keys : MadeUpFor(k)')
    BY <1>1 DEF Covers, Returns, MadeUpFor, Read
  <1> QED BY <1>2, <1>3, <1>4

-----------------------------------------------------------------------------
(* The list and the reconciler together *)

AllInv == IInv /\ ListInv

LEMMA InitAllInv == InitAll => AllInv
  <1> SUFFICES ASSUME InitAll PROVE AllInv
    OBVIOUS
  <1>1. IInv
    BY InitIInv DEF InitAll
  <1>2. /\ List!Init /\ missed = [k \in Keys |-> 0]
    BY DEF InitAll, NothingMissed
  <1>3. /\ server = List!NoRows /\ wire = <<>> /\ viewable = Keys /\ rows = List!NoRows
        /\ heard = List!NoRows /\ applied = List!NoRows /\ lifted = {}
        /\ loading = TRUE /\ refreshing = FALSE /\ requested = FALSE
        /\ error = FALSE /\ loaded = FALSE /\ destroyed = FALSE
        /\ newest \in Fetches /\ buffer = newest
        /\ fetch = [f \in Fetches |-> IF f = newest THEN List!Begun(TRUE) ELSE List!FreeFetch]
    BY <1>2, ListAssumption DEF List!Init
  <1>4. /\ fetch \in [Fetches -> List!Fetch] /\ fetch[newest].state = "asked"
    BY <1>3, BegunType, FreeType
  <1>5. Typed
    BY <1>2, <1>3, <1>4, ZeroRows, EmptySeq DEF Typed, List!TypeOK
  <1>6. Sent /\ Viewed /\ NoUnviewableRows /\ ReceivedStaysListed
    BY <1>2, <1>3, ZeroRows DEF Sent, Viewed, NoUnviewableRows, ReceivedStaysListed,
                List!NoUnviewableRows, List!ReceivedStaysListed
  <1>7. Covers /\ (\A k \in lifted : Returns(k)) /\ (\A k \in Keys : MadeUpFor(k))
    BY <1>4 DEF Covers, Returns, MadeUpFor, Asked, Read
  <1> QED BY <1>1, <1>5, <1>6, <1>7 DEF AllInv, ListInv

\* What the reconciler's steps leave of a resync on its way.
LEMMA OnItsWayStep ==
  ASSUME IInv, Next, ~AuthAnswers
  PROVE  OnItsWay => OnItsWay'
  <1>1. Times
    BY Zenon DEF IInv, TypeOK, Times
  <1> QED BY <1>1, NumbersStep

\* The steps that are not auth_state's answer, told by the triggers that await one.
LEMMA NotAnAnswer ==
  ASSUME IInv, Connected \/ Hidden \/ Visible \/ Activated \/ EventsDropped \/ TimerFires \/ Tick
  PROVE  ~AuthAnswers
  <1>1. asking \in Nat
    BY Zenon DEF IInv, TypeOK
  <1>2. asking' = asking \/ asking' = asking + 1
    BY DEF Connected, Hidden, Visible, Activated, EventsDropped, TimerFires, Tick, Trigger
  <1> QED BY <1>1, <1>2 DEF AuthAnswers

LEMMA ClockLoses ==
  ASSUME AllInv, UNCHANGED <<listVars, missed>>,
         Hidden \/ Visible \/ Activated \/ TimerFires \/ Tick
  PROVE  ListInv'
  <1>1. Next /\ ~AuthAnswers
    BY NotAnAnswer DEF AllInv, Next
  <1> QED BY <1>1, OnItsWayStep, LosesStep DEF AllInv, Loses

LEMMA ListMoves ==
  ASSUME AllInv, [NextAll]_all
  PROVE  ListInv'
  <1> USE DEF AllInv
  <1>1. CASE Drops
    <2>1. EventsDropped /\ Loses /\ Next
      BY <1>1 DEF Drops, Next
    <2>2. IInv'
      BY <2>1, NextIInv
    <2>3. ~AuthAnswers
      BY <2>1, NotAnAnswer
    <2>4. CASE ~owed' \/ wire' = wire
      <3>1. missed' = missed
        BY <1>1, <2>4 DEF Drops
      <3> QED BY <2>1, <2>3, <3>1, OnItsWayStep, LosesStep
    <2>5. CASE owed' /\ wire' # wire
      <3>1. OnItsWay'
        BY <2>2, <2>5 DEF IInv, ResyncOnItsWay
      <3>2. missed' = [k \in Keys |-> IF k \in viewable /\ OnWire(k) # 0 THEN OnWire(k)
                                      ELSE missed[k]]
        BY <1>1, <2>5 DEF Drops
      <3> QED BY <2>1, <2>5, <3>1, <3>2, LosesStep
    <2> QED BY <2>4, <2>5
  <1>2. CASE Reconnects
    <2>1. Connected /\ Loses /\ Next /\ UNCHANGED missed
      BY <1>2 DEF Reconnects, Next
    <2>2. OnItsWay => OnItsWay'
      BY <2>1, NotAnAnswer, OnItsWayStep
    <2> QED BY <2>1, <2>2, LosesStep
  <1>3. CASE Resyncs
    BY <1>3, RefreshStep DEF Resyncs, Handler
  <1>4. CASE Clocks(Hidden) \/ Clocks(Visible) \/ Clocks(Activated) \/ Clocks(TimerFires) \/ Clocks(Tick)
    <2>1. /\ Hidden \/ Visible \/ Activated \/ TimerFires \/ Tick
          /\ UNCHANGED <<listVars, missed>>
      BY <1>4 DEF Clocks
    <2> QED BY <2>1, ClockLoses
  <1>5. ASSUME NEW k \in Keys, Lists(List!Tap(k)) \/ Lists(List!Unhide(k)) \/ Hides(k)
        PROVE  ListInv'
    <2>1. OnItsWay' = OnItsWay
      BY <1>5 DEF Lists, Hides, vars, page, OnItsWay
    <2> QED BY <1>5, <2>1, TapStep, UnhideStep, HideStep DEF Lists, Hides
  <1>6. ASSUME NEW f \in Fetches,
               Lists(List!ServerReads(f)) \/ Lists(List!Answered(f)) \/ FailsAll(f)
        PROVE  ListInv'
    <2>1. OnItsWay' = OnItsWay
      BY <1>6 DEF Lists, FailsAll, vars, page, OnItsWay
    <2> QED BY <1>6, <2>1, ReadsStep, AnsweredStep, FailsStep DEF Lists, FailsAll
  <1>7. CASE Lists(List!Receive) \/ Lists(List!Refresh) \/ Lists(List!Load) \/ Lists(List!Retry)
             \/ Lists(List!Destroy)
    <2>1. OnItsWay' = OnItsWay
      BY <1>7 DEF Lists, vars, page, OnItsWay
    <2> QED BY <1>7, <2>1, ReceiveStep, RefreshStep, HardLoadKeeps, DestroyStep
            DEF Lists, List!Load, List!Retry
  <1>8. CASE UNCHANGED all
    <2>1. UNCHANGED listVars /\ UNCHANGED missed /\ OnItsWay' = OnItsWay
      BY <1>8 DEF all, vars, OnItsWay
    <2> QED BY <2>1, LosesStep DEF Loses
  <1> QED BY <1>1, <1>2, <1>3, <1>4, <1>5, <1>6, <1>7, <1>8 DEF NextAll

LEMMA NextAllInv == AllInv /\ [NextAll]_all => AllInv'
  <1> SUFFICES ASSUME AllInv, [NextAll]_all PROVE AllInv'
    OBVIOUS
  <1>1. [Next]_vars
    BY DEF NextAll, all, Next, Drops, Reconnects, Resyncs, Clocks, Lists, Hides, FailsAll
  <1>2. IInv'
    BY <1>1, NextIInv DEF AllInv
  <1> QED BY <1>2, ListMoves DEF AllInv

LEMMA AllInvariant == SpecAll => []AllInv
  BY InitAllInv, NextAllInv, PTL DEF SpecAll

(***************************************************************************)
(* A list in use shows no profile that is hidden or blocked                *)
(* (reconciling-list.svelte.ts).                                           *)
(***************************************************************************)
THEOREM HiddenAreNotListed == SpecAll => []NoUnviewableRows
  <1>1. AllInv => NoUnviewableRows
    BY DEF AllInv, ListInv
  <1> QED BY <1>1, AllInvariant, PTL

(***************************************************************************)
(* No snapshot, however old, drops the sender of an item received.         *)
(***************************************************************************)
THEOREM ReceivedAreKept == SpecAll => []ReceivedStaysListed
  <1>1. AllInv => ReceivedStaysListed
    BY DEF AllInv, ListInv
  <1> QED BY <1>1, AllInvariant, PTL

(***************************************************************************)
(* A profile made viewable again that the server lists is listed, or a     *)
(* fetch that lists it is under way or asked for, until a fetch fails.     *)
(***************************************************************************)
THEOREM UnhiddenAreFetched == SpecAll => []UnhiddenReturns
  <1>1. AllInv => UnhiddenReturns
    BY DEF AllInv, ListInv, UnhiddenReturns, Fetched, Returns, Following, Asked, Read, List!Busy
  <1> QED BY <1>1, AllInvariant, PTL

(***************************************************************************)
(* A tap whose event was dropped is shown or on its way, until a fetch     *)
(* fails: the reconciler's wait and the list's remembered refresh together *)
(* leave no step at which it is forgotten.                                 *)
(***************************************************************************)
THEOREM DroppedAreMadeUpFor == SpecAll => []DroppedIsMadeUpFor
  <1>1. AllInv => DroppedIsMadeUpFor
    BY DEF AllInv, ListInv, DroppedIsMadeUpFor, Fetched, MadeUpFor, Following, Asked, Read,
           List!Busy
  <1> QED BY <1>1, AllInvariant, PTL

\* Only the answer of the newest fetch changes what is applied.
LEMMA AppliedByNewest ==
  ASSUME AllInv, [NextAll]_all
  PROVE  applied' = applied \/ (Read /\ applied' = fetch[newest].got)
  <1>1. CASE UNCHANGED applied
    BY <1>1
  <1>2. ASSUME NEW f \in Fetches, List!Answered(f), applied' # applied
        PROVE  Read /\ applied' = fetch[newest].got
    BY <1>2 DEF List!Answered, List!Superseded, Read
  <1>3. (\A f \in Fetches : ~List!Answered(f)) => UNCHANGED applied
    BY DEF NextAll, Drops, Reconnects, Resyncs, Handler, Clocks, Lists, Hides, FailsAll, Loses,
           listVars, all, List!Lose, List!Tap, List!Unhide, List!Hide, List!ServerReads,
           List!Fails, List!Receive, List!Refresh, List!AskRefresh, List!Load, List!Retry,
           List!HardLoad, List!Destroy
  <1> QED BY <1>1, <1>2, <1>3

(***************************************************************************)
(* Snapshots are applied in the order the server took them: an answer that *)
(* is overtaken by a later fetch is never shown over it.                   *)
(***************************************************************************)
THEOREM SnapshotsAreInOrder == SpecAll => SnapshotsInOrder
  <1>1. AllInv /\ [NextAll]_all => [\A k \in Keys : applied[k] <= applied'[k]]_applied
    <2> SUFFICES ASSUME AllInv, [NextAll]_all, NEW k \in Keys, applied' # applied
                 PROVE  applied[k] <= applied'[k]
      OBVIOUS
    <2> QED BY AppliedByNewest DEF AllInv, ListInv, Covers
  <1> QED BY <1>1, AllInvariant, PTL DEF SpecAll, SnapshotsInOrder
=============================================================================
