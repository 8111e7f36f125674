-------------------------- MODULE MediaProxyProofs --------------------------
(***************************************************************************)
(* Theorems about MediaProxy, for any number of keys, requests and         *)
(* permits.  The flights map alone does not keep flights apart: a lock is  *)
(* pruned from it and a clear drops it.  What does is that a request whose *)
(* flight was not cut off finds its lock still recorded for its key, and   *)
(* that a lock is held by one request at a time.                           *)
(***************************************************************************)
EXTENDS MediaProxy, TLAPS

Joined(r) == request[r].lock # None

\* A request that was not cut off shares the lock recorded for its key.
Recorded == \A r \in Requests : Joined(r) /\ ~request[r].cut => flights[Key(r)] = request[r].lock

Exclusive ==
  \A r, s \in Requests :
    /\ request[r].at \in Holding /\ request[s].at \in Holding
    /\ request[r].lock = request[s].lock
    => r = s

HasKey == \A r \in Requests : request[r].at # "idle" => Key(r) \in Keys

IInv == TypeOK /\ HasKey /\ Recorded /\ Exclusive

\* The part of it a step of one request is about, and the rest.
RequestsFine ==
  /\ request \in [Requests -> Request]
  /\ \A r \in Requests : request[r].lock # None <=> request[r].at \in Holding \cup {"locking"}
  /\ HasKey /\ Recorded /\ Exclusive
OthersTyped ==
  /\ account \in Nat /\ forget \in {"no", "cache", "windowed", "flights"}
  /\ held \in [Keys -> Body \cup {None}]
  /\ windowed \in [Keys -> {"no", "now", "always"}]
  /\ flights \in [Keys -> Locks \cup {None}]

LEMMA Split == IInv <=> RequestsFine /\ OthersTyped
  BY DEF IInv, TypeOK, RequestsFine, OthersTyped
LEMMA SplitNext == RequestsFine' /\ OthersTyped' => IInv'
  BY DEF IInv, TypeOK, RequestsFine, OthersTyped

LEMMA InitIInv == Init => IInv
  BY ProxyAssumption
     DEF Init, IInv, TypeOK, HasKey, Recorded, Exclusive, Idle, Request, Stages, Holding, Body,
         Joined, Key

\* Steps of one request that leave the flights alone, and either keep its lock, its key and
\* its cut, holding it no more than before, or drop the lock.
LEMMA RequestStep ==
  ASSUME IInv, NEW r \in Requests, NEW to \in Request,
         request' = [request EXCEPT ![r] = to], UNCHANGED flights,
         to.at # "idle" => to.key \in Keys,
         to.lock # None <=> to.at \in Holding \cup {"locking"},
         to.lock # None => /\ to.lock = request[r].lock /\ to.cut = request[r].cut
                           /\ to.key = Key(r),
         to.at \in Holding => \/ request[r].at \in Holding
                              \/ Free(request[r].lock)
  PROVE  RequestsFine'
  <1> USE DEF IInv, TypeOK
  <1>1. request'[r] = to /\ \A s \in Requests \ {r} : request'[s] = request[s]
    OBVIOUS
  <1>2. HasKey'
    BY <1>1 DEF HasKey, Key
  <1>3. Recorded'
    BY <1>1 DEF Recorded, Joined, Key
  <1>4. Exclusive'
    <2> SUFFICES ASSUME NEW s \in Requests, NEW t \in Requests,
                        request'[s].at \in Holding, request'[t].at \in Holding,
                        request'[s].lock = request'[t].lock, s # t
                 PROVE  FALSE
      BY DEF Exclusive
    <2>1. ASSUME NEW u \in Requests, u # r, request[u].at \in Holding, to.at \in Holding,
                 to.lock = request[u].lock
          PROVE  FALSE
      <3>1. to.lock = request[r].lock
        BY <2>1
      <3>2. CASE request[r].at \in Holding
        BY <2>1, <3>1, <3>2 DEF Exclusive
      <3>3. CASE Free(request[r].lock)
        BY <2>1, <3>1, <3>3 DEF Free
      <3> QED BY <2>1, <3>2, <3>3
    <2>2. CASE s # r /\ t # r
      BY <1>1, <2>2 DEF Exclusive
    <2>3. CASE s = r
      BY <1>1, <2>1, <2>3
    <2>4. CASE t = r
      BY <1>1, <2>1, <2>4
    <2> QED BY <2>2, <2>3, <2>4
  <1>5. request' \in [Requests -> Request]
    OBVIOUS
  <1>6. \A s \in Requests :
           request'[s].lock # None <=> request'[s].at \in Holding \cup {"locking"}
    BY <1>1
  <1> QED BY <1>2, <1>3, <1>4, <1>5, <1>6 DEF RequestsFine

LEMMA EndsStep ==
  ASSUME IInv, NEW r \in Requests, Ends(r), UNCHANGED flights
  PROVE  RequestsFine'
  <1>1. /\ Idle \in Request /\ Idle.at = "idle" /\ Idle.lock = None
        /\ Idle.at \notin Holding \cup {"locking"}
    BY DEF Idle, Request, Stages, Holding
  <1>2. request' = [request EXCEPT ![r] = Idle]
    BY DEF Ends
  <1> QED BY <1>1, <1>2, RequestStep

LEMMA MovesStep ==
  ASSUME IInv, NEW r \in Requests, NEW stage \in Stages, Moves(r, stage), UNCHANGED flights,
         ~At(r, "idle"),
         request[r].lock # None <=> stage \in Holding \cup {"locking"},
         stage \in Holding => request[r].at \in Holding \/ Free(request[r].lock)
  PROVE  RequestsFine'
  <1> DEFINE to == [request[r] EXCEPT !.at = stage]
  <1>1. request[r] \in Request
    BY DEF IInv, TypeOK
  <1>2. /\ to \in Request /\ to.at = stage /\ to.lock = request[r].lock
        /\ to.cut = request[r].cut /\ to.key = Key(r)
    BY <1>1 DEF Request, Key
  <1>3. request' = [request EXCEPT ![r] = to]
    BY DEF Moves
  <1>4. Key(r) \in Keys
    BY DEF IInv, HasKey, At
  <1> HIDE DEF to
  <1> QED BY <1>2, <1>3, <1>4, RequestStep

LEMMA GoesOnStep ==
  ASSUME IInv, NEW r \in Requests, GoesOnWindowed(r), UNCHANGED flights, ~At(r, "idle")
  PROVE  RequestsFine'
  <1> DEFINE to == [Idle EXCEPT !.at = "window", !.key = Key(r)]
  <1>1. Key(r) \in Keys
    BY DEF IInv, HasKey, At
  <1>2. /\ to \in Request /\ to.at = "window" /\ to.lock = None /\ to.key = Key(r)
        /\ to.at \notin Holding \cup {"locking"}
    BY <1>1 DEF Idle, Request, Stages, Holding
  <1>3. request' = [request EXCEPT ![r] = to]
    BY DEF GoesOnWindowed
  <1> HIDE DEF to
  <1> QED BY <1>1, <1>2, <1>3, RequestStep

\* The steps of a request that leave the flights and what is held or marked alone.
LEMMA QuietSteps ==
  ASSUME IInv, NEW r \in Requests,
         \/ LooksInCache(r) \/ LooksAtMark(r) \/ TakesOff(r) \/ LooksAgain(r)
         \/ LooksAtMarkAgain(r) \/ Refused(r) \/ WindowServed(r)
  PROVE  IInv'
  <1>1. OthersTyped' /\ UNCHANGED flights
    BY DEF IInv, TypeOK, OthersTyped, LooksInCache, LooksAtMark, TakesOff, LooksAgain,
           LooksAtMarkAgain, Refused, WindowServed
  <1>2. request[r].lock # None <=> request[r].at \in Holding \cup {"locking"}
    BY DEF IInv, TypeOK
  <1>3. RequestsFine'
    <2> USE DEF At, Stages, Holding
    <2>1. CASE LooksInCache(r)
      BY <1>1, <1>2, <2>1, EndsStep, MovesStep DEF LooksInCache
    <2>2. CASE LooksAtMark(r)
      <3>1. PICK stage \in {"window", "acquire"} : Moves(r, stage)
        BY <2>2 DEF LooksAtMark
      <3> QED BY <1>1, <1>2, <2>2, <3>1, MovesStep DEF LooksAtMark
    <2>3. CASE TakesOff(r)
      BY <1>1, <1>2, <2>3, MovesStep DEF TakesOff, SecondLook
    <2>4. CASE LooksAgain(r)
      BY <1>1, <1>2, <2>4, EndsStep, MovesStep DEF LooksAgain
    <2>5. CASE LooksAtMarkAgain(r)
      BY <1>1, <1>2, <2>5, GoesOnStep, MovesStep DEF LooksAtMarkAgain
    <2>6. CASE Refused(r) \/ WindowServed(r)
      BY <1>1, <2>6, EndsStep DEF Refused, WindowServed, GivesBack
    <2> QED BY <2>1, <2>2, <2>3, <2>4, <2>5, <2>6
  <1> QED BY <1>1, <1>3, SplitNext

LEMMA ArrivesStep ==
  ASSUME IInv, NEW r \in Requests, NEW k \in Keys, Arrives(r, k)
  PROVE  IInv'
  <1> DEFINE to == [request[r] EXCEPT !.at = "cached", !.key = k]
  <1>1. /\ request[r] \in Request /\ request[r].at = "idle"
        /\ request[r].lock # None <=> request[r].at \in Holding \cup {"locking"}
    BY DEF IInv, TypeOK, Arrives, At
  <1>2. request[r].lock = None
    BY <1>1 DEF Holding
  <1>3. /\ to \in Request /\ to.at = "cached" /\ to.lock = None /\ to.key = k
        /\ to.at \notin Holding \cup {"locking"}
    BY <1>1, <1>2 DEF Request, Stages, Holding
  <1>4. request' = [request EXCEPT ![r] = to]
    BY DEF Arrives
  <1> HIDE DEF to
  <1>5. RequestsFine'
    BY <1>3, <1>4, RequestStep DEF Arrives
  <1>6. OthersTyped'
    BY DEF IInv, TypeOK, OthersTyped, Arrives
  <1> QED BY <1>5, <1>6, SplitNext

LEMMA FetchesStep ==
  ASSUME IInv, NEW r \in Requests, Fetches(r)
  PROVE  IInv'
  <1>1. OthersTyped' /\ UNCHANGED flights
    BY DEF IInv, TypeOK, OthersTyped, Fetches
  <1>2. request[r].lock # None <=> request[r].at \in Holding \cup {"locking"}
    BY DEF IInv, TypeOK
  <1>3. CASE At(r, "permit") /\ request' = [request EXCEPT ![r].at = "fetching", ![r].account = account]
    <2> DEFINE to == [request[r] EXCEPT !.at = "fetching", !.account = account]
    <2>1. /\ request[r] \in Request /\ account \in Nat /\ Key(r) \in Keys
          /\ request[r].at \in Holding /\ request[r].lock # None
      BY <1>2, <1>3 DEF IInv, TypeOK, HasKey, At, Holding
    <2>2. /\ to \in Request /\ to.at = "fetching" /\ to.lock = request[r].lock
          /\ to.cut = request[r].cut /\ to.key = Key(r) /\ to.at \in Holding
      BY <2>1 DEF Request, Stages, Holding, Key
    <2>3. request' = [request EXCEPT ![r] = to]
      BY <1>3
    <2> HIDE DEF to
    <2>4. RequestsFine'
      BY <1>1, <2>1, <2>2, <2>3, RequestStep
    <2> QED BY <1>1, <2>4, SplitNext
  <1>4. CASE At(r, "window") /\ Moves(r, "windowing")
    <2>1. RequestsFine'
      BY <1>1, <1>2, <1>4, MovesStep DEF At, Stages, Holding
    <2> QED BY <1>1, <2>1, SplitNext
  <1> QED BY <1>3, <1>4 DEF Fetches

LEMMA ArrivalSteps ==
  ASSUME IInv, NEW r \in Requests, Fetched(r) \/ FallsBack(r)
  PROVE  IInv'
  <1> USE DEF IInv, TypeOK
  <1>1. CASE Fetched(r)
    <2>1. PICK gone \in SUBSET (Keys \ {Key(r)}) :
            held' = [k \in Keys |-> IF k = Key(r)
                       THEN [account |-> request[r].account, late |-> request[r].cut]
                       ELSE IF k \in gone THEN None ELSE held[k]]
      BY <1>1 DEF Fetched
    <2>2. [account |-> request[r].account, late |-> request[r].cut] \in Body
      BY DEF Request, Body
    <2>3. held' \in [Keys -> Body \cup {None}]
      BY <2>1, <2>2
    <2>4. Ends(r) /\ UNCHANGED <<account, forget, windowed, flights>>
      BY <1>1 DEF Fetched
    <2>5. RequestsFine'
      BY <2>4, EndsStep
    <2> QED BY <2>3, <2>4, <2>5, SplitNext DEF OthersTyped
  <1>2. CASE FallsBack(r)
    <2>1. windowed' \in [Keys -> {"no", "now", "always"}]
      BY <1>2 DEF FallsBack, Marked
    <2>2. GoesOnWindowed(r) /\ ~At(r, "idle") /\ UNCHANGED <<account, forget, held, flights>>
      BY <1>2 DEF FallsBack, At
    <2>3. RequestsFine'
      BY <2>2, GoesOnStep
    <2> QED BY <2>1, <2>2, <2>3, SplitNext DEF OthersTyped
  <1> QED BY <1>1, <1>2

\* Whoever acquires finds the lock of the requests of its key that were not cut off, and
\* takes a lock of its own only when there are none.
LEMMA AcquiresStep ==
  ASSUME IInv, NEW r \in Requests, Acquires(r)
  PROVE  IInv'
  <1> USE DEF IInv, TypeOK
  <1>1. PICK l \in Locks :
          /\ IF Pruned[Key(r)] # None THEN l = Pruned[Key(r)]
             ELSE l \notin Referred /\ l \notin {Pruned[k] : k \in Keys}
          /\ flights' = [Pruned EXCEPT ![Key(r)] = l]
          /\ request' = [request EXCEPT ![r].at = "locking", ![r].lock = l]
    BY DEF Acquires
  <1>2. At(r, "acquire") /\ UNCHANGED <<account, forget, held, windowed>>
    BY DEF Acquires
  <1> DEFINE to == [request[r] EXCEPT !.at = "locking", !.lock = l]
  <1>3. /\ request[r] \in Request /\ Key(r) \in Keys /\ l # None
        /\ request[r].lock = None
    BY <1>2, ProxyAssumption DEF HasKey, At, Holding
  <1>4. /\ to \in Request /\ to.at = "locking" /\ to.lock = l
        /\ to.cut = request[r].cut /\ to.key = Key(r)
    BY <1>3 DEF Request, Stages, Key
  <1>5. request' = [request EXCEPT ![r] = to]
    BY <1>1
  <1> HIDE DEF to
  <1>6. request'[r] = to /\ \A s \in Requests \ {r} : request'[s] = request[s]
    BY <1>5
  <1>7. Pruned \in [Keys -> Locks \cup {None}]
    BY DEF Pruned
  <1>8. OthersTyped'
    BY <1>1, <1>2, <1>3, <1>7 DEF OthersTyped
  <1>9. \A s \in Requests :
          Joined(s) /\ ~request[s].cut /\ s # r => Pruned[Key(s)] = request[s].lock
    BY DEF Recorded, Joined, Pruned, Referred, HasKey, Holding
  <1>10. Recorded'
    <2> SUFFICES ASSUME NEW s \in Requests, request'[s].lock # None, ~request'[s].cut
                 PROVE  flights'[request'[s].key] = request'[s].lock
      BY DEF Recorded, Joined, Key
    <2>1. CASE s = r
      <3>1. flights'[Key(r)] = l
        BY <1>1, <1>3, <1>7
      <3>2. request'[s].key = Key(r) /\ request'[s].lock = l
        BY <1>4, <1>6, <2>1
      <3> QED BY <3>1, <3>2
    <2>2. CASE s # r
      <3>1. Joined(s) /\ ~request[s].cut /\ Key(s) \in Keys
        BY <1>6, <2>2 DEF Joined, HasKey, Holding
      <3>2. CASE Key(s) = Key(r)
        <4>1. Pruned[Key(r)] = request[s].lock
          BY <1>9, <2>2, <3>1, <3>2
        <4> QED BY <1>1, <1>3, <1>6, <1>7, <2>2, <3>1, <3>2, <4>1 DEF Joined, Key
      <3>3. CASE Key(s) # Key(r)
        BY <1>1, <1>3, <1>6, <1>7, <1>9, <2>2, <3>1, <3>3 DEF Key
      <3> QED BY <3>2, <3>3
    <2> QED BY <2>1, <2>2
  <1>11. RequestsFine'
    <2>1. request' \in [Requests -> Request]
      BY <1>4, <1>5
    <2>2. \A s \in Requests :
            request'[s].lock # None <=> request'[s].at \in Holding \cup {"locking"}
      BY <1>3, <1>4, <1>6
    <2>3. HasKey'
      BY <1>3, <1>4, <1>6 DEF HasKey, Key
    <2>4. Exclusive'
      BY <1>4, <1>6 DEF Exclusive, Holding
    <2> QED BY <1>10, <2>1, <2>2, <2>3, <2>4 DEF RequestsFine
  <1> QED BY <1>8, <1>11, SplitNext

LEMMA OtherSteps ==
  ASSUME IInv,
         \/ \E k \in Keys : MarkExpires(k)
         \/ Forgets \/ ForgetsCache \/ ForgetsWindowed
  PROVE  IInv'
  <1>1. UNCHANGED <<flights, request>>
    BY DEF MarkExpires, Forgets, ForgetsCache, ForgetsWindowed
  <1>2. RequestsFine'
    BY <1>1 DEF IInv, TypeOK, RequestsFine, HasKey, Recorded, Exclusive, Joined, Key
  <1>3. OthersTyped'
    BY DEF IInv, TypeOK, OthersTyped, MarkExpires, Forgets, ForgetsCache,
           ForgetsWindowed
  <1> QED BY <1>2, <1>3, SplitNext

LEMMA ForgetsFlightsStep ==
  ASSUME IInv, ForgetsFlights
  PROVE  IInv'
  <1> USE DEF IInv, TypeOK
  <1>1. /\ flights' = [k \in Keys |-> None]
        /\ forget' = "no" /\ UNCHANGED <<account, held, windowed>>
        /\ request' = [r \in Requests |-> [request[r] EXCEPT !.cut = request[r].lock # None]]
    BY DEF ForgetsFlights
  <1>2. \A r \in Requests :
          /\ request'[r] \in Request
          /\ request'[r].at = request[r].at /\ request'[r].lock = request[r].lock
          /\ request'[r].key = request[r].key
          /\ request'[r].lock # None => request'[r].cut
    BY <1>1 DEF Request
  <1>3. request' \in [Requests -> Request]
    BY <1>1, <1>2
  <1>4. RequestsFine'
    BY <1>2, <1>3 DEF RequestsFine, HasKey, Recorded, Exclusive, Joined, Key
  <1>5. OthersTyped'
    BY <1>1 DEF OthersTyped
  <1> QED BY <1>4, <1>5, SplitNext

LEMMA NextIInv == IInv /\ [Next]_vars => IInv'
  <1> SUFFICES ASSUME IInv, [Next]_vars PROVE IInv'
    OBVIOUS
  <1>1. CASE UNCHANGED vars
    BY <1>1 DEF vars, IInv, TypeOK, HasKey, Recorded, Exclusive, Joined, Key
  <1>2. CASE Next
    BY <1>2, QuietSteps, ArrivesStep, FetchesStep, ArrivalSteps, AcquiresStep, OtherSteps,
       ForgetsFlightsStep DEF Next, Steps
  <1> QED BY <1>1, <1>2

-----------------------------------------------------------------------------
(***************************************************************************)
(* The state keeps its types, and a flight is joined exactly from the      *)
(* acquisition of its lock to the end of the fetch (mod.rs:107-134).       *)
(***************************************************************************)
THEOREM TypeCorrect == Spec => []TypeOK
  <1>1. IInv => TypeOK
    BY DEF IInv
  <1> QED BY <1>1, InitIInv, NextIInv, PTL DEF Spec

LEMMA OneFlight == IInv => OneFlightPerKey
  <1> SUFFICES ASSUME IInv, NEW r \in Requests, NEW s \in Requests,
                      request[r].at \in Holding, request[s].at \in Holding,
                      Key(r) = Key(s), ~request[r].cut, ~request[s].cut
               PROVE  r = s
    BY DEF OneFlightPerKey
  <1>1. request[r].lock = flights[Key(r)] /\ request[s].lock = flights[Key(s)]
    BY DEF IInv, TypeOK, Recorded, Joined
  <1> QED BY <1>1 DEF IInv, Exclusive

(***************************************************************************)
(* No two requests fly for one key together, unless a sign-out cleared the *)
(* flights after one of them joined (flight.rs:9-21, mod.rs:107-143).      *)
(***************************************************************************)
THEOREM FlightsPerKey == Spec => []OneFlightPerKey
  BY OneFlight, InitIInv, NextIInv, PTL DEF Spec

-----------------------------------------------------------------------------
(* The second look at the cache *)

\* From the second look to the end of the fetch.
Looked == {"rewindowed", "permit", "fetching"}

\* A step that puts nothing, and brings no request past its second look.
LEMMA NothingPut ==
  ASSUME IInv, NotFetchedTwice, \A k \in Keys : held'[k] \in {held[k], None},
         \A r \in Requests : request'[r].at \in Looked /\ ~request'[r].cut =>
           /\ request'[r].key \in Keys /\ request'[r].key = Key(r)
           /\ \/ request[r].at \in Looked /\ ~request[r].cut
              \/ held[Key(r)] = None
  PROVE  NotFetchedTwice'
  BY DEF NotFetchedTwice, Looked, Key

\* The steps of a request other than the end of its fetch: only the second look, at a key
\* of which nothing is held, leads to one.
LEMMA LooksBeforeFetching ==
  ASSUME IInv, NotFetchedTwice, NEW r \in Requests, Steps(r) \/ \E k \in Keys : Arrives(r, k),
         ~Fetched(r)
  PROVE  NotFetchedTwice'
  <1>1. UNCHANGED held
    BY DEF Steps, Arrives, LooksInCache, LooksAtMark, Acquires, LooksAgain, LooksAtMarkAgain,
           FallsBack, Refused, WindowServed, TakesOff, Fetches
  <1>2. request \in [Requests -> Request] /\ HasKey
    BY DEF IInv, TypeOK
  <1>3. \A s \in Requests \ {r} : request'[s] = request[s]
    BY <1>2 DEF Steps, Arrives, LooksInCache, LooksAtMark, Acquires, LooksAgain,
       LooksAtMarkAgain, FallsBack, Refused, WindowServed, TakesOff, Fetches, Moves, Ends,
       GoesOnWindowed, GivesBack
  <1>4. request'[r].at \in Looked =>
          /\ request'[r].key = Key(r) /\ request'[r].cut = request[r].cut
          /\ request[r].at \in Looked \/ held[Key(r)] = None
    <2>1. CASE LooksAgain(r)
      BY <1>2, <2>1 DEF LooksAgain, Moves, Ends, Idle, Looked, Key, Request
    <2>2. CASE LooksAtMarkAgain(r) \/ Fetches(r)
      BY <1>2, <2>2, ZenonT(30)
         DEF LooksAtMarkAgain, Fetches, Moves, GoesOnWindowed, Idle, Looked, Key, Request, At
    <2>3. CASE LooksInCache(r) \/ LooksAtMark(r) \/ Acquires(r) \/ TakesOff(r)
      BY <1>2, <2>3 DEF LooksInCache, LooksAtMark, Acquires, TakesOff, SecondLook, Moves, Ends,
         Idle, Looked, Request
    <2>4. CASE FallsBack(r) \/ Refused(r) \/ WindowServed(r)
      <3> DEFINE onward == [Idle EXCEPT !.at = "window", !.key = Key(r)]
      <3>1. request' = [request EXCEPT ![r] = Idle] \/ request' = [request EXCEPT ![r] = onward]
        BY <2>4 DEF FallsBack, Refused, WindowServed, GivesBack, Ends, GoesOnWindowed
      <3>2. Idle.at = "idle" /\ onward.at = "window"
        BY DEF Idle
      <3> HIDE DEF onward
      <3>3. request'[r] = Idle \/ request'[r] = onward
        BY <1>2, <3>1
      <3> QED BY <3>2, <3>3 DEF Looked
    <2>5. CASE \E k \in Keys : Arrives(r, k)
      BY <1>2, <2>5, ZenonT(30) DEF Arrives, Looked, Request
    <2> QED BY <2>1, <2>2, <2>3, <2>4, <2>5 DEF Steps
  <1>5. ASSUME NEW s \in Requests, request'[s].at \in Looked, ~request'[s].cut
        PROVE  /\ request'[s].key \in Keys /\ request'[s].key = Key(s)
               /\ \/ request[s].at \in Looked /\ ~request[s].cut
                  \/ held[Key(s)] = None
    <2>1. \A u \in Requests : request'[u].at # "idle" => request'[u].key \in Keys
      <3>1. HasKey'
        BY NextIInv DEF IInv, Next, HasKey
      <3> QED BY <3>1 DEF HasKey, Key
    <2> QED BY <1>3, <1>4, <1>5, <2>1 DEF Looked, Key
  <1> QED BY <1>1, <1>5, NothingPut

\* A body is put by a flight, and the flight of a request that was not cut off is the only
\* one of its key but for those that were.
LEMMA PutByLateFlight ==
  ASSUME IInv, NotFetchedTwice, NEW r \in Requests, Fetched(r)
  PROVE  NotFetchedTwice'
  <1> SUFFICES ASSUME NEW s \in Requests, request'[s].at \in Looked, ~request'[s].cut
               PROVE  held'[request'[s].key] = None \/ held'[request'[s].key].late
    BY DEF NotFetchedTwice, Looked, Key
  <1>1. /\ request \in [Requests -> Request] /\ HasKey /\ held \in [Keys -> Body \cup {None}]
        /\ request[r].at = "fetching"
    BY DEF IInv, TypeOK, Fetched, At
  <1>2. s # r /\ request'[s] = request[s] /\ Key(s) \in Keys
    BY <1>1 DEF Fetched, Ends, Idle, Looked, HasKey
  <1>3. PICK gone \in SUBSET (Keys \ {Key(r)}) :
          held' = [k \in Keys |-> IF k = Key(r)
                                  THEN [account |-> request[r].account, late |-> request[r].cut]
                                  ELSE IF k \in gone THEN None ELSE held[k]]
    BY DEF Fetched
  <1>4. CASE Key(s) = Key(r)
    <2>1. request[r].cut
      <3>1. request[r].at \in Holding /\ request[s].at \in Holding
        BY <1>1, <1>2 DEF Holding, Looked
      <3>2. request[r].cut \in BOOLEAN
        BY <1>1 DEF Request
      <3> QED BY <1>2, <1>4, <3>1, <3>2, OneFlight DEF OneFlightPerKey
    <2> QED BY <1>2, <1>3, <1>4, <2>1 DEF Key
  <1>5. CASE Key(s) # Key(r)
    <2>1. held[Key(s)] = None \/ held[Key(s)].late
      BY <1>2 DEF NotFetchedTwice, Looked
    <2> QED BY <1>2, <1>3, <1>5, <2>1 DEF Key
  <1> QED BY <1>4, <1>5

LEMMA NextNotTwice == IInv /\ NotFetchedTwice /\ [Next]_vars => NotFetchedTwice'
  <1> SUFFICES ASSUME IInv, NotFetchedTwice, [Next]_vars PROVE NotFetchedTwice'
    OBVIOUS
  <1>1. ASSUME NEW r \in Requests, Steps(r) \/ \E k \in Keys : Arrives(r, k)
        PROVE  NotFetchedTwice'
    BY <1>1, LooksBeforeFetching, PutByLateFlight
  <1>2. CASE \/ \E k \in Keys : MarkExpires(k)
             \/ Forgets \/ ForgetsCache \/ ForgetsWindowed \/ UNCHANGED vars
    <2>1. UNCHANGED request /\ \A k \in Keys : held'[k] \in {held[k], None}
      BY <1>2 DEF MarkExpires, Forgets, ForgetsCache, ForgetsWindowed, vars
    <2>2. \A r \in Requests : request[r].at \in Looked => Key(r) \in Keys
      BY DEF IInv, HasKey, Looked
    <2> QED BY <2>1, <2>2, NothingPut DEF Key
  <1>3. CASE ForgetsFlights
    <2>1. \A r \in Requests : request'[r].at \in Looked => request'[r].cut
      BY <1>3, ZenonT(30) DEF ForgetsFlights, IInv, TypeOK, Request, Looked, Holding
    <2> QED BY <2>1 DEF NotFetchedTwice, Looked
  <1> QED BY <1>1, <1>2, <1>3 DEF Next

(***************************************************************************)
(* A request that waited for a flight and looked again at the cache does   *)
(* not fetch what another has put meanwhile, but for what a flight that a  *)
(* sign-out had cut off puts late (mod.rs:107-143, flight.rs:9-21).        *)
(***************************************************************************)
THEOREM SecondLookSuffices == Spec => []NotFetchedTwice
  <1>1. Init => NotFetchedTwice
    BY DEF Init, NotFetchedTwice, Idle
  <1> QED BY <1>1, InitIInv, NextIInv, NextNotTwice, PTL DEF Spec

(***************************************************************************)
(* No step but the forgetting of a sign-out takes the mark of an oversized *)
(* body, or turns it into one that expires (windowed.rs:23-38,             *)
(* mod.rs:116-134).                                                        *)
(***************************************************************************)
THEOREM OversizedKept == Spec => OversizedStays
  <1>1. ASSUME IInv, [Next]_vars, NEW k \in Keys, windowed[k] = "always",
               windowed'[k] # "always"
        PROVE  ForgetsWindowed
    <2>1. ASSUME NEW r \in Requests, Steps(r) \/ \E key \in Keys : Arrives(r, key)
          PROVE  windowed'[k] = windowed[k]
      <3>1. CASE FallsBack(r)
        BY <1>1, <3>1 DEF FallsBack, Marked, IInv, TypeOK
      <3>2. CASE ~FallsBack(r)
        BY <2>1, <3>2 DEF Steps, Arrives, LooksInCache, LooksAtMark, Acquires, LooksAgain,
           LooksAtMarkAgain, Fetched, Refused, WindowServed, TakesOff, Fetches
      <3> QED BY <3>1, <3>2
    <2>2. ASSUME NEW key \in Keys, MarkExpires(key)
          PROVE  windowed'[k] = windowed[k]
      BY <1>1, <2>2 DEF MarkExpires, IInv, TypeOK
    <2> QED BY <1>1, <2>1, <2>2 DEF Next, vars, Forgets, ForgetsCache, ForgetsFlights
  <1>2. IInv /\ [Next]_vars =>
          [\A k \in Keys : windowed[k] = "always" /\ windowed'[k] # "always"
                           => ForgetsWindowed]_windowed
    BY <1>1
  <1> QED BY <1>2, InitIInv, NextIInv, PTL DEF Spec, OversizedStays
=============================================================================
