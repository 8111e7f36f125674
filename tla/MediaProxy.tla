----------------------------- MODULE MediaProxy -----------------------------
(***************************************************************************)
(* MediaProxy of src/src-tauri/src/media: requests of the webview that     *)
(* share a cache, the marks of bodies served in windows, one flight per    *)
(* key and a limited number of fetches, while a sign-out forgets all.      *)
(*                                                                         *)
(* Every request is a task: what it does between two awaits is one action. *)
(* The cache holds what is put until it is evicted or cleared (MediaCache  *)
(* says which goes); a body is the account it was fetched for, and whether *)
(* by a flight that a sign-out had cut off.                                *)
(***************************************************************************)
EXTENDS Naturals, FiniteSets

CONSTANTS
  Keys, Requests,
  Locks,        \* the mutexes of Flights; as many as requests
  None,
  Permits,      \* OFFICIAL_APP_REQUESTS_PER_HOST
  MaxAccount    \* bound on sign-outs

ASSUME ProxyAssumption ==
  /\ Permits \in Nat \ {0} /\ MaxAccount \in Nat
  /\ None \notin Keys \cup Locks /\ None \notin [account: Nat, late: BOOLEAN]
  /\ IsFiniteSet(Locks) /\ IsFiniteSet(Requests)
  /\ Cardinality(Locks) >= Cardinality(Requests)

VARIABLES
  account,   \* the accounts signed in so far
  forget,    \* the step a sign-out is at: "no", or what it forgets next
  held,      \* MediaCache: the body of each key, or None
  windowed,  \* Windowed: the mark of each key
  flights,   \* Flights: the lock of each key, or None
  request

vars == <<account, forget, held, windowed, flights, request>>

\* Where a request is, in the order of serve.
Stages == {"idle", "cached", "windowed", "acquire", "locking", "recached", "rewindowed",
           "permit", "fetching", "window", "windowing"}
\* cut: the flights were cleared since it acquired its lock.
Request == [at: Stages, key: Keys \cup {None}, lock: Locks \cup {None}, account: Nat, cut: BOOLEAN]
Body == [account: Nat, late: BOOLEAN]
Idle == [at |-> "idle", key |-> None, lock |-> None, account |-> 0, cut |-> FALSE]
Holding == {"recached", "rewindowed", "permit", "fetching"}

TypeOK ==
  /\ account \in Nat /\ forget \in {"no", "cache", "windowed", "flights"}
  /\ held \in [Keys -> Body \cup {None}]
  /\ windowed \in [Keys -> {"no", "now", "always"}]
  /\ flights \in [Keys -> Locks \cup {None}]
  /\ request \in [Requests -> Request]
  \* A flight is joined to take off, and left with the end of the fetch.
  /\ \A r \in Requests : request[r].lock # None <=> request[r].at \in Holding \cup {"locking"}

Init ==
  /\ account = 0 /\ forget = "no"
  /\ held = [k \in Keys |-> None]
  /\ windowed = [k \in Keys |-> "no"]
  /\ flights = [k \in Keys |-> None]
  /\ request = [r \in Requests |-> Idle]

Key(r) == request[r].key
At(r, stage) == request[r].at = stage
Moves(r, stage) == request' = [request EXCEPT ![r].at = stage]
Ends(r) == request' = [request EXCEPT ![r] = Idle]
\* Its flight is dropped: windows need none.
GoesOnWindowed(r) == request' = [request EXCEPT ![r] = [Idle EXCEPT !.at = "window", !.key = Key(r)]]

-----------------------------------------------------------------------------
(* serve, up to the flight *)

Arrives(r, k) ==
  /\ At(r, "idle")
  /\ request' = [request EXCEPT ![r].at = "cached", ![r].key = k]
  /\ UNCHANGED <<account, forget, held, windowed, flights>>

LooksInCache(r) ==
  /\ At(r, "cached")
  /\ IF held[Key(r)] # None THEN Ends(r) ELSE Moves(r, "windowed")
  /\ UNCHANGED <<account, forget, held, windowed, flights>>

LooksAtMark(r) ==
  /\ At(r, "windowed")
  /\ Moves(r, IF windowed[Key(r)] # "no" THEN "window" ELSE "acquire")
  /\ UNCHANGED <<account, forget, held, windowed, flights>>

\* Locks some task holds or waits for: those with a strong count above one.
Referred == {request[r].lock : r \in Requests} \ {None}
\* (fault, for a mutant: locks are pruned whether used or not)
AllPruned == [k \in Keys |-> None]
\* retain
Pruned == [k \in Keys |-> IF flights[k] \in Referred THEN flights[k] ELSE None]

\* Flights.acquire, up to its last await: a lock is found or made.
Acquires(r) ==
  /\ At(r, "acquire")
  /\ \E l \in Locks :
       /\ IF Pruned[Key(r)] # None THEN l = Pruned[Key(r)]
          ELSE l \notin Referred /\ l \notin {Pruned[k] : k \in Keys}
       /\ flights' = [Pruned EXCEPT ![Key(r)] = l]
       /\ request' = [request EXCEPT ![r].at = "locking", ![r].lock = l]
  /\ UNCHANGED <<account, forget, held, windowed>>

Free(l) == \A s \in Requests : request[s].at \in Holding => request[s].lock # l

\* (fault, for a mutant: no second look at the cache)
StraightOn == "rewindowed"
SecondLook == "recached"

TakesOff(r) ==
  /\ At(r, "locking") /\ Free(request[r].lock)
  /\ Moves(r, SecondLook)
  /\ UNCHANGED <<account, forget, held, windowed, flights>>

LooksAgain(r) ==
  /\ At(r, "recached")
  /\ \/ held[Key(r)] # None /\ Ends(r)
     \/ held[Key(r)] = None /\ Moves(r, "rewindowed")
  /\ UNCHANGED <<account, forget, held, windowed, flights>>

LooksAtMarkAgain(r) ==
  /\ At(r, "rewindowed")
  /\ \/ windowed[Key(r)] # "no" /\ GoesOnWindowed(r)
     \/ windowed[Key(r)] = "no" /\ Moves(r, "permit")
  /\ UNCHANGED <<account, forget, held, windowed, flights>>

-----------------------------------------------------------------------------
(* Fetches *)

Fetching == {r \in Requests : request[r].at \in {"fetching", "windowing"}}

\* A permit is taken, and the client asked, for whoever is signed in.
Fetches(r) ==
  /\ Cardinality(Fetching) < Permits
  /\ \/ At(r, "permit") /\ request' = [request EXCEPT ![r].at = "fetching", ![r].account = account]
     \/ At(r, "window") /\ Moves(r, "windowing")
  /\ UNCHANGED <<account, forget, held, windowed, flights>>

\* The whole body: it is put, which may evict others.
Fetched(r) ==
  /\ At(r, "fetching")
  /\ \E gone \in SUBSET (Keys \ {Key(r)}) :
       held' = [k \in Keys |-> IF k = Key(r) THEN [account |-> request[r].account, late |-> request[r].cut]
                               ELSE IF k \in gone THEN None ELSE held[k]]
  /\ Ends(r)
  /\ UNCHANGED <<account, forget, windowed, flights>>

\* (fault, for a mutant: a lost deadline replaces the mark of an oversized body)
Remarked(k, mark) == [windowed EXCEPT ![k] = mark]
\* always and for_now
Marked(k, mark) == [windowed EXCEPT ![k] = IF @ = "always" THEN @ ELSE mark]

\* The body is oversized, or the player's deadline ran out: windows from here on.
FallsBack(r) ==
  /\ At(r, "fetching")
  /\ \E mark \in {"now", "always"} : windowed' = Marked(Key(r), mark)
  /\ GoesOnWindowed(r)
  /\ UNCHANGED <<account, forget, held, flights>>

\* Any other failure, and an answer that is not a whole body.
Refused(r) ==
  /\ At(r, "fetching") /\ Ends(r)
  /\ UNCHANGED <<account, forget, held, windowed, flights>>

\* (fault, for a mutant: the permit is never given back)
KeepsPermit(r) == request' = request
GivesBack(r) == Ends(r)

WindowServed(r) ==
  /\ At(r, "windowing") /\ GivesBack(r)
  /\ UNCHANGED <<account, forget, held, windowed, flights>>

\* contains: a mark that has lasted its moment is dropped.
MarkExpires(k) ==
  /\ windowed[k] = "now" /\ windowed' = [windowed EXCEPT ![k] = "no"]
  /\ UNCHANGED <<account, forget, held, flights, request>>

-----------------------------------------------------------------------------
(* logout, which ends an account, and rotate_api_params *)

Forgets ==
  /\ forget = "no" /\ forget' = "cache"
  /\ account' \in {account, account + 1} /\ account' <= MaxAccount
  /\ UNCHANGED <<held, windowed, flights, request>>

\* forget_everything, one await at a time.
ForgetsCache ==
  /\ forget = "cache" /\ forget' = "windowed"
  /\ held' = [k \in Keys |-> None]
  /\ UNCHANGED <<account, windowed, flights, request>>

ForgetsWindowed ==
  /\ forget = "windowed" /\ forget' = "flights"
  /\ windowed' = [k \in Keys |-> "no"]
  /\ UNCHANGED <<account, held, flights, request>>

ForgetsFlights ==
  /\ forget = "flights" /\ forget' = "no"
  /\ flights' = [k \in Keys |-> None]
  /\ request' = [r \in Requests |->
                   [request[r] EXCEPT !.cut = request[r].lock # None]]
  /\ UNCHANGED <<account, held, windowed>>

-----------------------------------------------------------------------------
Steps(r) ==
  \/ LooksInCache(r) \/ LooksAtMark(r) \/ Acquires(r) \/ LooksAgain(r) \/ LooksAtMarkAgain(r)
  \/ Fetched(r) \/ FallsBack(r) \/ Refused(r) \/ WindowServed(r)
  \/ TakesOff(r) \/ Fetches(r)

Next ==
  \/ \E r \in Requests : Steps(r) \/ \E k \in Keys : Arrives(r, k)
  \/ \E k \in Keys : MarkExpires(k)
  \/ Forgets \/ ForgetsCache \/ ForgetsWindowed \/ ForgetsFlights

Spec == Init /\ [][Next]_vars

\* Tasks run and fetches end; the mutexes and the semaphore of tokio are first come, first
\* served, so whoever waits for one that is given back again and again gets it.
FairSpec == Spec /\ \A r \in Requests : SF_vars(Steps(r))

-----------------------------------------------------------------------------
(* Properties *)

\* Two requests fly for one key, from the second look at the cache to the end of the
\* fetch, only if the flights were cleared in between.
OneFlightPerKey ==
  \A r, s \in Requests :
    /\ request[r].at \in Holding /\ request[s].at \in Holding
    /\ Key(r) = Key(s)
    /\ ~request[r].cut /\ ~request[s].cut
    => r = s

\* Nor does one fetch what another has just put: with no clear since it joined, no body
\* of its key is held while it fetches, unless from a flight that a clear cut off.
NotFetchedTwice ==
  \A r \in Requests :
    /\ request[r].at \in {"rewindowed", "permit", "fetching"} /\ ~request[r].cut
    => held[Key(r)] = None \/ held[Key(r)].late

\* The mark of an oversized body outlives every lost deadline, those of flights that a
\* sign-out cut off included; only forgetting takes it.
OversizedStays ==
  [][\A k \in Keys : windowed[k] = "always" /\ windowed'[k] # "always" => ForgetsWindowed]_windowed

\* Every request of the webview is answered.
RequestsEnd == \A r \in Requests : ~At(r, "idle") ~> At(r, "idle")

\* Once everything is forgotten, no body of an earlier account is held.
NothingOfOldAccount ==
  forget = "no" => \A k \in Keys : held[k] = None \/ held[k].account = account
=============================================================================
