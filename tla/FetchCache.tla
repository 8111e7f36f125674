------------------------------ MODULE FetchCache ------------------------------
(***************************************************************************)
(* One FetchCache of src/src/lib/api/cache.ts, the account epoch of        *)
(* account-caches.ts and the requests that run against it.                 *)
(*                                                                         *)
(* Everything JavaScript does between two awaits is one action.  A request *)
(* is read by the server in a step of its own, and its answer is handled   *)
(* in another.  A value is the account it was given to and the version the *)
(* server had then, and whether a GET read it or a PUT wrote it.            *)
(***************************************************************************)
EXTENDS Naturals

CONSTANTS
  Keys,
  Requests,       \* GETs that may be in flight together
  Writers,        \* PUTs whose answer is written through the cache
  Absent, NoRequest,
  MaxVersion,     \* bound on the server's changes of a key
  MaxAccount,     \* bound on sign-outs
  MaxGeneration   \* bound on deletes and clears

ASSUME SentinelsAssumption == NoRequest \notin Requests
                              /\ Absent \notin [by: {"read", "write"}, account: Nat, version: Nat]

VARIABLES
  account,     \* epoch of account-caches.ts
  server,      \* server[k]: how often the server's value of k has changed
  floor,       \* observer: server[k] when k was last deleted or cleared
  entry,       \* TtlCache.#entries
  generation,  \* TtlCache.generation
  inFlight,    \* FetchCache.#inFlight
  request,     \* the GETs
  writer       \* the PUTs

caches == <<entry, generation, inFlight>>
vars == <<account, server, floor, caches, request, writer>>

Value == [by: {"read", "write"}, account: Nat, version: Nat]
Read(a, v) == [by |-> "read", account |-> a, version |-> v]
Written(a, v) == [by |-> "write", account |-> a, version |-> v]
Request == [state: {"free", "asked", "read"}, key: Keys, epoch: Nat,
            generation: Nat, got: Value]
Writer == [state: {"free", "sent", "done"}, key: Keys, got: Value]

TypeOK ==
  /\ account \in Nat /\ server \in [Keys -> Nat] /\ floor \in [Keys -> Nat]
  /\ entry \in [Keys -> Value \cup {Absent}] /\ generation \in Nat
  /\ inFlight \in [Keys -> Requests \cup {NoRequest}]
  /\ request \in [Requests -> Request] /\ writer \in [Writers -> Writer]

Init ==
  /\ account = 0 /\ generation = 0
  /\ server = [k \in Keys |-> 0] /\ floor = server
  /\ entry = [k \in Keys |-> Absent]
  /\ inFlight = [k \in Keys |-> NoRequest]
  /\ request \in [Requests -> [state: {"free"}, key: Keys, epoch: {0}, generation: {0},
                               got: {Read(0, 0)}]]
  /\ writer \in [Writers -> [state: {"free"}, key: Keys, got: {Written(0, 0)}]]
  /\ \A r, s \in Requests : request[r] = request[s]
  /\ \A w, v \in Writers : writer[w] = writer[v]

-----------------------------------------------------------------------------
(* The server *)

ServerChanges(k) ==
  /\ server[k] < MaxVersion
  /\ server' = [server EXCEPT ![k] = @ + 1]
  /\ UNCHANGED <<account, floor, caches, request, writer>>

ServerReads(r) ==
  /\ request[r].state = "asked"
  /\ request' = [request EXCEPT ![r].state = "read",
                   ![r].got = Read(request[r].epoch, server[request[r].key])]
  /\ UNCHANGED <<account, server, floor, caches, writer>>

ServerWrites(w) ==
  /\ writer[w].state = "sent"
  /\ server[writer[w].key] < MaxVersion
  /\ server' = [server EXCEPT ![writer[w].key] = @ + 1]
  /\ writer' = [writer EXCEPT ![w].state = "done",
                              ![w].got.version = server[writer[w].key] + 1]
  /\ UNCHANGED <<account, floor, caches, request>>

-----------------------------------------------------------------------------
(* Reads *)

\* refetch without a request to join; fetch comes here when get() finds nothing.
Refetch(k) ==
  /\ inFlight[k] = NoRequest
  /\ \E r \in Requests :
       /\ request[r].state = "free"
       /\ request' = [request EXCEPT ![r] =
                        [state |-> "asked", key |-> k, epoch |-> account,
                         generation |-> generation, got |-> Read(0, 0)]]
       /\ inFlight' = [inFlight EXCEPT ![k] = r]
  /\ UNCHANGED <<account, server, floor, entry, generation, writer>>

\* get() finds an entry past its time.
Expire(k) ==
  /\ entry[k] # Absent
  /\ entry' = [entry EXCEPT ![k] = Absent]
  /\ UNCHANGED <<account, server, floor, generation, inFlight, request, writer>>

\* (fault, for a mutant: the record goes whosever it is)
DroppedAnyway(r) == [inFlight EXCEPT ![request[r].key] = NoRequest]
\* finally: the record goes, if it is still this request's.
Dropped(r) == [k \in Keys |-> IF inFlight[k] = r THEN NoRequest ELSE inFlight[k]]

IsCurrent(r) == request[r].epoch = account /\ request[r].generation = generation

\* (fault, for a mutant: it is stored whatever was forgotten since it was asked for)
StoredAnyway(r) == [entry EXCEPT ![request[r].key] = request[r].got]
Stored(r) == IF IsCurrent(r) THEN [entry EXCEPT ![request[r].key] = request[r].got] ELSE entry

Settles(r) ==
  /\ inFlight' = Dropped(r)
  /\ request' = [request EXCEPT ![r].state = "free"]
  /\ UNCHANGED <<account, server, floor, generation, writer>>

Answered(r) ==
  /\ request[r].state = "read"
  /\ entry' = Stored(r)
  /\ Settles(r)

Failed(r) ==
  /\ request[r].state # "free"
  /\ UNCHANGED entry
  /\ Settles(r)

-----------------------------------------------------------------------------
(* Writes through the cache: putFavoriteNote and deleteFavoriteNote set the *)
(* value once the server has accepted it, mergeProfileEditIntoCaches        *)
(* updates the one that is there.                                           *)

StartWrite(k) ==
  /\ \E w \in Writers :
       /\ writer[w].state = "free"
       /\ writer' = [writer EXCEPT ![w] = [state |-> "sent", key |-> k,
                        got |-> Written(account, 0)]]
  /\ UNCHANGED <<account, server, floor, caches, request>>

WriteAnswered(w) ==
  /\ writer[w].state = "done"
  /\ \/ entry' = [entry EXCEPT ![writer[w].key] = writer[w].got]
     \/ entry[writer[w].key] = Absent /\ UNCHANGED entry
  /\ writer' = [writer EXCEPT ![w].state = "free"]
  /\ UNCHANGED <<account, server, floor, generation, inFlight, request>>

WriteFails(w) ==
  /\ writer[w].state # "free"
  /\ writer' = [writer EXCEPT ![w].state = "free"]
  /\ UNCHANGED <<account, server, floor, caches, request>>

-----------------------------------------------------------------------------
(* Forgetting *)

\* (fault, for a mutant: what is in flight stays joinable)
StillShared(ks) == inFlight
\* What is in flight for these keys is joined no more.
Unshared(ks) == [k \in Keys |-> IF k \in ks THEN NoRequest ELSE inFlight[k]]

Delete(k) ==
  /\ generation < MaxGeneration /\ generation' = generation + 1
  /\ entry' = [entry EXCEPT ![k] = Absent]
  /\ inFlight' = Unshared({k})
  /\ floor' = [floor EXCEPT ![k] = server[k]]
  /\ UNCHANGED <<account, server, request, writer>>

Emptied ==
  /\ generation < MaxGeneration /\ generation' = generation + 1
  /\ entry' = [k \in Keys |-> Absent]
  /\ inFlight' = Unshared(Keys)
  /\ floor' = server
  /\ UNCHANGED <<server, request, writer>>

Clear == Emptied /\ UNCHANGED account

\* clearAccountCaches: a new epoch, and the reset of every cache.
SignOut ==
  /\ account < MaxAccount /\ account' = account + 1
  /\ Emptied

-----------------------------------------------------------------------------
Next ==
  \/ \E k \in Keys : ServerChanges(k) \/ Refetch(k) \/ Expire(k) \/ StartWrite(k) \/ Delete(k)
  \/ \E r \in Requests : ServerReads(r) \/ Answered(r) \/ Failed(r)
  \/ \E w \in Writers : ServerWrites(w) \/ WriteAnswered(w) \/ WriteFails(w)
  \/ Clear \/ SignOut

Spec == Init /\ [][Next]_vars

-----------------------------------------------------------------------------
(* Properties *)

\* A caller that arrives now joins, if any, a request begun since the key was last
\* deleted or cleared and for the account signed in: what it gets cannot be older.
JoinedIsFresh ==
  \A k \in Keys : LET r == inFlight[k] IN
    r # NoRequest =>
      /\ request[r].state # "free" /\ request[r].key = k
      /\ request[r].epoch = account
      /\ request[r].state = "read" => request[r].got.version >= floor[k]

\* Two requests of one key and one generation are never in flight together: callers
\* share, whatever requests of earlier generations are still to settle.
OneRequestPerKey ==
  \A r, s \in Requests :
    /\ request[r].state # "free" /\ request[s].state # "free"
    /\ request[r].key = request[s].key
    /\ IsCurrent(r) /\ IsCurrent(s)
    => r = s

Store == INSTANCE AccountStore

\* It is an account-scoped store: no entry that a GET has left belongs to an earlier
\* account or was read before its key was last forgotten; the others were written through.
ImplementsStore == Store!Spec

\* A write that was in flight across a sign-out is dropped: no entry belongs to an
\* earlier account.
EntriesOfAccount == \A k \in Keys : entry[k] # Absent => entry[k].account = account
===============================================================================
