--------------------------- MODULE FetchCacheProofs ---------------------------
(***************************************************************************)
(* Theorems about FetchCache, for any number of keys, requests and writes. *)
(* All rest on one inductive invariant: the request recorded for a key is  *)
(* running, and every running request of the present account and           *)
(* generation is recorded, so a delete or a clear, which drops the record  *)
(* and starts a generation, cuts off all that began before it.             *)
(***************************************************************************)
EXTENDS FetchCache, TLAPS

Live(r) == request[r].state # "free"

\* What a request carries is no younger than the cache or the server.
Dated ==
  \A r \in Requests :
    Live(r) => /\ request[r].generation <= generation
               /\ request[r].epoch <= account
               /\ request[r].state = "read" =>
                    /\ request[r].got.by = "read"
                    /\ request[r].got.account = request[r].epoch
                    /\ request[r].got.version <= server[request[r].key]

\* Nor is what a write carries.
WritesDated ==
  \A w \in Writers :
    writer[w].state # "free" =>
      /\ writer[w].got.by = "write" /\ writer[w].got.account <= account
      /\ writer[w].got.version <= server[writer[w].key]

FloorsReached == \A k \in Keys : floor[k] <= server[k]

Recorded == \A r \in Requests : Live(r) /\ IsCurrent(r) => inFlight[request[r].key] = r

IInv == TypeOK /\ Dated /\ WritesDated /\ FloorsReached /\ Recorded /\ JoinedIsFresh

LEMMA InitIInv == Init => IInv
  <1> SUFFICES ASSUME Init PROVE IInv
    OBVIOUS
  <1>1. /\ \A r \in Requests : request[r].state = "free"
        /\ \A w \in Writers : writer[w].state = "free"
    BY DEF Init
  <1>2. request \in [Requests -> Request]
    <2>1. Read(0, 0) \in Value
      BY DEF Read, Value
    <2>2. [state: {"free"}, key: Keys, epoch: {0}, generation: {0}, got: {Read(0, 0)}]
            \subseteq Request
      BY <2>1 DEF Request
    <2> QED BY <2>2 DEF Init
  <1>3. writer \in [Writers -> Writer]
    BY DEF Init, Writer, Written, Value
  <1>4. TypeOK
    BY <1>2, <1>3 DEF Init, TypeOK
  <1> QED BY <1>1, <1>4, SentinelsAssumption
          DEF Init, IInv, Dated, WritesDated, FloorsReached, Recorded, JoinedIsFresh, Live

-----------------------------------------------------------------------------
(* One lemma per group of actions that disturbs the invariant in the same way *)

LEMMA ServerSteps ==
  ASSUME IInv,
         \/ \E k \in Keys : ServerChanges(k) \/ Expire(k) \/ StartWrite(k)
         \/ \E w \in Writers : ServerWrites(w) \/ WriteAnswered(w) \/ WriteFails(w)
  PROVE  IInv'
  <1> USE DEF IInv, TypeOK
  <1> DEFINE Quiet == /\ \A k \in Keys : server[k] <= server'[k] /\ server'[k] \in Nat
                      /\ UNCHANGED <<account, floor, generation, inFlight, request>>
  <1>1. Quiet
    <2>1. ASSUME NEW k \in Keys, ServerChanges(k) PROVE Quiet
      BY <2>1 DEF ServerChanges, caches
    <2>2. ASSUME NEW k \in Keys, Expire(k) \/ StartWrite(k) PROVE Quiet
      BY <2>2 DEF Expire, StartWrite, caches
    <2>3. ASSUME NEW w \in Writers, WriteAnswered(w) \/ WriteFails(w) PROVE Quiet
      BY <2>3 DEF WriteAnswered, WriteFails, caches
    <2>4. ASSUME NEW w \in Writers, ServerWrites(w) PROVE Quiet
      <3>1. writer[w].key \in Keys
        BY DEF Writer
      <3> QED BY <2>4, <3>1 DEF ServerWrites, caches
    <2> QED BY <2>1, <2>2, <2>3, <2>4
  <1> DEFINE Typed == /\ server' \in [Keys -> Nat] /\ writer' \in [Writers -> Writer]
                      /\ entry' \in [Keys -> Value \cup {Absent}]
  <1>2. ASSUME NEW k \in Keys, ServerChanges(k) \/ Expire(k) PROVE Typed
    <2>1. CASE ServerChanges(k)
      BY <2>1 DEF ServerChanges, caches
    <2>2. CASE Expire(k)
      BY <2>2 DEF Expire
    <2> QED BY <1>2, <2>1, <2>2
  <1>3. ASSUME NEW k \in Keys, StartWrite(k) PROVE Typed
    <2>1. [state |-> "sent", key |-> k, got |-> Written(account, 0)] \in Writer
      BY DEF Writer, Written, Value
    <2> QED BY <1>3, <2>1 DEF StartWrite, caches
  <1>4. ASSUME NEW w \in Writers, ServerWrites(w) \/ WriteAnswered(w) \/ WriteFails(w)
        PROVE  Typed
    <2>1. /\ writer[w].key \in Keys /\ writer[w].got \in Value
          /\ writer[w].got.version \in Nat
      BY DEF Writer, Value
    <2>2. CASE WriteAnswered(w) \/ WriteFails(w)
      BY <2>1, <2>2 DEF WriteAnswered, WriteFails, caches, Writer
    <2>3. CASE ServerWrites(w)
      <3> DEFINE v == [writer[w].got EXCEPT !.version = server[writer[w].key] + 1]
                 done == [writer[w] EXCEPT !.state = "done", !.got = v]
      <3>1. v \in Value
        BY <2>1 DEF Value
      <3> HIDE DEF v
      <3>2. done \in Writer
        BY <2>1, <3>1 DEF Writer
      <3>3. writer' = [writer EXCEPT ![w] = done]
        BY <2>3 DEF ServerWrites, v, Writer, Value
      <3> HIDE DEF done
      <3> QED BY <2>1, <2>3, <3>2, <3>3 DEF ServerWrites, caches
    <2> QED BY <1>4, <2>2, <2>3
  <1>5. TypeOK'
    <2>1. Typed
      BY <1>2, <1>3, <1>4
    <2> QED BY <1>1, <2>1
  <1>6. Dated'
    <2> SUFFICES ASSUME NEW r \in Requests, Live(r)
                 PROVE  /\ request[r].generation <= generation
                        /\ request[r].epoch <= account
                        /\ request[r].state = "read" =>
                             /\ request[r].got.by = "read"
                             /\ request[r].got.account = request[r].epoch
                             /\ request[r].got.version <= server'[request[r].key]
      BY <1>1 DEF Dated, Live
    <2>1. request[r].key \in Keys /\ request[r].got.version \in Nat
      BY DEF Request, Value
    <2> QED BY <1>1, <2>1 DEF Dated
  <1>7. FloorsReached'
    <2> SUFFICES ASSUME NEW k \in Keys PROVE floor[k] <= server'[k]
      BY <1>1 DEF FloorsReached
    <2> QED BY <1>1 DEF FloorsReached
  <1>8. Recorded' /\ JoinedIsFresh'
    BY <1>1 DEF Recorded, JoinedIsFresh, Live, IsCurrent
  <1>9. WritesDated'
    <2> SUFFICES ASSUME NEW w \in Writers, writer'[w].state # "free"
                 PROVE  /\ writer'[w].got.by = "write" /\ writer'[w].got.account <= account
                        /\ writer'[w].got.version <= server'[writer'[w].key]
      BY <1>1 DEF WritesDated
    <2>1. /\ writer[w].key \in Keys /\ writer[w].got \in Value
          /\ writer[w].got.version \in Nat
      BY DEF Writer, Value
    <2>2. CASE writer'[w] = writer[w]
      BY <1>1, <2>1, <2>2 DEF WritesDated
    <2>3. ASSUME NEW v \in Writers, ServerWrites(v), writer'[w] # writer[w]
          PROVE  /\ writer[w].state = "sent" /\ writer'[w].key = writer[w].key
                 /\ writer'[w].got.by = writer[w].got.by
                 /\ writer'[w].got.account = writer[w].got.account
                 /\ writer'[w].got.version = server'[writer[w].key]
      <3>1. v = w
        BY <2>3 DEF ServerWrites
      <3> QED BY <2>1, <2>3, <3>1 DEF ServerWrites, Writer, Value
    <2>4. ASSUME NEW v \in Writers, WriteAnswered(v) \/ WriteFails(v), writer'[w] # writer[w]
          PROVE  writer'[w].state = "free"
      BY <2>4 DEF WriteAnswered, WriteFails, Writer
    <2>5. ASSUME NEW k \in Keys, ServerChanges(k) \/ Expire(k)
          PROVE  writer'[w] = writer[w]
      BY <2>5 DEF ServerChanges, Expire
    <2>6. ASSUME NEW k \in Keys, StartWrite(k), writer'[w] # writer[w]
          PROVE  /\ writer'[w].got.by = "write" /\ writer'[w].got.account <= account
                 /\ writer'[w].got.version <= server'[writer'[w].key]
      <3>1. /\ writer'[w].key = k /\ writer'[w].got.by = "write"
            /\ writer'[w].got.account = account /\ writer'[w].got.version = 0
        BY <2>6 DEF StartWrite, Written
      <3>2. server'[k] \in Nat
        BY <1>1
      <3> QED BY <3>1, <3>2
    <2>7. ASSUME NEW v \in Writers, ServerWrites(v), writer'[w] # writer[w]
          PROVE  /\ writer'[w].got.by = "write" /\ writer'[w].got.account <= account
                 /\ writer'[w].got.version <= server'[writer'[w].key]
      BY <1>1, <2>1, <2>3, <2>7 DEF WritesDated
    <2> QED BY <2>2, <2>4, <2>5, <2>6, <2>7
  <1> QED BY <1>5, <1>6, <1>7, <1>8, <1>9

LEMMA ReadSteps ==
  ASSUME IInv, NEW r \in Requests, ServerReads(r)
  PROVE  IInv'
  <1> USE DEF IInv, TypeOK
  <1> DEFINE read == Read(request[r].epoch, server[request[r].key])
  <1>1. request[r].key \in Keys /\ request[r].epoch \in Nat
    BY DEF Request
  <1>2. read \in Value
    BY <1>1 DEF Value, Read
  <1>3. /\ request'[r] = [request[r] EXCEPT !.state = "read", !.got = read]
        /\ \A s \in Requests \ {r} : request'[s] = request[s]
        /\ request[r].state = "asked"
        /\ UNCHANGED <<account, server, floor, generation, inFlight, entry, writer>>
    BY DEF ServerReads, caches
  <1>4. request'[r] \in Request /\ request'[r].got = read /\ request'[r].state = "read"
        /\ request'[r].key = request[r].key /\ request'[r].epoch = request[r].epoch
        /\ request'[r].generation = request[r].generation
    BY <1>2, <1>3 DEF Request
  <1>5. TypeOK'
    <2>1. request' \in [Requests -> Request]
      BY <1>4, <1>3 DEF ServerReads
    <2> QED BY <2>1, <1>3
  <1>6. /\ read.account = request[r].epoch /\ read.version = server[request[r].key]
        /\ read.by = "read"
    BY DEF Read
  <1> HIDE DEF read
  <1>7. Dated'
    <2> SUFFICES ASSUME NEW s \in Requests, Live(s)'
                 PROVE  /\ request'[s].generation <= generation
                        /\ request'[s].epoch <= account
                        /\ request'[s].state = "read" =>
                             /\ request'[s].got.by = "read"
                             /\ request'[s].got.account = request'[s].epoch
                             /\ request'[s].got.version <= server[request'[s].key]
      BY <1>3 DEF Dated
    <2>1. CASE s = r
      <3>1. Live(r)
        BY <1>3 DEF Live
      <3> QED BY <2>1, <3>1, <1>1, <1>4, <1>6 DEF Dated
    <2>2. CASE s # r
      BY <2>2, <1>3 DEF Dated, Live
    <2> QED BY <2>1, <2>2
  <1>8. FloorsReached' /\ WritesDated'
    BY <1>3 DEF FloorsReached, WritesDated
  <1>9. Recorded'
    <2> SUFFICES ASSUME NEW s \in Requests, Live(s)', IsCurrent(s)'
                 PROVE  inFlight[request'[s].key] = s
      BY <1>3 DEF Recorded
    <2>1. Live(s) /\ IsCurrent(s) /\ request'[s].key = request[s].key
      BY <1>3, <1>4 DEF Live, IsCurrent
    <2> QED BY <2>1 DEF Recorded
  <1>10. JoinedIsFresh'
    <2> SUFFICES ASSUME NEW k \in Keys, inFlight[k] # NoRequest
                 PROVE  /\ request'[inFlight[k]].state # "free"
                        /\ request'[inFlight[k]].key = k
                        /\ request'[inFlight[k]].epoch = account
                        /\ request'[inFlight[k]].state = "read" =>
                             request'[inFlight[k]].got.version >= floor[k]
      BY <1>3 DEF JoinedIsFresh
    <2>1. inFlight[k] \in Requests
      OBVIOUS
    <2>2. CASE inFlight[k] = r
      BY <2>2, <1>3, <1>4, <1>6 DEF JoinedIsFresh, FloorsReached
    <2>3. CASE inFlight[k] # r
      BY <2>1, <2>3, <1>3 DEF JoinedIsFresh
    <2> QED BY <2>2, <2>3
  <1> QED BY <1>5, <1>7, <1>8, <1>9, <1>10

LEMMA RefetchSteps ==
  ASSUME IInv, NEW k \in Keys, Refetch(k)
  PROVE  IInv'
  <1> USE DEF IInv, TypeOK
  <1>1. PICK r \in Requests :
          /\ request[r].state = "free"
          /\ request' = [request EXCEPT ![r] =
                           [state |-> "asked", key |-> k, epoch |-> account,
                            generation |-> generation, got |-> Read(0, 0)]]
          /\ inFlight' = [inFlight EXCEPT ![k] = r]
    BY DEF Refetch
  <1>2. /\ inFlight[k] = NoRequest
        /\ UNCHANGED <<account, server, floor, entry, generation, writer>>
    BY DEF Refetch
  <1>3. [state |-> "asked", key |-> k, epoch |-> account,
         generation |-> generation, got |-> Read(0, 0)] \in Request
    BY DEF Request, Read, Value
  <1>4. TypeOK'
    BY <1>1, <1>2, <1>3
  <1>5. Dated'
    BY <1>1, <1>2 DEF Dated, Live
  <1>6. FloorsReached' /\ WritesDated'
    BY <1>2 DEF FloorsReached, WritesDated
  <1>7. \A s \in Requests : Live(s) /\ IsCurrent(s) => request[s].key # k
    BY <1>2, SentinelsAssumption DEF Recorded
  <1>8. Recorded'
    BY <1>1, <1>2, <1>7 DEF Recorded, Live, IsCurrent, Request
  <1>9. \A j \in Keys : inFlight[j] # r
    BY <1>1, SentinelsAssumption DEF JoinedIsFresh
  <1>10. JoinedIsFresh'
    BY <1>1, <1>2, <1>9, SentinelsAssumption DEF JoinedIsFresh
  <1> QED BY <1>4, <1>5, <1>6, <1>8, <1>10

LEMMA SettleSteps ==
  ASSUME IInv, NEW r \in Requests, Answered(r) \/ Failed(r)
  PROVE  IInv'
  <1> USE DEF IInv, TypeOK
  <1>1. /\ inFlight' = Dropped(r)
        /\ request' = [request EXCEPT ![r].state = "free"]
        /\ UNCHANGED <<account, server, floor, generation, writer>>
    BY DEF Answered, Failed, Settles
  <1>2. request[r].key \in Keys /\ request[r].got \in Value
    BY DEF Request
  <1>3. entry' \in [Keys -> Value \cup {Absent}]
    BY <1>2 DEF Answered, Failed, Stored
  <1>4. TypeOK'
    BY <1>1, <1>3 DEF Dropped, Request
  <1>5. Dated' /\ FloorsReached' /\ WritesDated'
    BY <1>1 DEF Dated, FloorsReached, WritesDated, Live
  <1>6. Recorded'
    BY <1>1 DEF Recorded, Live, IsCurrent, Dropped, Request
  <1>7. JoinedIsFresh'
    BY <1>1 DEF JoinedIsFresh, Dropped
  <1> QED BY <1>4, <1>5, <1>6, <1>7

LEMMA ForgetSteps ==
  ASSUME IInv, (\E k \in Keys : Delete(k)) \/ Clear \/ SignOut
  PROVE  IInv'
  <1> USE DEF IInv, TypeOK
  <1>1. /\ generation' = generation + 1
        /\ account' \in {account, account + 1}
        /\ UNCHANGED <<server, request, writer>>
    BY DEF Delete, Clear, SignOut, Emptied
  <1>2. /\ inFlight' \in [Keys -> Requests \cup {NoRequest}]
        /\ floor' \in [Keys -> Nat]
        /\ entry' \in [Keys -> Value \cup {Absent}]
    BY DEF Delete, Clear, SignOut, Emptied, Unshared
  <1>3. TypeOK'
    BY <1>1, <1>2
  <1>4. Dated' /\ WritesDated'
    <2>1. Dated'
      BY <1>1 DEF Dated, Live, Request
    <2>2. WritesDated'
      BY <1>1 DEF WritesDated, Writer, Value
    <2> QED BY <2>1, <2>2
  <1>5. FloorsReached'
    <2> SUFFICES ASSUME NEW k \in Keys PROVE floor'[k] <= server'[k]
      BY DEF FloorsReached
    <2>1. floor'[k] = floor[k] \/ floor'[k] = server[k]
      <3>1. CASE Clear \/ SignOut
        BY <3>1 DEF Clear, SignOut, Emptied
      <3>2. ASSUME NEW j \in Keys, Delete(j)
            PROVE  floor'[k] = floor[k] \/ floor'[k] = server[k]
        BY <3>2 DEF Delete
      <3> QED BY <3>1, <3>2
    <2> QED BY <1>1, <2>1 DEF FloorsReached
  <1>6. \A s \in Requests : Live(s) => ~IsCurrent(s)'
    BY <1>1 DEF Dated, IsCurrent, Request
  <1>7. Recorded'
    BY <1>1, <1>6 DEF Recorded, Live
  <1>8. JoinedIsFresh'
    <2>1. CASE Clear \/ SignOut
      BY <2>1 DEF JoinedIsFresh, Clear, SignOut, Emptied, Unshared
    <2>2. ASSUME NEW k \in Keys, Delete(k) PROVE JoinedIsFresh'
      BY <2>2 DEF JoinedIsFresh, Delete, Unshared
    <2> QED BY <2>1, <2>2
  <1> QED BY <1>3, <1>4, <1>5, <1>7, <1>8

LEMMA NextIInv == IInv /\ [Next]_vars => IInv'
  <1> SUFFICES ASSUME IInv, [Next]_vars PROVE IInv'
    OBVIOUS
  <1>1. CASE UNCHANGED vars
    BY <1>1 DEF vars, caches, IInv, TypeOK, Dated, WritesDated, FloorsReached, Recorded,
                JoinedIsFresh, Live, IsCurrent
  <1>2. CASE Next
    BY <1>2, ServerSteps, ReadSteps, RefetchSteps, SettleSteps, ForgetSteps DEF Next
  <1> QED BY <1>1, <1>2

LEMMA AlwaysIInv == Spec => []IInv
  BY InitIInv, NextIInv, PTL DEF Spec

\* What an answer that is still current brings: a value of the present account,
\* read since its key was last forgotten.
LEMMA CurrentAnswer ==
  ASSUME IInv, NEW r \in Requests, request[r].state = "read", IsCurrent(r)
  PROVE  /\ request[r].key \in Keys
         /\ request[r].got = [by |-> "read", account |-> account,
                              version |-> request[r].got.version]
         /\ request[r].got.version \in floor[request[r].key]..server[request[r].key]
  <1> USE DEF IInv, TypeOK
  <1>1. /\ request[r].key \in Keys /\ request[r].got \in Value
        /\ request[r].got.version \in Nat
    BY DEF Request, Value
  <1>2. inFlight[request[r].key] = r
    BY DEF Recorded, Live
  <1>3. request[r].got.version >= floor[request[r].key]
    BY <1>1, <1>2, SentinelsAssumption DEF JoinedIsFresh
  <1>4. /\ request[r].got.version <= server[request[r].key]
        /\ request[r].got.account = account /\ request[r].got.by = "read"
    BY DEF Dated, Live, IsCurrent
  <1>5. server[request[r].key] \in Nat /\ floor[request[r].key] \in Nat
    BY <1>1
  <1>6. request[r].got.version \in floor[request[r].key]..server[request[r].key]
    BY <1>1, <1>3, <1>4, <1>5
  <1>7. request[r].got = [by |-> "read", account |-> account,
                          version |-> request[r].got.version]
    BY <1>1, <1>4 DEF Value
  <1> QED BY <1>1, <1>6, <1>7

-----------------------------------------------------------------------------
(***************************************************************************)
(* A caller of fetch or refetch never joins a request from before the last *)
(* delete or clear of its key, or from an earlier account (cache.ts:67-97).*)
(***************************************************************************)
THEOREM JoinersGetFreshAnswers == Spec => []JoinedIsFresh
  BY AlwaysIInv, PTL DEF IInv

(***************************************************************************)
(* Of the requests of one key that may still be stored, one at most is in  *)
(* flight (cache.ts:67-87).                                                *)
(***************************************************************************)
THEOREM CallersShare == Spec => []OneRequestPerKey
  <1>1. IInv => OneRequestPerKey
    BY DEF IInv, Recorded, OneRequestPerKey, Live
  <1> QED BY <1>1, AlwaysIInv, PTL

(***************************************************************************)
(* The cache is an account-scoped store: whatever requests overlap         *)
(* deletes, clears and sign-outs, an entry not written through was given   *)
(* to the account signed in and read since its key was last forgotten      *)
(* (cache.ts:67-97, account-caches.ts:38-47).                              *)
(***************************************************************************)
THEOREM CacheImplementsStore == Spec => ImplementsStore
  <1>1. Init => Store!Init
    BY DEF Init, Store!Init
  <1>2. ASSUME IInv, [Next]_vars PROVE [Store!Next]_(Store!vars)
    <2> USE DEF IInv, TypeOK
    <2>1. CASE UNCHANGED vars
      BY <2>1 DEF vars, caches, Store!vars
    <2>2. ASSUME NEW k \in Keys,
                 ServerChanges(k) \/ Refetch(k) \/ Expire(k) \/ StartWrite(k) \/ Delete(k)
          PROVE  [Store!Next]_(Store!vars)
      <3>1. CASE ServerChanges(k)
        BY <3>1 DEF ServerChanges, caches, Store!Next, Store!Change
      <3>2. CASE Refetch(k) \/ StartWrite(k)
        BY <3>2 DEF Refetch, StartWrite, caches, Store!vars
      <3>3. CASE Expire(k)
        BY <3>3 DEF Expire, Store!Next, Store!Lapse
      <3>4. CASE Delete(k)
        BY <3>4 DEF Delete, Store!Next, Store!Forget
      <3> QED BY <2>2, <3>1, <3>2, <3>3, <3>4
    <2>3. ASSUME NEW r \in Requests, ServerReads(r) \/ Failed(r) \/ Answered(r)
          PROVE  [Store!Next]_(Store!vars)
      <3>1. CASE ServerReads(r) \/ Failed(r)
        BY <3>1 DEF ServerReads, Failed, Settles, caches, Store!vars
      <3>2. CASE Answered(r) /\ ~IsCurrent(r)
        BY <3>2 DEF Answered, Stored, Settles, Store!vars
      <3>3. CASE Answered(r) /\ IsCurrent(r)
        <4>1. request[r].state = "read" /\ UNCHANGED <<account, server, floor>>
              /\ entry' = [entry EXCEPT ![request[r].key] = request[r].got]
          BY <3>3 DEF Answered, Stored, Settles
        <4>2. Store!Keep(request[r].key)
          BY <3>3, <4>1, <1>2, CurrentAnswer DEF Store!Keep
        <4> QED BY <3>3, <4>1, <4>2, <1>2, CurrentAnswer DEF Store!Next
      <3> QED BY <2>3, <3>1, <3>2, <3>3
    <2>4. ASSUME NEW w \in Writers, ServerWrites(w) \/ WriteAnswered(w) \/ WriteFails(w)
          PROVE  [Store!Next]_(Store!vars)
      <3>1. /\ writer[w].key \in Keys /\ writer[w].got \in Value
            /\ writer[w].got.account \in Nat /\ writer[w].got.version \in Nat
        BY <1>2 DEF Writer, Value
      <3>2. CASE ServerWrites(w)
        BY <3>1, <3>2 DEF ServerWrites, caches, Store!Next, Store!Change
      <3>3. CASE WriteFails(w)
        BY <3>3 DEF WriteFails, caches, Store!vars
      <3>4. CASE WriteAnswered(w) /\ entry' = entry
        BY <3>4 DEF WriteAnswered, Store!vars
      <3>5. CASE WriteAnswered(w) /\ entry' # entry
        <4>1. /\ writer[w].state = "done" /\ UNCHANGED <<account, server, floor>>
              /\ entry' = [entry EXCEPT ![writer[w].key] = writer[w].got]
          BY <3>5 DEF WriteAnswered
        <4>2. /\ writer[w].got.account \in 0..account
              /\ writer[w].got.version \in 0..server[writer[w].key]
          BY <1>2, <3>1, <4>1 DEF WritesDated
        <4>3. writer[w].got = [by |-> "write", account |-> writer[w].got.account,
                               version |-> writer[w].got.version]
          BY <1>2, <3>1, <4>1 DEF WritesDated, Value
        <4>4. Store!Write(writer[w].key)
          BY <4>1, <4>2, <4>3 DEF Store!Write
        <4> QED BY <3>1, <4>4 DEF Store!Next
      <3> QED BY <2>4, <3>2, <3>3, <3>4, <3>5
    <2>5. CASE Clear
      BY <2>5 DEF Clear, Emptied, Store!Next, Store!ForgetAll
    <2>6. CASE SignOut
      BY <2>6 DEF SignOut, Emptied, Store!Next, Store!SignOut
    <2> QED BY <1>2, <2>1, <2>2, <2>3, <2>4, <2>5, <2>6 DEF Next
  <1> QED BY <1>1, <1>2, AlwaysIInv, PTL DEF Spec, ImplementsStore, Store!Spec
===============================================================================
