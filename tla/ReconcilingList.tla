--------------------------- MODULE ReconcilingList ---------------------------
(***************************************************************************)
(* ReconcilingListState of src/src/lib/util, with the taps list as its     *)
(* subclass (the views list differs in what a row shows): a first load, a  *)
(* refresh, websocket items that arrive while either is in flight, and     *)
(* profiles that become unviewable and viewable again.                     *)
(*                                                                         *)
(* A row is the version of its key, 0 when there is none: the server's     *)
(* version of a key grows with every tap, and each tap is also sent over   *)
(* the websocket, in order.  The order of the rows is left out.            *)
(***************************************************************************)
EXTENDS Naturals, Sequences

CONSTANTS
  Keys,
  Fetches,  \* requests that may be in flight together
  None,
  MaxTaps   \* bound on the taps of a key

VARIABLES
  server, wire,  \* the server's rows; the events on their way
  viewable,      \* the keys isProfileViewable says yes to
  rows,
  loading, refreshing, error,
  loaded,        \* #loaded
  destroyed,     \* #destroyed
  newest,        \* #fetchToken: the fetch that took the last token
  requested,     \* #refreshRequestedSinceFetchStart
  buffer,        \* the fetch whose buffer is #buffer, or None
  fetch,
  heard,         \* observer: the last item received of a key not hidden since
  applied,       \* observer: the last snapshot applied
  lifted         \* observer: keys made viewable again, until a fetch fails

world == <<server, wire, viewable>>
flags == <<loading, refreshing, requested>>
vars == <<world, rows, flags, error, loaded, destroyed, newest, buffer, fetch, heard, applied,
          lifted>>

NoRows == [k \in Keys |-> 0]
Rows == [Keys -> 0..MaxTaps]
Fetch == [state: {"free", "asked", "read"}, load: BOOLEAN, got: Rows,
          items: Rows]   \* items: the buffer, the last item of each key
FreeFetch == [state |-> "free", load |-> FALSE, got |-> NoRows, items |-> NoRows]
Begun(load) == [FreeFetch EXCEPT !.state = "asked", !.load = load]

TypeOK ==
  /\ server \in Rows /\ rows \in Rows /\ heard \in Rows /\ applied \in Rows
  /\ wire \in Seq([key: Keys, version: 1..MaxTaps])
  /\ viewable \subseteq Keys /\ lifted \subseteq Keys
  /\ {loading, refreshing, requested, error, loaded, destroyed} \subseteq BOOLEAN
  /\ newest \in Fetches /\ fetch \in [Fetches -> Fetch]
  \* The buffer is that of the newest fetch while it runs.
  /\ buffer = IF fetch[newest].state = "free" THEN None ELSE newest

\* The constructor's start(): the first load is under way.
Init ==
  /\ server = NoRows /\ wire = <<>> /\ viewable = Keys
  /\ rows = NoRows /\ heard = NoRows /\ applied = NoRows /\ lifted = {}
  /\ loading = TRUE /\ refreshing = FALSE /\ requested = FALSE
  /\ error = FALSE /\ loaded = FALSE /\ destroyed = FALSE
  /\ newest = (CHOOSE f \in Fetches : TRUE) /\ buffer = newest
  /\ fetch = [f \in Fetches |-> IF f = newest THEN Begun(TRUE) ELSE FreeFetch]

-----------------------------------------------------------------------------
(* The server and the websocket *)

Tap(k) ==
  /\ server[k] < MaxTaps
  /\ server' = [server EXCEPT ![k] = @ + 1]
  /\ wire' = Append(wire, [key |-> k, version |-> server[k] + 1])
  /\ UNCHANGED <<viewable, rows, flags, error, loaded, destroyed, newest, buffer, fetch, heard,
                 applied, lifted>>

ServerReads(f) ==
  /\ fetch[f].state = "asked"
  /\ fetch' = [fetch EXCEPT ![f].state = "read", ![f].got = server]
  /\ UNCHANGED <<world, rows, flags, error, loaded, destroyed, newest, buffer, heard, applied,
                 lifted>>

\* The connection is lost with the events on it.
Lose ==
  /\ wire # <<>> /\ wire' = <<>>
  /\ UNCHANGED <<server, viewable, rows, flags, error, loaded, destroyed, newest, buffer, fetch,
                 heard, applied, lifted>>

-----------------------------------------------------------------------------
(* Items *)

\* (fault, for a mutant: viewability is not asked)
UpsertAll(to, item) == [to EXCEPT ![item.key] = item.version]
\* applyUpsert: the item replaces the row of its key, unless its sender is not viewable.
Upsert(to, item) ==
  IF item.key \in viewable THEN [to EXCEPT ![item.key] = item.version] ELSE to

\* upsert
Receive ==
  /\ wire # <<>> /\ wire' = Tail(wire)
  /\ LET item == Head(wire) IN
       \/ destroyed /\ UNCHANGED <<rows, fetch, heard>>
       \/ /\ ~destroyed
          /\ fetch' = [f \in Fetches |->
                         IF f = buffer THEN [fetch[f] EXCEPT !.items[item.key] = item.version]
                         ELSE fetch[f]]
          /\ rows' = Upsert(rows, item)
          /\ heard' = IF item.key \in viewable THEN [heard EXCEPT ![item.key] = item.version]
                      ELSE heard
  /\ UNCHANGED <<server, viewable, flags, error, loaded, destroyed, newest, buffer, applied,
                 lifted>>

-----------------------------------------------------------------------------
(* Fetches *)

Busy == loading \/ refreshing

\* #replaceFromServer up to its await, in a free slot.
Begin(load) ==
  /\ \E f \in Fetches : fetch[f].state = "free"
  /\ LET f == CHOOSE g \in Fetches : fetch[g].state = "free" IN
    /\ fetch' = [fetch EXCEPT ![f] = Begun(load)]
    /\ newest' = f /\ buffer' = f
    /\ requested' = FALSE

\* (fault, for a mutant: a refresh asked for while one runs is taken as done)
Forgotten == UNCHANGED requested
\* A refresh asked for while the list is busy is remembered.
Remembered == requested' = TRUE

\* refresh
AskRefresh ==
  /\ IF destroyed THEN UNCHANGED <<flags, newest, buffer, fetch>>
     ELSE IF Busy THEN Remembered /\ UNCHANGED <<loading, refreshing, newest, buffer, fetch>>
     ELSE Begin(FALSE) /\ refreshing' = TRUE /\ UNCHANGED loading
  /\ UNCHANGED <<rows, error, loaded, destroyed, applied>>

\* The reconciler, a pull, the retry of an error toast.
Refresh == AskRefresh /\ UNCHANGED <<world, heard, lifted>>

\* #hardLoad; a list that was destroyed is shown no more, and nobody retries it.
HardLoad ==
  /\ ~destroyed /\ loading' = TRUE /\ error' = FALSE
  /\ Begin(TRUE)
  /\ UNCHANGED <<world, rows, refreshing, loaded, destroyed, heard, applied, lifted>>

\* load, when the list is shown again.
Load == ~loaded /\ ~Busy /\ HardLoad

\* retry, from the error that is shown in place of an empty list.
Retry == error /\ ~loading /\ rows = NoRows /\ HardLoad

\* (fault, for a mutant: a superseded answer is applied)
OnlyDestroyed(f) == destroyed
Superseded(f) == destroyed \/ f # newest

\* applySnapshotReturningCoveredKeys, then the buffered items of keys it does not cover.
Snapshot(f) ==
  [k \in Keys |-> IF k \notin viewable THEN 0
                  ELSE IF fetch[f].got[k] # 0 THEN fetch[f].got[k] ELSE fetch[f].items[k]]

\* (fault, for a mutant: the buffer goes whosever it is)
NoBuffer(f) == None
BufferAfter(f) == IF buffer = f THEN None ELSE buffer

\* The finally clauses, #runRequestedRefresh included: the refresh it starts takes the slot.
StartsRequested(f) ==
  requested /\ ~destroyed /\ IF fetch[f].load THEN ~refreshing ELSE ~loading
RunRequested(f) ==
  IF StartsRequested(f)
    THEN /\ refreshing' = TRUE /\ requested' = FALSE
         /\ newest' = f /\ buffer' = f
         /\ fetch' = [fetch EXCEPT ![f] = Begun(FALSE)]
    ELSE /\ refreshing' = (refreshing /\ fetch[f].load)
         /\ requested' = (requested /\ ~destroyed)
         /\ newest' = newest /\ buffer' = BufferAfter(f)
         /\ fetch' = [fetch EXCEPT ![f] = FreeFetch]

Ends(f) ==
  /\ loading' = (loading /\ ~fetch[f].load)
  /\ RunRequested(f)
  /\ UNCHANGED <<world, destroyed, heard>>

Answered(f) ==
  /\ fetch[f].state = "read"
  /\ IF Superseded(f) THEN UNCHANGED <<rows, loaded, error, applied>>
     ELSE /\ rows' = Snapshot(f) /\ applied' = fetch[f].got
          /\ loaded' = TRUE /\ error' = FALSE
  /\ Ends(f)
  /\ UNCHANGED lifted

Fails(f) ==
  /\ fetch[f].state # "free"
  /\ IF Superseded(f) THEN UNCHANGED <<error, lifted>>
     ELSE error' = (error \/ fetch[f].load) /\ lifted' = {}
  /\ Ends(f)
  /\ UNCHANGED <<rows, loaded, applied>>

-----------------------------------------------------------------------------
(* Viewability, and the end *)

\* markProfileUnviewable
Hide(k) ==
  /\ k \in viewable /\ viewable' = viewable \ {k}
  /\ rows' = IF destroyed THEN rows ELSE [rows EXCEPT ![k] = 0]
  /\ heard' = [heard EXCEPT ![k] = 0] /\ lifted' = lifted \ {k}
  /\ UNCHANGED <<server, wire, flags, error, loaded, destroyed, newest, buffer, fetch, applied>>

\* markProfileViewable: the listener refreshes.
Unhide(k) ==
  /\ k \notin viewable /\ viewable' = viewable \cup {k}
  /\ AskRefresh
  /\ lifted' = IF server[k] # 0 THEN lifted \cup {k} ELSE lifted
  /\ UNCHANGED <<server, wire, heard>>

\* destroy, at a sign-out.
Destroy ==
  /\ ~destroyed /\ destroyed' = TRUE
  /\ UNCHANGED <<world, rows, flags, error, loaded, newest, buffer, fetch, heard, applied, lifted>>

-----------------------------------------------------------------------------
Next ==
  \/ \E k \in Keys : Tap(k) \/ Hide(k) \/ Unhide(k)
  \/ \E f \in Fetches : ServerReads(f) \/ Answered(f) \/ Fails(f)
  \/ Receive \/ Lose \/ Refresh \/ Load \/ Retry \/ Destroy

Spec == Init /\ [][Next]_vars

-----------------------------------------------------------------------------
(* Properties *)

\* A list in use shows no profile that is hidden or blocked, whichever snapshot or item
\* arrives after the profile was.
NoUnviewableRows == ~destroyed => \A k \in Keys : rows[k] # 0 => k \in viewable

\* An item received stays listed: no snapshot, however old, drops its sender.
ReceivedStaysListed == ~destroyed => \A k \in Keys : heard[k] # 0 => rows[k] # 0
===============================================================================
