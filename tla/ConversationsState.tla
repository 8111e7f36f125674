-------------------------- MODULE ConversationsState --------------------------
(***************************************************************************)
(* The inbox list of src/src/lib/chat/conversations-state.svelte.ts with   *)
(* its fetch epochs (fetch-epochs.ts), delete tombstones                   *)
(* (pending-deletes.ts), page walk (conversation-window.ts) and the batch  *)
(* rollback of optimistic-batch.ts.                                        *)
(*                                                                         *)
(* JavaScript runs one callback at a time, so an action is everything one  *)
(* callback does up to its next await: starting a request, or handling its *)
(* answer together with the promise continuations that run before any      *)
(* other event.  Between the two, a request is a record in `fetch' or      *)
(* `deletion', and the server reads or changes its own list in a step of   *)
(* its own.                                                                *)
(*                                                                         *)
(* Flags, previews, unread counts, drafts and the message cache are other  *)
(* modules' subject; a row is its conversation and its last activity.      *)
(***************************************************************************)
EXTENDS PendingDeletes, FiniteSets

CONSTANTS
  Convs,      \* conversation ids
  Fetches,    \* tracked list requests that may be in flight together
  Deletions,  \* deletes (own or announced by the server) being accounted for
  Filters,    \* inbox filter settings
  Matches,    \* Matches[f]: the conversations the server returns under f
  PageSize,   \* rows per page of POST /v4/inbox
  MaxPages,   \* MAX_PAGES of conversation-window.ts
  MaxEpoch,   \* bound on claimed epochs
  MaxTs       \* bound on activity timestamps

ASSUME ConvsAssumption == IsFiniteSet(Convs) /\ IsFiniteSet(Fetches)
                          /\ IsFiniteSet(Deletions)
ASSUME FiltersAssumption == Matches \in [Filters -> SUBSET Convs]
ASSUME PagesAssumption == PageSize \in Nat \ {0} /\ MaxPages \in Nat \ {0}
ASSUME BoundsAssumption == MaxEpoch \in Nat /\ MaxTs \in Nat /\ Cardinality(Convs) <= MaxTs

VARIABLES
  server,     \* server[c]: last activity of c in the account's inbox, 0 if absent
  clock,      \* the latest activity timestamp ever given out
  notices,    \* notices[c]: activity of c when a delete of it was announced, 0 if none
  filter,     \* filters.request
  rows,       \* rows[c]: how many entries show c
  ts,         \* ts[c]: lastActivityTimestamp of the row, 0 without one
  nextPage,   \* cursor of the next page, 0 for null
  placed,     \* observer: an answer has set the cursor since the list was emptied
  loading, error, refreshing,
  requested,  \* #refreshRequestedSinceFetchStart
  initial,    \* the load #initialLoad stands for while it runs, else NoFetch
  epoch,      \* FetchEpochs.#current
  fetch,      \* the requests FetchEpochs tracks
  tomb,       \* PendingDeletes.#tombstones
  deletion,   \* the deletes whose tombstone references are still held
  buried      \* observer: activity of c when its latest acknowledged delete took effect

env  == <<server, clock, notices>>
list == <<rows, ts, nextPage, placed>>
ui   == <<loading, error>>
dels == <<tomb, deletion, buried>>
vars == <<env, filter, list, ui, refreshing, requested, initial, epoch, fetch, dels>>

NoFetch == "none"
Ts == 0..MaxTs

Kinds  == {"free", "hard", "page", "reconcile", "sync"}
States == {"idle", "waiting", "asked", "answered"}

Fetch == [kind: Kinds, state: States, epoch: Nat, view: Filters, page: Nat,
          got: [Convs -> Ts], loaded: [Convs -> Ts], next: Nat, after: Fetches \cup {NoFetch}]

Nothing == [c \in Convs |-> 0]
Request(kind, e, view, page, loaded) ==
  [kind |-> kind, state |-> "asked", epoch |-> e, view |-> view, page |-> page,
   got |-> Nothing, loaded |-> loaded, next |-> 0, after |-> NoFetch]
FreeFetch(f) == [Request("free", 0, fetch[f].view, 0, Nothing) EXCEPT !.state = "idle"]

Phases == {"free", "requested", "releasing"}

Deletion == [phase: Phases, ids: SUBSET Convs, removed: [Convs -> Ts],
             effect: [Convs -> Ts], answered: SUBSET Convs, failed: SUBSET Convs,
             waits: SUBSET Fetches]

FreeDeletion == [phase |-> "free", ids |-> {}, removed |-> Nothing, effect |-> Nothing,
                 answered |-> {}, failed |-> {}, waits |-> {}]

TypeOK ==
  /\ server \in [Convs -> Ts] /\ clock \in Ts /\ notices \in [Convs -> Ts]
  /\ filter \in Filters
  /\ rows \in [Convs -> Nat] /\ ts \in [Convs -> Ts] /\ nextPage \in Nat
  /\ placed \in BOOLEAN
  /\ loading \in BOOLEAN /\ error \in BOOLEAN
  /\ refreshing \in BOOLEAN /\ requested \in BOOLEAN
  /\ initial \in Fetches \cup {NoFetch}
  /\ epoch \in Nat
  /\ fetch \in [Fetches -> Fetch]
  /\ tomb \in [Convs -> Tombstone]
  /\ deletion \in [Deletions -> Deletion]
  /\ buried \in [Convs -> Ts]

-----------------------------------------------------------------------------
(* The server's list: most recent activity first, cut into pages.          *)

Visible(view) == {c \in Matches[view] : server[c] > 0}
Position(view, c) == Cardinality({d \in Visible(view) : server[d] >= server[c]})
Page(view, p) ==
  [c \in Convs |-> IF /\ c \in Visible(view)
                      /\ Position(view, c) \in ((p - 1) * PageSize + 1)..(p * PageSize)
                   THEN server[c] ELSE 0]
HasMore(view, p) == Cardinality(Visible(view)) > p * PageSize
NextAfter(view, p) == IF HasMore(view, p) THEN p + 1 ELSE 0

-----------------------------------------------------------------------------
(* FetchEpochs *)

InFlight == {f \in Fetches : fetch[f].kind # "free"}
\* (fault, for a mutant: no answer is ever superseded)
NeverStale(f) == FALSE
IsStale(f) == fetch[f].epoch # epoch
IsFree(f) == fetch[f].kind = "free"

\* The epochs claimed or sure to be claimed, which MaxEpoch bounds.
Waiting == {f \in Fetches : fetch[f].state = "waiting"}
MayClaim == epoch + Cardinality(Waiting) + (IF requested THEN 1 ELSE 0) < MaxEpoch

(***************************************************************************)
(* #reconcile up to its first request: it waits for the initial load if    *)
(* one runs, and otherwise claims an epoch and asks for page 1.            *)
(***************************************************************************)
ClaimedReconcile == Request("reconcile", epoch + 1, filter', 1, ts')

WaitingReconcile == [Request("reconcile", 0, filter, 1, Nothing)
                       EXCEPT !.state = "waiting", !.after = initial]

BeginReconcile(f) ==
  /\ refreshing' = TRUE
  /\ \/ /\ initial # NoFetch
        /\ fetch' = [fetch EXCEPT ![f] = WaitingReconcile]
        /\ UNCHANGED epoch
     \/ /\ initial = NoFetch
        /\ fetch' = [fetch EXCEPT ![f] = ClaimedReconcile]
        /\ epoch' = epoch + 1

(***************************************************************************)
(* A tracked promise settles: deletes that waited only for it release      *)
(* their tombstone references (afterInFlight).                             *)
(***************************************************************************)
\* (fault, for a mutant: tombstones are never released)
NeverReleasable(f) == {}
Releasable(f) == {d \in Deletions : /\ deletion[d].phase = "releasing"
                                    /\ deletion[d].waits = {f}}
Settle(f) ==
  /\ deletion' = [d \in Deletions |->
                    IF d \in Releasable(f) THEN FreeDeletion
                    ELSE [deletion[d] EXCEPT !.waits = @ \ {f}]]
  /\ tomb' = [c \in Convs |->
                LET released == {d \in Releasable(f) : c \in deletion[d].ids}
                IN  IF released = {} THEN tomb[c]
                    ELSE Released(tomb[c], Cardinality(released))]
  /\ UNCHANGED buried

(* A load settles, and the reconcile that waited for it claims its epoch.  *)
\* (fault, for a mutant: a reconcile that waits for a load is forgotten)
NobodyWoken(f) == {}
Woken(f) == {r \in Waiting : fetch[r].after = f}
EndLoad(f) ==
  /\ fetch' = [r \in Fetches |-> IF r = f THEN FreeFetch(f)
                                 ELSE IF r \in Woken(f) THEN ClaimedReconcile
                                 ELSE fetch[r]]
  /\ epoch' = IF Woken(f) = {} THEN epoch ELSE epoch + 1
  /\ requested' = (requested /\ Woken(f) = {})
  /\ initial' = IF initial = f THEN NoFetch ELSE initial
  /\ Settle(f)

(* #reconcile's finally: a refresh asked for meanwhile starts right away.  *)
\* (fault, for a mutant: the request for another refresh is lost)
EndReconcileForgetting(f) ==
  /\ refreshing' = FALSE
  /\ fetch' = [fetch EXCEPT ![f] = FreeFetch(f)]
  /\ requested' = FALSE
  /\ Settle(f)
  /\ UNCHANGED <<epoch, initial>>
EndReconcile(f) ==
  /\ \/ requested /\ BeginReconcile(f)
     \/ /\ ~requested
        /\ refreshing' = FALSE
        /\ fetch' = [fetch EXCEPT ![f] = FreeFetch(f)]
        /\ UNCHANGED epoch
  /\ requested' = FALSE
  /\ Settle(f)
  /\ UNCHANGED initial

-----------------------------------------------------------------------------
(* The server, driven by other people, other devices and our requests.     *)

PeerMessage(c) ==
  /\ clock < MaxTs
  /\ clock' = clock + 1
  /\ server' = [server EXCEPT ![c] = clock + 1]
  /\ UNCHANGED <<notices, filter, list, ui, refreshing, requested, initial, epoch,
                 fetch, dels>>

ServerDeletes(c) ==
  /\ server' = [server EXCEPT ![c] = 0]
  /\ notices' = [notices EXCEPT ![c] = server[c]]
  /\ UNCHANGED clock

OtherDeviceDeletes(c) ==
  /\ server[c] > 0
  /\ ServerDeletes(c)
  /\ UNCHANGED <<filter, list, ui, refreshing, requested, initial, epoch, fetch, dels>>

\* The server reads a page: the only page of a load or sync, or the next page
\* of a reconcile, which goes on while there is more and the oldest row it has
\* seen is newer than the oldest row loaded.
Merged(f) == [c \in Convs |-> IF fetch[f].got[c] > 0 THEN fetch[f].got[c]
                              ELSE Page(fetch[f].view, fetch[f].page)[c]]
ReachesBack(t, loaded) == \A c \in Convs : loaded[c] > 0 => t <= loaded[c]
WindowCovered(f) ==
  \/ ~HasMore(fetch[f].view, fetch[f].page)
  \/ fetch[f].loaded = Nothing
  \/ \E c \in Convs : Merged(f)[c] > 0 /\ ReachesBack(Merged(f)[c], fetch[f].loaded)
  \/ fetch[f].page = MaxPages

ServerAnswers(f) ==
  /\ fetch[f].state = "asked"
  /\ LET next == NextAfter(fetch[f].view, fetch[f].page) IN
     \/ /\ fetch[f].kind # "reconcile" \/ WindowCovered(f)
        /\ fetch' = [fetch EXCEPT ![f].state = "answered", ![f].got = Merged(f),
                                  ![f].next = next]
     \/ /\ fetch[f].kind = "reconcile" /\ ~WindowCovered(f)
        /\ fetch' = [fetch EXCEPT ![f].page = next, ![f].got = Merged(f)]
  /\ UNCHANGED <<env, filter, list, ui, refreshing, requested, initial, epoch, dels>>

-----------------------------------------------------------------------------
(* Loads: #hardLoad, retry, setFilters, and the pages InboxPaging asks for *)

BeginHardLoad(f, view) ==
  /\ fetch' = [fetch EXCEPT ![f] = Request("hard", epoch + 1, view, 1, Nothing)]
  /\ epoch' = epoch + 1
  /\ initial' = f
  /\ loading' = TRUE /\ error' = FALSE

RetryWith(view) ==
  /\ MayClaim
  /\ \E f \in Fetches : IsFree(f) /\ BeginHardLoad(f, view)
  /\ rows' = Nothing /\ ts' = Nothing /\ nextPage' = 0 /\ placed' = FALSE
  /\ UNCHANGED <<env, refreshing, requested, dels>>

\* The retry button, shown instead of the list when there is only an error.
Retry == /\ error /\ ~loading /\ rows = Nothing
         /\ RetryWith(filter)
         /\ UNCHANGED filter

SetFilters == \E view \in Filters \ {filter} :
  /\ filter' = view
  /\ RetryWith(view)

RunPaging ==
  /\ nextPage # 0
  /\ \A f \in Fetches : fetch[f].kind # "page"
  /\ MayClaim
  /\ \E f \in Fetches :
       /\ IsFree(f)
       /\ fetch' = [fetch EXCEPT ![f] = Request("page", epoch + 1, filter, nextPage, Nothing)]
  /\ epoch' = epoch + 1
  /\ UNCHANGED <<env, filter, list, ui, refreshing, requested, initial, dels>>

IsLoad(f) == fetch[f].kind \in {"hard", "page"}
\* #hardLoad's finally and catch, which a superseded load skips.
LoadingAfter(f) == loading /\ (fetch[f].kind = "page" \/ IsStale(f))

Blocked(c, f) == Blocks(tomb[c], fetch[f].epoch)

\* (fault, for a mutant: rows are pushed without looking for them)
PushedAgain(f) == {c \in Convs : fetch[f].got[c] > 0 /\ ~Blocked(c, f)}
\* The fetched conversations that get a row of their own.
Pushed(f) == {c \in Convs : fetch[f].got[c] > 0 /\ rows[c] = 0 /\ ~Blocked(c, f)}

LoadArrives(f) ==
  /\ fetch[f].state = "answered" /\ IsLoad(f)
  /\ \/ IsStale(f) /\ UNCHANGED list
     \/ /\ ~IsStale(f)
        /\ rows' = [c \in Convs |-> IF c \in Pushed(f) THEN rows[c] + 1 ELSE rows[c]]
        /\ ts' = [c \in Convs |-> IF c \in Pushed(f) THEN fetch[f].got[c] ELSE ts[c]]
        /\ nextPage' = fetch[f].next /\ placed' = TRUE
  /\ loading' = LoadingAfter(f)
  /\ UNCHANGED <<env, filter, error, refreshing>>
  /\ EndLoad(f)

LoadFails(f) ==
  /\ fetch[f].state = "asked" /\ IsLoad(f)
  /\ loading' = LoadingAfter(f)
  /\ error' = (error \/ (fetch[f].kind = "hard" /\ ~IsStale(f)))
  /\ UNCHANGED <<env, filter, list, refreshing>>
  /\ EndLoad(f)

-----------------------------------------------------------------------------
(* Reconciles, by the user's pull, the reconciler or a rerun               *)

Refresh ==
  /\ ~refreshing
  /\ MayClaim
  /\ UNCHANGED <<env, filter, list, ui, initial, dels>>
  /\ \E f \in Fetches : IsFree(f) /\ BeginReconcile(f)
  /\ requested' = (requested /\ initial # NoFetch)

RefreshAgain ==
  /\ refreshing
  /\ MayClaim
  /\ requested' = TRUE
  /\ UNCHANGED <<env, filter, list, ui, refreshing, initial, epoch, fetch, dels>>

IsReconcile(f) == fetch[f].kind = "reconcile"

\* Fetched rows are merged or pushed, and rows the window should have held but
\* does not are removed, both unless a tombstone blocks them.
ReconcileArrives(f) ==
  /\ fetch[f].state = "answered" /\ IsReconcile(f)
  /\ LET got == fetch[f].got
         InWindow(t) == fetch[f].next = 0 \/ \E c \in Convs : got[c] > 0 /\ got[c] < t
         gone == {c \in Convs : got[c] = 0 /\ ~Blocked(c, f) /\ InWindow(ts[c])} IN
     \/ IsStale(f) /\ UNCHANGED <<list, error>>
     \/ /\ ~IsStale(f)
        /\ rows' = [c \in Convs |-> IF c \in Pushed(f) THEN rows[c] + 1
                                    ELSE IF c \in gone THEN 0 ELSE rows[c]]
        /\ ts' = [c \in Convs |-> IF rows'[c] = 0 THEN 0
                                  ELSE IF got[c] > 0 THEN got[c] ELSE ts[c]]
        /\ nextPage' = fetch[f].next /\ placed' = TRUE
        /\ error' = FALSE
  /\ UNCHANGED <<env, filter, loading>>
  /\ EndReconcile(f)

ReconcileFails(f) ==
  /\ fetch[f].state = "asked" /\ IsReconcile(f)
  /\ UNCHANGED <<env, filter, list, ui>>
  /\ EndReconcile(f)

-----------------------------------------------------------------------------
(* #syncLatest: page 1 for a conversation the list misses.  It carries the *)
(* current epoch without claiming one, and later callers join it.          *)

EnsureLoaded ==
  /\ \E c \in Convs : rows[c] = 0
  /\ \A f \in Fetches : fetch[f].kind # "sync"
  /\ \E f \in Fetches :
       /\ IsFree(f)
       /\ fetch' = [fetch EXCEPT ![f] = Request("sync", epoch, filter, 1, Nothing)]
  /\ UNCHANGED <<env, filter, list, ui, refreshing, requested, initial, epoch, dels>>

EndSync(f) ==
  /\ fetch' = [fetch EXCEPT ![f] = FreeFetch(f)]
  /\ Settle(f)
  /\ UNCHANGED <<env, filter, nextPage, placed, loading, refreshing, requested, initial, epoch>>

SyncArrives(f) ==
  /\ fetch[f].state = "answered" /\ fetch[f].kind = "sync"
  /\ LET got == fetch[f].got
         updated == {c \in Convs : got[c] > 0 /\ rows[c] > 0} IN
     \/ IsStale(f) /\ UNCHANGED <<rows, ts, error>>
     \/ /\ ~IsStale(f)
        /\ rows' = [c \in Convs |-> IF c \in Pushed(f) THEN rows[c] + 1 ELSE rows[c]]
        /\ ts' = [c \in Convs |-> IF c \in updated \cup Pushed(f) THEN got[c] ELSE ts[c]]
        /\ error' = FALSE
  /\ EndSync(f)

SyncFails(f) ==
  /\ fetch[f].state = "asked" /\ fetch[f].kind = "sync"
  /\ UNCHANGED <<rows, ts, error>>
  /\ EndSync(f)

\* A live message for a row that is shown moves it up; one for a missing
\* conversation is EnsureLoaded.
MessageSent(c) ==
  /\ rows[c] > 0 /\ server[c] > ts[c]
  /\ ts' = [ts EXCEPT ![c] = server[c]]
  /\ UNCHANGED <<env, filter, rows, nextPage, placed, ui, refreshing, requested, initial,
                 epoch, fetch, dels>>

-----------------------------------------------------------------------------
(* Deletes: the user's optimistic batch, and those the server announces.   *)

Latest(s, t) == IF s < t THEN t ELSE s
Removed(c, n) == [n EXCEPT ![c] = IF @ > 0 THEN @ - 1 ELSE @]

DeleteConversations(d, ids) ==
  /\ deletion[d].phase = "free"
  /\ ids # {} /\ \A c \in ids : rows[c] > 0
  /\ tomb' = [c \in Convs |-> IF c \in ids THEN Marked(tomb[c]) ELSE tomb[c]]
  /\ deletion' = [deletion EXCEPT ![d].phase = "requested", ![d].ids = ids,
                    ![d].removed = [c \in Convs |-> IF c \in ids THEN ts[c] ELSE 0]]
  /\ rows' = [c \in Convs |-> IF c \in ids THEN rows[c] - 1 ELSE rows[c]]
  /\ ts' = [c \in Convs |-> IF rows'[c] = 0 THEN 0 ELSE ts[c]]
  /\ UNCHANGED <<env, filter, nextPage, placed, ui, refreshing, requested, initial,
                 epoch, fetch, buried>>

DeleteTakesEffect(d, c) ==
  /\ deletion[d].phase = "requested" /\ c \in deletion[d].ids \ deletion[d].answered
  /\ server[c] > 0 /\ deletion[d].effect[c] = 0
  /\ ServerDeletes(c)
  /\ deletion' = [deletion EXCEPT ![d].effect[c] = server[c]]
  /\ UNCHANGED <<filter, list, ui, refreshing, requested, initial, epoch, fetch,
                 tomb, buried>>

\* A request succeeds once the server did it; it may fail before or after that.
Outcome(d, c, ok) ==
  /\ deletion[d].phase = "requested" /\ c \in deletion[d].ids \ deletion[d].answered
  /\ ok => deletion[d].effect[c] > 0 \/ server[c] = 0

FailedWith(d, c, ok) == IF ok THEN deletion[d].failed ELSE deletion[d].failed \cup {c}

DeleteAnswered(d, c, ok) ==
  /\ Outcome(d, c, ok)
  /\ deletion[d].answered \cup {c} # deletion[d].ids
  /\ deletion' = [deletion EXCEPT ![d].answered = @ \cup {c},
                                  ![d].failed = FailedWith(d, c, ok)]
  /\ UNCHANGED <<env, filter, list, ui, refreshing, requested, initial, epoch, fetch,
                 tomb, buried>>

\* The rows a rollback puts back: those it took out that have not come back since.
Restorable(d, failed) == {c \in failed : deletion[d].removed[c] > 0 /\ rows[c] = 0}

\* The last answer of the batch: failed items are put back unless a row is
\* there again, every tombstone settles at the current epoch, and its
\* references go once the fetches in flight now have ended.
DeletesSettle(d, c, ok) ==
  /\ Outcome(d, c, ok)
  /\ deletion[d].answered \cup {c} = deletion[d].ids
  /\ LET ids == deletion[d].ids
         failed == FailedWith(d, c, ok)
         back == Restorable(d, failed)
         settled(i) == Settled(tomb[i], epoch) IN
     /\ rows' = [i \in Convs |-> IF i \in back THEN rows[i] + 1 ELSE rows[i]]
     /\ ts' = [i \in Convs |-> IF i \in back THEN deletion[d].removed[i] ELSE ts[i]]
     /\ buried' = [i \in Convs |-> IF i \in ids \ failed
                                   THEN Latest(buried[i], deletion[d].effect[i])
                                   ELSE buried[i]]
     /\ tomb' = [i \in Convs |-> IF i \notin ids THEN tomb[i]
                                 ELSE IF InFlight = {} THEN Released(settled(i), 1)
                                 ELSE settled(i)]
     /\ deletion' = [deletion EXCEPT ![d] =
                       IF InFlight = {} THEN FreeDeletion
                       ELSE [FreeDeletion EXCEPT !.phase = "releasing", !.ids = ids,
                                                 !.waits = InFlight]]
  /\ UNCHANGED <<env, filter, nextPage, placed, ui, refreshing, requested, initial,
                 epoch, fetch>>

ConversationDelete(d, c) ==
  /\ deletion[d].phase = "free"
  /\ notices[c] > 0
  /\ notices' = [notices EXCEPT ![c] = 0]
  /\ rows' = Removed(c, rows)
  /\ ts' = [ts EXCEPT ![c] = IF rows'[c] = 0 THEN 0 ELSE @]
  /\ buried' = [buried EXCEPT ![c] = Latest(@, notices[c])]
  /\ LET settled == Settled(Marked(tomb[c]), epoch) IN
     \/ /\ InFlight = {}
        /\ tomb' = [tomb EXCEPT ![c] = Released(settled, 1)]
        /\ UNCHANGED deletion
     \/ /\ InFlight # {}
        /\ tomb' = [tomb EXCEPT ![c] = settled]
        /\ deletion' = [deletion EXCEPT ![d] =
                          [FreeDeletion EXCEPT !.phase = "releasing", !.ids = {c},
                                               !.waits = InFlight]]
  /\ UNCHANGED <<server, clock, filter, nextPage, placed, ui, refreshing, requested,
                 initial, epoch, fetch>>

-----------------------------------------------------------------------------
Distinct(s) == \A c, d \in Convs : c # d /\ s[c] > 0 => s[c] # s[d]

\* The constructor: an empty list and a first load on its way.
Init ==
  /\ clock = Cardinality(Convs)
  /\ server \in {s \in [Convs -> Ts] : Distinct(s) /\ \A c \in Convs : s[c] <= clock}
  /\ notices = Nothing
  /\ filter \in Filters
  /\ rows = Nothing /\ ts = Nothing /\ nextPage = 0 /\ placed = FALSE
  /\ loading = TRUE /\ error = FALSE /\ refreshing = FALSE /\ requested = FALSE
  /\ epoch = 1
  /\ initial \in Fetches
  /\ fetch = [f \in Fetches |->
                IF f = initial THEN Request("hard", 1, filter, 1, Nothing)
                ELSE [Request("free", 0, filter, 0, Nothing) EXCEPT !.state = "idle"]]
  /\ tomb = [c \in Convs |-> NoTombstone]
  /\ deletion = [d \in Deletions |-> FreeDeletion]
  /\ buried = Nothing

FetchSteps(f) == \/ ServerAnswers(f)
                 \/ LoadArrives(f) \/ LoadFails(f)
                 \/ ReconcileArrives(f) \/ ReconcileFails(f)
                 \/ SyncArrives(f) \/ SyncFails(f)

AnswerSteps(d) == \E c \in Convs, ok \in BOOLEAN :
                     DeleteAnswered(d, c, ok) \/ DeletesSettle(d, c, ok)

UserSteps == \/ Retry \/ SetFilters \/ RunPaging \/ Refresh \/ RefreshAgain
             \/ EnsureLoaded
             \/ \E d \in Deletions, ids \in SUBSET Convs : DeleteConversations(d, ids)

ServerSteps == \/ \E c \in Convs : PeerMessage(c) \/ OtherDeviceDeletes(c) \/ MessageSent(c)
               \/ \E d \in Deletions, c \in Convs :
                    DeleteTakesEffect(d, c) \/ ConversationDelete(d, c)

Next == \/ \E f \in Fetches : FetchSteps(f)
        \/ \E d \in Deletions : AnswerSteps(d)
        \/ UserSteps
        \/ ServerSteps

Spec == Init /\ [][Next]_vars

(***************************************************************************)
(* Every request is answered or fails: the HTTP client times it out.       *)
(***************************************************************************)
Fairness == /\ \A f \in Fetches : WF_vars(FetchSteps(f))
            /\ \A d \in Deletions : WF_vars(AnswerSteps(d))

FairSpec == Spec /\ Fairness

-----------------------------------------------------------------------------
(* Properties *)

\* No conversation is listed twice (rows are keyed by conversationId, and a
\* duplicate key breaks the list): a load, a sync, a reconcile and the rollback of
\* a failed delete may all add the same conversation in any order.
NoDuplicateRows == \A c \in Convs : rows[c] <= 1

Holders(c) == {d \in Deletions : deletion[d].phase # "free" /\ c \in deletion[d].ids}
Requesters(c) == {d \in Holders(c) : deletion[d].phase = "requested"}

\* The two counters of a tombstone are exactly the deletes that still hold it and
\* those still on the wire, so no delete of overlapping ones drops the tombstone of
\* another, and none is left behind to block the conversation for good.
TombstonesCounted ==
  \A c \in Convs : /\ tomb[c].refs = Cardinality(Holders(c))
                   /\ tomb[c].inFlight = Cardinality(Requesters(c))

\* An answer that still shows a conversation whose delete has been acknowledged is
\* blocked by the tombstone for as long as it may arrive.
LateAnswersBlocked ==
  \A f \in Fetches, c \in Convs :
    /\ fetch[f].state \in {"asked", "answered"}
    /\ fetch[f].got[c] > 0 /\ fetch[f].got[c] <= buried[c]
    => Blocked(c, f)

PutBack(c) == \E d \in Deletions : /\ deletion[d].phase = "requested"
                                   /\ deletion'[d].phase # "requested"
                                   /\ deletion[d].removed[c] = ts'[c]

\* A conversation whose delete was acknowledged (by our request or the server's
\* event) is not brought back by an answer the server gave before the delete: a
\* row that appears either shows later activity or is a failed delete's rollback.
NoResurrection ==
  [][\A c \in Convs : rows[c] = 0 /\ rows'[c] > 0
       => ts'[c] > buried[c] \/ PutBack(c)]_vars

\* A row that appears belongs to the filter the list now shows, unless it is the
\* rollback of a failed delete: answers to the previous filter come too late.
NoForeignRows ==
  [][\A c \in Convs : rows[c] = 0 /\ rows'[c] > 0
       => c \in Matches[filter'] \/ PutBack(c)]_vars

\* Once an answer has set the cursor, and while the server's list stands still, every
\* conversation that is neither shown nor on its way out is on the page the cursor names
\* or a later one, so scrolling reaches it: loads, reconciles, syncs and deletes that fail
\* overtake each other and never leave the cursor past a conversation that has no row.
ServerStandsStill == notices = Nothing /\ buried = Nothing /\ clock = Cardinality(Convs)
NoGap ==
  ServerStandsStill /\ placed
    => \A c \in Visible(filter) :
         \/ rows[c] > 0 \/ Requesters(c) # {}
         \/ nextPage > 0 /\ Position(filter, c) > (nextPage - 1) * PageSize

\* A refresh asked for while another one runs is followed by a list request that
\* begins after it.
RefreshRuns == \A e \in 1..MaxEpoch : requested /\ epoch = e ~> epoch > e

\* A refresh ends: the spinner is not left turning.
RefreshingEnds == refreshing ~> ~refreshing

\* Every delete lets go of its tombstones in the end, whatever fetches overlap it.
DeletesComplete ==
  \A d \in Deletions : deletion[d].phase # "free" ~> deletion[d].phase = "free"

\* The skeleton goes away once the load it stands for has been answered.
LoadingEnds == loading ~> ~loading
=============================================================================
