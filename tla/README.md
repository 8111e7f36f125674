# Open Grind, verified

TLA+ models of the client in this repository, the TLC runs that check them and
the theorems TLAPS proves about them.  Open Grind is a SvelteKit front end
(`src/src`) in a Tauri shell written in Rust (`src/src-tauri`); the Grindr API
and the `grindr` crate that speaks it are outside the repository.

## Inventory

| Part | State it keeps | Operations | What is hard about it |
|---|---|---|---|
| Inbox list (`lib/chat/conversations-state.svelte.ts`, `fetch-epochs.ts`, `pending-deletes.ts`, `conversation-window.ts`) | rows, cursor, filter, loading/refreshing/error, current fetch epoch, tracked fetches, tombstones | first load, retry, filter change, page, refresh (reconcile), sync, delete batch, live message, announced delete | answers that arrive after a newer request, a delete or a filter change; overlapping deletes; rollback of part of a batch |
| Inbox paging (`inbox-paging.svelte.ts`) | running, failure, backoff timer, arm token | run, retry, rearm, timer | a demand while a page runs; a timer that fires after a rearm |
| Reconciler (`lib/util/reconcile.ts`) | last reconcile, resync timer, hidden flag | reconnected, events dropped, event rejected, visible again, timer | triggers inside the throttle window; late timers |
| Live message accounting (`conversations-state.svelte.ts`, `seen-messages.ts`, `unread-while-missing.ts`, `pending-flags.ts`, `merge-conversation.ts`) | unread counts, seen ids, counts for missing rows, flags in flight | message sent, mark read, pin, mute, merge of a snapshot | snapshots older than what was received; overlapping toggles |
| Drafts (`drafts.svelte.ts`) | texts, reply targets, forgotten ids, the pending autosave | open, save, autosave, forget, timer | an autosave after the conversation was deleted |
| Reconciling lists (`lib/util/reconciling-list-state.svelte.ts`, taps and views) | items, fetch token, buffer of live items, flags | load, refresh, retry, live item, viewability change, destroy | a live item against a snapshot on its way; superseded snapshots |
| API caches (`lib/api/cache.ts`, `account-caches.ts`) | entries, in-flight requests, generation, account epoch | fetch, refetch, set, update, delete, clear, account change | a request that spans a delete, a clear or a sign-out |
| Conversation messages (`routes/(protected)/chat/[conversationId]/conversation-state.svelte.ts`) | messages, cursor, sends in flight | load, page, send, retry, react, unsend, live message | optimistic messages against their echo and the history |
| WebSocket commands (`lib/ws.svelte.ts`, `src-tauri/src/api/ws.rs`) | pending command, listeners, timer | send, answer, timeout, disconnect | settles exactly once |
| Session recovery (`api/session_recovery.rs`, `session-recovery.svelte.ts`) | running flag, attempts, report | request, retry, success, failure | one supervisor; a request while it finishes |
| Sign-in, OAuth (`api/auth.rs`, `oauth.rs`) | the one pending sign-in | start, redirect, cancel, sign out | a redirect for a sign-in that was replaced |
| Updater (`src-tauri/src/api/update`, `lib/updates`) | active download, persisted settings, staged files | check, download, cancel, discard, install, startup purge | crashes between file operations; purges beside downloads |
| Media proxy (`src-tauri/src/media`) | cache, windowed hosts, flights, permits | serve, forget everything | sign-out while a fetch runs; one flight per key; budgets |
| Browse grid (`lib/grid`) | tiles, pages, location, token | load, page, refresh, heartbeat | superseded fetches, a late location fix |
| Profiles, favourites, blocks, hides (`lib/api/users`, `lib/api/browse`) | profile cache, unviewable set | edit, block, unblock | optimistic edits in every cache |
| App data (`lib/app-data`, `src-tauri/src/storage`) | preferences, key-value files | get, set, remove | torn writes |
| Location, presence, photo encoding, schemas, components, docs, CI | see `PROJECT.json` | | not modelled |

How they interact: the Rust shell forwards WebSocket events to the front end
one by one.  The reconciler turns reconnects and losses into refreshes of
every list and of the open conversation.  Sign-out clears all account-scoped caches and destroys the list
states.  JavaScript runs one callback at a time, so front-end races are races
between an `await` and whatever ran meanwhile; the Rust parts run on several
threads and are exposed at every `.await` and unlock.

## Plan

Done: the inbox core, the caches with their abstract store, the reconciling
lists, the reconciler and the list subscribed to it, the media proxy and its
cache, the updater's downloads and stages with their abstract release, the open
conversation, the recovery of a session.  Left, in this order:

1. `InboxMessages`: unread counts, previews, flags in flight, on top of
   `ConversationsState`; the backoff of `InboxPaging`.
2. `UpdateSchedule` (the ledger is loaded before an await and saved after it)
   and the installation, which reads the stages of `Updater`.
3. `WsCommand`, `OauthBridge`, the queue of read receipts, `Drafts`.
4. The grid, the app data files, media ranges.

Theorems still worth proving: every safety and action property of the runs that
pass is a theorem now, so what is left comes with the modules above.

## The modules

| Module | Models | Instantiated by |
|---|---|---|
| `PendingDeletes` | the tombstone operators of `pending-deletes.ts` | `ConversationsState` |
| `ConversationsState` | the inbox list: every request it makes, deletes, fetch epochs | `MCConversationsState` |
| `ConversationsStateProofs` | theorems about it | |
| `AccountStore` | what a cache promises, abstractly | `FetchCache` (as `Store`) |
| `FetchCache` | `TtlCache`, `FetchCache`, the account epoch, write-throughs | `MCFetchCache` |
| `FetchCacheProofs` | theorems about it, the refinement of `AccountStore` included | |
| `Reconciler` | `reconcile.ts` | |
| `ReconcilingList` | `ReconcilingListState` with the taps list as its subclass | `ReconciledList` (as `List`) |
| `ReconciledList` | a list subscribed to the reconciler | |
| `ReconciledListProofs` | theorems about the reconciler and the list | |
| `Ranked` | sorting and filtering, by the rank of each element; `SelectSeq` and `SortSeq` have no definition a prover can expand | |
| `Conversation` | `conversation-state.svelte.ts` and `merge-messages.ts`: an open conversation | `MCConversation` |
| `ConversationProofs` | theorems about it | |
| `Session` | a failed token refresh from the client to the alert: `ws.rs`, `session_recovery.rs`, `session-recovery.svelte.ts` | `MCSession` |
| `SessionProofs` | theorems about it | |
| `StagedRelease` | what the updater promises of what may be installed, abstractly | `Updater` (as `Abstract`) |
| `Updater` | the transfer task, the stages on disk, the commands around them, crashes | `MCUpdater` |
| `UpdaterProofs` | theorems about it, the refinement of `StagedRelease` included | |
| `MediaCache` | `cache.rs` of the media proxy | |
| `MediaCacheProofs` | theorems about it | |
| `MediaProxy` | `mod.rs`, `flight.rs`, `windowed.rs`, permits, `forget_everything` | `MCMediaProxy` |
| `MediaProxyProofs` | theorems about it | |

`PROJECT.json` gives, for every definition that translates code, the file and
the lines.  Definitions marked `(fault, for a mutant: ...)` are not part of a
model: each is a plausible bug in the definition next to it, used to see that
a property notices it.

### How state and actions correspond to the code

**Front end.** JavaScript runs one callback at a time, so one action is all
that happens between two awaits, together with the promise continuations that
run before any other event.  A request is three steps: the call that starts it,
the server reading or changing its own data, and the handling of the answer (or
of the failure).  What the code keeps in closures (the epoch a fetch began
under, the rows a batch removed) is in the record of the request.

- `ConversationsState`: `rows[c]` counts the entries of a conversation and
  `ts[c]` is its last activity, so the order of the list and the page a
  conversation is on follow from the data; `nextPage` is the cursor, 0 for
  null.  `fetch` holds the tracked requests by kind: the first load, a retry or
  a filter change (`hard`), a page, a reconcile (which walks pages until the
  window it replaces is covered) and a sync.  `epoch` is `FetchEpochs.#current`.
  `deletion` holds delete batches and announced deletes until their tombstone
  references are given back; `tomb` is `PendingDeletes`.  The server's list,
  peers that write, other devices that delete and the announcements on the
  websocket are external actions.  `placed` and `buried` only observe.
- `FetchCache`: `entry`, `generation` and `inFlight` are the fields of the
  class; `account` is the epoch of `account-caches.ts`; `request` are the GETs
  and `writer` the PUTs whose answer the callers write through the cache
  (`favorites.ts`, the profile edits).  A value is who it was given to, the
  server's version of it, and whether a GET or a PUT brought it.  `floor`
  observes the version when a key was last forgotten.
- `ReconcilingList`: a row is the version of its key; `newest` is the holder of
  the last `#fetchToken`; `buffer` is the fetch whose buffer is `#buffer`;
  `loading`, `refreshing`, `requested`, `error`, `loaded`, `destroyed` are the
  fields.  Taps are sent over a websocket that keeps their order and may lose
  them; profiles become unviewable and viewable at any time.
- `Reconciler`: time is the age of the last reconcile and what is left of the
  timer.  A timer never fires early and may fire late.
- `ReconciledList` puts the two together: what drops or disconnects may empty
  the wire of the list, and the reconcile that `auth_state` allows runs the
  list's refresh in the same step.  `missed` observes what was on the wire at a
  drop the reconciler owes a resync for.
- `Conversation`: the server's i-th message has the id `i` and the timestamp
  `2 * i`; a message on its way has its own name for an id and whatever
  timestamp the client's clock gives it (`Clock`), before, between or after the
  server's.  `load`, `refresh` and `more` are the fetches (`#initialLoad`,
  `#reconcileMessages`, `loadMore`), `requested` is
  `#refreshRequestedSinceFetchStart`, `cache` the copy in `ConversationsState`,
  `out` what became of each `sendOne`, `edit` a deletion and what its rollback
  puts back.  A deletion outlives its view: left behind, it still reaches the
  server or fails, and its rollback then writes the copy of the view that was
  left over the shared one (`LeftRemoveFails`).  Messages, deletions, losses,
  failures, read markers and departures draw on one budget, `MaxTurns`.
  `settled` observes that a refresh was applied that answered with what the
  server still has, with nothing older on its way; it ends with what changes the
  server, and when a bubble becomes a message that was unsent or deleted while
  it was sent.  `reverted` observes that a deletion was put back, `foreign` that
  the copy was last written by a view that was left.
- `Session`: `session`, `failing` and `link` are the client of the `grindr`
  crate as `ws.rs` hears it; `run` is the supervising task and `outcomes`
  what the runs that have reset `running` have still to emit, each by a task of
  its own and so in any order; a refusal is emitted at once, whether a run, the
  user or the client itself asked (`Refused`).  `events` are the Tauri events, in
  order; `pending` and `asks` are `#pending` and the `#promote` calls that await
  `session_health`.  `dialog` and `toast` are closed or open, and remember
  (`"overdue"`) that the report was received before a repair the page has
  heard of.

**Rust.** The media proxy's tasks run in parallel; an action is what a task
does between two awaits.  `request[r].at` is the await it is at, in the order of
`serve`.  Locks are the mutexes of `flights`; `Referred` is the strong count
above one that keeps a lock from being pruned.  `forget_everything` is three
actions, one per await.  `MediaCache` is sequential, behind one mutex, and is
checked on its own: `queue[c]` holds the keys of a class, oldest first, in place of `last_used`,
which is never compared across classes, and `before` observes which entry was used
before which; `MediaProxy` lets a put evict any other entries, which
contains every choice `MediaCache` makes.

In `Updater` byte i of an upload is the upload itself, so a file is a sequence
of uploads, a splice of two uploads shows as such, and a digest is the sequence
that was hashed.  `disk[t]` is the stage directory of a tag: `state.json`
(`rec`), `payload.part` and `payload`.  `task` is the transfer: `prepare`,
`open` (the head of the retry loop), `answer` (the response), `body` (the
chunks), `settle` (the signature), `accept` and `commit` follow `run.rs`,
`transfer.rs` and `stage.rs`; the fields are its locals.  A file operation that
another follows is a step of its own, and `Crash` may come between any two:
memory is lost, and of the unflushed bytes any prefix is on disk.  `call[k]`
is a command of the front end at its awaits, a wait for the mutex of `Downloads`
among them, and `starting` who holds that mutex across an await.  `Publish` uploads a payload again under the same URL.

## The runs

| Run | Bounds | States | Shows |
|---|---|---|---|
| `inbox` | 1 conversation, 2 requests, 1 delete, 3 epochs, 2 activity times | 84 924 | no duplicate rows, late answers blocked, no resurrection; a refresh asked for is run, refreshes end, deletes end |
| `inbox_paging` | 2 conversations, 1 per page, 2 filters, 2 requests, 2 deletes, 2 epochs; opens unfiltered on the full list | 881 291 | no row is lost behind the cursor; exact tombstone counts; no row of another filter appears |
| `inbox_loading` | 1 conversation, 2 filters, 3 requests | violation | the skeleton may stay for good |
| `cache` | 2 keys, 2 GETs, 1 PUT, 1 change of a value, 1 sign-out, 2 generations | 474 067 | the cache implements `AccountStore`; joiners get fresh answers; callers share |
| `cache_sign_out` | the same | violation | a note written across a sign-out lands in the next account's cache |
| `lists` | throttle of 2 units, 1 awaited call, 1 profile, 2 fetches, 1 tap | 770 416 | an owed resync is on its way; what was dropped is made up for; no unviewable row, nothing received is lost, ordered snapshots, unhidden profiles return |
| `conversation` | 1 send under a clock behind or ahead, 1 message per page, 2 messages, 4 turns, messages included | 3 805 207 | newest first and once; a refresh brings the view to the server's state; the copy is the view; no refresh is forgotten; the read marker never goes back |
| `session` | 2 reports, 2 attempts, 2 outcomes or events under way, 2 questions out, a client that pauses | 1 819 661 | an overtaken report is not shown; alerts about a repaired session go |
| `updater` | 2 uploads of 1 release, 2 bytes each, 2 commands, one of any kind and one that cancels or discards, 2 attempts, 1 without progress | 1 243 702 | only whole signed uploads can be installed; hashed is written; retries keep their bytes; `StagedRelease` is implemented; a transfer runs down, the lock is held shortly and nobody is stuck |
| `media_cache` | 4 keys, bodies of 5 sizes around every boundary | 13 832 | counters exact, budgets kept, oldest first, what is put is held |
| `media` | 2 keys, 2 requests, 2 locks, 1 permit, 1 account | 299 374 | one flight per key, nothing fetched twice, lasting marks last, every request is answered |
| `media_sign_out` | 2 keys, 2 requests, 1 sign-out | violation | a body of the old account survives the sign-out |

A run asks its safety and its liveness questions of the same instance where that
instance is small enough.  The type invariants of `ConversationsState`,
`Reconciler`, `MediaProxy`, `MediaCache`, `Updater` and `Session` are proved, those of
`FetchCache`, `ReconcilingList` and `Conversation` within the invariants of
their theorems, and are no properties of a run.

Why the bounds are enough to be interesting:

- A conversation comes back when an answer given before its delete is applied
  after it: two requests, before and beside one delete, with a second activity
  time so that a peer may write to it again.  Three epochs are the first load, a
  refresh and the one asked for while it runs.
- A miscount of tombstones needs two deletes that overlap, and a gap a page
  boundary inside the list: `inbox_paging` has two conversations, one per page.
  The page bound of a reconcile (`MAX_PAGES`) is set so that it never cuts the
  walk short.  Two filters, one of which keeps the first conversation only,
  make every late answer wrong for the list it finds; the list opens unfiltered,
  as `ConversationFilters` does.  Two epochs are the first
  load and one retry, filter change or refresh, beside which any pages and syncs
  may be in flight.  `NoGap` compares the list with the server's, so it speaks of
  states in which the server's list has not changed since the start; deletes
  that fail are among them.
- The cache's hazards are about one key and two generations of requests for it.
  Deletes of other keys only raise the generation, which a delete of this key
  does too.
- A list is superseded by the second fetch, and a handler that finds it busy
  needs one fetch under way and one after it.  A throttle of two units has an
  age inside the window, one at its edge and one past it.
- A conversation goes wrong between a page, a refresh and an event: pages of one
  message put a page boundary between any two messages.  With one message of
  another author and one sent here, the echo, the answer and a refresh can each
  bring the sent one first.  The clock reads one of two times, before and after
  every message of the server: a bubble sinks below what it is about to become
  or stays above it, and hides what comes after.  Four turns, of which each
  message takes one, leave two messages two turns, and one message three: a
  deletion and a loss, a failure and a return, a rollback and what finds it, or a
  departure, a read marker and a deletion left behind that fails.  One deletion
  is in flight at a time, one that was left included; a reopening from a copy
  it overwrote draws no turn, since the deletion took one.
- Two reports are one whose question is still out and one that replaces it; two
  attempts are one that is retried and a last one.  Two outcomes and events on their way are the
  outcome of a run and that of the next, in either order, or a refusal and the
  recovery from it; that a longer queue changes nothing is part of the
  proofs, which bound none.
- In `updater` the second upload of the release makes every resumed byte
  suspicious; two bytes are a beginning and an end, so that an offset can be
  inside, at the edge or wrong.  Two attempts are one that fails and one that
  resumes.  Of two commands one is any, and the other, a cancellation or a
  discard, queues on the mutex that the first holds, or the first behind it; a
  second download beside the first is left to the proofs, which are for any
  number of commands of every kind.  With one tag, the purge of another tag's stage is
  left to them too.
- In `media` two requests are a holder and a waiter, with one permit that either
  may want while the other has it.  The account changes in `media_sign_out`
  only; the clearing itself happens in both.
- The budgets of `media_cache` are a few bytes; sizes lie on both sides of the
  class boundary and at the largest entry that is taken.

The deadlock check is off in `inbox_loading`, whose epochs are bounded, in
`conversation`, whose messages and turns are, and in `updater`: that someone
waits for ever is told apart there by `NobodyStuck`, which the purge at launch or a
crash, always possible, would hide from the deadlock check.  Symmetry is
used in runs that check safety properties only.

### Fairness

- Inbox: every request is answered or fails, because the client of
  the `grindr` crate ends every request with an answer or an error, timeouts
  among them (weak fairness of the answers of each request).  Users,
  peers and the websocket owe nothing.
- Updater: no fairness is assumed, and none is needed for what is stated.
  `NearerItsEnd` says that a transfer can take only so many steps,
  `NobodyStuck` that it can take the next one until it is over, and that a command
  can too, unless it joins a transfer or queues on the lock behind one that does;
  `LockIsShort` that the transfer so waited for was told to stop.
  With a runtime that schedules its tasks, a mutex that is first come, first
  served (tokio's) and an HTTP client that ends every request, since it is built
  with a connect and a read timeout (`client.rs`), every transfer and every
  command ends.
- Media proxy: strong fairness of the steps of each request.  Most steps stay
  enabled until taken, so weak fairness would do; taking a mutex or a permit is
  disabled while another holds it, and tokio's mutex and semaphore are first
  come, first served.  Fetches end because the client ends them,
  as above.  No fairness is assumed of evictions,
  expiries or sign-outs.
- Lists, updater, conversation and session make no liveness claims.  What should follow
  is stated as being under way: `UnhiddenReturns`, `DroppedIsMadeUpFor`,
  `RequestKept` and `AlertsGo` hold in every state, whether or not anything
  happens next.

## Where the code and its words differ

Three runs end in a violation, each of something a test or a comment says:

- `inbox_loading`: a reconcile that waits for the first load claims an epoch
  when that load ends.  If a filter change has started another load by then,
  that load is stale when it answers and nobody clears `loading`
  (`conversations-state.svelte.ts:348-351`, `377`).
- `cache_sign_out`: `putFavoriteNote` and its siblings write into the cache
  after an await without looking at the account epoch (`favorites.ts:71`).
- `media_sign_out`: a fetch that spans `forget_everything` puts its body into
  the cleared cache (`media/mod.rs:142`).

Other behaviour the models contain that a reader may not expect, not stated as
a property of a run:

- The rollback of a failed delete puts its row into whatever list is shown by
  then, filtered or not (`conversations-state.svelte.ts:408-416`).
  `NoForeignRows` exempts it.
- `set()` and `update()` of a cache leave the generation alone, so a GET in
  flight overwrites a value written through with an older one
  (`cache.ts:32-39`).  `AccountStore!Keep` allows it.
- A buffered item whose key a snapshot covers is not replayed, even when the
  snapshot was read before the item (`reconciling-list-state.svelte.ts:124-127`):
  the row stays, with the older version, until the next refresh.
- A drop that finds the resync timer set relies on it; if the timer fires late
  and another reconcile came first, the throttle swallows it
  (`reconcile.ts:55-67`).  `owed` counts only the drops that set the timer or
  come with no reconcile within the throttle.
- `Flights::clear` lets a second flight of a key start beside one that a
  clear cut off (`flight.rs:19-21`); `OneFlightPerKey` speaks of the others.
- A conversation's refresh drops what is newer than its answer: a message that
  came by event after the server read goes until the next refresh
  (`merge-messages.ts:52-67`).  `Converged` speaks of answers that are still
  the server's state.
- When the first load fails and a refresh succeeds, the messages are shown but
  `pageKey` stays null, so nothing older can be loaded until the conversation is
  opened again (`conversation-state.svelte.ts:212-239`).
- A failed deletion puts its message back at the index it had, in a list that
  may have changed (`conversation-state.svelte.ts:525-542`); `NewestFirstOnce` and `CacheIsView`
  exempt the time until the list is sorted again.
- A bubble that becomes the server's message stands where the list had it or
  where the new timestamp puts it, and of two messages with one id the merge
  keeps the first (`conversation-state.svelte.ts:450-475`,
  `merge-messages.ts:8-19`).  With a clock ahead, or put back by a rollback, that
  is the bubble: when the message was unsent or deleted while its answer was on
  its way, the bubble hides that until the next refresh.  `settled`, and with it
  `Converged`, ends there.
- A bubble dated ahead of the server also makes the `message_sent` handler take
  what arrives for old and drop it, until the next refresh
  (`conversation-state.svelte.ts:130-134`); `CacheIsView` holds all the same.
- A deletion that fails after its view was left is rolled back in that view:
  `remove()`'s `revert` does not look at `#destroyed`, and its `#syncCache`
  overwrites the shared copy with the messages, the page key and the read marker
  of the view that was left (`conversation-state.svelte.ts:525-542`,
  `MessagesList.svelte:71-75`).  The view that is open is unaffected and
  rights the copy with its next event; reopened before that, the conversation
  shows the old view until its refresh answers, and its read marker may have
  gone back (`:285`).  `CacheIsView` and `MarkerNeverBack` except exactly
  this.  A local unsending that fails does the same (`:616-625`); it is not
  modelled.
- The purge before a download runs outside the lock (`commands.rs:130`), and
  `update_discard` removes the root after it let go of it
  (`commands.rs:216-227`), so either may take the directory from under a
  transfer, which then fails at its next save and is not retried.  What may be
  installed is unaffected (`ReadyIsSigned`).
- A refusal is shown as soon as it is announced.  One answered to a run or to the
  "Try again" of the dialog after the client has refreshed the session itself
  complains about a session that works, until the client announces its next
  success (`ws.rs:89-97`, `session_recovery.rs:78-91`).  `AlertsGo` counts that
  announcement, owed since the refusal, among what takes an alert down.
- `dismiss()` records the dismissal under the kind of the last report, not of
  the one that opened the dialog (`session-recovery.svelte.ts:59-62`).
- A run that is answered `NotLoggedIn` after its account has signed out reports
  it, and the page signs out whoever has signed in meanwhile
  (`session_recovery.rs:140-174`).

## What is proved

All for every value of the constants, under the named assumptions of the
modules (finite sets, positive page size, sentinels outside the sets they
extend, as many mutexes as requests, a throttle above zero, at least one
attempt, sizes above zero, every body of
the small class fits its budget, names of sends that are neither ids nor the other
authors' names).

| Theorem | Says |
|---|---|
| `ConversationsStateProofs!TypeCorrect` | types |
| `ConversationsStateProofs!TombstonesAreCounted` | `TombstonesCounted` |
| `ConversationsStateProofs!RowsAreUnique` | `NoDuplicateRows` |
| `ConversationsStateProofs!LateAnswersAreBlocked` | `LateAnswersBlocked` |
| `ConversationsStateProofs!DeletedStayDeleted` | `NoResurrection` |
| `ConversationsStateProofs!AnswersMatchFilter` | `NoForeignRows` |
| `ConversationsStateProofs!NothingIsSkipped` | `NoGap` |
| `FetchCacheProofs!JoinersGetFreshAnswers` | `JoinedIsFresh` |
| `FetchCacheProofs!CallersShare` | `OneRequestPerKey` |
| `FetchCacheProofs!CacheImplementsStore` | `ImplementsStore`, the refinement |
| `ReconciledListProofs!TypeCorrect`, `OwedResyncIsOnItsWay` | types, `ResyncOnItsWay` |
| `ReconciledListProofs!HiddenAreNotListed` | `NoUnviewableRows` |
| `ReconciledListProofs!ReceivedAreKept` | `ReceivedStaysListed` |
| `ReconciledListProofs!UnhiddenAreFetched` | `UnhiddenReturns` |
| `ReconciledListProofs!DroppedAreMadeUpFor` | `DroppedIsMadeUpFor` |
| `ReconciledListProofs!SnapshotsAreInOrder` | `SnapshotsInOrder` |
| `ConversationProofs!NewestFirstAlways` | `NewestFirstOnce` |
| `ConversationProofs!RefreshesConverge` | `Converged` |
| `ConversationProofs!CopiesAreViews` | `CacheIsView` |
| `ConversationProofs!RequestsAreKept` | `RequestKept` |
| `ConversationProofs!MarkersAdvance` | `MarkerNeverBack` |
| `MediaCacheProofs!TypeCorrect`, `CountersAreExact` | types, `BytesCounted` |
| `MediaCacheProofs!BudgetsAreKept` | `WithinBudget` |
| `MediaCacheProofs!OldestAreEvicted`, `PutsAreHeld` | `OldestGoFirst`, `PutIsHeld` |
| `MediaProxyProofs!TypeCorrect`, `FlightsPerKey` | types, `OneFlightPerKey` |
| `MediaProxyProofs!SecondLookSuffices` | `NotFetchedTwice` |
| `MediaProxyProofs!OversizedKept` | `OversizedStays` |
| `UpdaterProofs!TypeCorrect`, `StagesAreSigned` | types, `ReadyIsSigned` |
| `UpdaterProofs!DigestsAreOfFiles` | `HashedIsWritten` |
| `UpdaterProofs!RetriesLoseNothing` | `RetryLosesNothing` |
| `UpdaterProofs!TransfersRunDown` | `NearerItsEnd` |
| `UpdaterProofs!TheLockIsShort` | `LockIsShort` |
| `UpdaterProofs!Refines` | `StagesAtOnce`, the refinement |
| `SessionProofs!TypeCorrect`, `NothingOvertakenIsShown` | types, `RepairedStaysQuiet` |
| `SessionProofs!AlertsAreRetracted` | `AlertsGo` |

**The inbox.** `TombstonesCounted` needs the phases of the deletes to be known
(`DelInv`): a slot that is free names no conversation, and a batch on the wire
waits for no fetch yet.  `LateAnswersBlocked` is not
inductive: it says what the tombstone does, not why it is still there.  The
strengthening, `LateAnswersRemembered`, is that for every late answer some
delete of the conversation has settled at an epoch no older than the answer's
and waits for that very request, so its reference holds the tombstone.  `EpochsOK` bounds the
epochs of requests by the current one, and `ActivityOK` makes what the server
shows newer than anything deleted, so a request the server has yet to answer
cannot bring a late answer about.  `NoResurrection` and `NoForeignRows` follow from one lemma,
`AppearingRow`, on where rows come from, and `ViewsOK` (a request that is not
stale asked for the filter shown).

`NoGap` relates the list to the cursor and to the server, and needs what each
request in flight knows (`GapInv`).  Of the requests that set the cursor only one is of the
current epoch (`OneCurrent`), since a page is asked for only when nothing loads
or refreshes and everything else claims an epoch; `OneRefresh` is the same for reconciles,
the one that waits for the first load included.  So a page that is not stale is the page the
cursor names (`CursorOK`).  While the server's list stands still an answer is an exact part of it
(`AnswersOK`): the pages before the one it asks for next, or the page itself.
What the new cursor passes is then before it already, or in the answer; and an
answer keeps back only what a tombstone blocks.  The delete is then on the wire, or it
settled in the current epoch and, having had no effect, put its row back
(`SettledShown`, which needs `RowsOfServer`: a row, and the row a batch
holds for its rollback, show the server's own activity, so a reconcile never drops
it as gone).  `ClocksOK` bounds the stamps of the tombstones by the epoch: a claim
of an epoch makes all of them old.

**The cache.** A request that is current is the one recorded for its key, and
the recorded one is running (`Recorded`, `JoinedIsFresh`); a delete drops the
record and starts a generation, so nothing begun earlier is current.  With
`Dated` (what a request carries is no younger than the cache and the server)
an answer that is stored is of this account and no older than `floor`, which is
what `Store!Keep` asks.

**The reconciler.** `ResyncOnItsWay` is inductive with the types: the wait is
chosen so that the age of the last reconcile and what is left of the timer add
up to the throttle, and both move together.

**The lists.** Everything turns on the newest fetch, which alone may apply
its answer.  `Covers` says of it, once the server has read it: it is no older than
what was applied, it lists everyone whose item was received (or holds the item in its
buffer), and it shows what was unhidden or missed, or else another fetch
follows, because a refresh is remembered or the reconciler has yet to run one.
What is on the wire is newer than what was missed and no newer than the server's
(`Sent`), and nothing is owed for a profile that is not viewable (`Viewed`).  The invariant of the
reconciler is used as it is: what owes a resync has one on its way.

**The conversation.** Sorting, filtering and merging are about positions, so
`Ranked` defines them by counting and the first part of the proofs establishes what
they return: the same elements, in order, once each.  `NewestFirstOnce` is not
inductive: a send must not find its own name in the list.  `NewIsNowhere` says
that it does not; the date of a bubble is any number, and nothing rests on
it.  What an event puts on top is no older than anything listed, because the
handler compares it with the greatest timestamp of the list.
`CacheIsView` needs the copy to be of the view with its key and marker
(`Cached`), also while a rollback is unsorted, and unless it is `foreign`; of
the latter it is enough that it is a copy of some view, with a list of messages
that the server sent.  `Converged` needs `Current`: while a view is settled nothing
was missed, and an older page that has been answered is of the state the server
still has.  A bubble that becomes a message of the page is then neither unsent
nor deleted, so it does not matter which of the two the list keeps.

**The media proxy.** The map of flights alone does not keep flights apart,
since locks are pruned from it and a clear empties it.  The invariant is that a
request that was not cut off finds its own lock recorded under its key
(`Recorded`), and that a lock has one holder (`Exclusive`).  `NotFetchedTwice` rests on it:
only a second look that finds nothing leads to a fetch, and until that fetch is over
nobody else has a flight of the key that could put anything, but for those that a
clear cut off.  `OversizedStays` is an action property: each step is shown to leave a lasting
mark alone or to be the clear.

**The media cache.** The counter of a class is the number of bytes in its queue
(`QueuesCounted`), a queue is in the order of use (`QueuesOrdered`) and holds one class only
(`ClassesKept`).  The code evicts until the budget is kept; the model evicts the
least number of the oldest entries that will do, which exists because the natural
numbers are well-founded.  A body that may be put fits the budget of its
class, so the eviction ends before it reaches the entry just put (`PutIsHeld`).

**The updater.** That a stage is ready says nothing about how its bytes came
there.  `TaskFine` says what holds between a transfer and the stage it writes:
the file and the digest agree wherever both have a byte, the file is what was
hashed once it is open or complete, it is as long as its record says while a
response is awaited, and a signature is of an upload of this tag.
`StageFine` asks of every stage that is ready that it is one signed upload;
until `Commit` the transfer's own stage is not ready, and at `Commit` its payload
is signed.  `KeptFine` says the same of what a cancelled download
left in memory, `ServedFine` that a URL serves uploads of its tag.  The
validator of a resume does not enter the argument: a splice of two uploads is
caught by the digest and not by the resumption.  `Refines` maps a ready stage to
the upload it is: `Commit` is `Stage`, and every other step drops
stages or stutters.  `RetryLosesNothing` is inductive with these and with a
count: a transfer has made no attempt before its first, and every way to fail for a
transient cause flushes the file and saves its length before the next.
`NearerItsEnd` orders transfers by the part of `run()` they are in, the attempts
left, the part of the attempt, the bytes to come, those to flush, the
signature and the cancellation; a step lowers the first of these it changes,
because every attempt is counted when it starts (`Counted`: one that asks has
one left), whatever progress forgave.  For `LockIsShort` nothing but
the wait itself keeps the lock, and no step of a transfer takes a cancellation back.

**The session.** A report that was overtaken by a repair is not `pending`
(`OvertakenIsNotPending`), and only the pending one is shown.  For `AlertsGo`,
a `Cure` is a failure the client has still to take back (`failing`), a websocket
that is yet to connect, or an `ok` on its way.  `AlarmsAreCured`: whatever is
shown, or about to be, has a cure; `RefusalsAreCured`: a refusal on its way has
one behind it; `ReportsAreOfNow`: while a report is on its way, a stale
session is one the client still complains about, so a report shown late is
shown with a cure, also when it was emitted after the `ok`.

**Only model-checked.** Liveness (`RefreshRuns`, `RefreshingEnds`,
`DeletesComplete`, `RequestsEnd`), which holds under fairness, and `NobodyStuck`:
both mean arguing about when an action is enabled, and that is out of the
provers' reach.  Every other property of the runs that pass is proved.  The
three runs that end in a violation state what does not hold.

## What is not modelled

`PROJECT.json` lists every part with its status.  Within the parts modelled:

- Inbox: flags, unread counts, previews, drafts, the first pages of messages;
  the backoff of the paging; `destroy()`.
- Cache: `accountScoped`; one `FetchCache` stands for all.
- Lists: the order and paging of rows, favourites, what the views list adds.
- Reconciler: which other handlers are subscribed; a failing handler.
- Conversation: reactions, local unsending, reply targets, previews of the
  inbox, the queue of read receipts, texts and types.  A deletion elsewhere and its
  event are one step, and so are leaving and reopening; removing the only message does not remove
  the conversation from the inbox here.
- Session: the life of a token is longer than that of a report (`Expires`);
  the broadcast channel of `ws.rs` does not lag; bans and blocked requests
  have their own alerts; `signOut` and `tryAgain` are one step each;
  `session_health` never fails and `set_app_active` comes with the change of
  visibility; which kind of failure a report is is chosen when it is shown.
  That the client announces a recovery after every failure it announced is
  assumed of the `grindr` crate.
- Updater: `update_install` and its digest check; the ledger of `update_check`;
  I/O errors other than at a flush and at the restoring of a kept
  download; `remove_dir_all` is atomic, a discard wipes the disk and the memory
  in one step, and the index of `update_download` is read in one.
- Media proxy: ranges and responses; `forget_everything` does not overlap
  itself (a sign-out while parameters rotate); a cancelled request.

Hazards of code that is not modelled yet, for the modules of the plan: a filter
or flag toggled twice whose first request fails late
(`conversations-state.svelte.ts:494`); a count cleared by `markRead`, awaited and
added back (`:454`); a retry timer of the paging that fires after a rearm
(`inbox-paging.svelte.ts:79`); a command answered while it times out
(`ws.svelte.ts:138`); an update setting changed while a check is under way
(`commands.rs:91`); read receipts that reach the server in either order
(`read-receipts.ts:48`); `set_app_active` calls that overtake each other
(`app-lifecycle.svelte.ts:26`); a sign-out called twice (`sign-out.ts:9`).
