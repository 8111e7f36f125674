----------------------------- MODULE Conversation -----------------------------
(***************************************************************************)
(* The open conversation of chat/[conversationId]/conversation-state:      *)
(* messages arrive by websocket events, by refreshes and by paging, sends  *)
(* are shown before the server has them and deletions before it knows of   *)
(* them.                                                                   *)
(*                                                                         *)
(* The server's i-th message has the id i and the timestamp 2 * i; a       *)
(* message being sent has its own name as id and whatever timestamp the    *)
(* clock of the client gives it.  Texts, types and reactions are left out; *)
(* what an unsent message becomes is its `unsent`.                         *)
(***************************************************************************)
EXTENDS Ranked, FiniteSetsExt

CONSTANTS Sends,      \* messages sent here
          Clock,      \* what the clock of the client may show, ahead or behind
          PageSize,   \* messages of one answer
          MaxLog,     \* bound on the messages of the server
          MaxTurns,   \* bound on messages, deletions, losses, failures and the like
          None

ASSUME ConversationAssumption ==
    PageSize \in Nat \ {0} /\ MaxLog \in Nat /\ MaxTurns \in Nat /\ Clock \subseteq Nat
    /\ Sends \cap (0..MaxLog) = {} /\ Sends \cap {"peer", "us"} = {}

VARIABLES log,        \* the messages' origins: a send, "peer", "us"
          gone,       \* deleted by us
          unsent,     \* unsent by their author
          peerRead,   \* the peer's read marker
          heard,      \* messages whose event was delivered or lost
          profile,    \* whether the peer's profile is known
          messages, pageKey, lastRead, error,
          requested,  \* #refreshRequestedSinceFetchStart
          load, refresh, more,    \* the fetches in flight
          out,        \* what became of each send
          edit,       \* a deletion in flight, of this view or of one that was left
          cache,      \* ConversationsState's copy
          turns,      \* how often MaxTurns was drawn on
          settled,    \* observer: the view was brought up to date, and no bubble took the
                      \*   place of a message that is unsent or deleted since
          reverted,   \* observer: a deletion was put back, here or in the copy opened
          foreign     \* observer: the copy was last written by a view that was left

server == <<log, gone, unsent, peerRead>>
view == <<profile, messages, pageKey, lastRead, error, requested, cache, foreign>>
fetches == <<load, refresh, more>>
vars == <<server, heard, view, fetches, out, edit, turns, settled, reverted>>

-----------------------------------------------------------------------------
(* The server *)

Ids == 1..Len(log)

\* The newest PageSize messages, of those older than a key.
PageOf(key) ==
    LET S == {i \in Ids \ gone : key = None \/ i < key}
    IN  {i \in S : Cardinality({j \in S : j > i}) < PageSize}

Response(key) == [ids |-> PageOf(key), unsent |-> unsent, read |-> peerRead]

Least(S) == CHOOSE i \in S : \A j \in S : i <= j

\* getConversation: the key of the next page is the last message.
KeyOf(res) == IF res.ids = {} THEN None ELSE Least(res.ids)

-----------------------------------------------------------------------------
(* merge-messages.ts *)

Version(i, res) == [id |-> i, ts |-> 2 * i, status |-> "sent",
                    unsent |-> i \in res.unsent]

\* removeDuplicateMessages: the first of each id, newest first, stable.
NewestFirst(s) ==
    LET first == {i \in DOMAIN s : \A j \in 1..(i - 1) : s[j].id # s[i].id}
        upTo == [i \in first |->
                   {j \in first : s[j].ts > s[i].ts \/ (s[j].ts = s[i].ts /\ j <= i)}]
    IN  At(s, Ranked(first, upTo))

Downwards(S) == Ranked(S, [i \in S |-> {j \in S : j >= i}])

Versions(S, res) == LET d == Downwards(S)
                    IN  [k \in DOMAIN d |-> Version(d[k], res)]

IsSent(m) == m.status = "sent"

SentAt(s) == {i \in DOMAIN s : IsSent(s[i])}
SentIds(s) == {s[i].id : i \in SentAt(s)}
SentOf(s) == Kept(s, SentAt(s))

\* mergeServerMessages
Retained(m, res) ==
    \/ ~IsSent(m) \/ m.id \in res.ids
    \/ res.ids # {} /\ m.ts < 2 * Least(res.ids)

\* (fault, for a mutant: what was deleted or unsent is no change)
OnlyFresh(local, res) == res.ids \ SentIds(local) # {}

Changed(local, res) ==
    \/ res.ids \ SentIds(local) # {}
    \/ \E i \in DOMAIN local :
          \/ ~Retained(local[i], res)
          \/ /\ IsSent(local[i]) /\ local[i].id \in res.ids
             /\ local[i] # Version(local[i].id, res)

Merged(local, res) ==
    LET kept == Kept(local, {i \in DOMAIN local : Retained(local[i], res)})
        renewed == [k \in DOMAIN kept |->
                      IF IsSent(kept[k]) /\ kept[k].id \in res.ids
                      THEN Version(kept[k].id, res) ELSE kept[k]]
    IN  NewestFirst(renewed \o Versions(res.ids \ SentIds(local), res))

\* matchPendingEcho: the oldest pending message, 0 if there is none.
PendingEcho == LET P == {i \in DOMAIN messages : messages[i].status = "pending"}
               IN  IF P = {} THEN 0 ELSE Max(P)

-----------------------------------------------------------------------------

Free == [phase |-> "free"]
Asked(key) == [phase |-> "asked", key |-> key]
Busy(fetch) == fetch.phase # "free"

Blank == /\ messages' = <<>> /\ profile' = FALSE /\ pageKey' = None
         /\ lastRead' = 0

Init ==
    /\ log = <<>> /\ gone = {} /\ unsent = {} /\ peerRead = 0 /\ heard = 0
    /\ profile = FALSE /\ messages = <<>> /\ pageKey = None /\ lastRead = 0
    /\ error = "none" /\ requested = FALSE
    /\ load = Asked(None) /\ refresh = Free /\ more = Free
    /\ out = [s \in Sends |-> "new"]
    /\ edit = None /\ cache = None /\ turns = 0
    /\ settled = FALSE /\ reverted = FALSE /\ foreign = FALSE

\* #syncCache
SyncCache == IF profile'
             THEN /\ cache' = [messages |-> SentOf(messages'),
                               pageKey |-> pageKey', lastRead |-> lastRead']
                  /\ foreign' = FALSE
             ELSE UNCHANGED <<cache, foreign>>

\* (fault, for a mutant: the last answer wins)
LatestRead(timestamp) == IF timestamp # 0 THEN timestamp ELSE lastRead

\* #advanceLastRead; 0 is null.
Advanced(timestamp) == IF timestamp > lastRead THEN timestamp ELSE lastRead

\* #reconcileMessages up to its request.
Reconcile ==
    IF Busy(load) \/ Busy(refresh)
    THEN requested' = TRUE /\ UNCHANGED refresh
    ELSE requested' = FALSE /\ refresh' = Asked(None)

\* The finally of a fetch: #runRequestedRefresh, with what is still in flight.
LoadDone ==
    /\ load' = Free
    /\ IF requested /\ ~Busy(refresh)
       THEN requested' = FALSE /\ refresh' = Asked(None)
       ELSE UNCHANGED <<requested, refresh>>

\* (fault, for a mutant: what was requested meanwhile is not run)
RefreshOver == refresh' = Free /\ UNCHANGED requested

RefreshDone ==
    IF requested /\ ~Busy(load)
    THEN requested' = FALSE /\ refresh' = Asked(None)
    ELSE refresh' = Free /\ UNCHANGED requested

\* (bounds)
Room == Len(log) + turns < MaxTurns
Turn == Room /\ turns' = turns + 1

-----------------------------------------------------------------------------
(* What the server does *)

Posted(origin) == /\ Len(log) < MaxLog /\ Room
                  /\ log' = Append(log, origin)
                  /\ settled' = FALSE
                  /\ UNCHANGED <<gone, unsent, peerRead>>

Write ==
    /\ \E origin \in {"peer", "us"} : Posted(origin)
    /\ UNCHANGED <<turns, heard, view, fetches, out, edit, reverted>>

Accept(s) ==
    /\ out[s] \in {"posted", "left"} /\ \A i \in Ids : log[i] # s
    /\ Posted(s)
    /\ UNCHANGED <<turns, heard, view, fetches, out, edit, reverted>>

Unsend ==
    /\ Turn
    /\ \E i \in Ids \ unsent : unsent' = unsent \cup {i}
    /\ settled' = FALSE
    /\ UNCHANGED <<log, gone, peerRead, heard, view, fetches, out, edit, reverted>>

PeerReads ==
    /\ Turn
    /\ peerRead < 2 * Len(log)
    /\ peerRead' = 2 * Len(log)
    /\ UNCHANGED <<log, gone, unsent, heard, view, fetches, out, edit, settled,
                   reverted>>

Answers(fetch, fetch1) == /\ fetch.phase = "asked"
                          /\ fetch1 = [phase |-> "answered",
                                       res |-> Response(fetch.key)]

Answer ==
    /\ \/ Answers(load, load') /\ UNCHANGED <<refresh, more>>
       \/ Answers(refresh, refresh') /\ UNCHANGED <<load, more>>
       \/ Answers(more, more') /\ UNCHANGED <<load, refresh>>
    /\ UNCHANGED <<turns, server, heard, view, out, edit, settled, reverted>>

-----------------------------------------------------------------------------
(* Events *)

\* (fault, for a mutant: the list is not sorted again)
InPlace(k, i) == [messages EXCEPT ![k] = [@ EXCEPT !.id = i, !.ts = 2 * i,
                                                   !.status = "sent"]]

\* #adoptServerVersion of the message at k.
Adopted(k, i) ==
    NewestFirst([messages EXCEPT ![k] = [@ EXCEPT !.id = i, !.ts = 2 * i,
                                                  !.status = "sent"]])

Newest == Max({messages[k].ts : k \in DOMAIN messages} \cup {0})

\* The handler of chat.v1.message_sent.
Hear ==
    /\ heard < Len(log)
    /\ heard' = heard + 1
    /\ UNCHANGED <<profile, pageKey, lastRead>>
    /\ LET i == heard + 1
           known == {k \in DOMAIN messages : messages[k].id = i}
           echo == IF log[i] = "peer" THEN 0 ELSE PendingEcho
           event == [id |-> i, ts |-> 2 * i, status |-> "sent", unsent |-> FALSE]
       IN  \/ /\ known # {}
              /\ messages' = [messages EXCEPT ![Min(known)] = event]
              /\ SyncCache
           \/ /\ known = {} /\ echo # 0
              /\ messages' = Adopted(echo, i)
              /\ SyncCache
           \/ /\ known = {} /\ echo = 0 /\ 2 * i < Newest
              /\ UNCHANGED <<messages, cache, foreign>>
           \/ /\ known = {} /\ echo = 0 /\ 2 * i >= Newest
              /\ messages' = <<event>> \o messages
              /\ SyncCache
    /\ UNCHANGED <<turns, server, error, requested, fetches, out, edit, settled, reverted>>

\* The socket was down when the message was written.
Lose ==
    /\ Turn
    /\ heard < Len(log)
    /\ heard' = heard + 1
    /\ settled' = FALSE
    /\ UNCHANGED <<server, view, fetches, out, edit, reverted>>

\* The handler of chat.v1.conversation_read, however late its event is.
HearRead ==
    /\ \E timestamp \in {2 * i : i \in Ids} :
         /\ lastRead < timestamp /\ timestamp <= peerRead
         /\ lastRead' = timestamp
    /\ UNCHANGED <<profile, messages, pageKey>>
    /\ SyncCache
    /\ UNCHANGED <<turns, server, heard, error, requested, fetches, out, edit, settled,
                   reverted>>

\* The conversation was deleted elsewhere: the copy goes and the view refreshes.
HearDelete ==
    /\ Turn
    /\ gone' = Ids /\ gone # Ids
    /\ cache' = None /\ foreign' = FALSE
    /\ Reconcile
    /\ settled' = FALSE
    /\ UNCHANGED <<log, unsent, peerRead, heard, profile, messages, pageKey,
                   lastRead, error, load, more, out, edit, reverted>>

-----------------------------------------------------------------------------
(* Fetches *)

\* refresh(): a reconnect, a return to the foreground, a pull.
Refresh ==
    /\ Reconcile
    /\ UNCHANGED <<turns, server, heard, profile, messages, pageKey, lastRead, error,
                   cache, foreign, load, more, out, edit, settled, reverted>>

\* A deletion whose failure will put the message back into this view.
Deleting == edit # None /\ ~edit.left

\* The server is still as it answered, and nothing older is on its way.
UpToDate(res) == /\ res = Response(None)
                 /\ heard = Len(log) /\ ~Deleting /\ ~Busy(more)

ApplyRefresh ==
    /\ refresh.phase = "answered"
    /\ profile' = TRUE /\ error' = "none"
    /\ lastRead' = Advanced(refresh.res.read)
    /\ messages' = IF Changed(messages, refresh.res)
                   THEN Merged(messages, refresh.res) ELSE messages
    /\ UNCHANGED pageKey
    /\ SyncCache
    /\ RefreshDone
    /\ settled' = (UpToDate(refresh.res) /\ ~Busy(load))
    /\ reverted' = (reverted /\ ~Changed(messages, refresh.res))
    /\ UNCHANGED <<turns, server, heard, load, more, out, edit>>

FailRefresh ==
    /\ Turn
    /\ Busy(refresh)
    /\ error' \in {error, "unavailable"}
    /\ RefreshDone
    /\ UNCHANGED <<server, heard, profile, messages, pageKey, lastRead, cache, foreign,
                   load, more, out, edit, settled, reverted>>

ApplyLoad ==
    /\ load.phase = "answered"
    /\ profile' = TRUE
    /\ messages' = Versions(load.res.ids, load.res)
    /\ pageKey' = KeyOf(load.res)
    /\ lastRead' = Advanced(load.res.read)
    /\ SyncCache
    /\ LoadDone
    /\ settled' = (UpToDate(load.res) /\ ~Busy(refresh))
    /\ reverted' = FALSE
    /\ UNCHANGED <<turns, server, heard, error, more, out, edit>>

FailLoad ==
    /\ Turn
    /\ Busy(load)
    /\ error' \in {"failed", "unavailable"}
    /\ LoadDone
    /\ UNCHANGED <<server, heard, profile, messages, pageKey, lastRead, cache, foreign,
                   more, out, edit, settled, reverted>>

\* (fault, for a mutant: the paging of the copy is forgotten)
FromCacheUnpaged(c) ==
    /\ messages' = c.messages /\ profile' = TRUE
    /\ pageKey' = None /\ lastRead' = c.lastRead

\* #initialLoad from the copy `c`.
FromCache(c) ==
    /\ messages' = c.messages /\ profile' = TRUE
    /\ pageKey' = c.pageKey /\ lastRead' = c.lastRead

\* retry(): offered in place of the messages when they could not be loaded.
Retry ==
    /\ error = "failed" /\ ~Busy(load)
    /\ error' = "none"
    /\ IF cache = None
       THEN /\ load' = Asked(None)
            /\ UNCHANGED <<profile, messages, pageKey, lastRead, requested, refresh>>
       ELSE FromCache(cache) /\ Reconcile /\ UNCHANGED load
    /\ settled' = FALSE /\ foreign' = FALSE
    /\ reverted' = (reverted \/ foreign)
    /\ UNCHANGED <<turns, server, heard, cache, more, out, edit>>

LoadMore ==
    /\ ~Busy(more) /\ pageKey # None
    /\ error = "none" /\ ~Busy(load)
    /\ more' = Asked(pageKey)
    /\ UNCHANGED <<turns, server, heard, view, load, refresh, out, edit, settled, reverted>>

\* The marker of a page is null or the peer's.
ApplyMore ==
    /\ more.phase = "answered"
    /\ messages' = NewestFirst(messages \o Versions(more.res.ids, more.res))
    /\ pageKey' = KeyOf(more.res)
    /\ lastRead' \in {lastRead, Advanced(more.res.read)}
    /\ UNCHANGED profile
    /\ SyncCache
    /\ more' = Free
    /\ reverted' = FALSE
    /\ UNCHANGED <<turns, server, heard, error, requested, load, refresh, out, edit, settled>>

FailMore ==
    /\ Turn
    /\ Busy(more)
    /\ more' = Free
    /\ error' \in {error, "unavailable"}
    /\ UNCHANGED <<server, heard, profile, messages, pageKey, lastRead, requested,
                   cache, foreign, load, refresh, out, edit, settled, reverted>>

-----------------------------------------------------------------------------
(* Sends and deletions *)

\* send(): #sendOne shows the message, dated Date.now(), #resolveMessage posts it.
Send(s) ==
    /\ out[s] = "new" /\ profile
    /\ out' = [out EXCEPT ![s] = "posted"]
    /\ \E now \in Clock :
         messages' = NewestFirst(<<[id |-> s, ts |-> now, status |-> "pending",
                                    unsent |-> FALSE]>> \o messages)
    /\ UNCHANGED <<turns, server, heard, profile, pageKey, lastRead, error, requested,
                   cache, foreign, fetches, edit, settled, reverted>>

Bubble(s) == {k \in DOMAIN messages : messages[k].id = s}

Sent(s) ==
    /\ out[s] = "posted"
    /\ \E i \in Ids :
         /\ log[i] = s
         /\ messages' = IF Bubble(s) = {} THEN messages
                        ELSE Adopted(Min(Bubble(s)), i)
         /\ settled' = (settled /\ (Bubble(s) = {} \/ i \notin gone \cup unsent))
    /\ out' = [out EXCEPT ![s] = "sent"]
    /\ UNCHANGED <<profile, pageKey, lastRead>>
    /\ SyncCache
    /\ reverted' = (reverted /\ Bubble(s) = {})
    /\ UNCHANGED <<turns, server, heard, error, requested, fetches, edit>>

\* The request failed, whether or not the server has the message.
SendFails(s) ==
    /\ Turn
    /\ out[s] = "posted"
    /\ out' = [out EXCEPT ![s] = "failed"]
    /\ messages' = [k \in DOMAIN messages |->
                      IF k \in Bubble(s)
                      THEN [messages[k] EXCEPT !.status = "error"]
                      ELSE messages[k]]
    /\ UNCHANGED <<server, heard, profile, pageKey, lastRead, error, requested,
                   cache, foreign, fetches, edit, settled, reverted>>

\* onDelete: remove(), then deleteMessageForMe().
Delete ==
    /\ Turn
    /\ edit = None
    /\ \E k \in DOMAIN messages :
         /\ messages' = Kept(messages, DOMAIN messages \ {k})
         /\ edit' = [at |-> k, message |-> messages[k], reached |-> FALSE,
                     left |-> FALSE, copy |-> None]
    /\ UNCHANGED <<profile, pageKey, lastRead>>
    /\ SyncCache
    /\ settled' = FALSE
    /\ UNCHANGED <<server, heard, error, requested, fetches, out, reverted>>

Reaches ==
    /\ edit # None /\ ~edit.reached /\ IsSent(edit.message)
    /\ gone' = gone \cup {edit.message.id}
    /\ edit' = [edit EXCEPT !.reached = TRUE]
    /\ settled' = FALSE
    /\ UNCHANGED <<turns, log, unsent, peerRead, heard, view, fetches, out, reverted>>

Removed ==
    /\ edit # None /\ edit.reached
    /\ edit' = None
    /\ UNCHANGED <<turns, server, heard, view, fetches, out, settled, reverted>>

\* revert(): the message goes back where it was.
PutBack == LET at == Min({edit.at, Len(messages) + 1})
           IN  [k \in 1..(Len(messages) + 1) |->
                  IF k < at THEN messages[k]
                  ELSE IF k = at THEN edit.message ELSE messages[k - 1]]

RemoveFails ==
    /\ Turn
    /\ Deleting
    /\ edit' = None
    /\ messages' = PutBack
    /\ UNCHANGED <<profile, pageKey, lastRead>>
    /\ SyncCache
    /\ settled' = FALSE /\ reverted' = TRUE
    /\ UNCHANGED <<server, heard, error, requested, fetches, out>>

\* The same in a view that was left: nothing stops its #syncCache.
LeftRemoveFails ==
    /\ edit # None /\ edit.left
    /\ edit' = None
    /\ IF edit.copy # None THEN cache' = edit.copy /\ foreign' = TRUE
       ELSE UNCHANGED <<cache, foreign>>
    /\ UNCHANGED <<turns, server, heard, profile, messages, pageKey, lastRead, error,
                   requested, fetches, out, settled, reverted>>

\* What the deletion in flight becomes when its view is left.
LeftEdit == IF Deleting
            THEN [edit EXCEPT !.left = TRUE,
                              !.copy = IF profile
                                       THEN [messages |-> SentOf(PutBack),
                                             pageKey |-> pageKey,
                                             lastRead |-> lastRead]
                                       ELSE None]
            ELSE edit

\* The conversation is left and opened again, from the copy unless a message
\* that arrived meanwhile invalidated it.  (No turn for a copy overwritten: the
\* deletion took one.)
Reopen ==
    /\ IF foreign THEN UNCHANGED turns ELSE Turn
    /\ error' = "none" /\ more' = Free /\ edit' = LeftEdit
    /\ out' = [s \in Sends |-> IF out[s] = "posted" THEN "left" ELSE out[s]]
    /\ requested' = FALSE
    /\ \/ /\ cache # None
          /\ FromCache(cache)
          /\ load' = Free /\ refresh' = Asked(None)
          /\ UNCHANGED cache
       \/ /\ Blank
          /\ load' = Asked(None) /\ refresh' = Free
          /\ cache' = None
    /\ settled' = FALSE /\ foreign' = FALSE
    /\ reverted' = ((reverted \/ foreign) /\ profile')
    /\ UNCHANGED <<server, heard>>

-----------------------------------------------------------------------------

Fetched == Answer \/ ApplyRefresh \/ FailRefresh \/ ApplyLoad \/ FailLoad
           \/ ApplyMore \/ FailMore

Next == \/ Write \/ Unsend \/ PeerReads \/ Hear \/ Lose \/ HearRead \/ HearDelete
        \/ Refresh \/ Fetched \/ Retry \/ LoadMore
        \/ \E s \in Sends : Accept(s) \/ Send(s) \/ Sent(s) \/ SendFails(s)
        \/ Delete \/ Reaches \/ Removed \/ RemoveFails \/ LeftRemoveFails \/ Reopen

Spec == Init /\ [][Next]_vars

-----------------------------------------------------------------------------
(* Properties *)

\* No message is listed twice and the newest comes first, until a deletion that
\* failed is put back where it was.
NewestFirstOnce ==
    reverted \/ \A j, k \in DOMAIN messages :
        j < k => /\ messages[j].id # messages[k].id
                 /\ messages[j].ts >= messages[k].ts

\* A refresh answered with the latest state of the server brings the view to
\* it: within its page nothing is missing, nothing deleted is left, and what was
\* unsent is unsent, whatever the clock of the client.  It stays so, but for the
\* answer of a send whose message is unsent or deleted by then.
Converged ==
    LET page == PageOf(None)
        shown == {k \in DOMAIN messages :
                    IsSent(messages[k])
                    /\ (page # {} => messages[k].ts >= 2 * Least(page))}
    IN  settled =>
          /\ {messages[k].id : k \in shown} = page
          /\ \A k \in shown : messages[k].unsent = (messages[k].id \in unsent)

\* What the conversation would reopen with is what it shows, unless a deletion
\* that failed after its view was left has overwritten it.
CacheIsView ==
    cache # None /\ ~reverted /\ ~foreign => cache = [messages |-> SentOf(messages),
                                                     pageKey |-> pageKey,
                                                     lastRead |-> lastRead]

\* The peer's read marker never goes back while the conversation is known,
\* whatever order events and answers arrive in; only a copy overwritten by a view
\* that was left brings an older one, when the conversation is opened from it.
MarkerNeverBack ==
    [][profile' => \/ lastRead' >= lastRead
                   \/ foreign /\ cache # None /\ lastRead' = cache.lastRead]_vars

\* A refresh asked for while another fetch is under way waits for its end; it
\* is never left waiting when nothing is.
RequestKept == requested => Busy(load) \/ Busy(refresh)

=============================================================================
