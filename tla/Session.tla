-------------------------------- MODULE Session --------------------------------
(***************************************************************************)
(* What becomes of a failed token refresh: the grindr client announces it, *)
(* session_recovery.rs retries, SessionRecovery shows what is left of it   *)
(* in a dialog or a toast, and both go when the session is repaired.       *)
(*                                                                         *)
(* A transient report carries an error kind, which nothing reads before it *)
(* is shown: a network failure goes to the toast, a refusal to the dialog. *)
(* Blocked requests and bans have alerts of their own and are left out.    *)
(***************************************************************************)
EXTENDS Naturals, Sequences, FiniteSets

CONSTANTS Report,    \* identities of the transient reports received
          Attempts,  \* length of ATTEMPT_DELAYS
          Room,      \* bound on the outcomes and Tauri events on their way
          Asking,    \* bound on the #promote calls that await session_health
          Mobile,    \* isMobilePlatform(): the client pauses when hidden
          None

ASSUME SessionAssumption ==
    /\ Attempts \in Nat \ {0} /\ Room \in Nat \ {0}
    /\ Asking \in Nat \ {0} /\ Mobile \in BOOLEAN
    /\ None \notin Report /\ None \notin BOOLEAN
    /\ None \notin {"unauthorized", "transient"}

VARIABLES session,    \* the client's session and whether its token is stale
          failing,    \* the client announced a failure and no recovery since
          link,       \* the websocket is connected
          run,        \* the supervising task: its attempts and where it is
          outcomes,   \* of the runs that are over, how many are not yet emitted
          events,     \* Tauri events on their way to SessionErrorAlert
          visible,    \* visibilityState of the document
          pending,    \* #pending
          old,        \* pending is older than STALE_REPORT_MS
          asks,       \* #promote calls that await session_health
          dialog, toast,    \* what is shown
          kind,       \* sessionErrorState.kind
          dismissed   \* #dismissedAt has a refusal

client == <<session, failing, link>>
reports == <<pending, old, asks>>
shown == <<dialog, toast, kind, dismissed>>
vars == <<client, run, outcomes, events, visible, reports, shown>>

Kind == {"network", "refusal"}
NoRun == [at |-> "none", attempts |-> 0]
NewRun == [at |-> "waits", attempts |-> 0]
running == run.at # "none"
Outcome == {"unauthorized", "transient"}

Init ==
    /\ session \in {"none", "stale"} /\ failing = FALSE /\ link = FALSE
    /\ run = NoRun /\ outcomes = [o \in Outcome |-> 0] /\ events = <<>>
    /\ visible = TRUE
    /\ pending = None /\ old = FALSE /\ asks = {}
    /\ dialog = "closed" /\ toast = "closed"
    /\ kind = "network" /\ dismissed = FALSE

-----------------------------------------------------------------------------
(* The client, and the tasks of ws.rs that forward what it announces *)

Untold == Len(events) + outcomes["unauthorized"] + outcomes["transient"]

Coming(event) == \E i \in 1..Len(events) : events[i] = event
Emit(event) == Untold < Room /\ events' = Append(events, event)

\* A refresh succeeds; the client announces it if it had announced a failure.
Refreshed ==
    /\ session' = "fresh" /\ failing' = FALSE
    /\ IF failing THEN Emit("ok") ELSE UNCHANGED events
    /\ UNCHANGED link

Fails == failing' = TRUE /\ UNCHANGED <<session, link>>

\* A transient failure starts a run unless there is one.
Supervised ==
    /\ run' = IF running THEN run ELSE NewRun
    /\ UNCHANGED events

SignedOut == session' = "none" /\ failing' = FALSE /\ link' = FALSE

\* The server revoked the session.
LoggedOut == SignedOut /\ Emit("unauthorized")

\* A refusal is announced at once, whether or not there is a run.
Refused == Fails /\ Emit("refused")

\* The client refreshes a stale token of its own accord, again and again.
ClientRefreshes ==
    /\ session = "stale"
    /\ \/ Refreshed /\ UNCHANGED run
       \/ Fails /\ Supervised
       \/ Refused /\ UNCHANGED run
       \/ LoggedOut /\ UNCHANGED run
    /\ UNCHANGED <<outcomes, visible, reports, shown>>

\* A token lives for many minutes, and a report counts for one: no token
\* expires while a report of the last failure is on its way.
Expires ==
    /\ session = "fresh"
    /\ outcomes["transient"] = 0 /\ ~Coming("transient") /\ pending = None
    /\ session' = "stale"
    /\ UNCHANGED <<failing, link, run, outcomes, events, visible, reports, shown>>

Connects ==
    /\ session = "fresh" /\ ~link
    /\ link' = TRUE
    /\ Emit("ok")
    /\ UNCHANGED <<session, failing, run, outcomes, visible, reports, shown>>

Disconnects ==
    /\ link
    /\ link' = FALSE
    /\ UNCHANGED <<session, failing, run, outcomes, events, visible, reports,
                   shown>>

SignIn ==
    /\ session = "none"
    /\ session' = "fresh"
    /\ UNCHANGED <<failing, link, run, outcomes, events, visible, reports, shown>>

-----------------------------------------------------------------------------
(* session_recovery.rs *)

active == visible \/ ~Mobile

\* The run is over and running is reset; the outcome is emitted after that, by
\* a task of its own, so that a later run may overtake it.
Owes(o) == Untold < Room /\ outcomes' = [outcomes EXCEPT ![o] = @ + 1]
Ends(o) == Owes(o) /\ run' = NoRun
EndsQuietly == run' = NoRun /\ UNCHANGED outcomes

\* supervise: the delay of an attempt is over.
Attempt ==
    /\ run.at = "waits"
    /\ IF ~active \/ session # "stale"
       THEN EndsQuietly
       ELSE /\ run' = [run EXCEPT !.at = "asks", !.attempts = @ + 1]
            /\ UNCHANGED outcomes
    /\ UNCHANGED <<client, events, visible, reports, shown>>

\* An attempt failed.  The client announces that too: a transient failure of the
\* last attempt may be forwarded after running was reset, and starts a new run.
AttemptFailed ==
    \/ /\ run.attempts < Attempts
       /\ run' = [run EXCEPT !.at = "waits"]
       /\ UNCHANGED outcomes
    \/ run.attempts >= Attempts /\ Ends("transient")

\* refresh_token answers the run.  A ban takes the session and is told
\* elsewhere.
AttemptAnswered ==
    /\ run.at = "asks"
    /\ IF session = "none"
       THEN Ends("unauthorized") /\ UNCHANGED <<client, events>>
       ELSE \/ Refreshed /\ EndsQuietly
            \/ LoggedOut /\ Ends("unauthorized")
            \/ SignedOut /\ EndsQuietly /\ UNCHANGED events
            \/ Refused /\ AttemptFailed
            \/ Fails /\ AttemptFailed /\ UNCHANGED events
            \/ /\ Fails /\ UNCHANGED events
               /\ run.attempts >= Attempts
               /\ Owes("transient") /\ run' = NewRun
    /\ UNCHANGED <<visible, reports, shown>>

OutcomeEmitted ==
    /\ \E o \in Outcome :
          /\ outcomes[o] > 0
          /\ events' = Append(events, o)
          /\ outcomes' = [outcomes EXCEPT ![o] = @ - 1]
    /\ UNCHANGED <<client, run, visible, reports, shown>>

-----------------------------------------------------------------------------
(* session-recovery.svelte.ts *)

\* clearSessionError.
Cleared == dialog' = "closed" /\ kind' = "network"

\* recover(); `overtaken` notes which reports it came after.
Recover ==
    /\ pending' = None /\ old' = FALSE
    /\ asks' = {[ask EXCEPT !.overtaken = TRUE] : ask \in asks}
    /\ dismissed' = FALSE
    /\ toast' = "closed"
    /\ Cleared

\* #show; `when` tells a report that was overtaken.
Show(k, when) ==
    /\ kind' = k
    /\ IF k = "network"
       THEN toast' = when /\ UNCHANGED dialog
       ELSE /\ dialog' = IF dismissed THEN dialog ELSE when
            /\ UNCHANGED toast
    /\ UNCHANGED dismissed

Asked(r) == [report |-> r, stale |-> None, overtaken |-> FALSE]
Ask(r) == Cardinality(asks) < Asking /\ asks' = asks \cup {Asked(r)}

\* (fault, for a mutant: shown without asking)
ReportedAtOnce ==
    /\ \E k \in Kind : Show(k, "due")
    /\ UNCHANGED reports

\* report() of a transient failure, with the #promote it calls.
Reported ==
    \E r \in Report \ ({ask.report : ask \in asks} \cup {pending}) :
        /\ pending' = r /\ old' = FALSE
        /\ IF visible THEN Ask(r) ELSE UNCHANGED asks
        /\ UNCHANGED shown

\* The listeners of SessionErrorAlert.  The steps of signOut are one here.
Hears ==
    /\ events # <<>>
    /\ events' = Tail(events)
    /\ \/ Head(events) = "ok" /\ Recover /\ UNCHANGED client
       \/ Head(events) = "unauthorized" /\ Recover /\ SignedOut
       \/ /\ Head(events) = "refused" /\ Show("refusal", "due")
          /\ UNCHANGED <<reports, client>>
       \/ Head(events) = "transient" /\ Reported /\ UNCHANGED client
    /\ UNCHANGED <<run, outcomes, visible>>

\* session_health reads the session.
HealthRead ==
    /\ \E ask \in asks :
          /\ ask.stale = None
          /\ asks' = (asks \ {ask})
                     \cup {[ask EXCEPT !.stale = session = "stale"]}
    /\ UNCHANGED <<client, run, outcomes, events, visible, pending, old, shown>>

\* (fault, for a mutant: whatever was reported meanwhile)
AnyAsk(ask) == TRUE

Current(ask) == pending = ask.report

\* The answer reaches #promote.
Answered ==
    /\ \E ask \in asks :
          /\ ask.stale # None
          /\ asks' = asks \ {ask}
          /\ IF Current(ask)
             THEN /\ pending' = None
                  /\ IF ask.stale
                     THEN \E k \in Kind :
                             Show(k, IF ask.overtaken THEN "overdue" ELSE "due")
                     ELSE UNCHANGED shown
             ELSE UNCHANGED <<pending, shown>>
    /\ UNCHANGED <<client, run, outcomes, events, visible, old>>

\* The age counts when the user comes back.
Ages ==
    /\ pending # None /\ ~visible /\ ~old
    /\ old' = TRUE
    /\ UNCHANGED <<client, run, outcomes, events, visible, pending, asks, shown>>

\* A client that resumes replaces its transport.
VisibilityChanges ==
    /\ visible' = ~visible
    /\ old' = FALSE
    /\ IF visible' /\ pending # None
       THEN IF old THEN pending' = None /\ UNCHANGED asks
                   ELSE Ask(pending) /\ UNCHANGED pending
       ELSE UNCHANGED <<pending, asks>>
    /\ link' = (link /\ ~(Mobile /\ visible'))
    /\ UNCHANGED <<session, failing, run, outcomes, events, shown>>

-----------------------------------------------------------------------------
(* The dialog *)

Dismiss ==
    /\ dialog # "closed"
    /\ dialog' = "closed"
    /\ dismissed' = (dismissed \/ kind = "refusal")
    /\ UNCHANGED <<client, run, outcomes, events, visible, reports, toast, kind>>

\* DISMISSAL_MS is over.
DismissalLapses ==
    /\ dismissed
    /\ dismissed' = FALSE
    /\ UNCHANGED <<client, run, outcomes, events, visible, reports, dialog, toast,
                   kind>>

\* tryAgain, with the answer of refresh_token.
TryAgain ==
    /\ dialog # "closed"
    /\ IF session = "none"
       THEN SignedOut /\ Cleared /\ UNCHANGED <<run, events>>
       ELSE \/ Refreshed /\ Cleared /\ UNCHANGED run
            \/ Fails /\ Supervised /\ UNCHANGED <<dialog, kind>>
            \/ Refused /\ UNCHANGED <<run, dialog, kind>>
            \/ LoggedOut /\ UNCHANGED <<run, dialog, kind>>
    /\ UNCHANGED <<outcomes, visible, reports, toast, dismissed>>

\* "Sign out", in the dialog or in the settings.
SignOut ==
    /\ session # "none" \/ dialog # "closed"
    /\ SignedOut /\ Cleared
    /\ UNCHANGED <<run, outcomes, events, visible, reports, toast, dismissed>>

-----------------------------------------------------------------------------
Next ==
    \/ ClientRefreshes \/ Expires \/ Connects \/ Disconnects \/ SignIn
    \/ Attempt \/ AttemptAnswered \/ OutcomeEmitted
    \/ Hears \/ HealthRead \/ Answered \/ Ages \/ VisibilityChanges
    \/ Dismiss \/ DismissalLapses \/ TryAgain \/ SignOut

Spec == Init /\ [][Next]_vars

-----------------------------------------------------------------------------
Event == {"ok", "unauthorized", "refused", "transient"}

TypeOK ==
    /\ session \in {"none", "fresh", "stale"}
    /\ failing \in BOOLEAN /\ link \in BOOLEAN
    /\ run \in [at : {"none", "waits", "asks"}, attempts : Nat]
    /\ outcomes \in [Outcome -> Nat]
    /\ events \in Seq(Event)
    /\ visible \in BOOLEAN /\ old \in BOOLEAN /\ dismissed \in BOOLEAN
    /\ pending \in Report \cup {None}
    /\ asks \subseteq [report : Report, stale : BOOLEAN \cup {None},
                      overtaken : BOOLEAN]
    /\ dialog \in {"closed", "due", "overdue"}
    /\ toast \in {"closed", "due", "overdue"}
    /\ kind \in Kind

\* A report received before the app heard of a repair is not shown after it,
\* however late session_health answers the #promote that asked for it.
RepairedStaysQuiet == dialog # "overdue" /\ toast # "overdue"

\* What is shown about the session is about to go once the session is repaired,
\* whoever repaired it and whatever report was on its way meanwhile: the recovery
\* will be heard, or the websocket's next connection, unless a refresh failed
\* after the repair, and then the client announces the next one that succeeds.
AlertsGo ==
    (dialog # "closed" \/ toast # "closed") /\ session = "fresh"
        => Coming("ok") \/ ~link \/ failing
=============================================================================
