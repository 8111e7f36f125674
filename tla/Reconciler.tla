----------------------------- MODULE Reconciler -----------------------------
(***************************************************************************)
(* The Reconciler of src/src/lib/util/reconcile.ts: reconnects, returns to *)
(* the foreground and dropped websocket events all end in one throttled    *)
(* run of the lists' refresh handlers.                                     *)
(*                                                                         *)
(* Time is the age of the last reconcile and what is left of the timer,    *)
(* both in units of which THROTTLE_MS is Throttle.  A timer never fires    *)
(* early and may fire late, as the timers of a page in the background do.  *)
(***************************************************************************)
EXTENDS Integers

CONSTANTS
  Throttle,
  Off,          \* no timer
  MaxPending    \* bound on the calls awaited at a time

ASSUME ThrottleAssumption == Throttle \in Nat \ {0} /\ MaxPending \in Nat
ASSUME OffAssumption == Off \notin Nat

VARIABLES
  age,           \* Date.now() - #lastReconcileAt, no more than Throttle
  timer,         \* #resyncTimer: what is left of its wait, or Off
  firstConnect,  \* #firstConnect
  wasHidden,     \* #wasHidden
  activating,    \* calls of appLifecycle.activate awaited
  asking,        \* triggers that await auth_state
  owed           \* observer: a drop no handler has run since, that found no timer
                 \*   or no reconcile within the throttle

page == <<firstConnect, wasHidden>>
vars == <<age, timer, page, activating, asking, owed>>

TypeOK ==
  /\ age \in 0..Throttle /\ timer \in 0..Throttle \cup {Off}
  /\ activating \in Nat /\ asking \in Nat
  /\ firstConnect \in BOOLEAN /\ wasHidden \in BOOLEAN
  /\ owed \in BOOLEAN

Init ==
  /\ age = Throttle /\ timer = Off
  /\ firstConnect = TRUE /\ wasHidden = FALSE
  /\ activating = 0 /\ asking = 0
  /\ owed = FALSE

-----------------------------------------------------------------------------
\* The last reconcile is within the throttle.
Throttled == age < Throttle

\* #trigger up to its await.
Trigger ==
  IF Throttled THEN UNCHANGED <<age, asking>>
  ELSE asking < MaxPending /\ age' = 0 /\ asking' = asking + 1

\* auth_state answers, with a profile or with none (it has no other failure); with one,
\* the handlers run.  With none nobody is signed in and there is nothing left to resync.
AuthAnswers ==
  /\ asking > 0 /\ asking' = asking - 1
  /\ owed' = FALSE
  /\ UNCHANGED <<age, timer, page, activating>>

-----------------------------------------------------------------------------
(* What triggers it *)

\* ws:connected
Connected ==
  /\ firstConnect' = FALSE
  /\ IF firstConnect THEN UNCHANGED <<age, asking>> ELSE Trigger
  /\ UNCHANGED <<timer, wasHidden, activating, owed>>

\* visibilitychange
Hidden ==
  /\ wasHidden' = TRUE
  /\ UNCHANGED <<age, timer, firstConnect, activating, asking, owed>>

Visible ==
  /\ wasHidden /\ wasHidden' = FALSE
  /\ activating < MaxPending /\ activating' = activating + 1
  /\ UNCHANGED <<age, timer, firstConnect, asking, owed>>

Activated ==
  /\ activating > 0 /\ activating' = activating - 1
  /\ Trigger
  /\ UNCHANGED <<timer, page, owed>>

\* (fault, for a mutant: the wait is one short)
WaitShort == IF age = Throttle THEN 0 ELSE Throttle - age - 1
Wait == Throttle - age

\* ws:events-dropped and rejected events: #scheduleResync.
EventsDropped ==
  /\ timer' = IF timer = Off THEN Wait ELSE timer
  /\ owed' = (owed \/ timer = Off \/ ~Throttled)
  /\ UNCHANGED <<age, page, activating, asking>>

TimerFires ==
  /\ timer = 0 /\ timer' = Off
  /\ Trigger
  /\ UNCHANGED <<page, activating, owed>>

Tick ==
  /\ age < Throttle \/ timer \notin {Off, 0}
  /\ age' = IF age < Throttle THEN age + 1 ELSE age
  /\ timer' = IF timer \in {Off, 0} THEN timer ELSE timer - 1
  /\ UNCHANGED <<page, activating, asking, owed>>

Next == \/ Connected \/ Hidden \/ Visible \/ Activated
        \/ EventsDropped \/ TimerFires \/ AuthAnswers \/ Tick

Spec == Init /\ [][Next]_vars

-----------------------------------------------------------------------------
(* Properties *)

\* A resync that is owed is on its way: a reconcile is starting, or the timer is set
\* and, however late it fires, will not be throttled.
OnItsWay == asking > 0 \/ (timer # Off /\ age + timer >= Throttle)
ResyncOnItsWay == owed => OnItsWay
=============================================================================
