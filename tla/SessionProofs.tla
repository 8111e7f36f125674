---------------------------- MODULE SessionProofs ----------------------------
(***************************************************************************)
(* Theorems about Session, for any number of reports, attempts and events. *)
(*                                                                         *)
(* RepairedStaysQuiet: an ask that recover() overtook is never of the      *)
(* report that is pending.  AlertsGo: whatever may be shown or is shown    *)
(* has its Cure, and every refusal on its way has one behind it: the       *)
(* client still owes the announcement of a recovery, the websocket is yet  *)
(* to connect, or "ok" is on its way.                                      *)
(***************************************************************************)
EXTENDS Session, SequenceTheorems, TLAPS

Cure == failing \/ ~link \/ Coming("ok")
CureAfter(i) ==
    failing \/ ~link \/ \E j \in 1..Len(events) : j > i /\ events[j] = "ok"
Alarm == \/ dialog # "closed" \/ toast # "closed"
         \/ \E ask \in asks : ask.stale = TRUE /\ ask.report = pending
InFlight == outcomes["transient"] > 0 \/ Coming("transient") \/ pending # None

AlarmsAreCured == Alarm => Cure
RefusalsAreCured ==
    \A i \in 1..Len(events) : events[i] = "refused" => CureAfter(i)
ReportsAreOfNow == InFlight /\ session = "stale" => failing
OvertakenIsNotPending == \A ask \in asks : ask.overtaken => ask.report # pending

IInv == /\ TypeOK /\ AlarmsAreCured /\ RefusalsAreCured
        /\ ReportsAreOfNow /\ OvertakenIsNotPending /\ RepairedStaysQuiet

-----------------------------------------------------------------------------
(* Type correctness *)

Flags == /\ session \in {"none", "fresh", "stale"}
         /\ failing \in BOOLEAN /\ link \in BOOLEAN /\ visible \in BOOLEAN
         /\ old \in BOOLEAN /\ dismissed \in BOOLEAN /\ kind \in Kind
         /\ dialog \in {"closed", "due", "overdue"}
         /\ toast \in {"closed", "due", "overdue"}
Runs == [at : {"none", "waits", "asks"}, attempts : Nat]
Asks == [report : Report, stale : BOOLEAN \cup {None}, overtaken : BOOLEAN]
Parts == /\ Flags /\ run \in Runs /\ events \in Seq(Event)
         /\ outcomes \in [Outcome -> Nat]
         /\ pending \in Report \cup {None} /\ asks \subseteq Asks

LEMMA TypeParts == (TypeOK <=> Parts) /\ (TypeOK' <=> Parts')
  BY Zenon DEF TypeOK, Parts, Flags, Runs, Asks

LEMMA TypesInitially == Init => TypeOK
  <1> SUFFICES ASSUME Init PROVE Parts
    BY TypeParts
  <1>1. Flags
    BY DEF Init, Flags, Kind
  <1>2. run \in Runs
    BY SessionAssumption DEF Init, NoRun, Runs
  <1>3. events \in Seq(Event) /\ outcomes \in [Outcome -> Nat]
    BY DEF Init
  <1> QED BY <1>1, <1>2, <1>3 DEF Init, Parts

LEMMA FlagsStep == Flags /\ [Next]_vars => Flags'
  <1> SUFFICES ASSUME Flags, [Next]_vars PROVE Flags'
    OBVIOUS
  <1> USE DEF Flags, Kind, client, reports, shown
  <1>1. CASE ClientRefreshes
    BY <1>1 DEF ClientRefreshes, Refreshed, Fails, Refused, LoggedOut, SignedOut
  <1>2. CASE Expires \/ Connects \/ Disconnects \/ SignIn
    BY <1>2, ZenonT(30) DEF Expires, Connects, Disconnects, SignIn
  <1>3. CASE Attempt
    BY <1>3 DEF Attempt
  <1>4. CASE AttemptAnswered
    BY <1>4
       DEF AttemptAnswered, Refreshed, LoggedOut, SignedOut, Refused, Fails
  <1>5. CASE OutcomeEmitted \/ HealthRead \/ Ages \/ VisibilityChanges
    BY <1>5, ZenonT(30) DEF OutcomeEmitted, HealthRead, Ages, VisibilityChanges
  <1>6. CASE Hears
    BY <1>6, ZenonT(30) DEF Hears, Recover, Cleared, SignedOut, Show, Reported
  <1>7. CASE Answered
    BY <1>7 DEF Answered, Show
  <1>8. CASE Dismiss \/ DismissalLapses \/ SignOut
    BY <1>8 DEF Dismiss, DismissalLapses, SignOut, SignedOut, Cleared
  <1>9. CASE TryAgain
    BY <1>9
       DEF TryAgain, Refreshed, LoggedOut, SignedOut, Refused, Fails, Cleared
  <1>10. CASE UNCHANGED vars
    BY <1>10 DEF vars
  <1> QED
    BY <1>1, <1>2, <1>3, <1>4, <1>5, <1>6, <1>7, <1>8, <1>9, <1>10 DEF Next

\* What a step does to the run.
LEMMA RunStep == run \in Runs /\ [Next]_vars => run' \in Runs
  <1> SUFFICES ASSUME run \in Runs, [Next]_vars PROVE run' \in Runs
    OBVIOUS
  <1>1. NoRun \in Runs /\ NewRun \in Runs
    BY DEF NoRun, NewRun, Runs
  <1>2. CASE Attempt
    <2>1. run.attempts \in Nat
      BY DEF Runs
    <2>2. CASE ~active \/ session # "stale"
      BY <1>1, <1>2, <2>2 DEF Attempt, EndsQuietly
    <2>3. CASE ~(~active \/ session # "stale")
      <3>1. run' = [run EXCEPT !.at = "asks", !.attempts = @ + 1]
        BY <1>2, <2>3, Zenon DEF Attempt
      <3>2. run.attempts + 1 \in Nat
        BY <2>1
      <3> QED BY <3>1, <3>2 DEF Runs
    <2> QED BY <2>2, <2>3
  <1>3. run' = run \/ run' = NoRun \/ run' = NewRun
        \/ run' = [run EXCEPT !.at = "waits"] \/ Attempt
    <2> USE DEF client, reports, shown
    <2>1. CASE ClientRefreshes \/ TryAgain
      BY <2>1, Zenon DEF ClientRefreshes, TryAgain, Supervised
    <2>2. CASE AttemptAnswered
      BY <2>2, Zenon DEF AttemptAnswered, AttemptFailed, Ends, EndsQuietly
    <2>3. CASE Expires \/ Connects \/ Disconnects \/ SignIn \/ SignOut
      BY <2>3, Zenon DEF Expires, Connects, Disconnects, SignIn, SignOut
    <2>4. CASE OutcomeEmitted \/ HealthRead \/ Ages \/ VisibilityChanges
      BY <2>4, Zenon DEF OutcomeEmitted, HealthRead, Ages, VisibilityChanges
    <2>5. CASE Hears \/ Answered \/ Dismiss \/ DismissalLapses
      BY <2>5, Zenon DEF Hears, Answered, Dismiss, DismissalLapses
    <2>6. CASE UNCHANGED vars
      BY <2>6, Zenon DEF vars
    <2> QED BY <2>1, <2>2, <2>3, <2>4, <2>5, <2>6, Zenon DEF Next
  <1>4. [run EXCEPT !.at = "waits"] \in Runs
    BY DEF Runs
  <1> QED BY <1>1, <1>2, <1>3, <1>4, SessionAssumption DEF Attempt, Runs

\* What a step does to the events: none, one more or one less.
LEMMA EventsStep ==
  ASSUME TypeOK, [Next]_vars, ~Hears
  PROVE  events' = events \/ \E e \in Event : events' = Append(events, e)
  <1> USE DEF client, reports, shown, Emit, Event
  <1>1. CASE ClientRefreshes
    BY <1>1, Zenon
       DEF ClientRefreshes, Refreshed, Supervised, LoggedOut, Refused
  <1>2. CASE Expires \/ Connects \/ Disconnects \/ SignIn \/ SignOut
    BY <1>2, Zenon DEF Expires, Connects, Disconnects, SignIn, SignOut
  <1>3. CASE Attempt
    BY <1>3, Zenon DEF Attempt
  <1>4. CASE AttemptAnswered
    BY <1>4, Zenon DEF AttemptAnswered, Refreshed, LoggedOut, Refused
  <1>5. CASE OutcomeEmitted
    BY <1>5 DEF OutcomeEmitted, Outcome
  <1>6. CASE HealthRead \/ Ages \/ VisibilityChanges \/ Answered
    BY <1>6, Zenon DEF HealthRead, Ages, VisibilityChanges, Answered
  <1>7. CASE Dismiss \/ DismissalLapses
    BY <1>7, Zenon DEF Dismiss, DismissalLapses
  <1>8. CASE TryAgain
    BY <1>8, Zenon DEF TryAgain, Refreshed, Supervised, LoggedOut, Refused
  <1>9. CASE UNCHANGED vars
    BY <1>9, Zenon DEF vars
  <1> QED
    BY <1>1, <1>2, <1>3, <1>4, <1>5, <1>6, <1>7, <1>8, <1>9, Zenon DEF Next

LEMMA ReportsStep ==
  ASSUME Parts, [Next]_vars
  PROVE  pending' \in Report \cup {None} /\ asks' \subseteq Asks
  <1> USE DEF client, shown
  <1>0. \A r \in Report : Asked(r) \in Asks
    BY DEF Asked, Asks
  <1>1. CASE UNCHANGED <<pending, asks>>
    BY <1>1 DEF Parts
  <1>2. CASE Hears
    <2>1. CASE Recover
      <3>1. \A ask \in Asks : [ask EXCEPT !.overtaken = TRUE] \in Asks
        BY DEF Asks
      <3> QED BY <2>1, <3>1 DEF Recover, Parts
    <2>2. CASE Reported
      BY <1>0, <2>2 DEF Reported, Ask, Parts
    <2>3. CASE UNCHANGED reports
      BY <1>1, <2>3 DEF reports
    <2> QED BY <1>2, <2>1, <2>2, <2>3, Zenon DEF Hears
  <1>3. CASE HealthRead
    <2>1. \A ask \in Asks : [ask EXCEPT !.stale = session = "stale"] \in Asks
      BY DEF Asks
    <2> QED BY <1>3, <2>1 DEF HealthRead, Parts
  <1>4. CASE Answered
    BY <1>4 DEF Answered, Parts
  <1>5. CASE VisibilityChanges
    BY <1>0, <1>5 DEF VisibilityChanges, Ask, Parts
  <1> QED
    <2> USE DEF reports
    <2>1. CASE ClientRefreshes \/ Expires \/ Connects \/ Disconnects \/ SignIn
      BY <1>1, <2>1, Zenon
         DEF ClientRefreshes, Expires, Connects, Disconnects, SignIn
    <2>2. CASE Attempt \/ AttemptAnswered \/ OutcomeEmitted \/ Ages
      BY <1>1, <2>2, Zenon DEF Attempt, AttemptAnswered, OutcomeEmitted, Ages
    <2>3. CASE Dismiss \/ DismissalLapses \/ TryAgain \/ SignOut
      BY <1>1, <2>3, Zenon DEF Dismiss, DismissalLapses, TryAgain, SignOut
    <2>4. CASE UNCHANGED vars
      BY <1>1, <2>4, Zenon DEF vars
    <2> QED BY <1>2, <1>3, <1>4, <1>5, <2>1, <2>2, <2>3, <2>4, Zenon DEF Next

\* What a step does to the outcomes: none, one more or one less.
LEMMA OutcomesStep ==
  outcomes \in [Outcome -> Nat] /\ [Next]_vars => outcomes' \in [Outcome -> Nat]
  <1> SUFFICES ASSUME outcomes \in [Outcome -> Nat], [Next]_vars
               PROVE  outcomes' \in [Outcome -> Nat]
    OBVIOUS
  <1>1. ASSUME NEW o \in Outcome, Owes(o)
        PROVE  outcomes' \in [Outcome -> Nat]
    BY <1>1 DEF Owes
  <1>2. CASE AttemptAnswered
    <2>1. UNCHANGED outcomes \/ Owes("unauthorized") \/ Owes("transient")
      BY <1>2, Zenon DEF AttemptAnswered, AttemptFailed, Ends, EndsQuietly
    <2> QED BY <1>1, <2>1 DEF Outcome
  <1>3. CASE OutcomeEmitted
    BY <1>3 DEF OutcomeEmitted
  <1> QED
    <2>1. CASE ClientRefreshes \/ Expires \/ Connects \/ Disconnects \/ SignIn
      BY <2>1, Zenon DEF ClientRefreshes, Expires, Connects, Disconnects, SignIn
    <2>2. CASE Attempt \/ Hears \/ HealthRead \/ Answered \/ Ages
      BY <2>2, Zenon DEF Attempt, EndsQuietly, Hears, HealthRead, Answered, Ages
    <2>3. CASE VisibilityChanges \/ Dismiss \/ DismissalLapses \/ TryAgain
               \/ SignOut
      BY <2>3, Zenon
         DEF VisibilityChanges, Dismiss, DismissalLapses, TryAgain, SignOut
    <2>4. CASE UNCHANGED vars
      BY <2>4, Zenon DEF vars
    <2> QED BY <1>2, <1>3, <2>1, <2>2, <2>3, <2>4, Zenon DEF Next

LEMMA TypesStep == TypeOK /\ [Next]_vars => TypeOK'
  <1> SUFFICES ASSUME TypeOK, [Next]_vars PROVE Parts'
    BY TypeParts
  <1>0. Parts
    BY TypeParts
  <1>1. events' \in Seq(Event)
    <2>1. CASE Hears
      BY <1>0, <2>1 DEF Hears, Parts
    <2>2. CASE ~Hears
      BY <1>0, <2>2, EventsStep DEF Parts
    <2> QED BY <2>1, <2>2
  <1> QED
    BY <1>0, <1>1, FlagsStep, RunStep, ReportsStep, OutcomesStep, Zenon DEF Parts

\* The variables keep their types.
THEOREM TypeCorrect == Spec => []TypeOK
  BY TypesInitially, TypesStep, PTL DEF Spec

-----------------------------------------------------------------------------
(* The events on their way *)

\* Nothing that was on its way is lost but to the listeners.
LEMMA KeptComing ==
  ASSUME events \in Seq(Event), NEW f \in Event,
         events' = events \/ \E e \in Event : events' = Append(events, e)
  PROVE  /\ Coming(f) => Coming(f)'
         /\ Coming(f)' => Coming(f) \/ events' = Append(events, f)
  <1>1. CASE events' = events
    BY <1>1 DEF Coming
  <1>2. CASE \E e \in Event : events' = Append(events, e)
    <2>1. PICK e \in Event : events' = Append(events, e)
      BY <1>2
    <2>2. /\ Len(events') = Len(events) + 1 /\ Len(events) \in Nat
          /\ \A i \in 1..Len(events) : events'[i] = events[i]
          /\ events'[Len(events) + 1] = e
      BY <2>1
    <2> QED BY <2>1, <2>2 DEF Coming
  <1> QED BY <1>1, <1>2

\* The listeners take the first event only.
LEMMA HeardComing ==
  ASSUME events \in Seq(Event), events # <<>>, events' = Tail(events),
         NEW f \in Event
  PROVE  /\ Coming(f) => Coming(f)' \/ Head(events) = f
         /\ Coming(f)' => Coming(f)
         /\ Head(events) = f => Coming(f)
  <1>1. /\ Len(events') = Len(events) - 1 /\ Len(events) \in Nat \ {0}
        /\ \A i \in 1..Len(events') : events'[i] = events[i + 1]
        /\ Head(events) = events[1]
    OBVIOUS
  <1>2. \A i \in 1..Len(events) : i = 1 \/ i - 1 \in 1..Len(events')
    BY <1>1
  <1>3. \A i \in 1..Len(events') : i + 1 \in 1..Len(events)
    BY <1>1
  <1>4. \A i \in 2..Len(events) : events'[i - 1] = events[i]
    BY <1>1
  <1> QED BY <1>1, <1>2, <1>3, <1>4 DEF Coming

\* A cure in sight stays in sight while the listeners do nothing.
Cautious ==
    /\ failing => failing' \/ ~link' \/ events' = Append(events, "ok")
    /\ ~link => ~link' \/ events' = Append(events, "ok")
    /\ events' = Append(events, "refused") => failing' \/ ~link'

LEMMA CureStep ==
  ASSUME Parts, Cautious,
         events' = events \/ \E e \in Event : events' = Append(events, e)
  PROVE  /\ Cure => Cure'
         /\ RefusalsAreCured => RefusalsAreCured'
  <1>1. Len(events) \in Nat /\ events \in Seq(Event)
    BY DEF Parts
  <1>2. Cure => Cure'
    <2>1. events' = Append(events, "ok") => Coming("ok")'
      <3>1. ASSUME events' = Append(events, "ok")
            PROVE  Len(events') = Len(events) + 1
                   /\ events'[Len(events) + 1] = "ok"
        BY <1>1, <3>1
      <3> QED BY <1>1, <3>1 DEF Coming
    <2>2. Coming("ok") => Coming("ok")'
      BY <1>1, KeptComing DEF Event
    <2> QED BY <2>1, <2>2, Zenon DEF Cure, Cautious
  <1>3. ASSUME RefusalsAreCured PROVE RefusalsAreCured'
    <2>1. CASE events' = events
      BY <1>3, <2>1 DEF RefusalsAreCured, CureAfter, Cautious
    <2>2. CASE \E e \in Event : events' = Append(events, e)
      <3>1. PICK e \in Event : events' = Append(events, e)
        BY <2>2
      <3>2. /\ Len(events') = Len(events) + 1
            /\ \A i \in 1..Len(events) : events'[i] = events[i]
            /\ events'[Len(events) + 1] = e
        BY <1>1, <3>1
      <3>3. ASSUME NEW i \in 1..Len(events'), events'[i] = "refused"
            PROVE  CureAfter(i)'
        <4>1. CASE i = Len(events) + 1
          BY <1>1, <3>1, <3>2, <3>3, <4>1 DEF CureAfter, Cautious
        <4>2. CASE i # Len(events) + 1
          <5>1. i \in 1..Len(events) /\ events[i] = "refused"
            BY <1>1, <3>2, <3>3, <4>2
          <5>2. CureAfter(i)
            BY <1>3, <5>1 DEF RefusalsAreCured
          <5>3. CASE failing \/ ~link
            <6>1. failing' \/ ~link' \/ e = "ok"
              BY <1>1, <3>1, <3>2, <5>3 DEF Cautious
            <6> QED BY <1>1, <3>2, <5>1, <6>1 DEF CureAfter
          <5>4. CASE \E j \in 1..Len(events) : j > i /\ events[j] = "ok"
            BY <1>1, <3>2, <5>4 DEF CureAfter
          <5> QED BY <5>2, <5>3, <5>4 DEF CureAfter
        <4> QED BY <4>1, <4>2
      <3> QED BY <3>3, Zenon DEF RefusalsAreCured
    <2> QED BY <2>1, <2>2
  <1> QED BY <1>2, <1>3

LEMMA AppendTells ==
  ASSUME events \in Seq(Event)
  PROVE  \A e, f \in Event : /\ Append(events, e) # events
                            /\ Append(events, e) = Append(events, f) => e = f
  BY AppendProperties

LEMMA CautiousStep ==
  ASSUME Parts, [Next]_vars, ~Hears
  PROVE  Cautious
  <1> USE DEF Emit
  <1>0. Flags /\ \A e, f \in Event : /\ Append(events, e) # events
                                   /\ Append(events, e) = Append(events, f) => e = f
    BY AppendTells DEF Parts
  <1>1. ASSUME events' = events \/ events' = Append(events, "ok")
                \/ events' = Append(events, "unauthorized")
                \/ events' = Append(events, "transient")
        PROVE  events' # Append(events, "refused")
    BY <1>0, <1>1 DEF Event
  <1>2. CASE ClientRefreshes
    <2>1. CASE Refreshed
      BY <1>1, <2>1 DEF Refreshed, Cautious
    <2>2. CASE Fails
      BY <2>2 DEF Fails, Cautious
    <2>3. CASE LoggedOut
      BY <1>1, <2>3 DEF LoggedOut, SignedOut, Cautious
    <2> QED BY <1>2, <2>1, <2>2, <2>3, Zenon DEF ClientRefreshes, Refused
  <1>3. CASE Expires \/ Disconnects \/ SignIn \/ Attempt
    BY <1>1, <1>3 DEF Expires, Disconnects, SignIn, Attempt, Cautious, client
  <1>4. CASE Connects
    BY <1>1, <1>4 DEF Connects, Cautious
  <1>5. CASE AttemptAnswered
    <2>1. CASE UNCHANGED <<client, events>>
      BY <1>1, <2>1 DEF client, Cautious
    <2>2. CASE Refreshed
      BY <1>1, <2>2 DEF Refreshed, Cautious
    <2>3. CASE LoggedOut
      BY <1>1, <2>3 DEF LoggedOut, SignedOut, Cautious
    <2>4. CASE SignedOut /\ UNCHANGED events
      BY <1>1, <2>4 DEF SignedOut, Cautious
    <2>5. CASE Fails
      BY <2>5 DEF Fails, Cautious
    <2> QED
      BY <1>5, <2>1, <2>2, <2>3, <2>4, <2>5, Zenon DEF AttemptAnswered, Refused
  <1>6. CASE OutcomeEmitted
    <2>1. events' # Append(events, "refused")
      BY <1>0, <1>1, <1>6 DEF OutcomeEmitted, Outcome
    <2> QED BY <1>6, <2>1 DEF OutcomeEmitted, Cautious, client
  <1>7. CASE HealthRead \/ Answered \/ Ages \/ Dismiss \/ DismissalLapses
    BY <1>1, <1>7
       DEF HealthRead, Answered, Ages, Dismiss, DismissalLapses, Cautious, client
  <1>8. CASE VisibilityChanges
    BY <1>0, <1>1, <1>8 DEF VisibilityChanges, Cautious, Flags
  <1>9. CASE TryAgain
    <2>1. CASE SignedOut /\ UNCHANGED events
      BY <1>1, <2>1 DEF SignedOut, Cautious
    <2>2. CASE Refreshed
      BY <1>1, <2>2 DEF Refreshed, Cautious
    <2>3. CASE LoggedOut
      BY <1>1, <2>3 DEF LoggedOut, SignedOut, Cautious
    <2>4. CASE Fails
      BY <2>4 DEF Fails, Cautious
    <2> QED BY <1>9, <2>1, <2>2, <2>3, <2>4, Zenon DEF TryAgain, Refused
  <1>10. CASE SignOut
    BY <1>1, <1>10 DEF SignOut, SignedOut, Cautious
  <1>11. CASE UNCHANGED vars
    BY <1>1, <1>11 DEF vars, client, Cautious
  <1> QED
    BY <1>2, <1>3, <1>4, <1>5, <1>6, <1>7, <1>8, <1>9, <1>10, <1>11, Zenon
       DEF Next

-----------------------------------------------------------------------------
(* The session, and the reports that are on their way *)

\* Only a failure puts a report on its way, and none is when a token expires.
LEMMA ReportsAreOfNowStep ==
  ASSUME Parts, ReportsAreOfNow, [Next]_vars
  PROVE  ReportsAreOfNow'
  <1> USE DEF Emit
  <1>0. /\ events \in Seq(Event) /\ Flags
        /\ \A e, f \in Event : /\ Append(events, e) # events
                              /\ Append(events, e) = Append(events, f) => e = f
    BY AppendTells DEF Parts
  <1>1. ASSUME events' = events \/ events' = Append(events, "ok")
                \/ events' = Append(events, "unauthorized")
                \/ events' = Append(events, "refused")
        PROVE  Coming("transient")' => Coming("transient")
    BY <1>0, <1>1, KeptComing DEF Event
  <1>2. ASSUME InFlight' => InFlight,
               (session' = session /\ failing' = failing) \/ session' # "stale"
                 \/ failing'
        PROVE  ReportsAreOfNow'
    BY <1>2 DEF ReportsAreOfNow
  <1>3. CASE ClientRefreshes
    <2>1. InFlight' => InFlight
      BY <1>1, <1>3 DEF ClientRefreshes, Refreshed, Supervised, LoggedOut,
         Refused, InFlight, reports
    <2> QED
      BY <1>2, <1>3, <2>1
         DEF ClientRefreshes, Refreshed, Fails, Refused, LoggedOut, SignedOut
  <1>4. CASE Expires
    <2>1. ~InFlight'
      BY <1>0, <1>4, SessionAssumption DEF Expires, InFlight, reports, Coming
    <2> QED BY <2>1 DEF ReportsAreOfNow
  <1>5. CASE Connects \/ Disconnects \/ SignIn \/ SignOut
    <2>1. InFlight' => InFlight
      BY <1>1, <1>5 DEF Connects, Disconnects, SignIn, SignOut, InFlight, reports
    <2> QED
      BY <1>2, <1>5, <2>1 DEF Connects, Disconnects, SignIn, SignOut, SignedOut
  <1>6. CASE Attempt
    <2>1. InFlight' => InFlight
      BY <1>1, <1>6 DEF Attempt, EndsQuietly, InFlight, reports
    <2> QED BY <1>2, <1>6, <2>1 DEF Attempt, client
  <1>7. CASE AttemptAnswered
    <2>1. CASE Fails
      BY <2>1 DEF Fails, ReportsAreOfNow
    <2>2. CASE ~Fails
      <3>1. UNCHANGED pending /\ (UNCHANGED outcomes \/ Owes("unauthorized"))
        BY <1>7, <2>2, Zenon
           DEF AttemptAnswered, Refused, Ends, EndsQuietly, reports
      <3>2. outcomes'["transient"] = outcomes["transient"]
        BY <3>1 DEF Owes, Outcome, Parts
      <3>4. Coming("transient")' => Coming("transient")
        BY <1>1, <1>7, Zenon DEF AttemptAnswered, Refreshed, LoggedOut, Refused
      <3>3. client' = client \/ session' # "stale"
        BY <1>7, <2>2
           DEF AttemptAnswered, Refused, Refreshed, LoggedOut, SignedOut
      <3> QED BY <1>2, <3>1, <3>2, <3>3, <3>4 DEF InFlight, client
    <2> QED BY <2>1, <2>2
  <1>8. CASE OutcomeEmitted
    <2>1. PICK o \in Outcome : /\ outcomes[o] > 0 /\ events' = Append(events, o)
                              /\ outcomes' = [outcomes EXCEPT ![o] = @ - 1]
      BY <1>8 DEF OutcomeEmitted
    <2>2. Coming("transient")' => Coming("transient") \/ o = "transient"
      BY <1>0, <2>1, KeptComing DEF Outcome, Event
    <2>4. outcomes'["transient"] > 0 => outcomes["transient"] > 0
      BY <2>1 DEF Outcome, Parts
    <2>3. InFlight' => InFlight
      BY <1>8, <2>1, <2>2, <2>4 DEF OutcomeEmitted, InFlight, reports
    <2> QED BY <1>2, <1>8, <2>3 DEF OutcomeEmitted, client
  <1>9. CASE Hears
    <2>1. events # <<>> /\ events' = Tail(events)
      BY <1>9, Zenon DEF Hears
    <2>2. /\ Coming("transient")' => Coming("transient")
          /\ Head(events) = "transient" => Coming("transient")
      BY <1>0, <2>1, HeardComing DEF Event
    <2>3. CASE Head(events) = "transient"
      BY <1>9, <2>2, <2>3 DEF Hears, InFlight, client, ReportsAreOfNow
    <2>4. CASE Head(events) # "transient"
      <3>1. pending' # None => pending # None
        BY <1>9, <2>4, Zenon DEF Hears, Recover, reports
      <3>2. outcomes' = outcomes
        BY <1>9, Zenon DEF Hears
      <3>3. InFlight' => InFlight
        BY <2>2, <3>1, <3>2, Zenon DEF InFlight
      <3>4. client' = client \/ session' # "stale"
        BY <1>9, <2>4 DEF Hears, SignedOut
      <3> QED BY <1>2, <3>3, <3>4 DEF client
    <2> QED BY <2>3, <2>4
  <1>10. CASE HealthRead \/ Answered \/ Ages \/ VisibilityChanges
    <2>1. InFlight' => InFlight
      BY <1>1, <1>10
         DEF HealthRead, Answered, Ages, VisibilityChanges, InFlight
    <2> QED
      BY <1>2, <1>10, <2>1
         DEF HealthRead, Answered, Ages, VisibilityChanges, client
  <1>11. CASE Dismiss \/ DismissalLapses
    <2>1. InFlight' => InFlight
      BY <1>1, <1>11 DEF Dismiss, DismissalLapses, InFlight, reports
    <2> QED BY <1>2, <1>11, <2>1 DEF Dismiss, DismissalLapses, client
  <1>12. CASE TryAgain
    <2>1. InFlight' => InFlight
      BY <1>1, <1>12
         DEF TryAgain, Refreshed, Supervised, LoggedOut, Refused, InFlight,
             reports
    <2> QED
      BY <1>2, <1>12, <2>1
         DEF TryAgain, Refreshed, Fails, Refused, LoggedOut, SignedOut
  <1>13. CASE UNCHANGED vars
    <2>1. InFlight' => InFlight
      BY <1>1, <1>13 DEF vars, InFlight, reports
    <2> QED BY <1>2, <1>13, <2>1 DEF vars, client
  <1> QED
    BY <1>3, <1>4, <1>5, <1>6, <1>7, <1>8, <1>9, <1>10, <1>11, <1>12, <1>13,
       Zenon DEF Next

-----------------------------------------------------------------------------
(* What is shown *)

LEMMA OvertakenStep ==
  ASSUME Parts, OvertakenIsNotPending, RepairedStaysQuiet, [Next]_vars
  PROVE  OvertakenIsNotPending' /\ RepairedStaysQuiet'
  <1> USE DEF client, OvertakenIsNotPending, RepairedStaysQuiet
  <1>1. CASE UNCHANGED <<pending, asks>> /\ dialog' \in {dialog, "closed", "due"}
             /\ toast' \in {toast, "closed", "due"}
    BY <1>1
  <1>2. CASE Hears
    <2>1. CASE Recover
      <3>1. \A ask \in asks' : ask.report \in Report
        BY <2>1 DEF Recover, Parts, Asks
      <3>2. pending' = None /\ dialog' = "closed" /\ toast' = "closed"
        BY <2>1 DEF Recover, Cleared
      <3> QED BY <3>1, <3>2, SessionAssumption
    <2>2. CASE Reported
      BY <2>2 DEF Reported, Ask, Asked, shown
    <2>3. CASE Show("refusal", "due") /\ UNCHANGED reports
      BY <1>1, <2>3 DEF Show, reports
    <2> QED BY <1>2, <2>1, <2>2, <2>3, Zenon DEF Hears
  <1>3. CASE HealthRead
    <2>1. PICK ask \in asks : asks' = (asks \ {ask})
                 \cup {[ask EXCEPT !.stale = session = "stale"]}
      BY <1>3 DEF HealthRead
    <2>2. [ask EXCEPT !.stale = session = "stale"].report = ask.report
          /\ [ask EXCEPT !.stale = session = "stale"].overtaken = ask.overtaken
      BY DEF Parts, Asks
    <2> QED BY <1>3, <2>1, <2>2, ZenonT(30) DEF HealthRead, shown
  <1>4. CASE Answered
    <2>1. PICK ask \in asks :
            /\ asks' = asks \ {ask}
            /\ \/ UNCHANGED <<pending, shown>>
               \/ pending = ask.report /\ pending' = None
                  /\ \/ UNCHANGED shown
                     \/ \E k \in Kind :
                           Show(k, IF ask.overtaken THEN "overdue" ELSE "due")
      BY <1>4, Zenon DEF Answered, Current
    <2>2. CASE UNCHANGED <<pending, shown>>
      BY <2>1, <2>2 DEF shown
    <2>3. CASE pending = ask.report /\ pending' = None
      <3>1. ~ask.overtaken
        BY <2>3
      <3>2. \A other \in asks' : other.report # None
        BY <2>1, SessionAssumption DEF Parts, Asks
      <3>3. dialog' \in {dialog, "due"} /\ toast' \in {toast, "due"}
        BY <2>1, <3>1, <2>3, SessionAssumption DEF Show, shown
      <3> QED BY <2>3, <3>2, <3>3
    <2> QED BY <2>1, <2>2, <2>3
  <1>5. CASE VisibilityChanges
    <2>1. Asked(pending).overtaken = FALSE
      BY DEF Asked
    <2>2. \A ask \in asks : ask.report # None
      BY SessionAssumption DEF Parts, Asks
    <2> QED BY <1>5, <2>1, <2>2 DEF VisibilityChanges, Ask, shown
  <1> QED
    <2> USE DEF reports, shown, Cleared
    <2>1. CASE ClientRefreshes \/ Expires \/ Connects \/ Disconnects \/ SignIn
      BY <1>1, <2>1 DEF ClientRefreshes, Expires, Connects, Disconnects, SignIn
    <2>2. CASE Attempt \/ AttemptAnswered \/ OutcomeEmitted \/ Ages
      BY <1>1, <2>2 DEF Attempt, AttemptAnswered, OutcomeEmitted, Ages
    <2>3. CASE Dismiss \/ DismissalLapses \/ TryAgain \/ SignOut
      BY <1>1, <2>3 DEF Dismiss, DismissalLapses, TryAgain, SignOut
    <2>4. CASE UNCHANGED vars
      BY <1>1, <2>4 DEF vars
    <2> QED BY <1>2, <1>3, <1>4, <1>5, <2>1, <2>2, <2>3, <2>4, Zenon DEF Next

\* Nothing comes to be shown that was not about to be, or read while the
\* session was stale.
LEMMA AlarmStep ==
  ASSUME Parts, [Next]_vars, ~Hears
  PROVE  Alarm' => Alarm \/ (session = "stale" /\ pending # None)
  <1> USE DEF client
  <1>1. CASE UNCHANGED <<pending, asks>> /\ dialog' \in {dialog, "closed"}
             /\ toast' \in {toast, "closed"}
    BY <1>1 DEF Alarm
  <1>2. CASE HealthRead
    <2>1. PICK ask \in asks : asks' = (asks \ {ask})
                 \cup {[ask EXCEPT !.stale = session = "stale"]}
      BY <1>2 DEF HealthRead
    <2>2. /\ [ask EXCEPT !.stale = session = "stale"].report = ask.report
          /\ [ask EXCEPT !.stale = session = "stale"].stale = (session = "stale")
          /\ ask.report # None
      BY SessionAssumption DEF Parts, Asks
    <2>3. UNCHANGED <<pending, dialog, toast>>
      BY <1>2 DEF HealthRead, shown
    <2> QED BY <2>1, <2>2, <2>3 DEF Alarm
  <1>3. CASE Answered
    <2>1. PICK ask \in asks :
            /\ ask.stale # None /\ asks' = asks \ {ask}
            /\ \/ UNCHANGED <<pending, shown>>
               \/ /\ pending = ask.report /\ pending' = None
                  /\ ask.stale \/ UNCHANGED shown
      BY <1>3, Zenon DEF Answered, Current
    <2>2. CASE UNCHANGED <<pending, shown>>
      BY <2>1, <2>2 DEF Alarm, shown
    <2>3. CASE pending = ask.report /\ ask.stale
      <3>1. ask.stale = TRUE
        BY <2>1, <2>3 DEF Parts, Asks
      <3> QED BY <2>3, <3>1 DEF Alarm
    <2>4. CASE pending' = None /\ UNCHANGED shown
      <3>1. \A other \in asks' : other.report # None
        BY <2>1, SessionAssumption DEF Parts, Asks
      <3> QED BY <2>4, <3>1 DEF Alarm, shown
    <2> QED BY <2>1, <2>2, <2>3, <2>4
  <1>4. CASE VisibilityChanges
    <2>1. Asked(pending).stale # TRUE
      BY SessionAssumption DEF Asked
    <2>2. \A ask \in asks : ask.report # None
      BY SessionAssumption DEF Parts, Asks
    <2>3. UNCHANGED <<dialog, toast>>
      BY <1>4 DEF VisibilityChanges, shown
    <2>4. /\ asks' \subseteq asks \cup {Asked(pending)}
          /\ pending' = pending \/ pending' = None
      BY <1>4 DEF VisibilityChanges, Ask
    <2>5. pending' = None => asks' \subseteq asks \/ pending = None
      BY <1>4 DEF VisibilityChanges
    <2>6. ASSUME NEW ask \in asks', ask.stale = TRUE PROVE ask \in asks
      BY <2>1, <2>4, <2>6
    <2> QED BY <2>2, <2>3, <2>4, <2>6 DEF Alarm
  <1> QED
    <2> USE DEF reports, shown, Cleared
    <2>1. CASE ClientRefreshes \/ Expires \/ Connects \/ Disconnects \/ SignIn
      BY <1>1, <2>1 DEF ClientRefreshes, Expires, Connects, Disconnects, SignIn
    <2>2. CASE Attempt \/ AttemptAnswered \/ OutcomeEmitted \/ Ages
      BY <1>1, <2>2 DEF Attempt, AttemptAnswered, OutcomeEmitted, Ages
    <2>3. CASE Dismiss \/ DismissalLapses \/ TryAgain \/ SignOut
      BY <1>1, <2>3 DEF Dismiss, DismissalLapses, TryAgain, SignOut
    <2>4. CASE UNCHANGED vars
      BY <1>1, <2>4 DEF vars
    <2> QED BY <1>2, <1>3, <1>4, <2>1, <2>2, <2>3, <2>4, Zenon DEF Next

LEMMA HearsStep ==
  ASSUME Parts, AlarmsAreCured, RefusalsAreCured, Hears
  PROVE  AlarmsAreCured' /\ RefusalsAreCured'
  <1>1. events # <<>> /\ events' = Tail(events)
    BY Zenon DEF Hears
  <1>2. events \in Seq(Event)
    BY DEF Parts
  <1>3. /\ Len(events') = Len(events) - 1 /\ Len(events) \in Nat \ {0}
        /\ \A i \in 1..Len(events') : events'[i] = events[i + 1]
        /\ Head(events) = events[1]
    BY <1>1, <1>2
  <1>4. (failing' = failing /\ link' = link) \/ ~link'
    BY DEF Hears, client, SignedOut
  <1>5. RefusalsAreCured'
    <2>1. ASSUME NEW i \in 1..Len(events'), events'[i] = "refused"
          PROVE  CureAfter(i)'
      <3>1. i + 1 \in 1..Len(events) /\ events[i + 1] = "refused"
        BY <1>3, <2>1
      <3>2. CureAfter(i + 1)
        BY <3>1 DEF RefusalsAreCured
      <3>3. CASE failing \/ ~link
        BY <1>4, <3>3 DEF CureAfter
      <3>4. CASE \E j \in 1..Len(events) : j > i + 1 /\ events[j] = "ok"
        <4>1. PICK j \in 1..Len(events) : j > i + 1 /\ events[j] = "ok"
          BY <3>4
        <4>2. j - 1 \in 1..Len(events') /\ j - 1 > i /\ events'[j - 1] = "ok"
          BY <1>3, <4>1
        <4> QED BY <4>2 DEF CureAfter
      <3> QED BY <3>2, <3>3, <3>4 DEF CureAfter
    <2> QED BY <2>1, Zenon DEF RefusalsAreCured
  <1>6. AlarmsAreCured'
    <2>1. CASE Recover
      <3>1. \A ask \in asks' : ask.report \in Report
        BY <2>1 DEF Recover, Parts, Asks
      <3> QED
        BY <2>1, <3>1, SessionAssumption DEF Recover, Cleared, Alarm, AlarmsAreCured
    <2>2. CASE Head(events) = "refused" /\ UNCHANGED client
      <3>1. CureAfter(1)
        BY <1>3, <2>2 DEF RefusalsAreCured
      <3>2. CASE failing \/ ~link
        BY <2>2, <3>2 DEF AlarmsAreCured, Cure, client
      <3>3. CASE \E j \in 1..Len(events) : j > 1 /\ events[j] = "ok"
        <4>1. PICK j \in 1..Len(events) : j > 1 /\ events[j] = "ok"
          BY <3>3
        <4>2. j - 1 \in 1..Len(events') /\ events'[j - 1] = "ok"
          BY <1>3, <4>1
        <4> QED BY <4>2 DEF AlarmsAreCured, Cure, Coming
      <3> QED BY <3>1, <3>2, <3>3 DEF CureAfter
    <2>3. CASE Head(events) = "transient" /\ Reported /\ UNCHANGED client
      <3>1. PICK r \in Report \ ({ask.report : ask \in asks} \cup {pending}) :
              /\ pending' = r /\ UNCHANGED shown
              /\ asks' \subseteq asks \cup {Asked(r)}
        BY <2>3, Zenon DEF Reported, Ask
      <3>2. Asked(r).stale # TRUE
        BY SessionAssumption DEF Asked
      <3>3. Alarm' => Alarm
        BY <3>1, <3>2 DEF Alarm, shown
      <3>4. Coming("ok") => Coming("ok")'
        BY <1>1, <1>2, <2>3, HeardComing DEF Event
      <3> QED BY <2>3, <3>3, <3>4 DEF AlarmsAreCured, Cure, client
    <2> QED BY <2>1, <2>2, <2>3, Zenon DEF Hears
  <1> QED BY <1>5, <1>6

LEMMA InitIInv == Init => IInv
  <1> SUFFICES ASSUME Init PROVE IInv
    OBVIOUS
  <1>1. events = <<>> /\ asks = {} /\ pending = None /\ outcomes["transient"] = 0
        /\ dialog = "closed" /\ toast = "closed"
    BY DEF Init, Outcome
  <1>2. Len(events) = 0
    BY <1>1
  <1>3. ~Alarm /\ ~InFlight
    BY <1>1, <1>2, SessionAssumption DEF Alarm, InFlight, Coming
  <1>4. RefusalsAreCured
    BY <1>2 DEF RefusalsAreCured
  <1> QED
    BY <1>1, <1>3, <1>4, TypesInitially
       DEF IInv, AlarmsAreCured, ReportsAreOfNow, OvertakenIsNotPending,
           RepairedStaysQuiet

LEMMA IInvStep == IInv /\ [Next]_vars => IInv'
  <1> SUFFICES ASSUME IInv, [Next]_vars PROVE IInv'
    OBVIOUS
  <1>0. /\ Parts /\ TypeOK /\ AlarmsAreCured /\ RefusalsAreCured
        /\ ReportsAreOfNow /\ OvertakenIsNotPending /\ RepairedStaysQuiet
    BY TypeParts DEF IInv
  <1>1. TypeOK'
    BY <1>0, TypesStep
  <1>2. ReportsAreOfNow'
    BY <1>0, ReportsAreOfNowStep
  <1>3. OvertakenIsNotPending' /\ RepairedStaysQuiet'
    BY <1>0, OvertakenStep
  <1>4. AlarmsAreCured' /\ RefusalsAreCured'
    <2>1. CASE Hears
      BY <1>0, <2>1, HearsStep
    <2>2. CASE ~Hears
      <3>1. (Cure => Cure') /\ (RefusalsAreCured => RefusalsAreCured')
        BY <1>0, <2>2, CautiousStep, EventsStep, CureStep
      <3>2. Alarm' => Cure
        <4>1. Alarm' => Alarm \/ (session = "stale" /\ pending # None)
          BY <1>0, <2>2, AlarmStep
        <4> QED
          BY <1>0, <4>1
             DEF AlarmsAreCured, ReportsAreOfNow, InFlight, Cure
      <3> QED BY <1>0, <3>1, <3>2 DEF AlarmsAreCured
    <2> QED BY <2>1, <2>2
  <1> QED BY <1>1, <1>2, <1>3, <1>4, Zenon DEF IInv

LEMMA InvariantHolds == Spec => []IInv
  BY InitIInv, IInvStep, PTL DEF Spec

\* Spec keeps a report that recover() overtook from being shown.
THEOREM NothingOvertakenIsShown == Spec => []RepairedStaysQuiet
  <1>1. IInv => RepairedStaysQuiet
    BY DEF IInv
  <1> QED BY <1>1, InvariantHolds, PTL

\* In Spec what is shown over a repaired session is about to be taken back.
THEOREM AlertsAreRetracted == Spec => []AlertsGo
  <1>1. IInv => AlertsGo
    BY DEF IInv, AlarmsAreCured, Alarm, Cure, AlertsGo
  <1> QED BY <1>1, InvariantHolds, PTL
=============================================================================
