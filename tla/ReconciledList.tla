--------------------------- MODULE ReconciledList ---------------------------
(***************************************************************************)
(* A ReconcilingList subscribed to the Reconciler: websocket events are    *)
(* dropped or lost with the connection, and the refresh that makes up for  *)
(* them is the one the Reconciler's handlers ask the list for.             *)
(***************************************************************************)
EXTENDS Reconciler, Sequences, FiniteSetsExt

CONSTANTS Keys, Fetches, None, MaxTaps

ASSUME ListAssumption == Fetches # {} /\ None \notin Fetches /\ MaxTaps \in Nat

VARIABLES server, wire, viewable, rows, loading, refreshing, error, loaded, destroyed, newest,
          requested, buffer, fetch, heard, applied, lifted,
          missed   \* observer: the version of each key last dropped with a resync owed,
                   \*   until a fetch fails or its profile is hidden

List == INSTANCE ReconcilingList

listVars == <<server, wire, viewable, rows, loading, refreshing, error, loaded, destroyed, newest,
              requested, buffer, fetch, heard, applied, lifted>>
all == <<vars, listVars, missed>>

NothingMissed == [k \in Keys |-> 0]

InitAll == Init /\ List!Init /\ missed = NothingMissed

-----------------------------------------------------------------------------
\* What is on the wire, if it is lost.
OnWire(k) == Max({0} \cup {wire[i].version : i \in {j \in 1..Len(wire) : wire[j].key = k}})

Loses == List!Lose \/ UNCHANGED listVars

\* ws:events-dropped, and events that are rejected.
Drops ==
  /\ EventsDropped /\ Loses
  /\ missed' = IF ~owed' \/ wire' = wire THEN missed
               ELSE [k \in Keys |-> IF k \in viewable /\ OnWire(k) # 0 THEN OnWire(k) ELSE missed[k]]

\* ws:connected, after a connection that may have taken events with it.
Reconnects == Connected /\ Loses /\ UNCHANGED missed

\* (fault, for a mutant: the list was not subscribed)
NotSubscribed == UNCHANGED listVars
\* The list's handler.
Handler == List!Refresh

\* The handlers run.
Resyncs == AuthAnswers /\ Handler /\ UNCHANGED missed

Clocks(A) == A /\ UNCHANGED <<listVars, missed>>

Lists(A) == A /\ UNCHANGED <<vars, missed>>

Hides(k) == List!Hide(k) /\ missed' = [missed EXCEPT ![k] = 0] /\ UNCHANGED vars

FailsAll(f) == List!Fails(f) /\ missed' = NothingMissed /\ UNCHANGED vars

NextAll ==
  \/ Drops \/ Reconnects \/ Resyncs
  \/ Clocks(Hidden) \/ Clocks(Visible) \/ Clocks(Activated)
  \/ Clocks(TimerFires) \/ Clocks(Tick)
  \/ \E k \in Keys : Lists(List!Tap(k)) \/ Lists(List!Unhide(k)) \/ Hides(k)
  \/ \E f \in Fetches : \/ Lists(List!ServerReads(f)) \/ Lists(List!Answered(f)) \/ FailsAll(f)
  \/ Lists(List!Receive) \/ Lists(List!Refresh) \/ Lists(List!Load)
  \/ Lists(List!Retry) \/ Lists(List!Destroy)

SpecAll == InitAll /\ [][NextAll]_all

-----------------------------------------------------------------------------
(* Properties *)

\* Of ReconcilingList: a list in use shows no profile that is hidden or blocked.
NoUnviewableRows == List!NoUnviewableRows

\* Of ReconcilingList: an item received stays listed, whatever snapshot comes later.
ReceivedStaysListed == List!ReceivedStaysListed

\* Snapshots are applied in the order the server took them.
SnapshotsInOrder == [][\A k \in Keys : applied[k] <= applied'[k]]_applied

\* The newest fetch has not been read yet, or has read what P asks for; or another follows.
Fetched(P(_)) ==
  \/ requested /\ (loading \/ refreshing)
  \/ fetch[newest].state = "asked"
  \/ fetch[newest].state = "read" /\ P(fetch[newest].got)

\* A profile made viewable again that the server lists is listed, or a fetch that lists it
\* is under way or asked for, until a fetch fails.
UnhiddenReturns ==
  \A k \in lifted : rows[k] # 0 \/ destroyed \/ Fetched(LAMBDA got : got[k] # 0)

\* A tap whose event was dropped is shown, or on its way, until a fetch fails: the drop sets
\* the timer, the timer outlasts the throttle, the list is subscribed, and a handler that
\* finds it busy is remembered and followed by a fetch that the server reads after the drop.
DroppedIsMadeUpFor ==
  \A k \in Keys :
    rows[k] >= missed[k] \/ destroyed \/ OnItsWay \/ Fetched(LAMBDA got : got[k] >= missed[k])
=============================================================================
