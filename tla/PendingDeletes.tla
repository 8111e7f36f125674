--------------------------- MODULE PendingDeletes ---------------------------
(***************************************************************************)
(* The tombstones of src/src/lib/chat/pending-deletes.ts: one per          *)
(* conversation that is being deleted, or was deleted so recently that an  *)
(* answer read before the delete may still arrive.  The class keeps them   *)
(* in a Map; a conversation without an entry has the tombstone NoTombstone *)
(* here.                                                                   *)
(***************************************************************************)
EXTENDS Integers

Tombstone == [refs: Nat, inFlight: Nat, lastSettledEpoch: Int]

NoTombstone == [refs |-> 0, inFlight |-> 0, lastSettledEpoch |-> -1]

Marked(t) == [t EXCEPT !.refs = @ + 1, !.inFlight = @ + 1]

Settled(t, epoch) ==
  IF t.refs = 0
  THEN t
  ELSE [t EXCEPT !.inFlight = @ - 1, !.lastSettledEpoch = epoch]

\* (fault, for a mutant: the first release drops everybody's tombstone)
ReleasedAll(t, n) == NoTombstone
\* n releases in a row
Released(t, n) ==
  IF t.refs <= n THEN NoTombstone ELSE [t EXCEPT !.refs = @ - n]

\* (faults, for mutants: an answer of the very epoch of the delete passes; a settled
\* delete blocks nothing)
BlocksOlder(t, epoch) ==
  /\ t.refs > 0
  /\ t.inFlight > 0 \/ epoch < t.lastSettledEpoch
BlocksInFlight(t, epoch) == t.inFlight > 0

Blocks(t, epoch) ==
  /\ t.refs > 0
  /\ t.inFlight > 0 \/ epoch <= t.lastSettledEpoch
=============================================================================
