----------------------------- MODULE MCUpdater -----------------------------
(* Two uploads of one release, the second replacing the first. *)
EXTENDS Updater, TLC

CONSTANTS a1, a2, v1, k1, k2

MCTagOf == [a \in Asset |-> v1]
MCReplaces == [a \in Asset |-> IF a = a2 THEN a1 ELSE None]
MCSizeOf == [a \in Asset |-> 2]
MCVersionOf == [t \in Tag |-> 1]

\* Any command, beside one that wants the lock.
MCIssues == k1 :> {"download", "cancel", "discard", "check"}
            @@ k2 :> {"cancel", "discard"}
=============================================================================
