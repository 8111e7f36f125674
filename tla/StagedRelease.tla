---------------------------- MODULE StagedRelease ----------------------------
(***************************************************************************)
(* What the updater promises of the payloads it may install: a release is  *)
(* staged all at once, as one signed upload of its own, and is replaced    *)
(* only after it was dropped.                                              *)
(***************************************************************************)
CONSTANTS Asset, Tag, TagOf, None

VARIABLE ready      \* the upload staged for each tag, None if there is none

Init == ready = [t \in Tag |-> None]

Stage == \E a \in Asset : /\ ready[TagOf[a]] = None
                          /\ ready' = [ready EXCEPT ![TagOf[a]] = a]

Drop == \E T \in SUBSET Tag :
          ready' = [t \in Tag |-> IF t \in T THEN None ELSE ready[t]]

Spec == Init /\ [][Stage \/ Drop]_ready

=============================================================================
