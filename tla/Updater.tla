------------------------------- MODULE Updater -------------------------------
(***************************************************************************)
(* The update downloader of src-tauri/src/api/update: one transfer task at *)
(* a time writes a stage directory, the commands of the frontend start,    *)
(* cancel and discard it, and the process may die at any point.            *)
(*                                                                         *)
(* Byte i of an uploaded asset is abstracted to the asset itself, so a     *)
(* file is a sequence of assets, a splice of two uploads is a sequence of  *)
(* both, and a digest is the sequence that was hashed.                     *)
(***************************************************************************)
EXTENDS Naturals, Sequences

CONSTANTS Asset,        \* uploaded payloads; the uuid of the release index
          Tag,          \* release tags, all newer than the running version
          TagOf,        \* the release an asset was uploaded to
          Replaces,     \* the upload it replaced under its URL, None if first
          SizeOf,       \* its declared size
          VersionOf,    \* the order of the tags
          Calls,        \* commands of the frontend in progress at once
          Issues,       \* a bound on what each is: any command, in the program
          MaxAttempts,  \* run.rs:21
          MaxStalled,   \* run.rs:20
          None

ASSUME UpdaterAssumption ==
    /\ None \notin Asset /\ None \notin Tag /\ None \notin Calls
    /\ Asset \cap {"none", "pending", "failed"} = {}
    /\ TagOf \in [Asset -> Tag]
    /\ Replaces \in [Asset -> Asset \cup {None}]
    /\ SizeOf \in [Asset -> Nat \ {0}]
    /\ VersionOf \in [Tag -> Nat]
    /\ Issues \in [Calls -> SUBSET {"download", "cancel", "discard", "check"}]
    /\ MaxAttempts \in Nat /\ MaxStalled \in Nat

VARIABLES served,    \* the asset each tag's URL serves, None before its release
          disk,      \* the stage directory of each tag
          latest,    \* UpdateState.latest
          retained,  \* a cancelled download kept in memory
          task,      \* the transfer task, pc "idle" when there is none
          starting,  \* the holder of Downloads.starting across an await
          call,      \* the commands in progress
          swept      \* whether the purge at launch has run

vars == <<served, disk, latest, retained, task, starting, call, swept>>

Content == Seq(Asset)

Full(a) == [i \in 1..SizeOf[a] |-> a]

Cut(s, n) == SubSeq(s, 1, n)

StagedType == [asset : Asset, downloaded : Nat, validator : Asset \cup {None},
               verified : BOOLEAN]

Staged(a) == [asset |-> a, downloaded |-> 0, validator |-> None,
              verified |-> FALSE]

\* A stage directory: state.json, payload.part and payload.
StageType == [dir : BOOLEAN, rec : StagedType \cup {None},
              part : Content \cup {None}, payload : Content \cup {None}]

Gone == [dir |-> FALSE, rec |-> None, part |-> None, payload |-> None]

HeldType == [staged : StagedType, body : Content, digest : Content]

ASSUME NoneAssumption ==
    None \notin Content /\ None \notin StagedType /\ None \notin HeldType

PC == {"idle", "prepare", "open", "answer", "body", "settle", "accept",
       "commit"}

TaskType == [pc : PC, asset : Asset \cup {None}, staged : StagedType \cup {None},
             digest : Content, source : Asset \cup {None}, flushed : Nat,
             attempts : Nat, carried : Nat, stalled : Nat, complete : BOOLEAN,
             cancel : BOOLEAN, sig : Asset \cup {"none", "pending", "failed"}]

Idle == [pc |-> "idle", asset |-> None, staged |-> None, digest |-> <<>>,
         source |-> None, flushed |-> 0, attempts |-> 0, carried |-> 0,
         stalled |-> 0, complete |-> FALSE, cancel |-> FALSE, sig |-> "none"]

CallPC == {"idle", "others", "joinOthers", "purge", "start", "joinStart",
           "cancel", "discard", "joinDiscard", "wipe", "apply"}

\* The awaits of the end of a transfer, with the lock held.
Joins == {"joinOthers", "joinStart", "joinDiscard"}

CallType == [pc : CallPC, asset : Asset \cup {None}]

Resting == [pc |-> "idle", asset |-> None]

TypeOK ==
    /\ served \in [Tag -> Asset \cup {None}]
    /\ disk \in [Tag -> StageType]
    /\ latest \in Asset \cup {None}
    /\ retained \in HeldType \cup {None}
    /\ task \in TaskType
    /\ starting \in Calls \cup {None}
    /\ call \in [Calls -> CallType]
    /\ swept \in BOOLEAN

Init ==
    /\ served = [t \in Tag |-> None]
    /\ disk = [t \in Tag |-> Gone]
    /\ latest = None
    /\ retained = None
    /\ task = Idle
    /\ starting = None
    /\ call = [k \in Calls |-> Resting]
    /\ swept = FALSE

-----------------------------------------------------------------------------
(* Reading a stage *)

PayloadOnDisk(d) == d.payload # None /\ Len(d.payload) = SizeOf[d.rec.asset]

\* The stage update_readiness reports as ready and update_install installs.
Ready(d) == d.rec # None /\ d.rec.verified /\ PayloadOnDisk(d)

Resumable == \E t \in Tag : disk[t].rec # None

\* The best of a set of tags, as a set of at most one.
Newest(T) == {t \in T : \A u \in T : VersionOf[u] <= VersionOf[t]}

\* release::newest_upgrade over the index the server would send now.
Upgrade == {served[t] : t \in Newest({t \in Tag : served[t] # None})}

\* storage::purge: `useful` are the tags that may stay, the newest survives.
Purged(useful) ==
    LET kept == Newest({t \in useful : disk[t].rec # None})
    IN  [t \in Tag |-> IF t \in kept THEN disk[t] ELSE Gone]

-----------------------------------------------------------------------------
(* The transfer task: download/run.rs, transfer.rs, resume.rs, stage.rs *)

Running == task.pc # "idle"
t0 == TagOf[task.asset]
here == disk[t0]
Halted == task.cancel \/ task.sig = "failed"

Spawn(a) == [Idle EXCEPT !.pc = "prepare", !.asset = a]

\* The locals of transfer(), and those of the loop in run(), out of scope.
Closed(tk) == [tk EXCEPT !.source = None, !.flushed = 0, !.carried = 0]
Over(tk) == [Closed(tk) EXCEPT !.pc = "settle", !.attempts = 0, !.stalled = 0]

Transferred(tk) == [Over(tk) EXCEPT !.complete = TRUE]

\* (fault, for a mutant: an attempt that makes progress is not counted)
FailedUncounted(tk, transient) ==
    LET progress == tk.staged.downloaded > tk.carried
        stalled == IF progress THEN 0 ELSE tk.stalled + 1
        over == stalled >= MaxStalled \/ tk.attempts >= MaxAttempts
    IN  IF transient /\ ~over
        THEN [Closed(tk) EXCEPT !.pc = "open", !.stalled = stalled,
                                !.attempts = IF progress THEN @ - 1 ELSE @]
        ELSE Over(tk)

\* The loop of run() after a failed attempt of the transfer.
Failed(tk, transient) ==
    LET stalled == IF tk.staged.downloaded > tk.carried THEN 0
                   ELSE tk.stalled + 1
        over == stalled >= MaxStalled \/ tk.attempts >= MaxAttempts
    IN  IF transient /\ ~over
        THEN [Closed(tk) EXCEPT !.pc = "open", !.stalled = stalled]
        ELSE Over(tk)

Holds(a) == retained # None /\ retained.staged.asset = a

Prepare ==
    /\ task.pc = "prepare"
    /\ LET known == here.rec # None /\ here.rec.asset = task.asset
           swept0 == IF known THEN here
                     ELSE [here EXCEPT !.part = None, !.payload = None]
           made == [swept0 EXCEPT !.dir = TRUE]
       IN  \/ /\ known /\ Ready(here)
              /\ retained' = None
              /\ task' = Idle
              /\ UNCHANGED disk
           \/ /\ ~(known /\ Ready(here)) /\ ~Holds(task.asset)
              /\ retained' = None
              /\ disk' = [disk EXCEPT ![t0] = made]
              /\ task' = [task EXCEPT !.pc = "open", !.sig = "pending",
                            !.staged = IF known
                                       THEN [here.rec EXCEPT !.verified = FALSE]
                                       ELSE Staged(task.asset)]
           \/ /\ ~(known /\ Ready(here)) /\ Holds(task.asset)
              /\ retained' = None
              /\ disk' = [disk EXCEPT ![t0] = [made EXCEPT
                            !.part = retained.body, !.rec = retained.staged]]
              /\ task' = [task EXCEPT !.pc = "open", !.sig = "pending",
                            !.staged = retained.staged,
                            !.digest = retained.digest]
           \/ /\ ~(known /\ Ready(here)) /\ Holds(task.asset)  \* no space left
              /\ \E n \in 0..Len(retained.body) :
                   disk' = [disk EXCEPT ![t0] =
                              [made EXCEPT !.part = Cut(retained.body, n)]]
              /\ task' = Idle
              /\ UNCHANGED retained
    /\ UNCHANGED <<served, latest, starting, call, swept>>

\* The loop again after its backoff, then resume_offset: the request asks for
\* what the file and the record agree on.
Open ==
    /\ task.pc = "open"
    /\ task.attempts = 0 \/ ~Halted
    /\ LET offset == IF here.part = None THEN 0
                     ELSE IF Len(here.part) < task.staged.downloaded
                     THEN Len(here.part) ELSE task.staged.downloaded
       IN  /\ disk' = [disk EXCEPT ![t0].part =
                         IF @ = None THEN None ELSE Cut(@, offset)]
           /\ task' = [task EXCEPT !.pc = "answer",
                         !.attempts = @ + 1,
                         !.carried = task.staged.downloaded,
                         !.staged.downloaded = offset]
    /\ UNCHANGED <<served, latest, retained, starting, call, swept>>

\* (fault, for a mutant: the digest of the last attempt is always kept)
KeptDigest(digest, part, upto) == digest

\* Prehash::sync: keeps a digest of the right length, else reads the file anew.
Sync(digest, part, upto) == IF Len(digest) = upto THEN digest
                            ELSE Cut(part, upto)

\* transfer() from the response to the first chunk: the record is saved, the
\* digest brought to the offset, the file opened. A directory that is gone
\* fails the save, which no retry repairs.
Receive(staged, part) ==
    IF here.dir
    THEN /\ disk' = [disk EXCEPT ![t0] = [here EXCEPT
                       !.rec = staged, !.part = part]]
         /\ task' = [task EXCEPT !.pc = "body", !.staged = staged,
                       !.source = served[t0], !.flushed = staged.downloaded,
                       !.digest = Sync(@, part, staged.downloaded)]
    ELSE /\ task' = Failed([task EXCEPT !.staged = staged], FALSE)
         /\ UNCHANGED disk

Truncated == IF here.part = None THEN None ELSE <<>>

Replaced ==
    /\ disk' = [disk EXCEPT ![t0] = Gone]
    /\ task' = Failed(task, FALSE)

Restart ==
    LET staged == [task.staged EXCEPT !.downloaded = 0, !.validator = None]
    IN  /\ disk' = [disk EXCEPT ![t0] = [here EXCEPT !.part = Truncated,
                      !.rec = IF here.dir THEN staged ELSE None]]
        /\ task' = Failed([task EXCEPT !.staged = staged], here.dir)

Answer ==
    /\ task.pc = "answer"
    /\ LET offset == task.staged.downloaded
           size == SizeOf[task.asset]
           theirs == IF served[t0] = None THEN 0 ELSE SizeOf[served[t0]]
       IN  \/ /\ \E transient \in BOOLEAN : task' = Failed(task, transient)
              /\ UNCHANGED disk
           \/ /\ served[t0] # None /\ offset \in 1..(theirs - 1)    \* 206
              /\ task.staged.validator \in {None, served[t0]}
              /\ \/ theirs # size /\ Replaced
                 \/ theirs = size /\ Restart
                 \/ theirs = size /\ Receive(task.staged, here.part)
           \/ /\ served[t0] # None                                  \* 200
              /\ \/ theirs # size /\ Replaced
                 \/ \E v \in {None, served[t0]} :
                      Receive([task.staged EXCEPT !.downloaded = 0,
                                                  !.validator = v], <<>>)
           \/ /\ served[t0] # None /\ offset > 0 /\ offset >= theirs \* 416
              /\ IF offset = size /\ theirs = size
                 THEN /\ task' = IF here.part = None /\ Len(task.digest) # offset
                                 THEN Failed(task, FALSE)
                                 ELSE Transferred([task EXCEPT
                                         !.digest = Sync(@, here.part, offset)])
                      /\ UNCHANGED disk
                 ELSE Restart
    /\ UNCHANGED <<served, latest, retained, starting, call, swept>>

Chunk ==
    /\ task.pc = "body"
    /\ Len(task.digest) < SizeOf[task.source]
    /\ IF Len(task.digest) < SizeOf[task.asset]
       THEN /\ disk' = [disk EXCEPT ![t0].part =
                          IF @ = None THEN None ELSE Append(@, task.source)]
            /\ task' = [task EXCEPT !.digest = Append(@, task.source)]
       ELSE Replaced                                             \* Oversize
    /\ UNCHANGED <<served, latest, retained, starting, call, swept>>

\* (fault, for a mutant: the record counts a chunk that is not written yet)
CountsNext == [task EXCEPT !.staged.downloaded = Len(task.digest) + 1,
                           !.flushed = Len(task.digest)]

\* flush(): file first, then the record that says how much of it there is.
Flushed == [task EXCEPT !.staged.downloaded = Len(task.digest),
                        !.flushed = Len(task.digest)]

Saved == [disk EXCEPT ![t0].rec = Flushed.staged]

\* A flush that fails: the directory is gone, or no space is left.
FlushFails ==
    /\ task.pc = "body"
    /\ \/ ~here.dir /\ UNCHANGED disk
       \/ /\ here.part # None
          /\ \E n \in task.flushed..Len(here.part) :
               disk' = [disk EXCEPT ![t0].part = Cut(@, n)]
    /\ task' = Failed(task, FALSE)
    /\ UNCHANGED <<served, latest, retained, starting, call, swept>>

Checkpoint ==
    /\ task.pc = "body" /\ here.dir
    /\ task.flushed < Len(task.digest)
    /\ disk' = Saved
    /\ task' = Flushed
    /\ UNCHANGED <<served, latest, retained, starting, call, swept>>

\* The body ends: halted, cut by the network, or sent in full.
BodyEnds ==
    /\ task.pc = "body" /\ here.dir
    /\ disk' = Saved
    /\ \/ Halted /\ task' = Failed(Flushed, FALSE)
       \/ task' = Failed(Flushed, TRUE)
       \/ /\ Len(task.digest) = SizeOf[task.asset]
          /\ task' = Transferred(Flushed)
    /\ UNCHANGED <<served, latest, retained, starting, call, swept>>

HaltedInBackoff ==
    /\ task.pc = "open"
    /\ task.attempts > 0 /\ Halted
    /\ task' = Over(task)
    /\ UNCHANGED <<served, disk, latest, retained, starting, call, swept>>

\* (fault, for a mutant: the fetch is polled only while the transfer runs)
PolledMeanwhile ==
    /\ task.sig = "pending" /\ task.pc # "settle"
    /\ \E s \in {served[t0], "failed"} \ {None} :
         task' = [task EXCEPT !.sig = s]
    /\ UNCHANGED <<served, disk, latest, retained, starting, call, swept>>

\* fetch_signature, spawned beside the transfer: the signature of what the URL
\* serves when it answers.
SignatureAnswers ==
    /\ task.sig = "pending"
    /\ \E s \in {served[t0], "failed"} \ {None} :
         task' = [task EXCEPT !.sig = s]
    /\ UNCHANGED <<served, disk, latest, retained, starting, call, swept>>

\* Retained::keep, then the stage is discarded.
Keep ==
    /\ retained' = IF here.part \in {None, <<>>} THEN None
                   ELSE [staged |-> [task.staged EXCEPT
                                       !.downloaded = Len(here.part)],
                         body |-> here.part, digest |-> task.digest]
    /\ disk' = [disk EXCEPT ![t0] = Gone]
    /\ task' = Idle

GiveUp(d) ==
    /\ task' = Idle
    /\ disk' = [disk EXCEPT ![t0] = d]
    /\ UNCHANGED retained

Settle ==
    /\ task.pc = "settle" /\ task.sig # "pending"
    /\ \/ task.cancel /\ Keep
       \/ ~task.cancel /\ (task.sig = "failed" \/ ~task.complete) /\ GiveUp(here)
       \/ /\ ~task.cancel /\ task.sig # "failed" /\ task.complete
          /\ task' = [task EXCEPT !.pc = "accept"]
          /\ UNCHANGED <<disk, retained>>
    /\ UNCHANGED <<served, latest, starting, call, swept>>

\* (fault, for a mutant: only the size is checked)
SizeChecked == Len(task.digest) = SizeOf[task.asset]

\* verify_digest: the signature is one of the asset it was fetched for.
Signed == task.digest = Full(task.sig)

Accept ==
    /\ task.pc = "accept"
    /\ \/ ~Signed /\ GiveUp(Gone)
       \/ Signed /\ task.cancel /\ Keep
       \/ Signed /\ ~task.cancel /\ here.part = None /\ GiveUp(here)
       \/ /\ Signed /\ ~task.cancel /\ here.part # None
          /\ disk' = [disk EXCEPT ![t0] = [here EXCEPT !.part = None,
                                                       !.payload = here.part]]
          /\ task' = [task EXCEPT !.pc = "commit"]
          /\ UNCHANGED retained
    /\ UNCHANGED <<served, latest, starting, call, swept>>

Commit ==
    /\ task.pc = "commit"
    /\ GiveUp(IF here.dir
              THEN [here EXCEPT !.rec = [task.staged EXCEPT !.verified = TRUE]]
              ELSE here)
    /\ UNCHANGED <<served, latest, starting, call, swept>>

-----------------------------------------------------------------------------
(* The commands of the frontend: commands.rs and download/queue.rs *)

Goto(k, pc) == call' = [call EXCEPT ![k].pc = pc]

Return(k) == call' = [call EXCEPT ![k] = Resting]

Stop == task' = [task EXCEPT !.cancel = TRUE]

\* update_download up to its candidate.
Download(k) ==
    /\ call[k].pc = "idle" /\ "download" \in Issues[k]
    /\ \E a \in IF latest # None THEN {latest}
                ELSE IF retained # None THEN {retained.staged.asset}
                ELSE IF Resumable THEN Upgrade ELSE {} :
         call' = [call EXCEPT ![k] = [pc |-> "others", asset |-> a]]
    /\ UNCHANGED <<served, disk, latest, retained, task, starting, swept>>

\* cancel_others_and_join
Others(k) ==
    /\ call[k].pc = "others" /\ starting = None
    /\ IF Running /\ task.asset # call[k].asset
       THEN Stop /\ starting' = k /\ Goto(k, "joinOthers")
       ELSE Goto(k, "purge") /\ UNCHANGED <<task, starting>>
    /\ UNCHANGED <<served, disk, latest, retained, swept>>

JoinOthers(k) ==
    /\ call[k].pc = "joinOthers" /\ ~Running
    /\ starting' = None
    /\ Goto(k, "purge")
    /\ UNCHANGED <<served, disk, latest, retained, task, swept>>

Purge(k) ==
    /\ call[k].pc = "purge"
    /\ disk' = Purged({TagOf[call[k].asset]})
    /\ Goto(k, "start")
    /\ UNCHANGED <<served, latest, retained, task, starting, swept>>

Start(k) ==
    /\ call[k].pc = "start" /\ starting = None
    /\ \/ /\ Running /\ task.asset = call[k].asset /\ ~task.cancel    \* joins
          /\ Return(k) /\ UNCHANGED <<task, starting>>
       \/ /\ Running /\ ~(task.asset = call[k].asset /\ ~task.cancel)
          /\ Stop /\ starting' = k /\ Goto(k, "joinStart")
       \/ /\ ~Running
          /\ task' = Spawn(call[k].asset)
          /\ Return(k) /\ UNCHANGED starting
    /\ UNCHANGED <<served, disk, latest, retained, swept>>

\* (fault, for a mutant: the lock is leaked)
JoinStartLeaks(k) ==
    /\ call[k].pc = "joinStart" /\ ~Running
    /\ task' = Spawn(call[k].asset)
    /\ Return(k)
    /\ UNCHANGED <<served, disk, latest, retained, starting, swept>>

JoinStart(k) ==
    /\ call[k].pc = "joinStart" /\ ~Running
    /\ task' = Spawn(call[k].asset)
    /\ starting' = None
    /\ Return(k)
    /\ UNCHANGED <<served, disk, latest, retained, swept>>

\* update_cancel_download: cancel() with the lock, which is taken at once when
\* it is free.
CancelDownload(k) ==
    /\ starting = None
    /\ IF Running THEN Stop ELSE UNCHANGED task
    /\ Return(k)
    /\ UNCHANGED <<served, disk, latest, retained, starting, swept>>

Cancel(k) ==
    /\ call[k].pc = "idle" /\ "cancel" \in Issues[k]
    /\ \/ CancelDownload(k)
       \/ /\ starting # None /\ Goto(k, "cancel")
          /\ UNCHANGED <<served, disk, latest, retained, task, starting, swept>>

\* update_discard: cancel_and_join, forget what is kept, remove the root.
CancelAndJoin(k) ==
    /\ starting = None
    /\ IF Running THEN Stop /\ starting' = k /\ Goto(k, "joinDiscard")
       ELSE Goto(k, "wipe") /\ UNCHANGED <<task, starting>>
    /\ UNCHANGED <<served, disk, latest, retained, swept>>

Discard(k) ==
    /\ call[k].pc = "idle" /\ "discard" \in Issues[k]
    /\ \/ CancelAndJoin(k)
       \/ /\ starting # None /\ Goto(k, "discard")
          /\ UNCHANGED <<served, disk, latest, retained, task, starting, swept>>

JoinDiscard(k) ==
    /\ call[k].pc = "joinDiscard" /\ ~Running
    /\ starting' = None
    /\ Goto(k, "wipe")
    /\ UNCHANGED <<served, disk, latest, retained, task, swept>>

Wipe(k) ==
    /\ call[k].pc = "wipe"
    /\ retained' = None /\ latest' = None
    /\ disk' = [t \in Tag |-> Gone]
    /\ Return(k)
    /\ UNCHANGED <<served, task, starting, swept>>

\* update_check: the index is answered, then applied. A failed check does
\* nothing and is left out.
Check(k) ==
    /\ call[k].pc = "idle" /\ "check" \in Issues[k]
    /\ \E a \in IF Upgrade = {} THEN {None} ELSE Upgrade :
         call' = [call EXCEPT ![k] = [pc |-> "apply", asset |-> a]]
    /\ UNCHANGED <<served, disk, latest, retained, task, starting, swept>>

Apply(k) ==
    /\ call[k].pc = "apply"
    /\ latest' = call[k].asset
    /\ retained' = IF call[k].asset # None /\ Holds(call[k].asset)
                   THEN retained ELSE None
    /\ Return(k)
    /\ UNCHANGED <<served, disk, task, starting, swept>>

-----------------------------------------------------------------------------
(* The launch, the server and the end of the process *)

\* plugin(): a blocking task purges the root once per launch.
Sweep ==
    /\ ~swept
    /\ disk' = Purged(Tag)
    /\ swept' = TRUE
    /\ UNCHANGED <<served, latest, retained, task, starting, call>>

\* A release is published, or its payload uploaded again.
Publish ==
    /\ \E a \in Asset : /\ served[TagOf[a]] = Replaces[a]
                        /\ served' = [served EXCEPT ![TagOf[a]] = a]
    /\ UNCHANGED <<disk, latest, retained, task, starting, call, swept>>

\* The process dies and is launched again: memory is lost, and of the bytes
\* still in the write buffer any prefix has reached the file.
Crash ==
    /\ IF task.pc = "body" /\ here.part # None
       THEN \E n \in task.flushed..Len(here.part) :
              disk' = [disk EXCEPT ![t0].part = Cut(@, n)]
       ELSE UNCHANGED disk
    /\ latest' = None /\ retained' = None /\ task' = Idle
    /\ starting' = None /\ swept' = FALSE
    /\ call' = [k \in Calls |-> Resting]
    /\ UNCHANGED served

-----------------------------------------------------------------------------

TaskStep == \/ Prepare \/ Open \/ Answer \/ Chunk \/ FlushFails \/ Checkpoint
            \/ BodyEnds \/ HaltedInBackoff \/ SignatureAnswers \/ Settle
            \/ Accept \/ Commit

Begin(k) == Download(k) \/ Cancel(k) \/ Discard(k) \/ Check(k)

CallStep(k) ==
    \/ Others(k) \/ JoinOthers(k) \/ Purge(k) \/ Start(k) \/ JoinStart(k)
    \/ call[k].pc = "cancel" /\ CancelDownload(k)
    \/ call[k].pc = "discard" /\ CancelAndJoin(k)
    \/ JoinDiscard(k) \/ Wipe(k) \/ Apply(k)

Next == \/ TaskStep
        \/ \E k \in Calls : Begin(k) \/ CallStep(k)
        \/ Sweep \/ Publish \/ Crash

Spec == Init /\ [][Next]_vars

-----------------------------------------------------------------------------
(* Properties *)

\* A stage that may be installed holds the whole of one signed upload of its
\* release, never a splice of two or a file cut short.
ReadyIsSigned ==
    \A t \in Tag : Ready(disk[t]) =>
        \E a \in Asset : TagOf[a] = t /\ disk[t].payload = Full(a)

\* The stages as StagedRelease sees them; a payload that is no upload of its
\* tag maps to the tag itself, which is no value of the abstract variable.
StagedAs(t) ==
    IF ~Ready(disk[t]) THEN None
    ELSE IF \E a \in Asset : TagOf[a] = t /\ disk[t].payload = Full(a)
    THEN CHOOSE a \in Asset : TagOf[a] = t /\ disk[t].payload = Full(a)
    ELSE t

Abstract == INSTANCE StagedRelease WITH ready <- [t \in Tag |-> StagedAs(t)]

\* The downloader implements StagedRelease: a crash, a resume, a new upload or
\* a purge between any two steps never exposes a half-written stage.
StagesAtOnce == Abstract!Spec

\* What was hashed is what the file holds, however it was resumed, so that the
\* digest verified by accept() is the digest of the file it renames.
Agree(part, digest) == \A i \in 1..Len(part) :
                          i <= Len(digest) => part[i] = digest[i]

HashedIsWritten ==
    /\ task.pc \in {"body", "settle", "accept"} /\ here.part # None
          => Agree(here.part, task.digest)
    /\ task.pc = "accept" /\ here.part # None => here.part = task.digest
    /\ retained # None => Agree(retained.body, retained.digest)

\* A retry asks for exactly what the last attempt left on disk.
RetryLosesNothing ==
    task.pc = "open" /\ task.attempts > 0 /\ here.part # None
        => Len(here.part) = task.staged.downloaded

\* What is left of run(), and within it of an attempt.
Phase(tk) == CASE tk.pc = "prepare" -> 5
               [] tk.pc \in {"open", "answer", "body"} -> 4
               [] tk.pc = "settle" -> 3
               [] tk.pc = "accept" -> 2
               [] OTHER -> 1
Place(tk) == CASE tk.pc = "answer" -> 2 [] tk.pc = "body" -> 1 [] OTHER -> 0

\* How far a transfer is from its end: what is left of run(), of its attempts, of
\* the attempt, of the body and of what to flush; then the signature and a
\* cancellation, which come once.
Left(tk) == <<Phase(tk),
              MaxAttempts + 1 - tk.attempts,
              Place(tk),
              IF tk.pc = "body" THEN SizeOf[tk.source] - Len(tk.digest) ELSE 0,
              IF tk.pc = "body" THEN Len(tk.digest) - tk.flushed ELSE 0,
              IF tk.sig = "pending" THEN 1 ELSE 0,
              IF tk.cancel THEN 0 ELSE 1>>

Precedes(p, q) == \E i \in 1..7 : /\ p[i] \in 0..(q[i] - 1)
                                 /\ \A j \in 1..(i - 1) : p[j] = q[j]

Nearer(new, old) == LET p == Left(new)
                        q == Left(old)
                    IN  Precedes(p, q)

\* No transfer runs for ever, whatever its server, its file, its commands and
\* other uploads do meanwhile: a well-founded order goes down with every step
\* that changes it.
NearerItsEnd ==
    [][Running /\ task' # task => task'.pc = "idle" \/ Nearer(task', task)]_vars

\* A command that holds the lock across an await waits for a transfer that was
\* told to stop, and the lock is never left behind: those who queue on it,
\* however many, wait for the end of one transfer at a time.
LockIsShort ==
    /\ starting # None => call[starting].pc \in Joins /\ (Running => task.cancel)
    /\ \A k \in Calls : call[k].pc \in Joins => starting = k

\* Nobody waits for what will not come: a transfer can always go on, and so can a
\* command, but for one that joins a transfer or queues behind one that does.
NobodyStuck ==
    /\ Running => ENABLED TaskStep
    /\ \A k \in Calls : call[k].pc # "idle"
          => \/ starting \notin {None, k}
             \/ starting # None /\ Running
             \/ ENABLED CallStep(k)
=============================================================================
