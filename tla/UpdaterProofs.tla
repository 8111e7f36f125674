---------------------------- MODULE UpdaterProofs ----------------------------
(***************************************************************************)
(* What Updater promises, for any releases, uploads, sizes, bounds and     *)
(* numbers of commands: only signed uploads are staged, the digest is that *)
(* of the file, and the stages implement StagedRelease.                    *)
(*                                                                         *)
(* TaskFine is the inductive part: what holds, at each step of a transfer, *)
(* between the task and the stage it writes.  It names both by value, so   *)
(* that an action is checked once for the pair it leaves behind.           *)
(***************************************************************************)
EXTENDS Updater, TLAPS, SequenceTheorems

Signed0(t, content) == \E a \in Asset : TagOf[a] = t /\ content = Full(a)

StageFine(t, d) == Ready(d) => Signed0(t, d.payload)

KeptFine(r) == r # None => ~r.staged.verified /\ Agree(r.body, r.digest)

Whole(d, digest) == d.part # None => d.part = digest

TaskFine(tk, d) ==
  /\ tk.asset \in Asset
  /\ tk.sig \in Asset => TagOf[tk.sig] = TagOf[tk.asset]
  /\ tk.pc = "prepare" => tk.digest = <<>>
  /\ tk.pc \in {"prepare", "open", "answer", "body"} => ~tk.complete
  /\ tk.pc # "prepare" => /\ tk.staged \in StagedType
                          /\ tk.staged.asset = tk.asset /\ ~tk.staged.verified
                          /\ tk.sig # "none"
  /\ tk.pc \notin {"prepare", "commit"} =>
       ~Ready(d) /\ (d.part # None => Agree(d.part, tk.digest))
  /\ tk.pc = "answer" /\ d.part # None => Len(d.part) = tk.staged.downloaded
  /\ tk.pc = "answer" /\ d.part = None /\ d.dir => tk.staged.downloaded = 0
  /\ tk.pc \in {"body", "accept"} \/ (tk.pc = "settle" /\ tk.complete) => Whole(d, tk.digest)
  /\ tk.pc = "body" => tk.source \in Asset
  /\ tk.pc = "accept" => tk.sig \in Asset
  /\ tk.pc = "commit" => d.payload = None \/ Signed0(TagOf[tk.asset], d.payload)

ServedFine == \A t \in Tag : served[t] # None => TagOf[served[t]] = t

CallsFine ==
  \A k \in Calls : call[k].pc \in {"others", "joinOthers", "purge", "start", "joinStart"}
                    => call[k].asset \in Asset

IInv ==
  /\ TypeOK
  /\ CallsFine
  /\ ServedFine
  /\ KeptFine(retained)
  /\ \A t \in Tag : StageFine(t, disk[t])
  /\ IF Running THEN TaskFine(task, here) ELSE task = Idle

-----------------------------------------------------------------------------
(* Contents *)

LEMMA FullIsContent == ASSUME NEW a \in Asset
                       PROVE  /\ Full(a) \in Content
                              /\ Len(Full(a)) = SizeOf[a]
  <1>1. SizeOf[a] \in Nat
    BY UpdaterAssumption
  <1> QED BY <1>1 DEF Full, Content

LEMMA CutContent == ASSUME NEW s \in Content, NEW n \in 0..Len(s)
                    PROVE  /\ Cut(s, n) \in Content
                           /\ Len(Cut(s, n)) = n
                           /\ \A i \in 1..n : Cut(s, n)[i] = s[i]
  BY SubSeqProperties DEF Cut, Content

LEMMA CutAll == ASSUME NEW s \in Content
                PROVE  Cut(s, Len(s)) = s
  <1>1. /\ Cut(s, Len(s)) \in Content
        /\ Len(Cut(s, Len(s))) = Len(s)
        /\ \A i \in 1..Len(s) : Cut(s, Len(s))[i] = s[i]
    BY CutContent, LenProperties DEF Content
  <1> QED BY <1>1, SeqEqual DEF Content

\* What agrees with a digest of its own length is what was hashed.
LEMMA AgreeEqual == ASSUME NEW s \in Content, NEW d \in Content, Agree(s, d),
                           Len(s) = Len(d)
                    PROVE  s = d
  BY SeqEqual DEF Agree, Content

LEMMA AgreeCut == ASSUME NEW s \in Content, NEW d \in Content, Agree(s, d),
                         NEW n \in 0..Len(s)
                  PROVE  Agree(Cut(s, n), d)
  BY CutContent DEF Agree

LEMMA AgreeSelf == ASSUME NEW s \in Content PROVE Agree(s, s)
  BY DEF Agree

LEMMA AgreeEmpty == ASSUME NEW d \in Content PROVE Agree(<<>>, d)
  BY DEF Agree

LEMMA EmptyContent == <<>> \in Content /\ Len(<<>>) = 0
  BY DEF Content

\* Prehash::sync brings the digest to the whole of a file it agrees with.
LEMMA SyncWhole == ASSUME NEW s \in Content, NEW d \in Content, Agree(s, d)
                   PROVE  Sync(d, s, Len(s)) = s
  BY AgreeEqual, CutAll DEF Sync

LEMMA AppendContent == ASSUME NEW s \in Content, NEW a \in Asset
                       PROVE  Append(s, a) \in Content
  BY DEF Content

-----------------------------------------------------------------------------
(* Tasks and stages *)

\* A transfer under way, whose attempt may fail.
Under(tk, d) ==
  /\ tk.asset \in Asset
  /\ tk.sig \in Asset => TagOf[tk.sig] = TagOf[tk.asset]
  /\ tk.sig # "none" /\ ~tk.complete
  /\ tk.staged \in StagedType
  /\ tk.staged.asset = tk.asset /\ ~tk.staged.verified
  /\ ~Ready(d) /\ (d.part # None => Agree(d.part, tk.digest))

LEMMA UnderFromFine == ASSUME NEW tk \in TaskType, NEW d \in StageType, TaskFine(tk, d),
                              tk.pc \in {"open", "answer", "body"}
                       PROVE  Under(tk, d)
  BY DEF TaskFine, Under

LEMMA OverFine == ASSUME NEW tk \in TaskType, NEW d \in StageType, Under(tk, d)
                  PROVE  /\ Over(tk) \in TaskType
                         /\ Over(tk).pc # "idle" /\ Over(tk).asset = tk.asset
                         /\ TaskFine(Over(tk), d)
  <1>1. Over(tk) \in TaskType
    BY DEF Over, Closed, TaskType, PC
  <1>2. /\ Over(tk).pc = "settle" /\ Over(tk).asset = tk.asset /\ Over(tk).sig = tk.sig
        /\ Over(tk).staged = tk.staged /\ Over(tk).digest = tk.digest
        /\ Over(tk).complete = tk.complete
    BY DEF Over, Closed, TaskType
  <1> QED BY <1>1, <1>2 DEF TaskFine, Under

LEMMA FailedFine == ASSUME NEW tk \in TaskType, NEW d \in StageType, Under(tk, d),
                           NEW transient \in BOOLEAN
                    PROVE  /\ Failed(tk, transient) \in TaskType
                           /\ Failed(tk, transient).pc # "idle"
                           /\ Failed(tk, transient).asset = tk.asset
                           /\ TaskFine(Failed(tk, transient), d)
  <1> DEFINE n == IF tk.staged.downloaded > tk.carried THEN 0 ELSE tk.stalled + 1
             again == [Closed(tk) EXCEPT !.pc = "open", !.stalled = n]
  <1>1. n \in Nat
    BY DEF TaskType, Under
  <1> HIDE DEF n
  <1>2. again \in TaskType
    BY <1>1 DEF Closed, TaskType, PC
  <1>3. /\ again.pc = "open" /\ again.asset = tk.asset /\ again.sig = tk.sig
        /\ again.staged = tk.staged /\ again.digest = tk.digest
        /\ again.complete = tk.complete
    BY DEF Closed, TaskType
  <1>4. TaskFine(again, d)
    BY <1>2, <1>3 DEF TaskFine, Under
  <1>5. Failed(tk, transient) \in {again, Over(tk)}
    BY DEF Failed, n
  <1> QED BY <1>2, <1>3, <1>4, <1>5, OverFine

LEMMA TransferredFine == ASSUME NEW tk \in TaskType, NEW d \in StageType, Under(tk, d),
                                Whole(d, tk.digest)
                         PROVE  /\ Transferred(tk) \in TaskType
                                /\ Transferred(tk).pc # "idle"
                                /\ Transferred(tk).asset = tk.asset
                                /\ TaskFine(Transferred(tk), d)
  <1>1. Transferred(tk) \in TaskType
    BY DEF Transferred, Over, Closed, TaskType, PC
  <1>2. /\ Transferred(tk).pc = "settle" /\ Transferred(tk).asset = tk.asset
        /\ Transferred(tk).sig = tk.sig /\ Transferred(tk).staged = tk.staged
        /\ Transferred(tk).digest = tk.digest
    BY DEF Transferred, Over, Closed, TaskType
  <1> QED BY <1>1, <1>2 DEF TaskFine, Under

LEMMA GoneFine == ASSUME NEW tk \in TaskType, NEW d \in StageType, TaskFine(tk, d)
                  PROVE  TaskFine(tk, Gone)
  BY DEF TaskFine, Gone, Ready, Whole

LEMMA GoneStage == ASSUME NEW t PROVE Gone \in StageType /\ StageFine(t, Gone)
  BY DEF Gone, StageType, StageFine, Ready

LEMMA IdleTask == Idle \in TaskType
  BY EmptyContent DEF Idle, TaskType, PC

\* The stage of a task that is under way.
LEMMA Here == ASSUME IInv, Running
              PROVE  /\ task \in TaskType /\ task.asset \in Asset
                     /\ t0 \in Tag /\ here \in StageType
                     /\ TaskFine(task, here) /\ StageFine(t0, here)
  <1>1. task \in TaskType /\ TaskFine(task, here) /\ task.asset \in Asset
    BY DEF IInv, TypeOK, TaskFine
  <1>2. t0 \in Tag
    BY <1>1, UpdaterAssumption DEF t0
  <1>3. here \in StageType /\ StageFine(t0, here)
    BY <1>2 DEF IInv, TypeOK, here
  <1> QED BY <1>1, <1>2, <1>3

\* A step of the task that leaves it under way.
LEMMA Goes ==
  ASSUME IInv, Running, NEW tk \in TaskType, NEW d \in StageType,
         tk.pc # "idle", tk.asset = task.asset, TaskFine(tk, d), StageFine(t0, d),
         disk' = [disk EXCEPT ![t0] = d], task' = tk,
         retained' \in HeldType \cup {None}, KeptFine(retained'),
         UNCHANGED <<served, latest, starting, call, swept>>
  PROVE  IInv'
  <1>1. TypeOK'
    BY Here DEF IInv, TypeOK
  <1>2. t0' = t0
    BY DEF t0
  <1>3. here' = d
    BY <1>2, Here DEF IInv, TypeOK, here
  <1>4. \A t \in Tag : StageFine(t, disk'[t])
    BY Here DEF IInv, TypeOK
  <1>5. ServedFine' /\ CallsFine'
    BY DEF IInv, ServedFine, CallsFine
  <1>6. IInv' = (TypeOK' /\ CallsFine' /\ ServedFine' /\ KeptFine(retained')
                 /\ (\A t \in Tag : StageFine(t, disk'[t]))
                 /\ (IF Running' THEN TaskFine(task', here') ELSE task' = Idle))
    BY DEF IInv, KeptFine, StageFine, TaskFine, Ready, PayloadOnDisk, Signed0, Agree, Whole, Full,
           Idle
  <1>7. Running'
    BY DEF Running
  <1> QED BY <1>1, <1>3, <1>4, <1>5, <1>6, <1>7

\* The end of the task.
LEMMA Stops ==
  ASSUME IInv, Running, NEW d \in StageType, StageFine(t0, d),
         disk' = [disk EXCEPT ![t0] = d], task' = Idle,
         retained' \in HeldType \cup {None}, KeptFine(retained'),
         UNCHANGED <<served, latest, starting, call, swept>>
  PROVE  IInv'
  <1>1. TypeOK'
    BY Here, IdleTask DEF IInv, TypeOK
  <1>2. ~Running'
    BY DEF Running, Idle
  <1>3. \A t \in Tag : StageFine(t, disk'[t])
    BY Here DEF IInv, TypeOK
  <1>4. ServedFine' /\ CallsFine'
    BY DEF IInv, ServedFine, CallsFine
  <1> QED BY <1>1, <1>2, <1>3, <1>4 DEF IInv

LEMMA KeptStays == ASSUME IInv, UNCHANGED retained
                   PROVE  retained' \in HeldType \cup {None} /\ KeptFine(retained')
  BY DEF IInv, TypeOK

LEMMA NoneKept == None \in HeldType \cup {None} /\ KeptFine(None)
  BY DEF KeptFine

LEMMA HereAgain == ASSUME IInv, Running PROVE disk = [disk EXCEPT ![t0] = here]
  BY Here DEF IInv, TypeOK, here

-----------------------------------------------------------------------------
(* The steps of the task *)

LEMMA PrepareFine == ASSUME IInv, Prepare PROVE IInv'
  <1> USE DEF Running
  <1> DEFINE known == here.rec # None /\ here.rec.asset = task.asset
             swept0 == IF known THEN here
                       ELSE [here EXCEPT !.part = None, !.payload = None]
             made == [swept0 EXCEPT !.dir = TRUE]
             filled == [made EXCEPT !.part = retained.body, !.rec = retained.staged]
  <1>1. Running /\ task.pc = "prepare" /\ UNCHANGED <<served, latest, starting, call, swept>>
    BY DEF Prepare
  <1>2. /\ task \in TaskType /\ task.asset \in Asset
        /\ t0 \in Tag /\ here \in StageType
        /\ TaskFine(task, here) /\ StageFine(t0, here)
    BY <1>1, Here
  <1>3. made \in StageType /\ made.rec = here.rec
    BY <1>2 DEF StageType
  <1>4. ~(known /\ Ready(here)) => known \/ made.payload = None
    BY <1>2 DEF StageType
  <1>5. known => made.payload = here.payload
    BY <1>2 DEF StageType
  <1>6. ASSUME ~(known /\ Ready(here)) PROVE ~Ready(made)
    BY <1>3, <1>4, <1>5, <1>6 DEF Ready, PayloadOnDisk
  <1> HIDE DEF made
  <1>7. CASE known /\ Ready(here) /\ retained' = None /\ task' = Idle /\ UNCHANGED disk
    BY <1>1, <1>2, <1>7, HereAgain, NoneKept, Stops
  <1>8. CASE /\ ~(known /\ Ready(here)) /\ ~Holds(task.asset)
             /\ retained' = None
             /\ disk' = [disk EXCEPT ![t0] = made]
             /\ task' = [task EXCEPT !.pc = "open", !.sig = "pending",
                            !.staged = IF known
                                       THEN [here.rec EXCEPT !.verified = FALSE]
                                       ELSE Staged(task.asset)]
    <2> DEFINE staged == IF known THEN [here.rec EXCEPT !.verified = FALSE]
                         ELSE Staged(task.asset)
               tk == [task EXCEPT !.pc = "open", !.sig = "pending", !.staged = staged]
    <2>1. staged \in StagedType /\ staged.asset = task.asset /\ ~staged.verified
      BY <1>2 DEF Staged, StagedType, StageType
    <2> HIDE DEF staged
    <2>2. tk \in TaskType
      BY <1>2, <2>1 DEF TaskType, PC
    <2>3. /\ tk.pc = "open" /\ tk.asset = task.asset /\ tk.sig = "pending"
          /\ tk.staged = staged /\ tk.digest = <<>> /\ ~tk.complete
      BY <1>1, <1>2 DEF TaskType, TaskFine
    <2>4. made.part # None => Agree(made.part, <<>>)
      BY EmptyContent DEF Agree
    <2>5. TaskFine(tk, made)
      BY <1>1, <1>2, <1>6, <1>8, <2>1, <2>3, <2>4, UpdaterAssumption DEF TaskFine
    <2> HIDE DEF tk
    <2>6. task' = tk
      BY <1>8 DEF tk, staged
    <2> QED BY <1>1, <1>2, <1>3, <1>6, <1>8, <2>2, <2>3, <2>5, <2>6, NoneKept, Goes
            DEF StageFine
  <1>9. CASE /\ ~(known /\ Ready(here)) /\ Holds(task.asset)
             /\ retained' = None
             /\ disk' = [disk EXCEPT ![t0] = filled]
             /\ task' = [task EXCEPT !.pc = "open", !.sig = "pending",
                            !.staged = retained.staged, !.digest = retained.digest]
    <2> DEFINE tk == [task EXCEPT !.pc = "open", !.sig = "pending",
                            !.staged = retained.staged, !.digest = retained.digest]
    <2>1. /\ retained.staged \in StagedType /\ retained.staged.asset = task.asset
          /\ retained.digest \in Content /\ retained.body \in Content
          /\ ~retained.staged.verified /\ Agree(retained.body, retained.digest)
      BY <1>9 DEF Holds, IInv, TypeOK, HeldType, KeptFine
    <2>2. tk \in TaskType
      BY <1>2, <2>1 DEF TaskType, PC
    <2>3. /\ tk.pc = "open" /\ tk.asset = task.asset /\ tk.sig = "pending"
          /\ tk.staged = retained.staged /\ tk.digest = retained.digest /\ ~tk.complete
      BY <1>1, <1>2 DEF TaskType, TaskFine
    <2>4. /\ filled \in StageType /\ filled.part = retained.body
          /\ filled.rec = retained.staged
      BY <1>3, <2>1 DEF StageType
    <2>5. ~Ready(filled)
      BY <2>1, <2>4 DEF Ready
    <2> HIDE DEF filled
    <2>6. TaskFine(tk, filled)
      BY <1>1, <1>2, <2>1, <2>3, <2>4, <2>5, UpdaterAssumption DEF TaskFine
    <2> HIDE DEF tk
    <2>7. task' = tk
      BY <1>9 DEF tk
    <2> QED BY <1>1, <1>2, <1>9, <2>2, <2>3, <2>4, <2>5, <2>6, <2>7, NoneKept, Goes
            DEF StageFine
  <1>10. ASSUME ~(known /\ Ready(here)), Holds(task.asset),
                NEW n \in 0..Len(retained.body),
                disk' = [disk EXCEPT ![t0] = [made EXCEPT !.part = Cut(retained.body, n)]],
                task' = Idle, UNCHANGED retained
         PROVE  IInv'
    <2> DEFINE d == [made EXCEPT !.part = Cut(retained.body, n)]
    <2>1. retained.body \in Content
      BY <1>10 DEF Holds, IInv, TypeOK, HeldType
    <2>2. d \in StageType /\ d.rec = made.rec /\ d.payload = made.payload
      BY <1>3, <1>10, <2>1, CutContent DEF StageType
    <2>3. StageFine(t0, d)
      BY <1>6, <1>10, <2>2 DEF StageFine, Ready, PayloadOnDisk
    <2> HIDE DEF d
    <2>4. disk' = [disk EXCEPT ![t0] = d]
      BY <1>10 DEF d
    <2> QED BY <1>1, <1>10, <2>2, <2>3, <2>4, KeptStays, Stops
  <1> QED BY <1>7, <1>8, <1>9, <1>10 DEF Prepare, made

LEMMA OpenFine == ASSUME IInv, Open PROVE IInv'
  <1> USE DEF Running
  <1> DEFINE offset == IF here.part = None THEN 0
                       ELSE IF Len(here.part) < task.staged.downloaded
                       THEN Len(here.part) ELSE task.staged.downloaded
             part == IF here.part = None THEN None ELSE Cut(here.part, offset)
             d == [here EXCEPT !.part = part]
             staged == [task.staged EXCEPT !.downloaded = offset]
             tk == [task EXCEPT !.pc = "answer", !.attempts = @ + 1,
                         !.carried = task.staged.downloaded, !.staged = staged]
  <1>1. Running /\ task.pc = "open" /\ UNCHANGED <<served, latest, retained, starting, call, swept>>
    BY DEF Open
  <1>2. /\ task \in TaskType /\ task.asset \in Asset
        /\ t0 \in Tag /\ here \in StageType
        /\ TaskFine(task, here) /\ StageFine(t0, here)
    BY <1>1, Here
  <1>3. /\ here.part \in Content \cup {None} /\ task.staged \in StagedType
        /\ task.digest \in Content /\ task.attempts \in Nat
    BY <1>1, <1>2 DEF StageType, TaskFine, TaskType
  <1>4. /\ offset \in Nat
        /\ here.part = None => offset = 0
        /\ here.part # None => offset \in 0..Len(here.part)
    BY <1>3, LenProperties DEF StagedType, Content
  <1>5. disk' = [disk EXCEPT ![t0] = d] /\ task' = tk
    BY <1>2, <1>3 DEF Open, here, TaskType, IInv, TypeOK
  <1> HIDE DEF offset
  <1>6. /\ part \in Content \cup {None} /\ (part = None <=> here.part = None)
        /\ part # None => Len(part) = offset /\ Agree(part, task.digest)
    <2>1. CASE here.part = None
      BY <2>1
    <2>2. CASE here.part # None
      <3>1. part \in Content /\ Len(part) = offset
        BY <1>3, <1>4, <2>2, CutContent
      <3>2. Agree(part, task.digest)
        BY <1>1, <1>2, <1>3, <1>4, <2>2, AgreeCut DEF TaskFine
      <3> QED BY <2>2, <3>1, <3>2, NoneAssumption
    <2> QED BY <2>1, <2>2
  <1> HIDE DEF part
  <1>7. /\ d \in StageType /\ d.part = part /\ d.rec = here.rec /\ d.payload = here.payload
        /\ d.dir = here.dir
    BY <1>2, <1>6 DEF StageType
  <1>8. staged \in StagedType /\ staged.asset = task.asset /\ ~staged.verified
        /\ staged.downloaded = offset
    <2>1. task.staged.asset = task.asset /\ ~task.staged.verified
      BY <1>1, <1>2 DEF TaskFine
    <2> QED BY <1>3, <1>4, <2>1 DEF StagedType
  <1> HIDE DEF staged
  <1>9. tk \in TaskType
    <2>1. task.staged.downloaded \in Nat
      BY <1>3 DEF StagedType
    <2>2. task.attempts + 1 \in Nat
      BY <1>3
    <2> DEFINE more == task.attempts + 1
               kept == task.staged.downloaded
    <2>3. more \in Nat /\ kept \in Nat
      BY <2>1, <2>2
    <2> HIDE DEF more, kept
    <2>4. [task EXCEPT !.pc = "answer", !.attempts = more, !.carried = kept,
                       !.staged = staged] \in TaskType
      BY <1>2, <1>8, <2>3 DEF TaskType, PC
    <2> QED BY <2>4 DEF more, kept
  <1>10. /\ tk.pc = "answer" /\ tk.asset = task.asset /\ tk.sig = task.sig
         /\ tk.staged = staged /\ tk.digest = task.digest /\ tk.complete = task.complete
    BY <1>2 DEF TaskType
  <1>11. Ready(d) = Ready(here)
    BY <1>7 DEF Ready, PayloadOnDisk
  <1> HIDE DEF d, tk
  <1>12. TaskFine(tk, d)
    <2>1. /\ ~Ready(here) /\ task.sig # "none" /\ ~task.complete
          /\ task.sig \in Asset => TagOf[task.sig] = TagOf[task.asset]
      BY <1>1, <1>2 DEF TaskFine
    <2> QED BY <1>2, <1>4, <1>6, <1>7, <1>8, <1>10, <1>11, <2>1 DEF TaskFine
  <1>13. StageFine(t0, d)
    BY <1>2, <1>7, <1>11 DEF StageFine
  <1> QED BY <1>1, <1>5, <1>7, <1>9, <1>10, <1>12, <1>13, KeptStays, Goes

\* What the steps between two actions of the frontend leave alone.
Beside == UNCHANGED <<served, latest, retained, starting, call, swept>>

\* A failed attempt that leaves the stage d behind.
LEMMA FailsFine ==
  ASSUME IInv, Running, Beside, NEW tk \in TaskType, NEW d \in StageType,
         NEW transient \in BOOLEAN, tk.asset = task.asset, Under(tk, d), StageFine(t0, d),
         disk' = [disk EXCEPT ![t0] = d], task' = Failed(tk, transient)
  PROVE  IInv'
  <1>1. /\ Failed(tk, transient) \in TaskType /\ Failed(tk, transient).pc # "idle"
        /\ Failed(tk, transient).asset = tk.asset /\ TaskFine(Failed(tk, transient), d)
    BY FailedFine
  <1> QED BY <1>1, KeptStays, Goes DEF Beside

LEMMA ReceiveFine ==
  ASSUME IInv, Running, Beside, task.pc = "answer", served[t0] # None,
         NEW staged \in StagedType, staged.asset = task.asset, ~staged.verified,
         NEW part \in Content \cup {None},
         part # None => Agree(part, task.digest) /\ Len(part) = staged.downloaded,
         part = None /\ here.dir => staged.downloaded = 0,
         Receive(staged, part)
  PROVE  IInv'
  <1>1. /\ task \in TaskType /\ task.asset \in Asset
        /\ t0 \in Tag /\ here \in StageType
        /\ TaskFine(task, here) /\ StageFine(t0, here)
    BY Here
  <1>2. CASE here.dir
    <2> DEFINE d == [here EXCEPT !.rec = staged, !.part = part]
               digest == Sync(task.digest, part, staged.downloaded)
               tk == [task EXCEPT !.pc = "body", !.staged = staged, !.source = served[t0],
                          !.flushed = staged.downloaded, !.digest = digest]
    <2>1. task.digest \in Content /\ staged.downloaded \in Nat
      BY <1>1 DEF TaskType, StagedType
    <2>2. digest \in Content /\ (part # None => digest = part)
      <3>1. CASE part # None
        BY <2>1, <3>1, SyncWhole
      <3>2. CASE part = None
        <4>1. staged.downloaded = 0
          BY <1>2, <3>2
        <4>2. Cut(part, 0) = <<>>
          BY SubSeqEmpty DEF Cut
        <4> QED BY <2>1, <3>2, <4>1, <4>2, EmptyContent DEF Sync
      <3> QED BY <3>1, <3>2
    <2>3. disk' = [disk EXCEPT ![t0] = d] /\ task' = tk
      BY <1>1, <1>2 DEF Receive, TaskType
    <2> HIDE DEF digest
    <2>4. served[t0] \in Asset
      BY <1>1 DEF IInv, TypeOK
    <2>5. tk \in TaskType
      BY <1>1, <2>1, <2>2, <2>4 DEF TaskType, PC
    <2>6. /\ tk.pc = "body" /\ tk.asset = task.asset /\ tk.sig = task.sig
          /\ tk.staged = staged /\ tk.digest = digest /\ tk.complete = task.complete
          /\ tk.source = served[t0]
      BY <1>1 DEF TaskType
    <2>7. d \in StageType /\ d.part = part /\ d.rec = staged
      BY <1>1 DEF StageType
    <2>8. ~Ready(d)
      BY <2>7 DEF Ready
    <2>9. d.part # None => Agree(d.part, tk.digest)
      BY <2>2, <2>6, <2>7, AgreeSelf
    <2> HIDE DEF d, tk
    <2>10. TaskFine(tk, d)
      BY <1>1, <2>2, <2>4, <2>6, <2>7, <2>8, <2>9 DEF TaskFine, Whole
    <2> QED BY <1>1, <2>3, <2>5, <2>6, <2>7, <2>8, <2>10, KeptStays, Goes DEF StageFine, Beside
  <1>3. CASE ~here.dir
    <2> DEFINE tk == [task EXCEPT !.staged = staged]
    <2>1. tk \in TaskType
      BY <1>1 DEF TaskType
    <2>2. /\ tk.asset = task.asset /\ tk.sig = task.sig /\ tk.staged = staged
          /\ tk.digest = task.digest /\ tk.complete = task.complete
      BY <1>1 DEF TaskType
    <2>3. task' = Failed(tk, FALSE) /\ disk' = [disk EXCEPT ![t0] = here]
      BY <1>3, HereAgain DEF Receive
    <2> HIDE DEF tk
    <2>4. Under(tk, here)
      BY <1>1, <2>2 DEF Under, TaskFine
    <2> QED BY <1>1, <2>1, <2>2, <2>3, <2>4, FailsFine
  <1> QED BY <1>2, <1>3

LEMMA ReplacedFine ==
  ASSUME IInv, Running, Beside, task.pc \in {"answer", "body"}, Replaced
  PROVE  IInv'
  <1>1. Under(task, here) /\ task \in TaskType
    BY Here, UnderFromFine
  <1>2. Under(task, Gone)
    BY <1>1 DEF Under, Gone, Ready
  <1> QED BY <1>1, <1>2, GoneStage, FailsFine DEF Replaced

LEMMA RestartFine ==
  ASSUME IInv, Running, Beside, task.pc = "answer", Restart
  PROVE  IInv'
  <1> DEFINE staged == [task.staged EXCEPT !.downloaded = 0, !.validator = None]
             d == [here EXCEPT !.part = Truncated, !.rec = IF here.dir THEN staged ELSE None]
             tk == [task EXCEPT !.staged = staged]
  <1>1. /\ task \in TaskType /\ here \in StageType /\ Under(task, here)
    BY Here, UnderFromFine
  <1>2. staged \in StagedType /\ staged.asset = task.asset /\ ~staged.verified
    BY <1>1 DEF StagedType, Under
  <1> HIDE DEF staged
  <1>3. /\ Truncated \in Content \cup {None}
        /\ Truncated # None => Agree(Truncated, task.digest)
    BY <1>1, EmptyContent, AgreeEmpty DEF Truncated, TaskType
  <1>4. /\ d \in StageType /\ d.part = Truncated
        /\ d.rec = IF here.dir THEN staged ELSE None
    BY <1>1, <1>2, <1>3 DEF StageType
  <1>5. /\ tk \in TaskType /\ tk.asset = task.asset /\ tk.sig = task.sig
        /\ tk.staged = staged /\ tk.digest = task.digest /\ tk.complete = task.complete
    BY <1>1, <1>2 DEF TaskType
  <1>6. ~Ready(d)
    BY <1>2, <1>4 DEF Ready
  <1>7. Under(tk, d)
    BY <1>1, <1>2, <1>3, <1>4, <1>5, <1>6 DEF Under
  <1>8. here.dir \in BOOLEAN
    BY <1>1 DEF StageType
  <1>9. disk' = [disk EXCEPT ![t0] = d] /\ task' = Failed(tk, here.dir)
    BY DEF Restart, staged
  <1> HIDE DEF d, tk
  <1> QED BY <1>4, <1>5, <1>6, <1>7, <1>8, <1>9, FailsFine DEF StageFine

LEMMA AnswerFine == ASSUME IInv, Answer PROVE IInv'
  <1>1. Running /\ task.pc = "answer" /\ Beside
    BY DEF Answer, Beside, Running
  <1>2. /\ task \in TaskType /\ task.asset \in Asset
        /\ t0 \in Tag /\ here \in StageType
        /\ TaskFine(task, here) /\ StageFine(t0, here) /\ Under(task, here)
    BY <1>1, Here, UnderFromFine
  <1>3. /\ task.staged \in StagedType /\ here.part \in Content \cup {None}
        /\ here.part # None =>
             Agree(here.part, task.digest) /\ Len(here.part) = task.staged.downloaded
        /\ here.part = None /\ here.dir => task.staged.downloaded = 0
        /\ task.digest \in Content
    BY <1>1, <1>2 DEF TaskFine, StageType, TaskType
  <1>4. ASSUME NEW transient \in BOOLEAN, task' = Failed(task, transient), UNCHANGED disk
        PROVE  IInv'
    BY <1>1, <1>2, <1>4, HereAgain, FailsFine
  <1>5. CASE Replaced
    BY <1>1, <1>5, ReplacedFine
  <1>6. CASE Restart
    BY <1>1, <1>6, RestartFine
  <1>7. CASE served[t0] # None /\ Receive(task.staged, here.part)
    BY <1>1, <1>2, <1>3, <1>7, ReceiveFine DEF Under
  <1>8. ASSUME served[t0] # None, NEW v \in {None, served[t0]},
               Receive([task.staged EXCEPT !.downloaded = 0, !.validator = v], <<>>)
        PROVE  IInv'
    <2> DEFINE staged == [task.staged EXCEPT !.downloaded = 0, !.validator = v]
    <2>1. v \in Asset \cup {None}
      BY <1>2, <1>8 DEF IInv, TypeOK
    <2>2. /\ staged \in StagedType /\ staged.asset = task.asset /\ ~staged.verified
          /\ staged.downloaded = 0
      BY <1>2, <1>3, <2>1 DEF StagedType, Under
    <2> HIDE DEF staged
    <2>3. Receive(staged, <<>>)
      BY <1>8 DEF staged
    <2>4. <<>> # None
      BY EmptyContent, NoneAssumption
    <2> QED BY <1>1, <1>3, <1>8, <2>2, <2>3, <2>4, EmptyContent, AgreeEmpty, ReceiveFine
  <1>9. ASSUME task' = IF here.part = None /\ Len(task.digest) # task.staged.downloaded
                       THEN Failed(task, FALSE)
                       ELSE Transferred([task EXCEPT
                              !.digest = Sync(@, here.part, task.staged.downloaded)]),
               UNCHANGED disk
        PROVE  IInv'
    <2> DEFINE digest == Sync(task.digest, here.part, task.staged.downloaded)
               tk == [task EXCEPT !.digest = digest]
    <2>1. CASE here.part = None /\ Len(task.digest) # task.staged.downloaded
      BY <1>4, <1>9, <2>1
    <2>2. CASE ~(here.part = None /\ Len(task.digest) # task.staged.downloaded)
      <3>1. digest \in Content /\ Whole(here, digest)
        BY <1>3, <2>2, SyncWhole DEF Whole, Sync
      <3>2. task' = Transferred(tk)
        BY <1>2, <1>9, <2>2 DEF TaskType
      <3> HIDE DEF digest
      <3>3. /\ tk \in TaskType /\ tk.asset = task.asset /\ tk.sig = task.sig
            /\ tk.staged = task.staged /\ tk.digest = digest /\ tk.complete = task.complete
        BY <1>2, <3>1 DEF TaskType
      <3> HIDE DEF tk
      <3>4. Under(tk, here)
        BY <1>2, <3>1, <3>3, AgreeSelf DEF Under, Whole
      <3>5. /\ Transferred(tk) \in TaskType /\ Transferred(tk).pc # "idle"
            /\ Transferred(tk).asset = tk.asset /\ TaskFine(Transferred(tk), here)
        BY <1>2, <3>1, <3>3, <3>4, TransferredFine
      <3> QED BY <1>1, <1>2, <1>9, <3>2, <3>3, <3>5, HereAgain, KeptStays, Goes DEF Beside
    <2> QED BY <2>1, <2>2
  <1> QED BY <1>4, <1>5, <1>6, <1>7, <1>8, <1>9 DEF Answer

LEMMA ChunkFine == ASSUME IInv, Chunk PROVE IInv'
  <1>1. Running /\ task.pc = "body" /\ Beside
    BY DEF Chunk, Beside, Running
  <1>2. CASE Replaced
    BY <1>1, <1>2, ReplacedFine
  <1>3. CASE ~Replaced
    <2> DEFINE part == IF here.part = None THEN None ELSE Append(here.part, task.source)
               digest == Append(task.digest, task.source)
               d == [here EXCEPT !.part = part]
               tk == [task EXCEPT !.digest = digest]
    <2>1. /\ task \in TaskType /\ here \in StageType /\ t0 \in Tag
          /\ TaskFine(task, here) /\ StageFine(t0, here)
      BY <1>1, Here
    <2>2. /\ task.source \in Asset /\ task.digest \in Content
          /\ here.part \in Content \cup {None} /\ Whole(here, task.digest)
      BY <1>1, <2>1 DEF TaskFine, TaskType, StageType
    <2>3. disk' = [disk EXCEPT ![t0] = d] /\ task' = tk
      BY <1>3, <2>1 DEF Chunk, here, IInv, TypeOK, TaskType
    <2>4. /\ digest \in Content /\ part \in Content \cup {None}
          /\ part # None => part = digest
      BY <2>2, AppendContent DEF Whole
    <2> HIDE DEF part, digest
    <2>5. /\ tk \in TaskType /\ tk.pc = "body" /\ tk.asset = task.asset /\ tk.sig = task.sig
          /\ tk.staged = task.staged /\ tk.digest = digest /\ tk.source = task.source
          /\ tk.complete = task.complete
      BY <1>1, <2>1, <2>4 DEF TaskType
    <2>6. /\ d \in StageType /\ d.part = part /\ d.rec = here.rec /\ d.payload = here.payload
      BY <2>1, <2>4 DEF StageType
    <2>7. Ready(d) = Ready(here)
      BY <2>6 DEF Ready, PayloadOnDisk
    <2> HIDE DEF d, tk
    <2>8. d.part # None => Agree(d.part, tk.digest)
      BY <2>4, <2>5, <2>6, AgreeSelf
    <2>9. TaskFine(tk, d)
      BY <1>1, <2>1, <2>2, <2>4, <2>5, <2>6, <2>7, <2>8 DEF TaskFine, Whole
    <2>10. StageFine(t0, d)
      BY <2>1, <2>6, <2>7 DEF StageFine
    <2> QED BY <1>1, <2>3, <2>5, <2>6, <2>9, <2>10, KeptStays, Goes DEF Beside
  <1> QED BY <1>2, <1>3

\* A file cut short is of the same stage otherwise.
LEMMA CutStage ==
  ASSUME NEW d \in StageType, d.part # None, NEW n \in 0..Len(d.part)
  PROVE  LET e == [d EXCEPT !.part = Cut(d.part, n)]
         IN  /\ e \in StageType /\ e.part = Cut(d.part, n) /\ Ready(e) = Ready(d)
             /\ e.payload = d.payload /\ e.rec = d.rec
  <1>1. Cut(d.part, n) \in Content
    BY CutContent DEF StageType
  <1> DEFINE e == [d EXCEPT !.part = Cut(d.part, n)]
  <1>2. /\ e \in StageType /\ e.part = Cut(d.part, n)
        /\ e.payload = d.payload /\ e.rec = d.rec
    BY <1>1 DEF StageType
  <1> HIDE DEF e
  <1>3. Ready(e) = Ready(d)
    BY <1>2 DEF Ready, PayloadOnDisk
  <1> QED BY <1>2, <1>3 DEF e

LEMMA FlushFailsFine == ASSUME IInv, FlushFails PROVE IInv'
  <1>1. Running /\ task.pc = "body" /\ Beside /\ task' = Failed(task, FALSE)
    BY DEF FlushFails, Beside, Running
  <1>2. /\ task \in TaskType /\ here \in StageType /\ t0 \in Tag
        /\ Under(task, here) /\ StageFine(t0, here)
    BY <1>1, Here, UnderFromFine
  <1>3. CASE UNCHANGED disk
    BY <1>1, <1>2, <1>3, HereAgain, FailsFine
  <1>4. ASSUME here.part # None, NEW n \in task.flushed..Len(here.part),
               disk' = [disk EXCEPT ![t0].part = Cut(@, n)]
        PROVE  IInv'
    <2> DEFINE d == [here EXCEPT !.part = Cut(here.part, n)]
    <2>1. here.part \in Content /\ n \in 0..Len(here.part) /\ task.digest \in Content
      BY <1>2, <1>4 DEF StageType, TaskType
    <2>2. disk' = [disk EXCEPT ![t0] = d]
      BY <1>2, <1>4 DEF here, IInv, TypeOK
    <2>3. /\ d \in StageType /\ d.part = Cut(here.part, n) /\ Ready(d) = Ready(here)
          /\ d.payload = here.payload
      BY <1>2, <1>4, <2>1, CutStage
    <2> HIDE DEF d
    <2>4. Under(task, d)
      BY <1>2, <1>4, <2>1, <2>3, AgreeCut DEF Under
    <2> QED BY <1>1, <1>2, <2>2, <2>3, <2>4, FailsFine DEF StageFine
  <1> QED BY <1>3, <1>4 DEF FlushFails

\* The record is saved: the file and the digest stay.
LEMMA SavedStage ==
  ASSUME IInv, Running, task.pc = "body"
  PROVE  LET d == [here EXCEPT !.rec = Flushed.staged]
         IN  /\ d \in StageType /\ d.part = here.part /\ StageFine(t0, d)
             /\ Saved = [disk EXCEPT ![t0] = d]
             /\ Flushed \in TaskType /\ Flushed.pc = "body" /\ Flushed.asset = task.asset
             /\ Flushed.digest = task.digest
             /\ TaskFine(Flushed, d) /\ Under(Flushed, d) /\ Whole(d, Flushed.digest)
  <1> DEFINE staged == [task.staged EXCEPT !.downloaded = Len(task.digest)]
             d == [here EXCEPT !.rec = Flushed.staged]
  <1>1. /\ task \in TaskType /\ here \in StageType /\ t0 \in Tag
        /\ TaskFine(task, here) /\ StageFine(t0, here) /\ Under(task, here)
    BY Here, UnderFromFine
  <1>2. Len(task.digest) \in Nat
    BY <1>1, LenProperties DEF TaskType, Content
  <1>3. staged \in StagedType /\ staged.asset = task.asset /\ ~staged.verified
    BY <1>1, <1>2 DEF StagedType, Under
  <1> HIDE DEF staged
  <1>4. Flushed = [task EXCEPT !.staged = staged, !.flushed = Len(task.digest)]
    BY <1>1 DEF Flushed, staged, TaskType
  <1>5. /\ Flushed \in TaskType /\ Flushed.pc = "body" /\ Flushed.asset = task.asset
        /\ Flushed.sig = task.sig /\ Flushed.staged = staged
        /\ Flushed.digest = task.digest /\ Flushed.complete = task.complete
        /\ Flushed.source = task.source
    BY <1>1, <1>2, <1>3, <1>4 DEF TaskType
  <1>6. d \in StageType /\ d.part = here.part /\ d.rec = staged
    BY <1>1, <1>3, <1>5 DEF StageType
  <1>7. Saved = [disk EXCEPT ![t0] = d]
    BY <1>1 DEF Saved, here, IInv, TypeOK
  <1> HIDE DEF d
  <1>8. ~Ready(d) /\ StageFine(t0, d)
    BY <1>3, <1>6 DEF Ready, StageFine
  <1>9. Whole(d, Flushed.digest)
    BY <1>1, <1>5, <1>6 DEF TaskFine, Whole
  <1>10. Under(Flushed, d)
    BY <1>1, <1>3, <1>5, <1>6, <1>8 DEF Under
  <1>11. TaskFine(Flushed, d)
    BY <1>1, <1>3, <1>5, <1>6, <1>8, <1>9 DEF TaskFine
  <1> QED BY <1>5, <1>6, <1>7, <1>8, <1>9, <1>10, <1>11 DEF d

LEMMA CheckpointFine == ASSUME IInv, Checkpoint PROVE IInv'
  <1> DEFINE d == [here EXCEPT !.rec = Flushed.staged]
  <1>1. /\ Running /\ task.pc = "body" /\ Beside /\ disk' = Saved /\ task' = Flushed
    BY DEF Checkpoint, Beside, Running
  <1>2. /\ d \in StageType /\ StageFine(t0, d) /\ Saved = [disk EXCEPT ![t0] = d]
        /\ Flushed \in TaskType /\ Flushed.pc = "body" /\ Flushed.asset = task.asset
        /\ TaskFine(Flushed, d)
    BY <1>1, SavedStage
  <1> HIDE DEF d
  <1> QED BY <1>1, <1>2, KeptStays, Goes DEF Beside

LEMMA BodyEndsFine == ASSUME IInv, BodyEnds PROVE IInv'
  <1> DEFINE d == [here EXCEPT !.rec = Flushed.staged]
  <1>1. Running /\ task.pc = "body" /\ Beside /\ disk' = Saved
    BY DEF BodyEnds, Beside, Running
  <1>2. /\ d \in StageType /\ StageFine(t0, d) /\ Saved = [disk EXCEPT ![t0] = d]
        /\ Flushed \in TaskType /\ Flushed.asset = task.asset
        /\ Under(Flushed, d) /\ Whole(d, Flushed.digest)
    BY <1>1, SavedStage
  <1> HIDE DEF d
  <1>3. ASSUME NEW transient \in BOOLEAN, task' = Failed(Flushed, transient)
        PROVE  IInv'
    BY <1>1, <1>2, <1>3, FailsFine
  <1>4. CASE task' = Transferred(Flushed)
    <2>1. /\ Transferred(Flushed) \in TaskType /\ Transferred(Flushed).pc # "idle"
          /\ Transferred(Flushed).asset = Flushed.asset /\ TaskFine(Transferred(Flushed), d)
      BY <1>2, TransferredFine
    <2> QED BY <1>1, <1>2, <1>4, <2>1, KeptStays, Goes DEF Beside
  <1> QED BY <1>3, <1>4 DEF BodyEnds

LEMMA HaltedFine == ASSUME IInv, HaltedInBackoff PROVE IInv'
  <1>1. /\ Running /\ task.pc = "open" /\ Beside /\ task' = Over(task) /\ UNCHANGED disk
    BY DEF HaltedInBackoff, Beside, Running
  <1>2. /\ task \in TaskType /\ here \in StageType
        /\ Under(task, here) /\ StageFine(t0, here)
    BY <1>1, Here, UnderFromFine
  <1>3. /\ Over(task) \in TaskType /\ Over(task).pc # "idle"
        /\ Over(task).asset = task.asset /\ TaskFine(Over(task), here)
    BY <1>2, OverFine
  <1> QED BY <1>1, <1>2, <1>3, HereAgain, KeptStays, Goes DEF Beside

LEMMA SignatureFine == ASSUME IInv, SignatureAnswers PROVE IInv'
  <1>1. PICK s \in {served[t0], "failed"} \ {None} : task' = [task EXCEPT !.sig = s]
    BY DEF SignatureAnswers
  <1>2. task.sig = "pending" /\ Beside /\ UNCHANGED disk
    BY DEF SignatureAnswers, Beside
  <1>3. Running
    BY <1>2 DEF IInv, Idle
  <1>4. /\ task \in TaskType /\ task.asset \in Asset /\ t0 \in Tag /\ here \in StageType
        /\ TaskFine(task, here) /\ StageFine(t0, here)
    BY <1>3, Here
  <1>5. /\ s \in Asset \cup {"failed"}
        /\ s \in Asset => TagOf[s] = TagOf[task.asset]
    <2>1. served[t0] \in Asset \cup {None} /\ (served[t0] # None => TagOf[served[t0]] = t0)
      BY <1>4 DEF IInv, TypeOK, ServedFine
    <2>2. (s = served[t0] /\ s # None) \/ s = "failed"
      BY <1>1
    <2> QED BY <2>1, <2>2, UpdaterAssumption DEF t0
  <1> DEFINE tk == [task EXCEPT !.sig = s]
  <1>6. /\ tk \in TaskType /\ tk.pc = task.pc /\ tk.asset = task.asset /\ tk.sig = s
        /\ tk.staged = task.staged /\ tk.digest = task.digest
        /\ tk.complete = task.complete /\ tk.source = task.source
    BY <1>4, <1>5 DEF TaskType
  <1>7. task' = tk
    BY <1>1
  <1> HIDE DEF tk
  <1>8. s # "none" /\ (task.pc = "accept" => FALSE)
    BY <1>2, <1>4, <1>5, UpdaterAssumption DEF TaskFine
  <1>9. TaskFine(tk, here)
    BY <1>4, <1>5, <1>6, <1>8 DEF TaskFine
  <1> QED BY <1>2, <1>3, <1>4, <1>6, <1>7, <1>9, HereAgain, KeptStays, Goes DEF Beside, Running

\* Retained::keep ends the task with what it has fetched.
LEMMA KeepFine ==
  ASSUME IInv, Running, task.pc \in {"settle", "accept"}, Keep,
         UNCHANGED <<served, latest, starting, call, swept>>
  PROVE  IInv'
  <1>1. /\ task \in TaskType /\ here \in StageType /\ t0 \in Tag
        /\ TaskFine(task, here)
    BY Here
  <1>2. /\ task.staged \in StagedType /\ ~task.staged.verified /\ task.digest \in Content
        /\ here.part # None => here.part \in Content /\ Agree(here.part, task.digest)
    BY <1>1 DEF TaskFine, TaskType, StageType
  <1>3. retained' \in HeldType \cup {None} /\ KeptFine(retained')
    <2>1. CASE here.part \in {None, <<>>}
      BY <2>1, NoneKept DEF Keep
    <2>2. CASE here.part \notin {None, <<>>}
      <3> DEFINE staged == [task.staged EXCEPT !.downloaded = Len(here.part)]
                 r == [staged |-> staged, body |-> here.part, digest |-> task.digest]
      <3>1. Len(here.part) \in Nat
        BY <1>2, <2>2, LenProperties DEF Content
      <3>2. staged \in StagedType /\ ~staged.verified
        BY <1>2, <3>1 DEF StagedType
      <3>3. retained' = r
        BY <2>2 DEF Keep
      <3> HIDE DEF staged
      <3>4. r \in HeldType /\ KeptFine(r)
        BY <1>2, <2>2, <3>2 DEF HeldType, KeptFine
      <3> QED BY <3>3, <3>4
    <2> QED BY <2>1, <2>2
  <1> QED BY <1>3, GoneStage, Stops DEF Keep

LEMMA GiveUpFine ==
  ASSUME IInv, Running, NEW d \in StageType, StageFine(t0, d), GiveUp(d),
         UNCHANGED <<served, latest, starting, call, swept>>
  PROVE  IInv'
  BY KeptStays, Stops DEF GiveUp

LEMMA SettleFine == ASSUME IInv, Settle PROVE IInv'
  <1>1. /\ Running /\ task.pc = "settle" /\ task.sig # "pending"
        /\ UNCHANGED <<served, latest, starting, call, swept>>
    BY DEF Settle, Running
  <1>2. /\ task \in TaskType /\ here \in StageType /\ t0 \in Tag
        /\ TaskFine(task, here) /\ StageFine(t0, here)
    BY <1>1, Here
  <1>3. CASE Keep
    BY <1>1, <1>3, KeepFine
  <1>4. CASE GiveUp(here)
    BY <1>1, <1>2, <1>4, GiveUpFine
  <1>5. CASE /\ task.sig # "failed" /\ task.complete
             /\ task' = [task EXCEPT !.pc = "accept"]
             /\ UNCHANGED <<disk, retained>>
    <2> DEFINE tk == [task EXCEPT !.pc = "accept"]
    <2>1. /\ tk \in TaskType /\ tk.pc = "accept" /\ tk.asset = task.asset
          /\ tk.sig = task.sig /\ tk.staged = task.staged /\ tk.digest = task.digest
          /\ tk.complete = task.complete
      BY <1>2 DEF TaskType, PC
    <2>2. task.sig \in Asset
      BY <1>1, <1>2, <1>5 DEF TaskFine, TaskType
    <2>3. task' = tk
      BY <1>5
    <2> HIDE DEF tk
    <2>4. TaskFine(tk, here)
      BY <1>1, <1>2, <1>5, <2>1, <2>2 DEF TaskFine
    <2> QED BY <1>1, <1>2, <1>5, <2>1, <2>3, <2>4, HereAgain, KeptStays, Goes
  <1> QED BY <1>3, <1>4, <1>5 DEF Settle

LEMMA AcceptFine == ASSUME IInv, Accept PROVE IInv'
  <1>1. /\ Running /\ task.pc = "accept"
        /\ UNCHANGED <<served, latest, starting, call, swept>>
    BY DEF Accept, Running
  <1>2. /\ task \in TaskType /\ here \in StageType /\ t0 \in Tag
        /\ TaskFine(task, here) /\ StageFine(t0, here)
    BY <1>1, Here
  <1>3. CASE GiveUp(Gone)
    BY <1>1, <1>3, GoneStage, GiveUpFine
  <1>4. CASE Keep
    BY <1>1, <1>4, KeepFine
  <1>5. CASE GiveUp(here)
    BY <1>1, <1>2, <1>5, GiveUpFine
  <1>6. CASE /\ Signed /\ here.part # None
             /\ disk' = [disk EXCEPT ![t0] = [here EXCEPT !.part = None, !.payload = here.part]]
             /\ task' = [task EXCEPT !.pc = "commit"] /\ UNCHANGED retained
    <2> DEFINE d == [here EXCEPT !.part = None, !.payload = here.part]
               tk == [task EXCEPT !.pc = "commit"]
    <2>1. /\ tk \in TaskType /\ tk.pc = "commit" /\ tk.asset = task.asset
          /\ tk.sig = task.sig /\ tk.staged = task.staged /\ tk.digest = task.digest
          /\ tk.complete = task.complete
      BY <1>2 DEF TaskType, PC
    <2>2. d \in StageType /\ d.payload = here.part /\ d.part = None
      BY <1>2 DEF StageType
    <2>3. /\ task.sig \in Asset /\ TagOf[task.sig] = t0 /\ here.part = Full(task.sig)
      BY <1>1, <1>2, <1>6 DEF TaskFine, Signed, Whole, t0
    <2>4. task' = tk /\ disk' = [disk EXCEPT ![t0] = d]
      BY <1>6
    <2> HIDE DEF d, tk
    <2>5. Signed0(t0, d.payload)
      BY <2>2, <2>3 DEF Signed0
    <2>6. TaskFine(tk, d)
      BY <1>1, <1>2, <2>1, <2>2, <2>5 DEF TaskFine, t0
    <2> QED BY <1>1, <1>6, <2>1, <2>2, <2>4, <2>5, <2>6, KeptStays, Goes DEF StageFine
  <1> QED BY <1>3, <1>4, <1>5, <1>6 DEF Accept

LEMMA CommitFine == ASSUME IInv, Commit PROVE IInv'
  <1> DEFINE staged == [task.staged EXCEPT !.verified = TRUE]
             d == [here EXCEPT !.rec = staged]
  <1>1. /\ Running /\ task.pc = "commit"
        /\ UNCHANGED <<served, latest, starting, call, swept>>
    BY DEF Commit, Running
  <1>2. /\ task \in TaskType /\ here \in StageType /\ t0 \in Tag
        /\ TaskFine(task, here) /\ StageFine(t0, here)
    BY <1>1, Here
  <1>3. CASE GiveUp(here)
    BY <1>1, <1>2, <1>3, GiveUpFine
  <1>4. CASE GiveUp(d)
    <2>1. staged \in StagedType
      BY <1>1, <1>2 DEF StagedType, TaskFine
    <2> HIDE DEF staged
    <2>2. d \in StageType /\ d.payload = here.payload
      BY <1>2, <2>1 DEF StageType
    <2> HIDE DEF d
    <2>3. d.payload = None \/ Signed0(t0, d.payload)
      BY <1>1, <1>2, <2>2 DEF TaskFine, t0
    <2>4. StageFine(t0, d)
      BY <2>3 DEF StageFine, Ready, PayloadOnDisk
    <2> QED BY <1>1, <1>4, <2>2, <2>4, GiveUpFine
  <1> QED BY <1>3, <1>4 DEF Commit

-----------------------------------------------------------------------------
(* The commands, the launch and the server *)

\* A step beside the task: it may ask it to stop, and stages may go.
LEMMA AsideFine ==
  ASSUME IInv, TypeOK', CallsFine', ServedFine', KeptFine(retained'),
         \/ task' = task
         \/ Running /\ task' = [task EXCEPT !.cancel = TRUE],
         \A t \in Tag : disk'[t] \in {disk[t], Gone}
  PROVE  IInv'
  <1>1. \A t \in Tag : StageFine(t, disk'[t])
    BY GoneStage DEF IInv
  <1>2. IF task'.pc # "idle" THEN TaskFine(task', disk'[TagOf[task'.asset]]) ELSE task' = Idle
    <2>1. CASE ~Running
      BY <2>1 DEF IInv, Running, Idle
    <2>2. CASE Running
      <3>1. /\ task \in TaskType /\ task.asset \in Asset /\ t0 \in Tag
            /\ here \in StageType /\ TaskFine(task, here)
        BY <2>2, Here
      <3>2. /\ task'.pc = task.pc /\ task'.asset = task.asset /\ task'.sig = task.sig
            /\ task'.staged = task.staged /\ task'.digest = task.digest
            /\ task'.complete = task.complete /\ task'.source = task.source
        BY <3>1 DEF TaskType
      <3>3. disk'[t0] = here \/ disk'[t0] = Gone
        BY <3>1 DEF here
      <3> DEFINE d == disk'[t0]
      <3>4. TaskFine(task, d)
        BY <3>1, <3>3, GoneFine
      <3> HIDE DEF d
      <3>5. TaskFine(task', d)
        BY <3>2, <3>4 DEF TaskFine
      <3>6. d = disk'[TagOf[task'.asset]]
        BY <3>2 DEF d, t0
      <3> QED BY <2>2, <3>2, <3>5, <3>6 DEF Running
    <2> QED BY <2>1, <2>2
  <1>3. IInv' = (TypeOK' /\ CallsFine' /\ ServedFine' /\ KeptFine(retained')
                 /\ (\A t \in Tag : StageFine(t, disk'[t]))
                 /\ (IF task'.pc # "idle" THEN TaskFine(task', disk'[TagOf[task'.asset]])
                     ELSE task' = Idle))
    BY DEF IInv, KeptFine, StageFine, TaskFine, Ready, PayloadOnDisk, Signed0, Agree, Whole, Full,
           Idle, Running, here, t0
  <1> QED BY <1>1, <1>2, <1>3

LEMMA StopType == ASSUME IInv, Stop PROVE task' \in TaskType
  BY DEF Stop, IInv, TypeOK, TaskType

LEMMA GotoType ==
  ASSUME IInv, NEW k \in Calls, NEW pc \in CallPC, Goto(k, pc),
         pc \in {"others", "joinOthers", "purge", "start", "joinStart"}
           => call[k].asset \in Asset
  PROVE  call' \in [Calls -> CallType] /\ CallsFine'
  BY DEF Goto, IInv, TypeOK, CallType, CallsFine

LEMMA ReturnType ==
  ASSUME IInv, NEW k \in Calls, Return(k)
  PROVE  call' \in [Calls -> CallType] /\ CallsFine'
  BY DEF Return, IInv, TypeOK, CallType, CallPC, CallsFine, Resting

LEMMA UpgradeType == ASSUME IInv PROVE Upgrade \subseteq Asset
  BY DEF Upgrade, Newest, IInv, TypeOK

LEMMA PurgedType ==
  ASSUME IInv, NEW T
  PROVE  /\ Purged(T) \in [Tag -> StageType]
         /\ \A t \in Tag : Purged(T)[t] \in {disk[t], Gone}
  BY GoneStage DEF Purged, IInv, TypeOK

LEMMA SpawnsFine ==
  ASSUME IInv, NEW a \in Asset, task' = Spawn(a), call' \in [Calls -> CallType], CallsFine',
         starting' \in Calls \cup {None}, UNCHANGED <<served, disk, latest, retained, swept>>
  PROVE  IInv'
  <1>1. /\ task' \in TaskType /\ task'.pc = "prepare" /\ task'.asset = a
        /\ task'.sig = "none" /\ task'.digest = <<>> /\ ~task'.complete
    BY IdleTask DEF Spawn, Idle, TaskType, PC
  <1>2. TypeOK'
    BY <1>1 DEF IInv, TypeOK
  <1> DEFINE d == disk[TagOf[a]]
  <1>3. TaskFine(task', d)
    <2> HIDE DEF d
    <2> QED BY <1>1, UpdaterAssumption DEF TaskFine
  <1>4. here' = d
    BY <1>1 DEF here, t0
  <1> HIDE DEF d
  <1>5. Running'
    BY <1>1 DEF Running
  <1>6. ServedFine' /\ KeptFine(retained') /\ \A t \in Tag : StageFine(t, disk'[t])
    BY DEF IInv, ServedFine
  <1>7. IInv' = (TypeOK' /\ CallsFine' /\ ServedFine' /\ KeptFine(retained')
                 /\ (\A t \in Tag : StageFine(t, disk'[t]))
                 /\ (IF Running' THEN TaskFine(task', here') ELSE task' = Idle))
    BY DEF IInv, KeptFine, StageFine, TaskFine, Ready, PayloadOnDisk, Signed0, Agree, Whole, Full,
           Idle
  <1> QED BY <1>2, <1>3, <1>4, <1>5, <1>6, <1>7

LEMMA DownloadFine == ASSUME IInv, NEW k \in Calls, Download(k) PROVE IInv'
  <1>1. UNCHANGED <<served, disk, latest, retained, task, starting, swept>>
    BY DEF Download
  <1>2. PICK a \in IF latest # None THEN {latest}
                   ELSE IF retained # None THEN {retained.staged.asset}
                   ELSE IF Resumable THEN Upgrade ELSE {} :
               call' = [call EXCEPT ![k] = [pc |-> "others", asset |-> a]]
    BY DEF Download
  <1>3. a \in Asset
    BY <1>2, UpgradeType DEF IInv, TypeOK, HeldType, StagedType
  <1>4. TypeOK' /\ CallsFine'
    BY <1>1, <1>2, <1>3 DEF IInv, TypeOK, CallsFine, CallType, CallPC
  <1> QED BY <1>1, <1>4, AsideFine DEF IInv, ServedFine

LEMMA OthersFine == ASSUME IInv, NEW k \in Calls, Others(k) PROVE IInv'
  <1>1. /\ call[k].pc = "others" /\ UNCHANGED <<served, disk, latest, retained, swept>>
        /\ call[k].asset \in Asset
    BY DEF Others, IInv, CallsFine
  <1>2. ServedFine' /\ KeptFine(retained')
    BY <1>1 DEF IInv, ServedFine
  <1>3. CASE Running /\ Stop /\ starting' = k /\ Goto(k, "joinOthers")
    <2>1. task' \in TaskType /\ call' \in [Calls -> CallType] /\ CallsFine'
      BY <1>1, <1>3, StopType, GotoType DEF CallPC
    <2>2. TypeOK'
      BY <1>1, <1>3, <2>1 DEF IInv, TypeOK
    <2> QED BY <1>1, <1>2, <1>3, <2>1, <2>2, AsideFine DEF Stop
  <1>4. CASE Goto(k, "purge") /\ UNCHANGED <<task, starting>>
    <2>1. call' \in [Calls -> CallType] /\ CallsFine'
      BY <1>1, <1>4, GotoType DEF CallPC
    <2>2. TypeOK'
      BY <1>1, <1>4, <2>1 DEF IInv, TypeOK
    <2> QED BY <1>1, <1>2, <1>4, <2>1, <2>2, AsideFine
  <1> QED BY <1>3, <1>4 DEF Others

LEMMA JoinOthersFine == ASSUME IInv, NEW k \in Calls, JoinOthers(k) PROVE IInv'
  <1>1. /\ call[k].pc = "joinOthers" /\ starting' = None /\ Goto(k, "purge")
        /\ UNCHANGED <<served, disk, latest, retained, task, swept>>
        /\ call[k].asset \in Asset
    BY DEF JoinOthers, IInv, CallsFine
  <1>2. call' \in [Calls -> CallType] /\ CallsFine'
    BY <1>1, GotoType DEF CallPC
  <1>3. TypeOK' /\ ServedFine' /\ KeptFine(retained')
    BY <1>1, <1>2 DEF IInv, TypeOK, ServedFine
  <1> QED BY <1>1, <1>2, <1>3, AsideFine

LEMMA PurgeFine == ASSUME IInv, NEW k \in Calls, Purge(k) PROVE IInv'
  <1>1. /\ call[k].pc = "purge" /\ disk' = Purged({TagOf[call[k].asset]}) /\ Goto(k, "start")
        /\ UNCHANGED <<served, latest, retained, task, starting, swept>>
        /\ call[k].asset \in Asset
    BY DEF Purge, IInv, CallsFine
  <1>2. call' \in [Calls -> CallType] /\ CallsFine'
    BY <1>1, GotoType DEF CallPC
  <1>3. disk' \in [Tag -> StageType] /\ \A t \in Tag : disk'[t] \in {disk[t], Gone}
    BY <1>1, PurgedType
  <1>4. TypeOK' /\ ServedFine' /\ KeptFine(retained')
    BY <1>1, <1>2, <1>3 DEF IInv, TypeOK, ServedFine
  <1> QED BY <1>1, <1>2, <1>3, <1>4, AsideFine

LEMMA StartFine == ASSUME IInv, NEW k \in Calls, Start(k) PROVE IInv'
  <1>1. /\ call[k].pc = "start" /\ UNCHANGED <<served, disk, latest, retained, swept>>
        /\ call[k].asset \in Asset
    BY DEF Start, IInv, CallsFine
  <1>2. ServedFine' /\ KeptFine(retained')
    BY <1>1 DEF IInv, ServedFine
  <1>3. CASE Return(k) /\ UNCHANGED <<task, starting>>
    <2>1. call' \in [Calls -> CallType] /\ CallsFine'
      BY <1>3, ReturnType
    <2>2. TypeOK'
      BY <1>1, <1>3, <2>1 DEF IInv, TypeOK
    <2> QED BY <1>1, <1>2, <1>3, <2>1, <2>2, AsideFine
  <1>4. CASE Running /\ Stop /\ starting' = k /\ Goto(k, "joinStart")
    <2>1. task' \in TaskType /\ call' \in [Calls -> CallType] /\ CallsFine'
      BY <1>1, <1>4, StopType, GotoType DEF CallPC
    <2>2. TypeOK'
      BY <1>1, <1>4, <2>1 DEF IInv, TypeOK
    <2> QED BY <1>1, <1>2, <1>4, <2>1, <2>2, AsideFine DEF Stop
  <1>5. CASE task' = Spawn(call[k].asset) /\ Return(k) /\ UNCHANGED starting
    <2>1. call' \in [Calls -> CallType] /\ CallsFine'
      BY <1>5, ReturnType
    <2> QED BY <1>1, <1>5, <2>1, SpawnsFine DEF IInv, TypeOK
  <1> QED BY <1>3, <1>4, <1>5 DEF Start

LEMMA JoinStartFine == ASSUME IInv, NEW k \in Calls, JoinStart(k) PROVE IInv'
  <1>1. /\ call[k].pc = "joinStart" /\ starting' = None /\ Return(k)
        /\ task' = Spawn(call[k].asset)
        /\ UNCHANGED <<served, disk, latest, retained, swept>>
        /\ call[k].asset \in Asset
    BY DEF JoinStart, IInv, CallsFine
  <1>2. call' \in [Calls -> CallType] /\ CallsFine'
    BY <1>1, ReturnType
  <1> QED BY <1>1, <1>2, SpawnsFine

LEMMA CancelDownloadFine ==
  ASSUME IInv, NEW k \in Calls, CancelDownload(k) PROVE IInv'
  <1>1. /\ Return(k)
        /\ UNCHANGED task \/ (Running /\ Stop)
        /\ UNCHANGED <<served, disk, latest, retained, starting, swept>>
    BY DEF CancelDownload
  <1>2. call' \in [Calls -> CallType] /\ CallsFine'
    BY <1>1, ReturnType
  <1>3. task' \in TaskType
    BY <1>1, StopType DEF IInv, TypeOK
  <1>4. TypeOK' /\ ServedFine' /\ KeptFine(retained')
    BY <1>1, <1>2, <1>3 DEF IInv, TypeOK, ServedFine
  <1> QED BY <1>1, <1>2, <1>4, AsideFine DEF Stop

LEMMA CancelAndJoinFine ==
  ASSUME IInv, NEW k \in Calls, CancelAndJoin(k) PROVE IInv'
  <1>1. UNCHANGED <<served, disk, latest, retained, swept>>
    BY DEF CancelAndJoin
  <1>2. ServedFine' /\ KeptFine(retained')
    BY <1>1 DEF IInv, ServedFine
  <1>3. CASE Running /\ Stop /\ starting' = k /\ Goto(k, "joinDiscard")
    <2>1. task' \in TaskType /\ call' \in [Calls -> CallType] /\ CallsFine'
      BY <1>3, StopType, GotoType DEF CallPC
    <2>2. TypeOK'
      BY <1>1, <1>3, <2>1 DEF IInv, TypeOK
    <2> QED BY <1>1, <1>2, <1>3, <2>1, <2>2, AsideFine DEF Stop
  <1>4. CASE Goto(k, "wipe") /\ UNCHANGED <<task, starting>>
    <2>1. call' \in [Calls -> CallType] /\ CallsFine'
      BY <1>4, GotoType DEF CallPC
    <2>2. TypeOK'
      BY <1>1, <1>4, <2>1 DEF IInv, TypeOK
    <2> QED BY <1>1, <1>2, <1>4, <2>1, <2>2, AsideFine
  <1> QED BY <1>3, <1>4 DEF CancelAndJoin

\* A command that finds the lock taken.
LEMMA WaitsFine ==
  ASSUME IInv, NEW k \in Calls, NEW pc \in {"cancel", "discard"}, Goto(k, pc),
         UNCHANGED <<served, disk, latest, retained, task, starting, swept>>
  PROVE  IInv'
  <1>1. call' \in [Calls -> CallType] /\ CallsFine'
    BY GotoType DEF CallPC
  <1>2. TypeOK' /\ ServedFine' /\ KeptFine(retained')
    BY <1>1 DEF IInv, TypeOK, ServedFine
  <1> QED BY <1>1, <1>2, AsideFine

LEMMA CancelFine == ASSUME IInv, NEW k \in Calls, Cancel(k) PROVE IInv'
  BY CancelDownloadFine, WaitsFine DEF Cancel

LEMMA DiscardFine == ASSUME IInv, NEW k \in Calls, Discard(k) PROVE IInv'
  BY CancelAndJoinFine, WaitsFine DEF Discard

LEMMA JoinDiscardFine == ASSUME IInv, NEW k \in Calls, JoinDiscard(k) PROVE IInv'
  <1>1. /\ starting' = None /\ Goto(k, "wipe")
        /\ UNCHANGED <<served, disk, latest, retained, task, swept>>
    BY DEF JoinDiscard
  <1>2. call' \in [Calls -> CallType] /\ CallsFine'
    BY <1>1, GotoType DEF CallPC
  <1>3. TypeOK' /\ ServedFine' /\ KeptFine(retained')
    BY <1>1, <1>2 DEF IInv, TypeOK, ServedFine
  <1> QED BY <1>1, <1>2, <1>3, AsideFine

LEMMA WipeFine == ASSUME IInv, NEW k \in Calls, Wipe(k) PROVE IInv'
  <1>1. /\ retained' = None /\ latest' = None /\ disk' = [t \in Tag |-> Gone] /\ Return(k)
        /\ UNCHANGED <<served, task, starting, swept>>
    BY DEF Wipe
  <1>2. call' \in [Calls -> CallType] /\ CallsFine'
    BY <1>1, ReturnType
  <1>3. TypeOK' /\ ServedFine' /\ KeptFine(retained')
    BY <1>1, <1>2, GoneStage, NoneKept DEF IInv, TypeOK, ServedFine
  <1> QED BY <1>1, <1>2, <1>3, AsideFine

LEMMA CheckFine == ASSUME IInv, NEW k \in Calls, Check(k) PROVE IInv'
  <1>1. UNCHANGED <<served, disk, latest, retained, task, starting, swept>>
    BY DEF Check
  <1>2. PICK a \in IF Upgrade = {} THEN {None} ELSE Upgrade :
               call' = [call EXCEPT ![k] = [pc |-> "apply", asset |-> a]]
    BY DEF Check
  <1>3. a \in Asset \cup {None}
    BY <1>2, UpgradeType
  <1>4. TypeOK' /\ CallsFine'
    BY <1>1, <1>2, <1>3 DEF IInv, TypeOK, CallsFine, CallType, CallPC
  <1> QED BY <1>1, <1>4, AsideFine DEF IInv, ServedFine

LEMMA ApplyFine == ASSUME IInv, NEW k \in Calls, Apply(k) PROVE IInv'
  <1>1. /\ latest' = call[k].asset /\ retained' \in {retained, None} /\ Return(k)
        /\ UNCHANGED <<served, disk, task, starting, swept>>
    BY DEF Apply
  <1>2. call' \in [Calls -> CallType] /\ CallsFine'
    BY <1>1, ReturnType
  <1>3. TypeOK' /\ ServedFine' /\ KeptFine(retained')
    BY <1>1, <1>2, NoneKept DEF IInv, TypeOK, ServedFine, CallType
  <1> QED BY <1>1, <1>2, <1>3, AsideFine

LEMMA SweepFine == ASSUME IInv, Sweep PROVE IInv'
  <1>1. /\ disk' = Purged(Tag) /\ swept' = TRUE
        /\ UNCHANGED <<served, latest, retained, task, starting, call>>
    BY DEF Sweep
  <1>2. disk' \in [Tag -> StageType] /\ \A t \in Tag : disk'[t] \in {disk[t], Gone}
    BY <1>1, PurgedType
  <1>3. TypeOK' /\ CallsFine' /\ ServedFine' /\ KeptFine(retained')
    BY <1>1, <1>2 DEF IInv, TypeOK, CallsFine, ServedFine
  <1> QED BY <1>1, <1>2, <1>3, AsideFine

LEMMA PublishFine == ASSUME IInv, Publish PROVE IInv'
  <1>1. PICK a \in Asset : served' = [served EXCEPT ![TagOf[a]] = a]
    BY DEF Publish
  <1>2. UNCHANGED <<disk, latest, retained, task, starting, call, swept>>
    BY DEF Publish
  <1>3. TypeOK' /\ CallsFine' /\ ServedFine' /\ KeptFine(retained')
    BY <1>1, <1>2 DEF IInv, TypeOK, CallsFine, ServedFine
  <1> QED BY <1>2, <1>3, AsideFine

LEMMA CrashFine == ASSUME IInv, Crash PROVE IInv'
  <1>1. /\ latest' = None /\ retained' = None /\ task' = Idle /\ starting' = None
        /\ swept' = FALSE /\ call' = [k \in Calls |-> Resting] /\ UNCHANGED served
    BY DEF Crash
  <1>2. CallsFine' /\ ServedFine' /\ KeptFine(retained') /\ ~Running'
    BY <1>1, NoneKept DEF CallsFine, Resting, IInv, ServedFine, Running, Idle
  <1>3. CASE UNCHANGED disk
    <2>1. TypeOK'
      BY <1>1, <1>3, IdleTask DEF IInv, TypeOK, CallType, CallPC, Resting
    <2>2. \A t \in Tag : StageFine(t, disk'[t])
      BY <1>3 DEF IInv
    <2> QED BY <1>1, <1>2, <2>1, <2>2 DEF IInv
  <1>4. ASSUME task.pc = "body", here.part # None, NEW n \in task.flushed..Len(here.part),
               disk' = [disk EXCEPT ![t0].part = Cut(@, n)]
        PROVE  IInv'
    <2> DEFINE d == [here EXCEPT !.part = Cut(here.part, n)]
    <2>1. /\ task \in TaskType /\ here \in StageType /\ t0 \in Tag /\ StageFine(t0, here)
      BY <1>4, Here DEF Running
    <2>2. here.part \in Content /\ n \in 0..Len(here.part)
      BY <1>4, <2>1 DEF StageType, TaskType
    <2>3. disk' = [disk EXCEPT ![t0] = d]
      BY <1>4, <2>1 DEF here, IInv, TypeOK
    <2>4. /\ d \in StageType /\ Ready(d) = Ready(here) /\ d.payload = here.payload
      BY <1>4, <2>1, <2>2, CutStage
    <2> HIDE DEF d
    <2>5. StageFine(t0, d)
      BY <2>1, <2>4 DEF StageFine
    <2>6. TypeOK'
      BY <1>1, <2>1, <2>3, <2>4, IdleTask DEF IInv, TypeOK, CallType, CallPC, Resting
    <2>7. \A t \in Tag : StageFine(t, disk'[t])
      BY <2>1, <2>3, <2>5 DEF IInv, TypeOK
    <2> QED BY <1>1, <1>2, <2>6, <2>7 DEF IInv
  <1> QED BY <1>3, <1>4 DEF Crash

-----------------------------------------------------------------------------
LEMMA InitIInv == Init => IInv
  <1> SUFFICES ASSUME Init PROVE IInv
    OBVIOUS
  <1>1. TypeOK
    BY GoneStage, IdleTask DEF Init, TypeOK, CallType, CallPC, Resting
  <1>2. CallsFine /\ ServedFine /\ KeptFine(retained) /\ ~Running
    BY NoneKept DEF Init, CallsFine, ServedFine, Resting, Running, Idle
  <1>3. \A t \in Tag : StageFine(t, disk[t])
    BY GoneStage DEF Init
  <1> QED BY <1>1, <1>2, <1>3 DEF IInv, Init

LEMMA NextIInv == IInv /\ [Next]_vars => IInv'
  <1> SUFFICES ASSUME IInv, [Next]_vars PROVE IInv'
    OBVIOUS
  <1>1. CASE TaskStep
    BY <1>1, PrepareFine, OpenFine, AnswerFine, ChunkFine, FlushFailsFine, CheckpointFine,
       BodyEndsFine, HaltedFine, SignatureFine, SettleFine, AcceptFine, CommitFine DEF TaskStep
  <1>2. ASSUME NEW k \in Calls, Begin(k) \/ CallStep(k)
        PROVE  IInv'
    <2>1. CASE Begin(k)
      BY <2>1, DownloadFine, CancelFine, DiscardFine, CheckFine DEF Begin
    <2>2. CASE CallStep(k)
      BY <2>2, OthersFine, JoinOthersFine, PurgeFine, StartFine, JoinStartFine,
         CancelDownloadFine, CancelAndJoinFine, JoinDiscardFine, WipeFine, ApplyFine
         DEF CallStep
    <2> QED BY <1>2, <2>1, <2>2
  <1>3. CASE Sweep \/ Publish \/ Crash
    BY <1>3, SweepFine, PublishFine, CrashFine
  <1>4. CASE UNCHANGED vars
    <2>1. TypeOK' /\ CallsFine' /\ ServedFine' /\ KeptFine(retained')
      BY <1>4 DEF vars, IInv, TypeOK, CallsFine, ServedFine
    <2> QED BY <1>4, <2>1, AsideFine DEF vars
  <1> QED BY <1>1, <1>2, <1>3, <1>4 DEF Next

(***************************************************************************)
(* Every variable keeps its type.                                          *)
(***************************************************************************)
THEOREM TypeCorrect == Spec => []TypeOK
  <1>1. IInv => TypeOK
    BY DEF IInv
  <1> QED BY <1>1, InitIInv, NextIInv, PTL DEF Spec

(***************************************************************************)
(* Whatever the server, the disk, the frontend and the process do, a stage *)
(* that may be installed is one whole signed upload of its release         *)
(* (run.rs, transfer.rs, resume.rs, stage.rs, storage/mod.rs).             *)
(***************************************************************************)
THEOREM StagesAreSigned == Spec => []ReadyIsSigned
  <1>1. IInv => ReadyIsSigned
    BY DEF IInv, ReadyIsSigned, StageFine, Signed0
  <1> QED BY <1>1, InitIInv, NextIInv, PTL DEF Spec

(***************************************************************************)
(* The running digest never departs from the bytes of the file it stands   *)
(* for, on disk or retained (body.rs, resume.rs, retained.rs).             *)
(***************************************************************************)
THEOREM DigestsAreOfFiles == Spec => []HashedIsWritten
  <1>1. IInv => HashedIsWritten
    <2> SUFFICES ASSUME IInv PROVE HashedIsWritten
      OBVIOUS
    <2>1. retained # None => Agree(retained.body, retained.digest)
      BY DEF IInv, KeptFine
    <2>2. ASSUME task.pc \in {"body", "settle", "accept"}, here.part # None
          PROVE  /\ Agree(here.part, task.digest)
                 /\ task.pc = "accept" => here.part = task.digest
      BY <2>2 DEF IInv, Running, TaskFine, Whole
    <2> QED BY <2>1, <2>2 DEF HashedIsWritten
  <1> QED BY <1>1, InitIInv, NextIInv, PTL DEF Spec

-----------------------------------------------------------------------------
(* A retry *)

\* RetryLosesNothing, and a transfer has made no attempt before its first.
Resumes ==
  /\ RetryLosesNothing
  /\ task.pc = "prepare" => task.attempts = 0

\* An attempt that fails is made again only for a transient cause, from the
\* record it left.
LEMMA FailedAgain ==
  ASSUME NEW tk \in TaskType, NEW transient \in BOOLEAN
  PROVE  LET next == Failed(tk, transient)
         IN  /\ next.pc \in {"open", "settle"} /\ next.asset = tk.asset
             /\ next.pc = "open" => transient /\ next.staged = tk.staged
  BY DEF Failed, Over, Closed, TaskType

\* What an attempt that fails leaves in the stage.
LEMMA AgainResumes ==
  ASSUME IInv, Running, NEW tk \in TaskType, tk.asset = task.asset,
         NEW transient \in BOOLEAN, NEW d,
         task' = Failed(tk, transient), disk' = [disk EXCEPT ![t0] = d],
         transient /\ d.part # None => Len(d.part) = tk.staged.downloaded
  PROVE  Resumes'
  <1>1. /\ task'.pc \in {"open", "settle"} /\ task'.asset = task.asset
        /\ task'.pc = "open" => transient /\ task'.staged = tk.staged
    BY FailedAgain
  <1>2. here' = d
    BY <1>1, Here DEF IInv, TypeOK, here, t0
  <1> QED BY <1>1, <1>2 DEF Resumes, RetryLosesNothing

\* A step that leaves the task as it is but for its signature or its flag, and
\* may remove its stage.
LEMMA AsideResumes ==
  ASSUME IInv, Resumes, task'.pc = task.pc, task'.asset = task.asset,
         task'.attempts = task.attempts, task'.staged = task.staged,
         \A t \in Tag : disk'[t] \in {disk[t], Gone}
  PROVE  Resumes'
  <1>1. CASE task.pc # "open"
    BY <1>1 DEF Resumes, RetryLosesNothing
  <1>2. CASE task.pc = "open"
    <2>1. t0 \in Tag
      BY <1>2, Here DEF Running
    <2>2. here' \in {here, Gone}
      BY <2>1 DEF here, t0
    <2> QED BY <1>2, <2>2 DEF Resumes, RetryLosesNothing, Gone
  <1> QED BY <1>1, <1>2

\* A step that leaves the task in a place where nothing is asked of it.
LEMMA ElsewhereResumes == ASSUME task'.pc \notin {"prepare", "open"} PROVE Resumes'
  BY DEF Resumes, RetryLosesNothing

LEMMA AnswerResumes == ASSUME IInv, Answer PROVE Resumes'
  <1>1. /\ Running /\ task.pc = "answer" /\ task \in TaskType
        /\ t0 \in Tag /\ here \in StageType /\ TaskFine(task, here)
    BY Here DEF Answer, Running
  <1>2. here.part # None => Len(here.part) = task.staged.downloaded
    BY <1>1 DEF TaskFine
  <1>3. /\ task.staged \in StagedType /\ task.digest \in Content
        /\ task.staged.downloaded \in Nat
    BY <1>1 DEF TaskFine, TaskType, StagedType
  <1>4. ASSUME NEW transient \in BOOLEAN, task' = Failed(task, transient), UNCHANGED disk
        PROVE  Resumes'
    BY <1>1, <1>2, <1>4, HereAgain, AgainResumes
  <1>5. CASE Replaced
    BY <1>1, <1>5, AgainResumes DEF Replaced
  <1>6. CASE Restart
    <2> DEFINE staged == [task.staged EXCEPT !.downloaded = 0, !.validator = None]
               d == [here EXCEPT !.part = Truncated, !.rec = IF here.dir THEN staged ELSE None]
               tk == [task EXCEPT !.staged = staged]
    <2>1. staged \in StagedType /\ staged.downloaded = 0
      BY <1>3 DEF StagedType
    <2>2. disk' = [disk EXCEPT ![t0] = d] /\ task' = Failed(tk, here.dir)
      BY <1>6 DEF Restart
    <2> HIDE DEF staged
    <2>3. tk \in TaskType /\ tk.asset = task.asset /\ tk.staged = staged
      BY <1>1, <2>1 DEF TaskType
    <2>4. d.part = Truncated /\ here.dir \in BOOLEAN
      BY <1>1 DEF StageType
    <2>5. Truncated # None => Len(Truncated) = 0
      BY EmptyContent DEF Truncated
    <2> HIDE DEF d, tk
    <2> QED BY <1>1, <2>1, <2>2, <2>3, <2>4, <2>5, AgainResumes
  <1>7. ASSUME NEW staged \in StagedType, NEW part, Receive(staged, part)
        PROVE  Resumes'
    <2>1. CASE here.dir
      BY <1>1, <1>7, <2>1, ElsewhereResumes DEF Receive, TaskType
    <2>2. CASE ~here.dir
      <3> DEFINE tk == [task EXCEPT !.staged = staged]
      <3>1. tk \in TaskType /\ tk.asset = task.asset
        BY <1>1 DEF TaskType
      <3>2. task' = Failed(tk, FALSE) /\ disk' = [disk EXCEPT ![t0] = here]
        BY <1>1, <1>7, <2>2, HereAgain DEF Receive
      <3> HIDE DEF tk
      <3> QED BY <1>1, <3>1, <3>2, AgainResumes
    <2> QED BY <2>1, <2>2
  <1>8. ASSUME served[t0] # None, NEW v \in {None, served[t0]},
               Receive([task.staged EXCEPT !.downloaded = 0, !.validator = v], <<>>)
        PROVE  Resumes'
    <2>1. v \in Asset \cup {None}
      BY <1>1, <1>8 DEF IInv, TypeOK
    <2>2. [task.staged EXCEPT !.downloaded = 0, !.validator = v] \in StagedType
      BY <1>3, <2>1 DEF StagedType
    <2> QED BY <1>7, <1>8, <2>2
  <1>9. ASSUME NEW digest, task' = Transferred([task EXCEPT !.digest = digest])
        PROVE  Resumes'
    BY <1>1, <1>9, ElsewhereResumes DEF Transferred, Over, Closed, TaskType
  <1>10. CASE Receive(task.staged, here.part)
    BY <1>3, <1>7, <1>10
  <1> QED BY <1>4, <1>5, <1>6, <1>8, <1>9, <1>10 DEF Answer

LEMMA TaskResumes == ASSUME IInv, Resumes, TaskStep PROVE Resumes'
  <1>1. CASE Prepare
    <2>1. task \in TaskType /\ task.attempts = 0
      BY <1>1 DEF Prepare, IInv, TypeOK, Resumes
    <2>2. CASE task' = Idle
      BY <2>2 DEF Idle, Resumes, RetryLosesNothing
    <2>3. ASSUME task' # Idle
          PROVE  \E s, d : \/ task' = [task EXCEPT !.pc = "open", !.sig = "pending", !.staged = s]
                           \/ task' = [task EXCEPT !.pc = "open", !.sig = "pending", !.staged = s,
                                                   !.digest = d]
      BY <1>1, <2>3, Zenon DEF Prepare
    <2>4. ASSUME task' # Idle
          PROVE  task'.attempts = 0 /\ task'.pc # "prepare"
      BY <2>1, <2>3, <2>4 DEF TaskType
    <2> QED BY <2>2, <2>4 DEF Resumes, RetryLosesNothing
  <1>2. CASE Answer
    BY <1>2, AnswerResumes
  <1>3. CASE BodyEnds
    <2> DEFINE d == [here EXCEPT !.rec = Flushed.staged]
    <2>1. /\ Running /\ task.pc = "body" /\ Beside /\ disk' = Saved
      BY <1>3 DEF BodyEnds, Beside, Running
    <2>2. /\ d.part = here.part /\ Saved = [disk EXCEPT ![t0] = d]
          /\ Flushed \in TaskType /\ Flushed.asset = task.asset
          /\ Flushed.digest = task.digest /\ Whole(d, Flushed.digest)
      BY <2>1, SavedStage
    <2>3. Flushed.staged.downloaded = Len(Flushed.digest)
      <3>1. task \in TaskType /\ task.staged \in StagedType
        BY <2>1, Here DEF TaskFine
      <3> QED BY <3>1 DEF Flushed, TaskType, StagedType
    <2> HIDE DEF d
    <2>4. ASSUME NEW transient \in BOOLEAN, task' = Failed(Flushed, transient)
          PROVE  Resumes'
      BY <2>1, <2>2, <2>3, <2>4, AgainResumes DEF Whole
    <2>5. CASE task' = Transferred(Flushed)
      BY <2>2, <2>5, ElsewhereResumes DEF Transferred, Over, Closed, TaskType
    <2> QED BY <1>3, <2>4, <2>5 DEF BodyEnds
  <1>4. CASE FlushFails
    <2>1. task' = Failed(task, FALSE) /\ task \in TaskType
      BY <1>4 DEF FlushFails, IInv, TypeOK
    <2>2. task'.pc = "settle"
      BY <2>1, FailedAgain
    <2> QED BY <2>2, ElsewhereResumes
  <1>5. CASE Chunk
    <2>1. Running /\ task.pc = "body" /\ task \in TaskType
      BY <1>5 DEF Chunk, IInv, TypeOK, Running
    <2>2. CASE Replaced
      BY <2>1, <2>2, AgainResumes DEF Replaced
    <2>3. CASE task' = [task EXCEPT !.digest = Append(@, task.source)]
      BY <2>1, <2>3, ElsewhereResumes DEF TaskType
    <2> QED BY <1>5, <2>2, <2>3 DEF Chunk
  <1>6. CASE SignatureAnswers
    <2>1. PICK s : task' = [task EXCEPT !.sig = s]
      BY <1>6 DEF SignatureAnswers
    <2>2. task \in TaskType /\ UNCHANGED disk
      BY <1>6 DEF SignatureAnswers, IInv, TypeOK
    <2> QED BY <2>1, <2>2, AsideResumes DEF TaskType
  <1>7. CASE Open \/ Checkpoint \/ HaltedInBackoff \/ Settle \/ Accept \/ Commit
    <2>1. task \in TaskType
      BY DEF IInv, TypeOK
    <2>2. CASE Open
      BY <2>1, <2>2, ElsewhereResumes DEF Open, TaskType
    <2>3. CASE Checkpoint
      BY <2>1, <2>3, ElsewhereResumes DEF Checkpoint, Flushed, TaskType
    <2>4. CASE HaltedInBackoff
      BY <2>1, <2>4, ElsewhereResumes DEF HaltedInBackoff, Over, Closed, TaskType
    <2>5. CASE Settle \/ Accept \/ Commit
      <3>1. task' = Idle \/ task' = [task EXCEPT !.pc = "accept"]
                        \/ task' = [task EXCEPT !.pc = "commit"]
        BY <2>5 DEF Settle, Accept, Commit, Keep, GiveUp
      <3>2. task'.pc \in {"idle", "accept", "commit"}
        BY <2>1, <3>1 DEF Idle, TaskType
      <3> QED BY <3>2, ElsewhereResumes
    <2> QED BY <1>7, <2>2, <2>3, <2>4, <2>5
  <1> QED BY <1>1, <1>2, <1>3, <1>4, <1>5, <1>6, <1>7 DEF TaskStep

\* A command that spawns the transfer.
LEMMA SpawnResumes == ASSUME NEW a, task' = Spawn(a) PROVE Resumes'
  BY DEF Spawn, Idle, Resumes, RetryLosesNothing

LEMMA CallResumes ==
  ASSUME IInv, Resumes, NEW k \in Calls, Begin(k) \/ CallStep(k)
  PROVE  Resumes'
  <1>1. task \in TaskType
    BY DEF IInv, TypeOK
  <1>2. \/ UNCHANGED task
        \/ task' = [task EXCEPT !.cancel = TRUE]
        \/ task' = Spawn(call[k].asset)
    BY DEF Begin, Download, Cancel, Discard, Check, CallStep, Others, JoinOthers, Purge, Start,
       JoinStart, CancelDownload, CancelAndJoin, JoinDiscard, Wipe, Apply, Stop
  <1>3. \A t \in Tag : disk'[t] \in {disk[t], Gone}
    BY PurgedType DEF Begin, Download, Cancel, Discard, Check, CallStep, Others, JoinOthers,
       Purge, Start, JoinStart, CancelDownload, CancelAndJoin, JoinDiscard, Wipe, Apply
  <1> QED BY <1>1, <1>2, <1>3, SpawnResumes, AsideResumes DEF TaskType

LEMMA NextResumes == IInv /\ Resumes /\ [Next]_vars => Resumes'
  <1> SUFFICES ASSUME IInv, Resumes, [Next]_vars PROVE Resumes'
    OBVIOUS
  <1>1. CASE TaskStep
    BY <1>1, TaskResumes
  <1>2. ASSUME NEW k \in Calls, Begin(k) \/ CallStep(k)
        PROVE  Resumes'
    BY <1>2, CallResumes
  <1>3. CASE Sweep \/ Publish \/ UNCHANGED vars
    <2>1. task \in TaskType
      BY DEF IInv, TypeOK
    <2>2. UNCHANGED task
      BY <1>3 DEF Sweep, Publish, vars
    <2>3. \A t \in Tag : disk'[t] \in {disk[t], Gone}
      BY <1>3, PurgedType DEF Sweep, Publish, vars
    <2> QED BY <2>1, <2>2, <2>3, AsideResumes DEF TaskType
  <1>4. CASE Crash
    BY <1>4, ElsewhereResumes DEF Crash, Idle
  <1> QED BY <1>1, <1>2, <1>3, <1>4 DEF Next

(***************************************************************************)
(* Whenever the loop of run() asks again, the file it resumes is as long   *)
(* as the record says, whatever cut the last attempt short: no byte that   *)
(* reached the file is fetched twice (run.rs, resume.rs, body.rs).         *)
(***************************************************************************)
THEOREM RetriesLoseNothing == Spec => []RetryLosesNothing
  <1>1. Init => Resumes
    BY DEF Init, Resumes, RetryLosesNothing, Idle
  <1>2. Resumes => RetryLosesNothing
    BY DEF Resumes
  <1> QED BY <1>1, <1>2, InitIInv, NextIInv, NextResumes, PTL DEF Spec

-----------------------------------------------------------------------------
(* The end of a transfer *)

\* A transfer that asks has an attempt left.
Counted == task.pc = "open" => task.attempts <= MaxAttempts

\* What a step of a transfer may leave: the flag is for the commands to raise,
\* and the order goes down.
Moves(tk) == tk.cancel = task.cancel /\ Nearer(tk, task)

LEMMA NearerAt ==
  ASSUME NEW tk, NEW old, NEW i \in 1..7, Left(tk)[i] \in 0..(Left(old)[i] - 1),
         \A j \in 1..(i - 1) : Left(tk)[j] = Left(old)[j]
  PROVE  Nearer(tk, old)
  BY DEF Nearer, Precedes

LEMMA LeftParts ==
  ASSUME NEW tk
  PROVE  /\ Left(tk)[1] = Phase(tk)
         /\ Left(tk)[2] = MaxAttempts + 1 - tk.attempts
         /\ Left(tk)[3] = Place(tk)
         /\ Left(tk)[4] = IF tk.pc = "body" THEN SizeOf[tk.source] - Len(tk.digest) ELSE 0
         /\ Left(tk)[5] = IF tk.pc = "body" THEN Len(tk.digest) - tk.flushed ELSE 0
         /\ Left(tk)[6] = IF tk.sig = "pending" THEN 1 ELSE 0
         /\ Left(tk)[7] = IF tk.cancel THEN 0 ELSE 1
  BY DEF Left

\* From one part of run() to a later one.
LEMMA NearerByPhase ==
  ASSUME NEW tk, NEW old, Phase(tk) \in 0..(Phase(old) - 1)
  PROVE  Nearer(tk, old)
  BY LeftParts, NearerAt

\* Within an attempt.
LEMMA NearerByPlace ==
  ASSUME NEW tk, NEW old, Phase(tk) = Phase(old), tk.attempts = old.attempts,
         Place(tk) \in 0..(Place(old) - 1)
  PROVE  Nearer(tk, old)
  <1>1. \A j \in 1..2 : Left(tk)[j] = Left(old)[j]
    BY LeftParts
  <1> QED BY <1>1, LeftParts, NearerAt

\* Whatever an attempt leaves behind when it is over.
LEMMA AttemptOver ==
  ASSUME task \in TaskType, task.pc \in {"answer", "body"},
         NEW tk \in TaskType, tk.attempts = task.attempts, tk.cancel = task.cancel
  PROVE  /\ \A transient \in BOOLEAN :
               /\ Moves(Failed(tk, transient))
               /\ Failed(tk, transient).pc = "open"
                    => Failed(tk, transient).attempts <= MaxAttempts
         /\ Moves(Transferred(tk)) /\ Transferred(tk).pc = "settle"
  <1>1. Phase(task) = 4 /\ Place(task) \in {1, 2}
    BY DEF Phase, Place
  <1>2. ASSUME NEW next, next.pc = "settle", next.cancel = tk.cancel
        PROVE  Moves(next)
    <2>1. Phase(next) = 3
      BY <1>2 DEF Phase
    <2> QED BY <1>1, <1>2, <2>1, NearerByPhase DEF Moves
  <1>3. ASSUME NEW next, next.pc = "open", next.cancel = tk.cancel,
               next.attempts = tk.attempts
        PROVE  Moves(next)
    <2>1. Phase(next) = 4 /\ Place(next) = 0
      BY <1>3 DEF Phase, Place
    <2> QED BY <1>1, <1>3, <2>1, NearerByPlace DEF Moves
  <1>4. Over(tk).pc = "settle" /\ Over(tk).cancel = tk.cancel
    BY DEF Over, Closed, TaskType
  <1>5. Transferred(tk).pc = "settle" /\ Transferred(tk).cancel = tk.cancel
    BY DEF Transferred, Over, Closed, TaskType
  <1>6. ASSUME NEW transient \in BOOLEAN
        PROVE  LET next == Failed(tk, transient)
               IN  /\ next.cancel = tk.cancel
                   /\ \/ next.pc = "settle"
                      \/ /\ next.pc = "open" /\ next.attempts = tk.attempts
                         /\ next.attempts <= MaxAttempts
    BY UpdaterAssumption DEF Failed, Over, Closed, TaskType
  <1> QED BY <1>2, <1>3, <1>4, <1>5, <1>6

LEMMA AnswerMoves ==
  ASSUME IInv, Answer PROVE Moves(task') /\ Counted'
  <1>1. /\ task.pc = "answer" /\ task \in TaskType /\ task.staged \in StagedType
        /\ here \in StageType
    BY Here DEF Answer, Running, TaskFine
  <1>2. Phase(task) = 4 /\ Place(task) = 2
    BY <1>1 DEF Phase, Place
  <1>3. ASSUME NEW tk \in TaskType, tk.attempts = task.attempts, tk.cancel = task.cancel,
               \/ \E transient \in BOOLEAN : task' = Failed(tk, transient)
               \/ task' = Transferred(tk)
        PROVE  Moves(task') /\ Counted'
    BY <1>1, <1>3, AttemptOver DEF Counted
  <1>4. ASSUME NEW staged \in StagedType
        PROVE  LET tk == [task EXCEPT !.staged = staged]
               IN  tk \in TaskType /\ tk.attempts = task.attempts /\ tk.cancel = task.cancel
    BY <1>1 DEF TaskType
  <1>5. ASSUME NEW staged \in StagedType, NEW part, Receive(staged, part)
        PROVE  Moves(task') /\ Counted'
    <2>1. CASE here.dir
      <3>1. task'.pc = "body" /\ task'.attempts = task.attempts
            /\ task'.cancel = task.cancel
        BY <1>1, <1>5, <2>1 DEF Receive, TaskType
      <3>2. Phase(task') = 4 /\ Place(task') = 1
        BY <3>1 DEF Phase, Place
      <3> QED BY <1>2, <3>1, <3>2, NearerByPlace DEF Moves, Counted
    <2>2. CASE ~here.dir
      BY <1>3, <1>4, <1>5, <2>2 DEF Receive
    <2> QED BY <2>1, <2>2
  <1>6. CASE Replaced
    BY <1>1, <1>3, <1>6 DEF Replaced
  <1>7. CASE Restart
    <2>1. [task.staged EXCEPT !.downloaded = 0, !.validator = None] \in StagedType
      BY <1>1 DEF StagedType
    <2>2. here.dir \in BOOLEAN
      BY <1>1 DEF StageType
    <2> QED BY <1>3, <1>4, <1>7, <2>1, <2>2 DEF Restart
  <1>8. ASSUME NEW v \in {None, served[t0]}, served[t0] # None
        PROVE  [task.staged EXCEPT !.downloaded = 0, !.validator = v] \in StagedType
    <2>1. served[t0] \in Asset
      BY <1>1, <1>8, Here DEF Running, IInv, TypeOK
    <2> QED BY <1>1, <1>8, <2>1 DEF StagedType
  <1>9. ASSUME NEW x, task' = Transferred([task EXCEPT !.digest = x])
        PROVE  Moves(task') /\ Counted'
    <2>1. task'.pc = "settle" /\ task'.cancel = task.cancel
      BY <1>1, <1>9 DEF Transferred, Over, Closed, TaskType
    <2>2. Phase(task') = 3
      BY <2>1 DEF Phase
    <2> QED BY <1>2, <2>1, <2>2, NearerByPhase DEF Moves, Counted
  <1>10. ASSUME NEW transient \in BOOLEAN, task' = Failed(task, transient)
         PROVE  Moves(task') /\ Counted'
    BY <1>1, <1>3, <1>10
  <1>11. CASE \E transient \in BOOLEAN : task' = Failed(task, transient)
    BY <1>10, <1>11
  <1>12. CASE Receive(task.staged, here.part)
    BY <1>1, <1>5, <1>12
  <1>13. CASE /\ served[t0] # None
              /\ \E v \in {None, served[t0]} :
                   Receive([task.staged EXCEPT !.downloaded = 0, !.validator = v], <<>>)
    BY <1>5, <1>8, <1>13
  <1>14. CASE \E x : task' = Transferred([task EXCEPT !.digest = x])
    BY <1>9, <1>14
  <1> QED
    BY <1>6, <1>7, <1>11, <1>12, <1>13, <1>14 DEF Answer

LEMMA BodyMoves ==
  ASSUME IInv, Chunk \/ FlushFails \/ Checkpoint \/ BodyEnds
  PROVE  Moves(task') /\ Counted'
  <1>1. /\ task.pc = "body" /\ task \in TaskType /\ task.staged \in StagedType
        /\ task.source \in Asset
    BY Here DEF Chunk, FlushFails, Checkpoint, BodyEnds, Running, TaskFine
  <1>2. /\ Len(task.digest) \in Nat /\ task.flushed \in Nat
        /\ SizeOf[task.source] \in Nat
    BY <1>1, UpdaterAssumption DEF TaskType, Content
  <1>3. ASSUME NEW tk \in TaskType, tk.attempts = task.attempts, tk.cancel = task.cancel,
               \/ \E transient \in BOOLEAN : task' = Failed(tk, transient)
               \/ task' = Transferred(tk)
        PROVE  Moves(task') /\ Counted'
    BY <1>1, <1>3, AttemptOver DEF Counted
  <1>4. /\ Flushed \in TaskType /\ Flushed.attempts = task.attempts
        /\ Flushed.cancel = task.cancel /\ Flushed.pc = "body"
        /\ Flushed.digest = task.digest /\ Flushed.source = task.source
        /\ Flushed.flushed = Len(task.digest)
    BY <1>1, <1>2 DEF Flushed, TaskType, StagedType
  <1>5. CASE Chunk
    <2>1. CASE Replaced
      BY <1>1, <1>3, <2>1 DEF Replaced
    <2>2. CASE task' = [task EXCEPT !.digest = Append(@, task.source)]
      <3>1. /\ task'.pc = "body" /\ task'.attempts = task.attempts
            /\ task'.cancel = task.cancel /\ task'.source = task.source
            /\ Len(task'.digest) = Len(task.digest) + 1
        BY <1>1, <2>2 DEF TaskType, Content
      <3>2. Phase(task') = Phase(task) /\ Place(task') = Place(task)
        BY <1>1, <3>1 DEF Phase, Place
      <3>3. \A j \in 1..3 : Left(task')[j] = Left(task)[j]
        BY <3>1, <3>2, LeftParts
      <3>4. Len(task.digest) < SizeOf[task.source]
        BY <1>5 DEF Chunk
      <3>5. /\ Left(task)[4] = SizeOf[task.source] - Len(task.digest)
            /\ Left(task')[4] = SizeOf[task.source] - (Len(task.digest) + 1)
        BY <1>1, <3>1, LeftParts
      <3>6. Left(task')[4] \in 0..(Left(task)[4] - 1)
        BY <1>2, <3>4, <3>5
      <3> QED BY <1>1, <3>1, <3>3, <3>6, NearerAt DEF Moves, Counted
    <2> QED BY <1>5, <2>1, <2>2 DEF Chunk
  <1>6. CASE FlushFails
    BY <1>1, <1>3, <1>6 DEF FlushFails
  <1>7. CASE Checkpoint
    <2>1. task' = Flushed /\ task.flushed < Len(task.digest)
      BY <1>7 DEF Checkpoint
    <2>2. Phase(task') = Phase(task) /\ Place(task') = Place(task)
      BY <1>1, <1>4, <2>1 DEF Phase, Place
    <2>3. \A j \in 1..4 : Left(task')[j] = Left(task)[j]
      BY <1>1, <1>4, <2>1, <2>2, LeftParts
    <2>4. Left(task')[5] = 0
      <3>1. task'.pc = "body" /\ task'.flushed = Len(task'.digest) /\ Len(task'.digest) \in Nat
        BY <1>2, <1>4, <2>1
      <3> QED BY <3>1, LeftParts
    <2>5. Left(task)[5] = Len(task.digest) - task.flushed
      BY <1>1, LeftParts
    <2>6. Left(task')[5] \in 0..(Left(task)[5] - 1)
      BY <1>2, <2>1, <2>4, <2>5
    <2> QED BY <1>4, <2>1, <2>3, <2>6, NearerAt DEF Moves, Counted
  <1>8. CASE BodyEnds
    BY <1>3, <1>4, <1>8 DEF BodyEnds
  <1> QED BY <1>5, <1>6, <1>7, <1>8

LEMMA TaskMoves ==
  ASSUME IInv, Resumes, Counted, TaskStep
  PROVE  /\ Running /\ UNCHANGED <<starting, call>>
         /\ task' = Idle \/ Moves(task')
         /\ Counted'
  <1>1. /\ Running /\ task \in TaskType /\ UNCHANGED <<starting, call>>
    <2>1. task \in TaskType
      BY DEF IInv, TypeOK
    <2>2. CASE Prepare \/ Open \/ Answer
      BY <2>1, <2>2 DEF Prepare, Open, Answer, Running
    <2>3. CASE Chunk \/ FlushFails \/ Checkpoint \/ BodyEnds
      BY <2>1, <2>3 DEF Chunk, FlushFails, Checkpoint, BodyEnds, Running
    <2>4. CASE HaltedInBackoff \/ Settle \/ Accept \/ Commit
      BY <2>1, <2>4 DEF HaltedInBackoff, Settle, Accept, Commit, Running
    <2>5. CASE SignatureAnswers
      BY <2>1, <2>5 DEF SignatureAnswers, Running, IInv, Idle
    <2> QED BY <2>2, <2>3, <2>4, <2>5 DEF TaskStep
  <1>2. CASE task' = Idle
    BY <1>1, <1>2 DEF Idle, Counted
  <1>3. CASE Answer
    BY <1>1, <1>3, AnswerMoves
  <1>4. CASE Chunk \/ FlushFails \/ Checkpoint \/ BodyEnds
    BY <1>1, <1>4, BodyMoves
  <1>5. CASE Prepare /\ task' # Idle
    <2>1. /\ task.pc = "prepare" /\ task.attempts = 0
      BY <1>5 DEF Prepare, Resumes
    <2>2. PICK s, d : \/ task' = [task EXCEPT !.pc = "open", !.sig = "pending", !.staged = s]
                      \/ task' = [task EXCEPT !.pc = "open", !.sig = "pending", !.staged = s,
                                              !.digest = d]
      BY <1>5, Zenon DEF Prepare
    <2>3. task'.pc = "open" /\ task'.cancel = task.cancel /\ task'.attempts = 0
      BY <1>1, <2>1, <2>2 DEF TaskType
    <2>4. Phase(task') = 4 /\ Phase(task) = 5
      BY <2>1, <2>3 DEF Phase
    <2> QED
      BY <1>1, <2>3, <2>4, NearerByPhase, UpdaterAssumption DEF Moves, Counted
  <1>6. CASE Open
    <2>1. /\ task.pc = "open" /\ task.attempts \in Nat /\ task.attempts <= MaxAttempts
          /\ task'.pc = "answer" /\ task'.attempts = task.attempts + 1
          /\ task'.cancel = task.cancel
      BY <1>1, <1>6 DEF Open, Counted, TaskType
    <2>2. Phase(task') = 4 /\ Phase(task) = 4
      BY <2>1 DEF Phase
    <2>3. \A j \in 1..1 : Left(task')[j] = Left(task)[j]
      BY <2>2, LeftParts
    <2>4. /\ Left(task)[2] = MaxAttempts + 1 - task.attempts
          /\ Left(task')[2] = MaxAttempts + 1 - (task.attempts + 1)
      BY <2>1, LeftParts
    <2>5. Left(task')[2] \in 0..(Left(task)[2] - 1)
      BY <2>1, <2>4, UpdaterAssumption
    <2> QED BY <1>1, <2>1, <2>3, <2>5, NearerAt DEF Moves, Counted
  <1>7. CASE HaltedInBackoff
    <2>1. /\ task.pc = "open" /\ task'.pc = "settle" /\ task'.cancel = task.cancel
      BY <1>1, <1>7 DEF HaltedInBackoff, Over, Closed, TaskType
    <2>2. Phase(task) = 4 /\ Phase(task') = 3
      BY <2>1 DEF Phase
    <2> QED BY <1>1, <2>1, <2>2, NearerByPhase DEF Moves, Counted
  <1>8. CASE SignatureAnswers
    <2>1. /\ task.sig = "pending" /\ task'.sig # "pending" /\ task'.pc = task.pc
          /\ task'.attempts = task.attempts /\ task'.source = task.source
          /\ task'.digest = task.digest /\ task'.flushed = task.flushed
          /\ task'.cancel = task.cancel
      <3>1. PICK s \in {served[t0], "failed"} \ {None} : task' = [task EXCEPT !.sig = s]
        BY <1>8 DEF SignatureAnswers
      <3>2. s # "pending"
        BY <1>1, <3>1, Here, UpdaterAssumption DEF IInv, TypeOK
      <3> QED BY <1>1, <1>8, <3>1, <3>2 DEF SignatureAnswers, TaskType
    <2>2. Phase(task') = Phase(task) /\ Place(task') = Place(task)
      BY <2>1 DEF Phase, Place
    <2>3. \A j \in 1..5 : Left(task')[j] = Left(task)[j]
      BY <2>1, <2>2, LeftParts
    <2>4. Left(task')[6] \in 0..(Left(task)[6] - 1)
      BY <2>1, LeftParts
    <2> QED BY <1>1, <2>1, <2>3, <2>4, NearerAt DEF Moves, Counted
  <1>9. CASE (Settle \/ Accept \/ Commit) /\ task' # Idle
    <2>1. \/ task.pc = "settle" /\ task' = [task EXCEPT !.pc = "accept"]
          \/ task.pc = "accept" /\ task' = [task EXCEPT !.pc = "commit"]
      BY <1>9 DEF Settle, Accept, Commit, Keep, GiveUp
    <2>2. /\ task'.cancel = task.cancel /\ task'.pc # "open"
          /\ \/ Phase(task) = 3 /\ Phase(task') = 2
             \/ Phase(task) = 2 /\ Phase(task') = 1
      BY <1>1, <2>1 DEF Phase, TaskType
    <2> QED BY <1>1, <2>2, NearerByPhase DEF Moves, Counted
  <1> QED
    BY <1>2, <1>3, <1>4, <1>5, <1>6, <1>7, <1>8, <1>9 DEF TaskStep

\* A command raises the flag, or starts a transfer when there is none.
LEMMA CallsTask ==
  ASSUME IInv, NEW k \in Calls, Begin(k) \/ CallStep(k)
  PROVE  \/ UNCHANGED task
         \/ Running /\ Stop
         \/ ~Running /\ task' = Spawn(call[k].asset)
  BY DEF Begin, Download, Cancel, Discard, Check, CallStep, Others, JoinOthers, Purge, Start,
     JoinStart, CancelDownload, CancelAndJoin, JoinDiscard, Wipe, Apply

LEMMA StopMoves ==
  ASSUME IInv, Counted, Running, Stop
  PROVE  (task' # task => Nearer(task', task)) /\ Counted'
  <1>1. /\ task \in TaskType /\ task.cancel \in BOOLEAN
        /\ task' = [task EXCEPT !.cancel = TRUE]
    BY DEF IInv, TypeOK, TaskType, Stop
  <1>2. /\ task'.pc = task.pc /\ task'.attempts = task.attempts
        /\ task'.source = task.source /\ task'.digest = task.digest
        /\ task'.flushed = task.flushed /\ task'.sig = task.sig /\ task'.cancel
    BY <1>1 DEF TaskType
  <1>3. ASSUME task' # task
        PROVE  Nearer(task', task)
    <2>1. ~task.cancel
      BY <1>1, <1>3 DEF TaskType
    <2>2. Phase(task') = Phase(task) /\ Place(task') = Place(task)
      BY <1>2 DEF Phase, Place
    <2>3. \A j \in 1..6 : Left(task')[j] = Left(task)[j]
      BY <1>2, <2>2, LeftParts
    <2>4. Left(task')[7] \in 0..(Left(task)[7] - 1)
      BY <1>2, <2>1, LeftParts
    <2> QED BY <2>3, <2>4, NearerAt
  <1> QED BY <1>2, <1>3 DEF Counted

LEMMA StepMoves ==
  ASSUME IInv, Resumes, Counted, [Next]_vars
  PROVE  /\ Counted'
         /\ Running /\ task' # task => task'.pc = "idle" \/ Nearer(task', task)
  <1>1. CASE TaskStep
    BY <1>1, TaskMoves DEF Moves, Idle
  <1>2. ASSUME NEW k \in Calls, Begin(k) \/ CallStep(k)
        PROVE  /\ Counted'
               /\ Running /\ task' # task => Nearer(task', task)
    <2>1. CASE UNCHANGED task
      BY <2>1 DEF Counted
    <2>2. CASE Running /\ Stop
      BY <2>2, StopMoves
    <2>3. CASE ~Running /\ task' = Spawn(call[k].asset)
      BY <2>3 DEF Spawn, Idle, Counted
    <2> QED BY <1>2, <2>1, <2>2, <2>3, CallsTask
  <1>3. CASE Sweep \/ Publish \/ UNCHANGED vars
    BY <1>3 DEF Sweep, Publish, vars, Counted
  <1>4. CASE Crash
    BY <1>4 DEF Crash, Idle, Counted
  <1> QED BY <1>1, <1>2, <1>3, <1>4 DEF Next

(***************************************************************************)
(* Nothing keeps a transfer going: not retries, whose attempts are         *)
(* counted, though progress forgives those that stalled, nor the           *)
(* signature, nor a command, which can only stop it (run.rs, body.rs).     *)
(***************************************************************************)
THEOREM TransfersRunDown == Spec => NearerItsEnd
  <1>1. Init => Resumes /\ Counted
    BY DEF Init, Resumes, RetryLosesNothing, Counted, Idle
  <1>2. IInv /\ Resumes /\ Counted /\ [Next]_vars
          => Counted' /\ (Running /\ task' # task => task'.pc = "idle" \/ Nearer(task', task))
    BY StepMoves
  <1> QED BY <1>1, <1>2, InitIInv, NextIInv, NextResumes, PTL DEF Spec, NearerItsEnd

-----------------------------------------------------------------------------
(* The lock *)

\* A step that leaves the commands alone, and the flag up while it runs.
LEMMA LockLeft ==
  ASSUME LockIsShort, UNCHANGED <<starting, call>>,
         (Running /\ task.cancel) => (Running' => task'.cancel), Running' => Running
  PROVE  LockIsShort'
  BY DEF LockIsShort

\* A step of a command that does not take the lock across an await.
LEMMA LockFree ==
  ASSUME IInv, LockIsShort, NEW k \in Calls, call[k].pc \notin Joins,
         \A c \in Calls \ {k} : call'[c] = call[c],
         call'[k].pc \notin Joins, UNCHANGED starting,
         starting # None => UNCHANGED task
  PROVE  LockIsShort'
  <1>1. starting # None => starting \in Calls /\ starting # k
    BY DEF IInv, TypeOK, LockIsShort
  <1> QED BY <1>1 DEF LockIsShort, Running

LEMMA LockTaken ==
  ASSUME IInv, LockIsShort, NEW k \in Calls, NEW pc \in Joins,
         starting = None, Stop, starting' = k, Goto(k, pc)
  PROVE  LockIsShort'
  <1>1. task'.cancel
    BY DEF Stop, IInv, TypeOK, TaskType
  <1>2. \A c \in Calls : call[c].pc \notin Joins
    BY UpdaterAssumption DEF LockIsShort
  <1>3. /\ call'[k].pc = pc /\ \A c \in Calls \ {k} : call'[c] = call[c]
    BY DEF Goto, IInv, TypeOK, CallType
  <1> QED BY <1>1, <1>2, <1>3, UpdaterAssumption DEF LockIsShort

LEMMA LockReleased ==
  ASSUME IInv, LockIsShort, NEW k \in Calls, call[k].pc \in Joins,
         \A c \in Calls \ {k} : call'[c] = call[c],
         call'[k].pc \notin Joins, starting' = None
  PROVE  LockIsShort'
  <1>1. \A c \in Calls \ {k} : call[c].pc \notin Joins
    BY DEF LockIsShort
  <1> QED BY <1>1 DEF LockIsShort

LEMMA CallChanges ==
  ASSUME IInv, NEW k \in Calls, NEW pc, Goto(k, pc) \/ Return(k)
  PROVE  /\ \A c \in Calls \ {k} : call'[c] = call[c]
         /\ Goto(k, pc) => call'[k].pc = pc
         /\ Return(k) => call'[k].pc = "idle"
  BY DEF Goto, Return, Resting, IInv, TypeOK, CallType

LEMMA CallLock ==
  ASSUME IInv, LockIsShort, NEW k \in Calls, Begin(k) \/ CallStep(k)
  PROVE  LockIsShort'
  <1> USE DEF Joins
  <1>1. CASE Download(k) \/ Check(k)
    <2>1. PICK a, pc : /\ pc \in {"others", "apply"}
                       /\ call' = [call EXCEPT ![k] = [pc |-> pc, asset |-> a]]
      BY <1>1 DEF Download, Check
    <2>2. /\ call[k].pc = "idle" /\ UNCHANGED <<task, starting>>
      BY <1>1 DEF Download, Check
    <2>3. /\ \A c \in Calls \ {k} : call'[c] = call[c]
          /\ call'[k].pc = pc
      BY <2>1 DEF IInv, TypeOK
    <2> QED BY <2>1, <2>2, <2>3, LockFree
  <1>2. CASE CancelDownload(k) /\ call[k].pc \in {"idle", "cancel"}
    BY <1>2, CallChanges, LockFree DEF CancelDownload
  <1>3. CASE CancelAndJoin(k) /\ call[k].pc \in {"idle", "discard"}
    <2>1. CASE Running
      BY <1>3, <2>1, LockTaken DEF CancelAndJoin
    <2>2. CASE ~Running
      BY <1>3, <2>2, CallChanges, LockFree DEF CancelAndJoin
    <2> QED BY <2>1, <2>2
  <1>4. ASSUME NEW pc \in {"cancel", "discard"}, call[k].pc = "idle", Goto(k, pc),
               UNCHANGED <<task, starting>>
        PROVE  LockIsShort'
    BY <1>4, CallChanges, LockFree
  <1>5. CASE Cancel(k)
    BY <1>2, <1>4, <1>5 DEF Cancel
  <1>6. CASE Discard(k)
    BY <1>3, <1>4, <1>6 DEF Discard
  <1>7. CASE Others(k)
    <2>1. CASE Running /\ task.asset # call[k].asset
      BY <1>7, <2>1, LockTaken DEF Others
    <2>2. CASE ~(Running /\ task.asset # call[k].asset)
      BY <1>7, <2>2, CallChanges, LockFree DEF Others
    <2> QED BY <2>1, <2>2
  <1>8. CASE JoinOthers(k) \/ JoinStart(k) \/ JoinDiscard(k)
    BY <1>8, CallChanges, LockReleased DEF JoinOthers, JoinStart, JoinDiscard
  <1>9. CASE Purge(k) \/ Wipe(k) \/ Apply(k)
    BY <1>9, CallChanges, LockFree DEF Purge, Wipe, Apply
  <1>10. CASE Start(k)
    <2>1. CASE Stop /\ starting' = k /\ Goto(k, "joinStart")
      BY <1>10, <2>1, LockTaken DEF Start
    <2>2. CASE Return(k) /\ UNCHANGED starting
      BY <1>10, <2>2, CallChanges, LockFree DEF Start
    <2> QED BY <1>10, <2>1, <2>2 DEF Start
  <1> QED
    BY <1>1, <1>2, <1>3, <1>5, <1>6, <1>7, <1>8, <1>9, <1>10 DEF Begin, CallStep

LEMMA LockStep ==
  ASSUME IInv, Resumes, Counted, LockIsShort, [Next]_vars
  PROVE  LockIsShort'
  <1>1. CASE TaskStep
    BY <1>1, TaskMoves, LockLeft DEF Moves, Running, Idle
  <1>2. ASSUME NEW k \in Calls, Begin(k) \/ CallStep(k)
        PROVE  LockIsShort'
    BY <1>2, CallLock
  <1>3. CASE Sweep \/ Publish \/ UNCHANGED vars
    BY <1>3, LockLeft DEF Sweep, Publish, vars, Running
  <1>4. CASE Crash
    BY <1>4 DEF Crash, LockIsShort, Resting, Joins
  <1> QED BY <1>1, <1>2, <1>3, <1>4 DEF Next

(***************************************************************************)
(* However many commands queue on `starting`, it is held across an await   *)
(* only by one that waits for a transfer it has told to stop, and it is    *)
(* released with that wait (queue.rs).                                     *)
(***************************************************************************)
THEOREM TheLockIsShort == Spec => []LockIsShort
  <1>1. Init => LockIsShort /\ Resumes /\ Counted
    BY DEF Init, LockIsShort, Resting, Joins, Resumes, RetryLosesNothing, Counted, Idle
  <1>2. IInv /\ Resumes /\ Counted /\ [Next]_vars => Counted'
    BY StepMoves
  <1>3. IInv /\ Resumes /\ Counted /\ LockIsShort /\ [Next]_vars => LockIsShort'
    BY LockStep
  <1> QED BY <1>1, <1>2, <1>3, InitIInv, NextIInv, NextResumes, PTL DEF Spec

-----------------------------------------------------------------------------
(* The refinement of StagedRelease *)

\* A stage offers after a step only what it offered before it.
Still(t) == Ready(disk'[t]) => Ready(disk[t]) /\ disk'[t].payload = disk[t].payload

\* Nor does one upload replace another.
NoSwap(t) == Ready(disk[t]) /\ Ready(disk'[t]) => disk'[t].payload = disk[t].payload

LEMMA ReadyNext == ASSUME NEW t PROVE Ready(disk[t])' = Ready(disk'[t])
  BY DEF Ready, PayloadOnDisk

LEMMA StagedIs == ASSUME IInv, NEW t \in Tag
                  PROVE  IF Ready(disk[t])
                         THEN StagedAs(t) \in Asset /\ TagOf[StagedAs(t)] = t
                         ELSE StagedAs(t) = None
  BY DEF IInv, StageFine, Signed0, StagedAs

LEMMA StagedIsNext == ASSUME IInv', NEW t \in Tag
                      PROVE  IF Ready(disk'[t])
                             THEN StagedAs(t)' \in Asset /\ TagOf[StagedAs(t)'] = t
                             ELSE StagedAs(t)' = None
  <1>1. StageFine(t, disk[t])'
    BY DEF IInv
  <1>2. Ready(disk'[t]) => \E a \in Asset : TagOf[a] = t /\ disk'[t].payload = Full(a)
    BY <1>1, ReadyNext DEF StageFine, Signed0, Full
  <1> QED BY <1>2, ReadyNext DEF StagedAs, Full

LEMMA StagedSame == ASSUME NEW t \in Tag, Ready(disk[t]), Ready(disk'[t]),
                           disk'[t].payload = disk[t].payload
                    PROVE  StagedAs(t)' = StagedAs(t)
  BY ReadyNext DEF StagedAs, Full

LEMMA Dropped == ASSUME IInv, IInv', \A t \in Tag : Still(t)
                 PROVE  Abstract!Drop
  <1> DEFINE T == {t \in Tag : StagedAs(t)' = None}
  <1>1. \A t \in Tag : StagedAs(t)' = IF t \in T THEN None ELSE StagedAs(t)
    BY StagedIs, StagedIsNext, StagedSame DEF Still
  <1>2. T \in SUBSET Tag
    OBVIOUS
  <1> HIDE DEF T
  <1>3. [t \in Tag |-> StagedAs(t)]' =
          [t \in Tag |-> IF t \in T THEN None ELSE [r \in Tag |-> StagedAs(r)][t]]
    BY <1>1
  <1> QED BY <1>2, <1>3 DEF Abstract!Drop

\* A step of the transfer touches one stage: it stages a release or drops one.
LEMMA OneStage ==
  ASSUME IInv, IInv', NEW u \in Tag, NEW d, disk' = [disk EXCEPT ![u] = d], NoSwap(u)
  PROVE  Abstract!Stage \/ Abstract!Drop
  <1>1. \A t \in Tag \ {u} : disk'[t] = disk[t]
    BY DEF IInv, TypeOK
  <1>2. CASE Still(u)
    BY <1>1, <1>2, Dropped DEF Still
  <1>3. CASE ~Still(u)
    <2> DEFINE a == StagedAs(u)'
    <2>1. ~Ready(disk[u]) /\ Ready(disk'[u])
      BY <1>3 DEF Still, NoSwap
    <2>2. StagedAs(u) = None /\ a \in Asset /\ TagOf[a] = u
      BY <2>1, StagedIs, StagedIsNext
    <2>3. \A t \in Tag \ {u} : StagedAs(t)' = StagedAs(t)
      BY <1>1 DEF StagedAs, Ready, PayloadOnDisk, Full
    <2>4. \A t \in Tag : StagedAs(t)' = IF t = u THEN a ELSE StagedAs(t)
      BY <2>3
    <2> HIDE DEF a
    <2>5. [t \in Tag |-> StagedAs(t)]' =
            [[t \in Tag |-> StagedAs(t)] EXCEPT ![u] = a]
      BY <2>4
    <2> QED BY <2>2, <2>5 DEF Abstract!Stage
  <1> QED BY <1>2, <1>3

LEMMA SameStage == ASSUME NEW u \in Tag, Ready(disk'[u]) => ~Ready(disk[u])
                   PROVE  NoSwap(u)
  BY DEF NoSwap

LEMMA PrepareLeaves == ASSUME IInv, Prepare
                       PROVE  \/ UNCHANGED disk
                              \/ \E d : disk' = [disk EXCEPT ![t0] = d] /\ ~Ready(d)
  <1> DEFINE known == here.rec # None /\ here.rec.asset = task.asset
             swept0 == IF known THEN here
                       ELSE [here EXCEPT !.part = None, !.payload = None]
             made == [swept0 EXCEPT !.dir = TRUE]
             filled == [made EXCEPT !.part = retained.body, !.rec = retained.staged]
             short(n) == [made EXCEPT !.part = Cut(retained.body, n)]
  <1>1. here \in StageType
    <2>1. task.pc = "prepare"
      BY Zenon DEF Prepare
    <2> QED BY <2>1, Here DEF Running
  <1>2. /\ DOMAIN made = DOMAIN here /\ made.rec = here.rec
        /\ known => made.payload = here.payload
        /\ ~known => made.payload = None
    BY <1>1 DEF StageType
  <1>3. ~(known /\ Ready(here)) => ~Ready(made)
    BY <1>2 DEF Ready, PayloadOnDisk
  <1>4. \A n : /\ short(n).rec = made.rec
               /\ short(n).payload = made.payload
    BY <1>1 DEF StageType
  <1>5. ~(known /\ Ready(here)) => \A n : ~Ready(short(n))
    BY <1>3, <1>4 DEF Ready, PayloadOnDisk
  <1>6. Holds(task.asset) => ~Ready(filled)
    <2>1. filled.rec = retained.staged
      BY <1>1 DEF StageType
    <2>2. Holds(task.asset) => ~retained.staged.verified
      BY DEF Holds, IInv, KeptFine
    <2> QED BY <2>1, <2>2 DEF Ready
  <1>7. \/ UNCHANGED disk
        \/ ~(known /\ Ready(here)) /\ disk' = [disk EXCEPT ![t0] = made]
        \/ Holds(task.asset) /\ disk' = [disk EXCEPT ![t0] = filled]
        \/ ~(known /\ Ready(here)) /\ \E n : disk' = [disk EXCEPT ![t0] = short(n)]
    BY Zenon DEF Prepare
  <1> HIDE DEF made, filled, short
  <1> QED BY <1>3, <1>5, <1>6, <1>7

\* Of the steps of the transfer, those that touch the disk touch its stage.
LEMMA TouchesHere == ASSUME IInv, TaskStep, ~UNCHANGED disk
                     PROVE  Running /\ \E d : disk' = [disk EXCEPT ![t0] = d]
  <1>1. CASE Prepare
    <2>1. task.pc = "prepare"
      BY <1>1, Zenon DEF Prepare
    <2> QED BY <1>1, <2>1, PrepareLeaves DEF Running
  <1>2. CASE Open \/ Chunk \/ FlushFails \/ Checkpoint \/ BodyEnds
    BY <1>2 DEF Open, Chunk, FlushFails, Checkpoint, BodyEnds, Saved, Replaced, Running
  <1>3. CASE Answer
    <2>1. ASSUME NEW staged, NEW part, Receive(staged, part)
          PROVE  UNCHANGED disk \/ \E d : disk' = [disk EXCEPT ![t0] = d]
      BY <2>1 DEF Receive
    <2>2. Replaced \/ Restart => \E d : disk' = [disk EXCEPT ![t0] = d]
      BY DEF Replaced, Restart
    <2>3. \/ UNCHANGED disk \/ Replaced \/ Restart
          \/ \E staged, part : Receive(staged, part)
      BY <1>3 DEF Answer
    <2>4. Running
      BY <1>3 DEF Answer, Running
    <2> QED BY <2>1, <2>2, <2>3, <2>4
  <1>4. CASE Settle \/ Accept \/ Commit
    BY <1>4 DEF Settle, Accept, Commit, Keep, GiveUp, Running
  <1>5. CASE HaltedInBackoff \/ SignatureAnswers
    BY <1>5 DEF HaltedInBackoff, SignatureAnswers
  <1> QED BY <1>1, <1>2, <1>3, <1>4, <1>5 DEF TaskStep

LEMMA TaskNoSwap == ASSUME IInv, TaskStep, ~UNCHANGED disk
                    PROVE  NoSwap(t0)
  <1>1. Running /\ t0 \in Tag /\ here \in StageType /\ TaskFine(task, here)
    BY TouchesHere, Here
  <1>2. CASE task.pc \notin {"prepare", "commit"}
    BY <1>1, <1>2 DEF TaskFine, NoSwap, here
  <1>3. CASE task.pc = "prepare"
    <2>1. Prepare
      <3>1. ~UNCHANGED disk => ~SignatureAnswers /\ ~HaltedInBackoff
        BY DEF SignatureAnswers, HaltedInBackoff
      <3>2. ~Open /\ ~Answer /\ ~Chunk /\ ~FlushFails /\ ~Checkpoint /\ ~BodyEnds
        BY <1>3 DEF Open, Answer, Chunk, FlushFails, Checkpoint, BodyEnds
      <3>3. ~Settle /\ ~Accept /\ ~Commit
        BY <1>3 DEF Settle, Accept, Commit
      <3> QED BY <3>1, <3>2, <3>3 DEF TaskStep
    <2>2. PICK d : disk' = [disk EXCEPT ![t0] = d] /\ ~Ready(d)
      BY <2>1, PrepareLeaves
    <2>3. ~Ready(disk'[t0])
      BY <1>1, <2>2 DEF IInv, TypeOK
    <2> QED BY <1>1, <2>3, SameStage
  <1>4. CASE task.pc = "commit"
    <2>1. Commit
      BY <1>4 DEF TaskStep, Prepare, Open, Answer, Chunk, FlushFails, Checkpoint, BodyEnds,
                  HaltedInBackoff, SignatureAnswers, Settle, Accept, Commit
    <2>2. disk'[t0].payload = disk[t0].payload
      BY <1>1, <2>1 DEF Commit, GiveUp, here, IInv, TypeOK, StageType
    <2> QED BY <2>2 DEF NoSwap
  <1> QED BY <1>2, <1>3, <1>4

LEMMA PurgedStill == ASSUME IInv, NEW useful \in SUBSET Tag, disk' = Purged(useful)
                     PROVE  \A t \in Tag : Still(t)
  BY DEF Purged, Still, Ready, Gone

LEMMA CallStill == ASSUME IInv, NEW k \in Calls, Begin(k) \/ CallStep(k)
                   PROVE  \A t \in Tag : Still(t)
  <1>1. CASE Purge(k)
    <2>1. {TagOf[call[k].asset]} \in SUBSET Tag
      BY <1>1, UpdaterAssumption DEF Purge, IInv, CallsFine
    <2> QED BY <1>1, <2>1, PurgedStill DEF Purge
  <1>2. CASE Wipe(k)
    BY <1>2 DEF Wipe, Still, Ready, Gone
  <1>3. CASE UNCHANGED disk
    BY <1>3 DEF Still
  <1> QED BY <1>1, <1>2, <1>3 DEF Begin, Download, Cancel, Discard, Check, CallStep, Others,
             JoinOthers, Start, JoinStart, CancelDownload, CancelAndJoin, JoinDiscard, Apply

LEMMA RestStill == ASSUME IInv, Sweep \/ Publish \/ Crash
                   PROVE  \A t \in Tag : Still(t)
  <1>1. CASE Sweep
    BY <1>1, PurgedStill DEF Sweep
  <1>2. CASE Crash
    <2>1. ASSUME NEW n, disk' = [disk EXCEPT ![t0].part = Cut(@, n)], NEW t \in Tag
          PROVE  Still(t)
      <3>1. disk[t] \in StageType
        BY DEF IInv, TypeOK
      <3>2. disk'[t].rec = disk[t].rec /\ disk'[t].payload = disk[t].payload
        BY <2>1, <3>1 DEF IInv, TypeOK, StageType
      <3> QED BY <3>2 DEF Still, Ready, PayloadOnDisk
    <2>2. CASE UNCHANGED disk
      BY <2>2 DEF Still
    <2> QED BY <1>2, <2>1, <2>2 DEF Crash
  <1>3. CASE Publish
    BY <1>3 DEF Publish, Still
  <1> QED BY <1>1, <1>2, <1>3

LEMMA StepRefines == ASSUME IInv, IInv', [Next]_vars
                     PROVE  [Abstract!Stage \/ Abstract!Drop]_([t \in Tag |-> StagedAs(t)])
  <1>1. CASE UNCHANGED disk
    BY <1>1, Dropped DEF Still
  <1>2. CASE TaskStep /\ ~UNCHANGED disk
    <2>1. Running /\ t0 \in Tag
      BY <1>2, TouchesHere, Here
    <2>2. PICK d : disk' = [disk EXCEPT ![t0] = d]
      BY <1>2, TouchesHere
    <2> QED BY <1>2, <2>1, <2>2, TaskNoSwap, OneStage
  <1>3. ASSUME NEW k \in Calls, Begin(k) \/ CallStep(k)
        PROVE  Abstract!Drop
    BY <1>3, CallStill, Dropped
  <1>4. CASE Sweep \/ Publish \/ Crash
    BY <1>4, RestStill, Dropped
  <1> QED BY <1>1, <1>2, <1>3, <1>4 DEF Next, vars

(***************************************************************************)
(* The downloader implements StagedRelease: whatever steps a release takes *)
(* to reach its stage, and wherever the process dies between them, it is   *)
(* there whole or not at all, and only a drop makes room for another       *)
(* (run.rs, transfer.rs, stage.rs, storage/mod.rs).                        *)
(***************************************************************************)
THEOREM Refines == Spec => StagesAtOnce
  <1>1. Init => Abstract!Init
    BY DEF Init, Abstract!Init, StagedAs, Ready, Gone
  <1>2. IInv /\ IInv' /\ [Next]_vars
        => [Abstract!Stage \/ Abstract!Drop]_([t \in Tag |-> StagedAs(t)])
    BY StepRefines
  <1> QED BY <1>1, <1>2, InitIInv, NextIInv, PTL DEF Spec, StagesAtOnce, Abstract!Spec

=============================================================================
