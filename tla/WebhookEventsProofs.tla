-------------------------- MODULE WebhookEventsProofs --------------------------
(***************************************************************************)
(* Proofs about WebhookEvents, for every number of deliveries, workers,    *)
(* job slots, faults and operator acts and for every payload: IInv is      *)
(* inductive, hence what a processed row promises holds in every           *)
(* behaviour.                                                              *)
(***************************************************************************)
EXTENDS WebhookEvents, FiniteSetTheorems, TLAPS

USE DEF Statuses, Claimable, PCs, JobStates, Reaches, Kinds

LEMMA StoredCount == TypeOK => Cardinality(Stored) \in Nat
  BY FiniteAssumption, FS_Subset, FS_CardinalityType DEF Stored

LEMMA NoJobType == NoJob \in Jobs /\ \A i \in Slots, st \in JobStates : Finished(i, st) \in Jobs
  BY DEF NoJob, Jobs, Finished

LEMMA IdleType == Idle \in WorkerStates
  BY BoundsAssumption DEF Idle, WorkerStates, Slots

(* Typed updates of the three functions the actions rewrite. *)
LEMMA SetJobType ==
  ASSUME TypeOK, NEW e \in Events, NEW i \in Slots, NEW job \in Jobs, SetJob(e, i, job)
  PROVE  jobs' \in [Events -> [Slots -> Jobs]]
  BY DEF TypeOK, SetJob

LEMMA AddType ==
  ASSUME TypeOK, NEW e \in Events, NEW i \in Slots, Add(e, i)
  PROVE  jobs' \in [Events -> [Slots -> Jobs]]
<1>1. [NoJob EXCEPT !.st = "waiting"] \in Jobs
  BY DEF NoJob, Jobs
<1> QED
  BY <1>1, SetJobType DEF Add, TypeOK

LEMMA MoveJobType ==
  ASSUME TypeOK, NEW w \in Workers, worker[w].ev \in Events, NEW to \in Jobs, MoveJob(w, to)
  PROVE  jobs' \in [Events -> [Slots -> Jobs]]
<1>1. worker[w].slot \in Slots
  BY DEF TypeOK, WorkerStates
<1> QED
  BY <1>1, SetJobType DEF MoveJob, TypeOK

LEMMA GotoType ==
  ASSUME TypeOK, NEW w \in Workers, NEW pc \in PCs, Goto(w, pc)
  PROVE  worker' \in [Workers -> WorkerStates]
<1>1. [worker[w] EXCEPT !.pc = pc] \in WorkerStates
  BY DEF TypeOK, WorkerStates
<1> QED
  BY <1>1 DEF TypeOK, Goto

LEMMA AdvanceType ==
  ASSUME TypeOK, NEW w \in Workers, NEW parked \in BOOLEAN, Advance(w, parked)
  PROVE  worker' \in [Workers -> WorkerStates]
<1>1. worker[w] \in WorkerStates
  BY DEF TypeOK
<1>2. (worker[w].parked \/ parked) \in BOOLEAN /\ worker[w].idx + 1 \in Nat \ {0}
  BY <1>1 DEF WorkerStates
<1>3. [worker[w] EXCEPT !.pc = "apply", !.idx = worker[w].idx + 1,
                   !.parked = worker[w].parked \/ parked] \in WorkerStates
  BY <1>1, <1>2 DEF WorkerStates
<1> QED
  BY <1>3 DEF TypeOK, Advance

(* What the three updates of a worker's record leave in its fields. *)
LEMMA GotoFields ==
  ASSUME TypeOK, NEW w \in Workers, NEW pc \in PCs, Goto(w, pc)
  PROVE  /\ worker'[w].pc = pc /\ worker'[w].ev = worker[w].ev
         /\ worker'[w].idx = worker[w].idx /\ worker'[w].parked = worker[w].parked
<1>1. worker[w] \in WorkerStates /\ worker'[w] = [worker[w] EXCEPT !.pc = pc]
  BY DEF TypeOK, Goto
<1>2. \A r \in WorkerStates : LET q == [r EXCEPT !.pc = pc] IN
         q.pc = pc /\ q.ev = r.ev /\ q.idx = r.idx /\ q.parked = r.parked
  BY DEF WorkerStates
<1> QED
  BY <1>1, <1>2

LEMMA AdvanceFields ==
  ASSUME TypeOK, NEW w \in Workers, NEW parked \in BOOLEAN, Advance(w, parked)
  PROVE  /\ worker'[w].pc = "apply" /\ worker'[w].ev = worker[w].ev
         /\ worker'[w].idx = worker[w].idx + 1
         /\ ~worker'[w].parked => ~worker[w].parked /\ ~parked
<1> DEFINE n == worker[w].idx + 1
           p == worker[w].parked \/ parked
<1>1. worker[w] \in WorkerStates
      /\ worker'[w] = [worker[w] EXCEPT !.pc = "apply", !.idx = n, !.parked = p]
  BY DEF TypeOK, Advance
<1>2. ASSUME NEW r \in WorkerStates, NEW i, NEW b
      PROVE  LET q == [r EXCEPT !.pc = "apply", !.idx = i, !.parked = b] IN
             q.pc = "apply" /\ q.ev = r.ev /\ q.idx = i /\ q.parked = b
  BY DEF WorkerStates
<1>3. /\ worker'[w].pc = "apply" /\ worker'[w].ev = worker[w].ev
      /\ worker'[w].idx = n /\ worker'[w].parked = p
  <2> HIDE DEF n, p
  <2> QED
    BY <1>1, <1>2
<1> QED
  BY <1>3

LEMMA ClaimFields ==
  ASSUME TypeOK, NEW w \in Workers, Claim(w)
  PROVE  /\ worker'[w].pc \in {"park", "apply", "return", "throw"}
         /\ worker'[w].pc = "apply" => worker[w].ev \notin Malformed
         /\ worker'[w].ev = worker[w].ev /\ worker'[w].idx = worker[w].idx
<1> DEFINE e == worker[w].ev
           p == IF e \in Malformed THEN "park" ELSE "apply"
           n == row[e].attempts + 1
<1>1. CASE worker' = [worker EXCEPT ![w] = [worker[w] EXCEPT !.pc = p, !.attempts = n]]
  <2>1. worker[w] \in WorkerStates /\ worker'[w] = [worker[w] EXCEPT !.pc = p, !.attempts = n]
    BY <1>1 DEF TypeOK
  <2>2. ASSUME NEW r \in WorkerStates, NEW i, NEW b
        PROVE  LET q == [r EXCEPT !.pc = b, !.attempts = i] IN
               q.pc = b /\ q.ev = r.ev /\ q.idx = r.idx
    BY DEF WorkerStates
  <2>3. worker'[w].pc = p /\ worker'[w].ev = worker[w].ev /\ worker'[w].idx = worker[w].idx
    <3> HIDE DEF n, p
    <3> QED
      BY <2>1, <2>2
  <2> QED
    BY <2>3
<1>2. CASE Goto(w, "return") \/ Goto(w, "throw")
  BY <1>2, GotoFields
<1> QED
  BY <1>1, <1>2 DEF Claim

LEMMA SetStatusType ==
  ASSUME TypeOK, NEW w \in Workers, worker[w].ev \in Events, NEW status \in Statuses,
         SetStatus(w, status)
  PROVE  row' \in [Events -> Rows]
<1>1. [row[worker[w].ev] EXCEPT !.status = status] \in Rows
  BY DEF TypeOK, Rows
<1> QED
  BY <1>1 DEF TypeOK, SetStatus

LEMMA ItemType ==
  ASSUME TypeOK, NEW w \in Workers, worker[w].ev \in Events, MoreItems(w)
  PROVE  Item(w) \in Items
<1>1. worker[w].idx \in 1..Len(Payload[worker[w].ev])
  BY PayloadAssumption DEF TypeOK, WorkerStates, MoreItems
<1> QED
  BY <1>1, PayloadAssumption DEF Item

-----------------------------------------------------------------------------
(* The initial states. *)
LEMMA InitIInv == Init => IInv
<1> SUFFICES ASSUME Init PROVE IInv
  OBVIOUS
<1>1. TypeOK
  BY NoJobType, IdleType, BoundsAssumption
  DEF Init, TypeOK, Rows
<1>2. WorkerHasJob /\ WorkerProgress
  BY DEF Init, WorkerHasJob, WorkerProgress, Progress, At, Idle
<1>3. ProcessedMeansRecorded /\ ProcessedMeansTriggered
  BY DEF Init, ProcessedMeansRecorded, ProcessedMeansTriggered
<1> QED
  BY <1>1, <1>2, <1>3 DEF IInv

-----------------------------------------------------------------------------
(* Every step keeps the types. *)
LEMMA NextTypeOK == TypeOK /\ WorkerHasJob /\ WorkerProgress /\ [Next]_vars => TypeOK'
<1> SUFFICES ASSUME TypeOK, WorkerHasJob, WorkerProgress, [Next]_vars PROVE TypeOK'
  OBVIOUS
<1>1. ASSUME NEW e \in Events, Store(e) PROVE TypeOK'
  BY <1>1, StoredCount DEF Store, Inserts, Rows, queueVars, effectVars, envVars, TypeOK
<1>2. ASSUME NEW e \in Events, IngestEnqueue(e) PROVE TypeOK'
  <2>1. 0 \in Slots
    BY BoundsAssumption DEF Slots
  <2>2. jobs' \in [Events -> [Slots -> Jobs]]
    BY <1>2, <2>1, AddType DEF IngestEnqueue, TypeOK
  <2> QED
    BY <1>2, <2>2, BoundsAssumption DEF IngestEnqueue, Healthy, Fault, effectVars, envVars, TypeOK
<1>3. ASSUME NEW e \in Events, Replay(e) PROVE TypeOK'
  <2>1. [row[e] EXCEPT !.status = "received", !.attempts = 0] \in Rows
    BY DEF Rows, TypeOK
  <2> QED
    BY <1>3, <2>1, BoundsAssumption DEF Replay, Act, queueVars, effectVars, TypeOK
<1>4. ASSUME NEW e \in Events, NEW i \in Slots, StallCheck(e, i) PROVE TypeOK'
  <2>1. jobs[e][i] \in Jobs
    BY DEF TypeOK
  <2>2. [jobs[e][i] EXCEPT !.st = "waiting", !.stalls = 1] \in Jobs
    BY <2>1 DEF Jobs
  <2>3. jobs' \in [Events -> [Slots -> Jobs]]
    BY <1>4, <2>2, NoJobType, SetJobType DEF StallCheck
  <2> QED
    BY <1>4, <2>3 DEF StallCheck, storeVars, effectVars, envVars, TypeOK
<1>5. ASSUME NEW e \in Events, NEW i \in Slots, Forget(e, i) PROVE TypeOK'
  <2>1. jobs' \in [Events -> [Slots -> Jobs]]
    BY <1>5, NoJobType, SetJobType DEF Forget
  <2> QED
    BY <1>5, <2>1, BoundsAssumption DEF Forget, Fault, storeVars, effectVars, envVars, TypeOK
<1>6. ASSUME NEW w \in Workers, WorkerStep(w) PROVE TypeOK'
  <2>1. ASSUME NEW e \in Events, NEW i \in Slots, PickUp(w, e, i) PROVE TypeOK'
    <3>1. jobs[e][i] \in Jobs
      BY DEF TypeOK
    <3>2. [jobs[e][i] EXCEPT !.st = "active", !.owner = w] \in Jobs
      BY <3>1 DEF Jobs
    <3>3. jobs' \in [Events -> [Slots -> Jobs]]
      BY <2>1, <3>2, SetJobType DEF PickUp
    <3>4. [Idle EXCEPT !.pc = "claim", !.ev = e, !.slot = i] \in WorkerStates
      BY IdleType DEF WorkerStates
    <3> QED
      BY <2>1, <3>3, <3>4 DEF PickUp, storeVars, effectVars, envVars, TypeOK
  <2> USE DEF WorkerHasJob, At
  <2>2. CASE Claim(w)
    <3> DEFINE e == worker[w].ev
               pc == IF e \in Malformed THEN "park" ELSE "apply"
    <3>1. e \in Events /\ row[e] \in Rows /\ worker[w] \in WorkerStates
      BY <2>2 DEF Claim, TypeOK
    <3> DEFINE n == row[e].attempts + 1
    <3>2. n \in Nat /\ pc \in PCs
      BY <3>1 DEF Rows
    <3> HIDE DEF n, pc
    <3>3. [row[e] EXCEPT !.status = "processing", !.attempts = n] \in Rows
      BY <3>1, <3>2 DEF Rows
    <3>4. [worker[w] EXCEPT !.pc = pc, !.attempts = n] \in WorkerStates
      BY <3>1, <3>2 DEF WorkerStates
    <3>5. row' \in [Events -> Rows]
      BY <2>2, <3>3 DEF Claim, TypeOK, n
    <3>6. worker' \in [Workers -> WorkerStates]
      BY <2>2, <3>4, GotoType DEF Claim, TypeOK, n, pc
    <3> QED
      BY <2>2, <3>5, <3>6, BoundsAssumption
      DEF Claim, Healthy, Fault, queueVars, effectVars, envVars, TypeOK
  <2>3. CASE ParkMalformed(w)
    <3>1. row' \in [Events -> Rows] /\ worker' \in [Workers -> WorkerStates]
      BY <2>3, SetStatusType, GotoType DEF ParkMalformed, TypeOK
    <3> QED
      BY <2>3, <3>1, BoundsAssumption
      DEF ParkMalformed, Healthy, Fault, queueVars, effectVars, envVars, TypeOK
  <2>4. CASE SkipItem(w) \/ RefuseItem(w)
    <3>1. worker' \in [Workers -> WorkerStates]
      BY <2>4, AdvanceType DEF SkipItem, RefuseItem
    <3> QED
      BY <2>4, <3>1 DEF SkipItem, RefuseItem, storeVars, queueVars, effectVars, envVars, TypeOK
  <2>6. CASE WriteItem(w)
    <3>1. Item(w).msg \in Messages
      BY <2>6, ItemType DEF WriteItem, Items
    <3>2. worker' \in [Workers -> WorkerStates]
      BY <2>6, GotoType, AdvanceType DEF WriteItem
    <3> QED
      BY <2>6, <3>1, <3>2 DEF WriteItem, storeVars, queueVars, envVars, TypeOK
  <2>7. CASE ItemFault(w)
    <3>1. Item(w).msg \in Messages
      BY <2>7, ItemType DEF ItemFault, Items
    <3>2. worker' \in [Workers -> WorkerStates]
      BY <2>7, GotoType DEF ItemFault
    <3> QED
      BY <2>7, <3>1, <3>2, BoundsAssumption DEF ItemFault, Fault, storeVars, queueVars, envVars, TypeOK
  <2>8. CASE QueueTicketLink(w)
    <3>1. Item(w).msg \in Messages
      BY <2>8, ItemType DEF QueueTicketLink, WorkerProgress, Progress, Items
    <3>2. worker' \in [Workers -> WorkerStates]
      BY <2>8, AdvanceType DEF QueueTicketLink
    <3> QED
      BY <2>8, <3>1, <3>2, BoundsAssumption
      DEF QueueTicketLink, Healthy, Fault, storeVars, queueVars, envVars, TypeOK
  <2>9. CASE SettleRow(w)
    <3>1. row' \in [Events -> Rows] /\ worker' \in [Workers -> WorkerStates]
      BY <2>9, SetStatusType, GotoType DEF SettleRow, TypeOK
    <3> QED
      BY <2>9, <3>1, BoundsAssumption
      DEF SettleRow, Healthy, Fault, queueVars, effectVars, envVars, TypeOK
  <2>10. CASE HandleFailure(w)
    <3>1. row' \in [Events -> Rows] /\ worker' \in [Workers -> WorkerStates]
      BY <2>10, SetStatusType, GotoType DEF HandleFailure, TypeOK
    <3> QED
      BY <2>10, <3>1, BoundsAssumption
      DEF HandleFailure, Healthy, Fault, queueVars, effectVars, envVars, TypeOK
  <2>11. CASE Return(w)
    <3>1. worker[w].ev \in Events /\ worker[w].slot \in Slots
      BY <2>11 DEF Return, TypeOK, WorkerStates
    <3>2. jobs' \in [Events -> [Slots -> Jobs]]
      BY <2>11, <3>1, NoJobType, MoveJobType DEF Return
    <3> QED
      BY <2>11, <3>2, IdleType DEF Return, storeVars, effectVars, envVars, TypeOK
  <2>12. CASE Throw(w)
    <3> DEFINE job == jobs[worker[w].ev][worker[w].slot]
    <3>1. worker[w].ev \in Events /\ worker[w].slot \in Slots
      BY <2>12 DEF Throw, TypeOK, WorkerStates
    <3>2. job \in Jobs
      BY <3>1 DEF TypeOK
    <3>3. [job EXCEPT !.st = "waiting", !.tries = job.tries + 1, !.owner = NoWorker] \in Jobs
      <4> HIDE DEF job
      <4>1. job.tries + 1 \in Nat
        BY <3>2 DEF Jobs
      <4> QED
        BY <3>2, <4>1 DEF Jobs
    <3>4. jobs' \in [Events -> [Slots -> Jobs]]
      BY <2>12, <3>1, <3>3, NoJobType, MoveJobType DEF Throw
    <3> QED
      BY <2>12, <3>4, IdleType DEF Throw, storeVars, effectVars, envVars, TypeOK
  <2> QED
    BY <1>6, <2>1, <2>2, <2>3, <2>4, <2>6, <2>7, <2>8, <2>9, <2>10, <2>11, <2>12
    DEF WorkerStep, Process
<1>7. ASSUME NEW w \in Workers, Crash(w) \/ LockExpires(w) PROVE TypeOK'
  <2> DEFINE job == jobs[worker[w].ev][worker[w].slot]
  <2>1. worker[w].ev \in Events /\ worker[w].slot \in Slots
    BY <1>7 DEF Crash, LockExpires, At, WorkerHasJob, TypeOK, WorkerStates
  <2>2. job \in Jobs
    BY <2>1 DEF TypeOK
  <2>3. [job EXCEPT !.owner = NoWorker] \in Jobs
    BY <2>2 DEF Jobs
  <2>4. jobs' \in [Events -> [Slots -> Jobs]]
    BY <1>7, <2>1, <2>3, MoveJobType DEF Crash, LockExpires
  <2> QED
    BY <1>7, <2>4, IdleType, BoundsAssumption
    DEF Crash, LockExpires, Fault, storeVars, effectVars, envVars, TypeOK
<1>8. ASSUME NEW r \in Reaches, ChangeReach(r) PROVE TypeOK'
  BY <1>8, BoundsAssumption DEF ChangeReach, Act, storeVars, queueVars, effectVars, TypeOK
<1>9. CASE Tick
  BY <1>9 DEF Tick, queueVars, effectVars, envVars, TypeOK
<1>10. CASE SweepFind
  BY <1>10 DEF SweepFind, StaleBatch, Stale, storeVars, effectVars, envVars, TypeOK
<1>11. ASSUME NEW e \in Events, SweepEnqueue(e) PROVE TypeOK'
  <2>1. jobs' \in [Events -> [Slots -> Jobs]]
    BY <1>11, AddType DEF SweepEnqueue, SweptIds, TypeOK
  <2> QED
    BY <1>11, <2>1, BoundsAssumption
    DEF SweepEnqueue, Healthy, Fault, storeVars, effectVars, envVars, TypeOK
<1>12. CASE UNCHANGED vars
  BY <1>12 DEF vars, TypeOK
<1> QED
  BY <1>1, <1>2, <1>3, <1>4, <1>5, <1>6, <1>7, <1>8, <1>9, <1>10, <1>11, <1>12 DEF Next, Sweep

-----------------------------------------------------------------------------
(* What is committed or queued is never taken back. *)
LEMMA Monotone ==
  ASSUME [Next]_vars
  PROVE  recorded \subseteq recorded' /\ triggered \subseteq triggered' /\ lost \subseteq lost'
<1> USE DEF effectVars
<1>1. ASSUME NEW w \in Workers, Process(w)
      PROVE  recorded \subseteq recorded' /\ triggered \subseteq triggered' /\ lost \subseteq lost'
  BY <1>1 DEF Process, Claim, ParkMalformed, SkipItem, RefuseItem, WriteItem, ItemFault,
              QueueTicketLink, SettleRow, HandleFailure, Return, Throw
<1>2. CASE \A w \in Workers : ~Process(w)
  BY <1>2 DEF Next, WorkerStep, PickUp, Crash, LockExpires, StallCheck, Forget, Store,
              IngestEnqueue, Replay, ChangeReach, Tick, Sweep, SweepFind, SweepEnqueue, vars
<1> QED
  BY <1>1, <1>2

LEMMA ItemDoneStable ==
  ASSUME [Next]_vars, NEW x, ItemDone(x)
  PROVE  ItemDone(x)'
  BY Monotone DEF ItemDone

(* A step of another actor leaves this worker's progress as it was. *)
LEMMA ProgressFrame ==
  ASSUME [Next]_vars, NEW w \in Workers, worker'[w] = worker[w], Progress(w)
  PROVE  Progress(w)'
  BY ItemDoneStable, Monotone DEF Progress, At, MoreItems, Item

(* Only the worker itself changes its record. *)
LEMMA WorkerFrame ==
  ASSUME TypeOK, [Next]_vars, NEW w \in Workers,
         ~WorkerStep(w), ~Crash(w)
  PROVE  worker'[w] = worker[w]
<1>1. ASSUME NEW v \in Workers, v # w, WorkerStep(v) \/ Crash(v) PROVE worker'[w] = worker[w]
  BY <1>1 DEF TypeOK, WorkerStep, Process, PickUp, Crash, Claim, ParkMalformed, SkipItem, RefuseItem,
              WriteItem, ItemFault, QueueTicketLink, SettleRow, HandleFailure, Return, Throw,
              Goto, Advance
<1>2. CASE \A v \in Workers : ~WorkerStep(v) /\ ~Crash(v)
  BY <1>2 DEF Next, LockExpires, StallCheck, Forget, Store, IngestEnqueue, Replay,
              ChangeReach, Tick, Sweep, SweepFind, SweepEnqueue, vars
<1> QED
  BY <1>1, <1>2

(* A step of a handler leaves its worker on its delivery, or idle. *)
LEMMA ProcessKeepsEvent ==
  ASSUME TypeOK, NEW w \in Workers, Process(w)
  PROVE  worker'[w].pc = "idle" \/ (~At(w, "idle") /\ worker'[w].ev = worker[w].ev)
<1> USE DEF At
<1>1. CASE Return(w) \/ Throw(w)
  BY <1>1 DEF Return, Throw, TypeOK, Idle
<1>2. CASE Claim(w)
  BY <1>2, ClaimFields DEF Claim
<1>3. CASE ParkMalformed(w) \/ SettleRow(w) \/ HandleFailure(w)
  BY <1>3, GotoFields DEF ParkMalformed, SettleRow, HandleFailure
<1>4. CASE SkipItem(w) \/ RefuseItem(w)
  BY <1>4, AdvanceFields DEF SkipItem, RefuseItem
<1>5. CASE WriteItem(w) \/ ItemFault(w)
  BY <1>5, GotoFields, AdvanceFields DEF WriteItem, ItemFault
<1>6. CASE QueueTicketLink(w)
  BY <1>6, AdvanceFields DEF QueueTicketLink
<1> QED
  BY <1>1, <1>2, <1>3, <1>4, <1>5, <1>6 DEF Process

LEMMA NextHasJob == TypeOK /\ WorkerHasJob /\ [Next]_vars => WorkerHasJob'
<1> SUFFICES ASSUME TypeOK, WorkerHasJob, [Next]_vars, NEW w \in Workers
             PROVE  (~At(w, "idle") => worker[w].ev \in Events)'
  BY DEF WorkerHasJob
<1>1. CASE ~WorkerStep(w) /\ ~Crash(w)
  BY <1>1, WorkerFrame DEF WorkerHasJob, At
<1>2. CASE Process(w)
  BY <1>2, ProcessKeepsEvent DEF WorkerHasJob, At
<1>3. ASSUME NEW e \in Events, NEW i \in Slots, PickUp(w, e, i)
      PROVE  (~At(w, "idle") => worker[w].ev \in Events)'
  BY <1>3 DEF PickUp, TypeOK, Idle, At
<1>4. CASE Crash(w)
  BY <1>4 DEF Crash, TypeOK, At, Idle
<1> QED
  BY <1>1, <1>2, <1>3, <1>4 DEF WorkerStep

-----------------------------------------------------------------------------
(* A worker that has refused nothing has written everything before its       *)
(* index: one step per way of moving on.                                     *)
LEMMA AdvanceProgress ==
  ASSUME TypeOK, [Next]_vars, NEW w \in Workers, NEW parked \in BOOLEAN, NEW x,
         Progress(w), At(w, "apply") \/ At(w, "trigger"), MoreItems(w), Advance(w, parked),
         x = Item(w), parked \/ ItemDone(x)'
  PROVE  Progress(w)'
<1> DEFINE e == worker[w].ev
<1>1. /\ worker[w] \in WorkerStates /\ e \in Events \ Malformed
      /\ worker[w].idx \in 1..Len(Payload[e])
  BY PayloadAssumption DEF TypeOK, WorkerStates, Progress, MoreItems
<1>2. /\ worker'[w].pc = "apply" /\ worker'[w].ev = e
      /\ worker'[w].idx = worker[w].idx + 1
      /\ ~worker'[w].parked => ~worker[w].parked /\ ~parked
  BY <1>1, AdvanceFields
<1>3. worker'[w].idx <= Len(Payload[e]) + 1
  BY <1>1, <1>2, PayloadAssumption
<1>4. ASSUME ~worker'[w].parked, NEW k \in 1..(worker'[w].idx - 1)
      PROVE  ItemDone(Payload[e][k])'
  <2>1. CASE k = worker[w].idx
    BY <1>2, <1>4, <2>1 DEF Item, ItemDone
  <2>2. CASE k # worker[w].idx
    <3>1. k \in 1..(worker[w].idx - 1)
      BY <1>1, <1>2, <2>2
    <3>2. ItemDone(Payload[e][k])
      BY <1>2, <1>4, <3>1 DEF Progress
    <3>3. \A y : y = Payload[e][k] => ItemDone(y)'
      BY <3>2, ItemDoneStable
    <3> QED
      BY <1>2, <3>3 DEF ItemDone
  <2> QED
    BY <2>1, <2>2
<1> QED
  BY <1>1, <1>2, <1>3, <1>4 DEF Progress, At

LEMMA NextProgress ==
  TypeOK /\ WorkerHasJob /\ WorkerProgress /\ [Next]_vars => WorkerProgress'
<1> SUFFICES ASSUME TypeOK, WorkerHasJob, WorkerProgress, [Next]_vars, NEW w \in Workers
             PROVE  Progress(w)'
  BY DEF WorkerProgress
<1>0. Progress(w) /\ worker[w] \in WorkerStates
  BY DEF WorkerProgress, TypeOK
<1>1. CASE ~WorkerStep(w) /\ ~Crash(w)
  BY <1>0, <1>1, WorkerFrame, ProgressFrame
<1>2. ASSUME worker'[w].pc \in PCs \ {"claim", "apply", "trigger"} PROVE Progress(w)'
  BY <1>2 DEF Progress, At
<1>3. CASE Crash(w) \/ Return(w) \/ Throw(w)
  BY <1>2, <1>3 DEF Crash, Return, Throw, TypeOK, Idle
<1>4. CASE \E e \in Events, i \in Slots : PickUp(w, e, i)
  <2>1. worker'[w].pc = "claim" /\ worker'[w].idx = 1
    BY <1>4 DEF PickUp, TypeOK, Idle
  <2> QED
    BY <2>1 DEF Progress, At
<1>5. CASE ParkMalformed(w) \/ SettleRow(w) \/ HandleFailure(w) \/ ItemFault(w)
  BY <1>2, <1>5, GotoFields DEF ParkMalformed, SettleRow, HandleFailure, ItemFault
<1>6. CASE Claim(w)
  <2>1. worker[w].ev \in Events
    BY <1>6 DEF Claim, WorkerHasJob, At
  <2>2. CASE worker'[w].pc = "apply"
    <3>1. worker[w].idx = 1
      BY <1>0, <1>6 DEF Claim, At, Progress
    <3> QED
      BY <1>6, <2>1, <2>2, <3>1, ClaimFields, PayloadAssumption DEF Progress, At
  <2>3. CASE worker'[w].pc # "apply"
    BY <1>2, <1>6, <2>3, ClaimFields
  <2> QED
    BY <2>2, <2>3
<1>7. CASE SkipItem(w) \/ RefuseItem(w)
  <2>1. CASE SkipItem(w)
    <3>1. ItemDone(Item(w))
      BY <2>1 DEF SkipItem, Skipped, ItemDone
    <3>2. \A x : x = Item(w) => ItemDone(x)'
      BY <3>1, ItemDoneStable
    <3> QED
      BY <1>0, <2>1, <3>2, AdvanceProgress DEF SkipItem
  <2>2. CASE RefuseItem(w)
    BY <1>0, <2>2, AdvanceProgress DEF RefuseItem
  <2> QED
    BY <1>7, <2>1, <2>2
<1>8. CASE WriteItem(w)
  <2>1. CASE Item(w).kind = "inbound"
    <3>1. worker'[w].pc = "trigger" /\ worker'[w].ev = worker[w].ev
          /\ worker'[w].idx = worker[w].idx /\ worker'[w].parked = worker[w].parked
      BY <1>8, <2>1, GotoFields DEF WriteItem, NeedsTicket
    <3>2. ASSUME ~worker[w].parked, NEW k \in 1..(worker[w].idx - 1)
          PROVE  ItemDone(Payload[worker[w].ev][k])'
      <4>1. \A y : y = Payload[worker[w].ev][k] => ItemDone(y)'
        BY <1>0, <1>8, <3>2, ItemDoneStable DEF WriteItem, Progress
      <4> QED
        BY <3>1, <4>1 DEF ItemDone
    <3>3. Item(w).msg \in recorded'
      BY <1>8 DEF WriteItem
    <3> QED
      BY <1>0, <1>8, <2>1, <3>1, <3>2, <3>3 DEF WriteItem, Progress, At, MoreItems, Item, ItemDone
  <2>2. CASE Item(w).kind # "inbound"
    <3>1. \A x : x = Item(w) => ItemDone(x)'
      BY <1>8, <2>2 DEF WriteItem, Written, ItemDone
    <3> QED
      BY <1>0, <1>8, <2>2, <3>1, AdvanceProgress DEF WriteItem, NeedsTicket
  <2> QED
    BY <2>1, <2>2
<1>9. CASE QueueTicketLink(w)
  <2>1. /\ MoreItems(w) /\ Item(w).kind = "inbound" /\ Item(w).msg \in recorded
    BY <1>0, <1>9 DEF QueueTicketLink, Progress
  <2>2. \A x : x = Item(w) => ItemDone(x)'
    BY <1>9, <2>1 DEF QueueTicketLink, ItemDone
  <2> QED
    BY <1>0, <1>9, <2>1, <2>2, AdvanceProgress DEF QueueTicketLink
<1> QED
  BY <1>1, <1>3, <1>4, <1>5, <1>6, <1>7, <1>8, <1>9 DEF WorkerStep, Process

-----------------------------------------------------------------------------
(* A row becomes processed only at the end of a worker's items. *)
LEMMA BecomesProcessed ==
  ASSUME TypeOK, WorkerHasJob, [Next]_vars, NEW e \in Events,
         row[e].status # "processed", row'[e].status = "processed"
  PROVE  \E w \in Workers : /\ At(w, "apply") /\ ~MoreItems(w)
                            /\ worker[w].ev = e /\ ~worker[w].parked
<1>0. row[e] \in Rows
  BY DEF TypeOK
<1>1. ASSUME NEW w \in Workers, NEW status \in Statuses, status # "processed",
             SetStatus(w, status), worker[w].ev \in Events
      PROVE  FALSE
  <2>1. \A f \in Events : row'[f] = IF f = worker[w].ev THEN [row[f] EXCEPT !.status = status] ELSE row[f]
    BY <1>1 DEF TypeOK, SetStatus
  <2>2. \A r \in Rows : [r EXCEPT !.status = status].status = status
    BY DEF Rows
  <2> QED
    BY <1>0, <1>1, <2>1, <2>2
<1>2. ASSUME NEW f \in Events, NEW r, row' = [row EXCEPT ![f] = r], r.status # "processed"
      PROVE  FALSE
  BY <1>0, <1>2 DEF TypeOK
<1>3. row' # row
  BY <1>0
<1>4. ASSUME NEW w \in Workers, Claim(w) PROVE FALSE
  <2>1. worker[w].ev \in Events
    BY <1>4 DEF Claim, At, WorkerHasJob
  <2>2. \A r \in Rows : \A k :
          [r EXCEPT !.status = "processing", !.attempts = k].status = "processing"
    BY DEF Rows
  <2>3. row[worker[w].ev] \in Rows
    BY <2>1 DEF TypeOK
  <2> DEFINE n == row[worker[w].ev].attempts + 1
  <2>4. row' = [row EXCEPT ![worker[w].ev] =
                  [row[worker[w].ev] EXCEPT !.status = "processing", !.attempts = n]]
    BY <1>3, <1>4 DEF Claim
  <2> HIDE DEF n
  <2> QED
    BY <1>2, <2>1, <2>2, <2>3, <2>4
<1>5. ASSUME NEW f \in Events, Replay(f) PROVE FALSE
  <2>1. \A r \in Rows : [r EXCEPT !.status = "received", !.attempts = 0].status = "received"
    BY DEF Rows
  <2> QED
    BY <1>2, <1>5, <2>1 DEF Replay, TypeOK
<1>6. ASSUME NEW f \in Events, Store(f) PROVE FALSE
  BY <1>2, <1>3, <1>6 DEF Store
<1>7. ASSUME NEW w \in Workers, Process(w), ~Claim(w)
      PROVE  /\ At(w, "apply") /\ ~MoreItems(w)
             /\ worker[w].ev = e /\ ~worker[w].parked
  <2>1. ~At(w, "idle") => worker[w].ev \in Events
    BY DEF WorkerHasJob
  <2>2. SettleRow(w)
    <3>1. CASE ParkMalformed(w) \/ HandleFailure(w)
      BY <1>1, <1>3, <2>1, <3>1 DEF ParkMalformed, HandleFailure, At
    <3>2. CASE UNCHANGED row
      BY <1>3, <3>2
    <3> QED
      BY <1>7, <3>1, <3>2 DEF Process, SkipItem, RefuseItem, WriteItem, ItemFault, QueueTicketLink,
                              Return, Throw, storeVars
  <2>3. ~worker[w].parked
    BY <1>1, <1>3, <2>1, <2>2 DEF SettleRow, At
  <2>4. worker[w].ev = e
    BY <1>0, <2>1, <2>2, <1>3 DEF SettleRow, SetStatus, TypeOK, At
  <2> QED
    BY <2>2, <2>3, <2>4 DEF SettleRow
<1>8. CASE UNCHANGED row
  BY <1>3, <1>8
<1> QED
  BY <1>4, <1>5, <1>6, <1>7, <1>8
  DEF Next, WorkerStep, PickUp, Crash, LockExpires, StallCheck, Forget, IngestEnqueue,
      ChangeReach, Tick, Sweep, SweepFind, SweepEnqueue, storeVars, vars

(* A worker at the end of its items with nothing refused has done them all.  *)
LEMMA AllItemsDone ==
  ASSUME TypeOK, WorkerProgress, NEW w \in Workers,
         At(w, "apply"), ~MoreItems(w), ~worker[w].parked
  PROVE  LET e == worker[w].ev IN
         Readable(e) /\ Carried(e) \subseteq recorded /\ CarriedInbound(e) \subseteq triggered \union lost
<1> DEFINE e == worker[w].ev
<1>1. e \in Events \ Malformed /\ worker[w].idx = Len(Payload[e]) + 1
  BY PayloadAssumption DEF WorkerProgress, Progress, MoreItems, TypeOK, WorkerStates
<1>2. ASSUME NEW k \in 1..Len(Payload[e]) PROVE ItemDone(Payload[e][k])
  BY <1>1, PayloadAssumption DEF WorkerProgress, Progress
<1>3. \A x \in ItemsOf(e) : ItemDone(x)
  BY <1>2 DEF ItemsOf
<1> QED
  BY <1>1, <1>3 DEF Readable, Carried, CarriedInbound, ItemDone

LEMMA NextProcessed ==
  IInv /\ [Next]_vars => ProcessedMeansRecorded' /\ ProcessedMeansTriggered'
<1> SUFFICES ASSUME IInv, [Next]_vars, NEW e \in Events, row'[e].status = "processed"
             PROVE  /\ Readable(e) /\ Carried(e) \subseteq recorded'
                    /\ CarriedInbound(e) \subseteq triggered' \union lost'
  BY DEF ProcessedMeansRecorded, ProcessedMeansTriggered, Readable, Carried, CarriedInbound, ItemsOf
<1>1. CASE row[e].status = "processed"
  BY <1>1, Monotone DEF IInv, ProcessedMeansRecorded, ProcessedMeansTriggered
<1>2. CASE row[e].status # "processed"
  <2>1. PICK w \in Workers : /\ At(w, "apply") /\ ~MoreItems(w)
                             /\ worker[w].ev = e /\ ~worker[w].parked
    BY <1>2, BecomesProcessed DEF IInv
  <2> QED
    BY <2>1, AllItemsDone, Monotone DEF IInv
<1> QED
  BY <1>1, <1>2

-----------------------------------------------------------------------------
(* IInv is inductive. *)
THEOREM IInvInvariant == Spec => []IInv
<1>1. IInv /\ [Next]_vars => IInv'
  BY NextTypeOK, NextHasJob, NextProgress, NextProcessed DEF IInv
<1> QED
  BY InitIInv, <1>1, PTL DEF Spec

(* Whatever crashes, retries, sweeps and replays happen, the rows, jobs and  *)
(* worker records of the pipeline keep their types.                          *)
THEOREM TypeCorrect == Spec => []TypeOK
<1>1. IInv => TypeOK
  BY DEF IInv
<1> QED
  BY IInvInvariant, <1>1, PTL

(* For every payload, every number of workers and every order of steps, a    *)
(* processed delivery has left none of its messages behind.                  *)
THEOREM ProcessedRecorded == Spec => []ProcessedMeansRecorded
<1>1. IInv => ProcessedMeansRecorded
  BY DEF IInv
<1> QED
  BY IInvInvariant, <1>1, PTL

(* The same for the ticket trigger of its inbound messages. *)
THEOREM ProcessedTriggered == Spec => []ProcessedMeansTriggered
<1>1. IInv => ProcessedMeansTriggered
  BY DEF IInv
<1> QED
  BY IInvInvariant, <1>1, PTL

-----------------------------------------------------------------------------
(* The refinement of DurableInbox.  A message may be recorded only for a     *)
(* delivery that is already stored, which needs one more invariant: whatever *)
(* a request, the queue, the sweep or a worker holds is a stored row, and a  *)
(* row once stored stays.                                                    *)
HeldIsStored ==
  /\ storing \subseteq Stored /\ sweeping \subseteq Stored
  /\ \A e \in Events, i \in Slots : jobs[e][i].st # "none" => e \in Stored
  /\ \A w \in Workers : ~At(w, "idle") => worker[w].ev \in Stored

(* What the updates of a row leave in its status. *)
LEMMA SetStatusFields ==
  ASSUME TypeOK, NEW w \in Workers, worker[w].ev \in Events, NEW status \in Statuses,
         SetStatus(w, status)
  PROVE  /\ row'[worker[w].ev].status = status
         /\ \A f \in Events \ {worker[w].ev} : row'[f] = row[f]
<1>1. row[worker[w].ev] \in Rows /\ row'[worker[w].ev] = [row[worker[w].ev] EXCEPT !.status = status]
  BY DEF TypeOK, SetStatus
<1>2. \A r \in Rows : [r EXCEPT !.status = status].status = status
  BY DEF Rows
<1> QED
  BY <1>1, <1>2 DEF TypeOK, SetStatus

LEMMA StoreFields ==
  ASSUME TypeOK, NEW e \in Events, Store(e)
  PROVE  \/ UNCHANGED <<row, storing>>
         \/ /\ row[e].status = "none" /\ row'[e].status = "received"
            /\ \A f \in Events \ {e} : row'[f] = row[f]
            /\ storing' = storing \union {e}
  BY DEF Store, Inserts, TypeOK

LEMMA ReplayFields ==
  ASSUME TypeOK, NEW e \in Events, Replay(e)
  PROVE  /\ row[e].status = "failed" /\ row'[e].status = "received"
         /\ \A f \in Events \ {e} : row'[f] = row[f]
<1>1. row[e] \in Rows /\ row'[e] = [row[e] EXCEPT !.status = "received", !.attempts = 0]
  BY DEF TypeOK, Replay
<1>2. \A r \in Rows : [r EXCEPT !.status = "received", !.attempts = 0].status = "received"
  BY DEF Rows
<1> QED
  BY <1>1, <1>2 DEF TypeOK, Replay

LEMMA ClaimRow ==
  ASSUME TypeOK, NEW w \in Workers, worker[w].ev \in Events, Claim(w)
  PROVE  \/ UNCHANGED row
         \/ /\ row[worker[w].ev].status \in Claimable
            /\ row'[worker[w].ev].status = "processing"
            /\ \A f \in Events \ {worker[w].ev} : row'[f] = row[f]
<1> DEFINE e == worker[w].ev
           n == row[e].attempts + 1
<1>1. CASE /\ row[e].status \in Claimable
           /\ row' = [row EXCEPT ![e] = [row[e] EXCEPT !.status = "processing", !.attempts = n]]
  <2>1. row[e] \in Rows /\ row'[e] = [row[e] EXCEPT !.status = "processing", !.attempts = n]
    BY <1>1 DEF TypeOK
  <2>2. \A f \in Events \ {e} : row'[f] = row[f]
    BY <1>1 DEF TypeOK
  <2>3. \A r \in Rows : [r EXCEPT !.status = "processing", !.attempts = n].status = "processing"
    <3> HIDE DEF n
    <3> QED
      BY DEF Rows
  <2>4. row'[e].status = "processing"
    <3> HIDE DEF n
    <3> QED
      BY <2>1, <2>3
  <2> QED
    BY <1>1, <2>2, <2>4
<1>2. CASE UNCHANGED row
  BY <1>2
<1> QED
  BY <1>1, <1>2 DEF Claim

(* The ways a step may change the rows. *)
RowStep ==
  \/ UNCHANGED row
  \/ \E e \in Events :
       /\ \A f \in Events \ {e} : row'[f] = row[f]
       /\ \/ row[e].status = "none" /\ row'[e].status = "received"
          \/ row[e].status \in Claimable /\ row'[e].status = "processing"
          \/ row[e].status = "failed" /\ row'[e].status = "received"
          \/ \E w \in Workers : /\ ~At(w, "idle") /\ worker[w].ev = e
                                /\ \/ row'[e].status = "failed"
                                   \/ /\ row'[e].status = "processed"
                                      /\ At(w, "apply") /\ ~MoreItems(w) /\ ~worker[w].parked

LEMMA RowSteps == TypeOK /\ WorkerHasJob /\ [Next]_vars => RowStep
<1> SUFFICES ASSUME TypeOK, WorkerHasJob, [Next]_vars PROVE RowStep
  OBVIOUS
<1>1. ASSUME NEW e \in Events, Store(e) \/ Replay(e) PROVE RowStep
  BY <1>1, StoreFields, ReplayFields DEF RowStep
<1>2. ASSUME NEW w \in Workers, Claim(w) PROVE RowStep
  BY <1>2, ClaimRow DEF RowStep, WorkerHasJob, At, Claim
<1>3. ASSUME NEW w \in Workers, NEW status \in {"failed", "processed"}, SetStatus(w, status), ~At(w, "idle"),
             status = "processed" => At(w, "apply") /\ ~MoreItems(w) /\ ~worker[w].parked
      PROVE  RowStep
  <2>1. worker[w].ev \in Events
    BY <1>3 DEF WorkerHasJob
  <2>2. /\ row'[worker[w].ev].status = status
        /\ \A f \in Events \ {worker[w].ev} : row'[f] = row[f]
    BY <1>3, <2>1, SetStatusFields
  <2> QED
    BY <1>3, <2>1, <2>2 DEF RowStep
<1>4. ASSUME NEW w \in Workers, ParkMalformed(w) \/ HandleFailure(w) PROVE RowStep
  <2>1. UNCHANGED row \/ (~At(w, "idle") /\ SetStatus(w, "failed"))
    BY <1>4 DEF ParkMalformed, HandleFailure, At
  <2> QED
    BY <1>3, <2>1 DEF RowStep
<1>5. ASSUME NEW w \in Workers, SettleRow(w) PROVE RowStep
  <2>1. \/ UNCHANGED row
        \/ ~At(w, "idle") /\ SetStatus(w, "failed")
        \/ /\ ~At(w, "idle") /\ SetStatus(w, "processed")
           /\ At(w, "apply") /\ ~MoreItems(w) /\ ~worker[w].parked
    BY <1>5 DEF SettleRow, At
  <2> QED
    BY <1>3, <2>1 DEF RowStep
<1>6. CASE UNCHANGED row
  BY <1>6 DEF RowStep
<1> QED
  BY <1>1, <1>2, <1>4, <1>5, <1>6
  DEF Next, WorkerStep, Process, SkipItem, RefuseItem, WriteItem, ItemFault, QueueTicketLink,
      Return, Throw, PickUp, Crash, LockExpires, StallCheck, Forget, IngestEnqueue,
      ChangeReach, Tick, Sweep, SweepFind, SweepEnqueue, storeVars, vars

(* A row once stored stays. *)
LEMMA StoredStays == TypeOK /\ WorkerHasJob /\ [Next]_vars => Stored \subseteq Stored'
<1> SUFFICES ASSUME RowStep, NEW e \in Events, row[e].status # "none" PROVE row'[e].status # "none"
  BY RowSteps DEF Stored
<1>1. CASE UNCHANGED row
  BY <1>1
<1>2. ASSUME NEW f \in Events, \A g \in Events \ {f} : row'[g] = row[g], row'[f].status \in Statuses \ {"none"}
      PROVE  row'[e].status # "none"
  BY <1>2
<1> QED
  BY <1>1, <1>2 DEF RowStep

(* The queue only ever holds jobs of stored rows. *)
LEMMA JobsOfStored ==
  ASSUME TypeOK, WorkerHasJob, HeldIsStored, [Next]_vars
  PROVE  UNCHANGED jobs \/ \E e \in Stored, i \in Slots, job \in Jobs : SetJob(e, i, job)
<1> DEFINE Goal == UNCHANGED jobs \/ \E e \in Stored, i \in Slots, job \in Jobs : SetJob(e, i, job)
<1>0. \A e \in Events, i \in Slots : jobs[e][i] \in Jobs
  BY DEF TypeOK
<1>1. [NoJob EXCEPT !.st = "waiting"] \in Jobs /\ NoJob \in Jobs
  BY DEF NoJob, Jobs
<1>2. ASSUME NEW e \in Events, IngestEnqueue(e) \/ SweepEnqueue(e) PROVE Goal
  <2>1. e \in Stored /\ 0 \in Slots
    BY <1>2, BoundsAssumption DEF IngestEnqueue, SweepEnqueue, HeldIsStored, Slots
  <2> QED
    BY <1>1, <1>2, <2>1 DEF IngestEnqueue, SweepEnqueue, Add, SweptIds
<1>3. ASSUME NEW e \in Events, NEW i \in Slots, StallCheck(e, i) \/ Forget(e, i) PROVE Goal
  <2>1. e \in Stored
    BY <1>3 DEF StallCheck, Forget, HeldIsStored
  <2>2. [jobs[e][i] EXCEPT !.st = "waiting", !.stalls = 1] \in Jobs
    BY <1>0 DEF Jobs
  <2> QED
    BY <1>1, <1>3, <2>1, <2>2, NoJobType DEF StallCheck, Forget
<1>4. ASSUME NEW w \in Workers, NEW e \in Events, NEW i \in Slots, PickUp(w, e, i) PROVE Goal
  <2>1. e \in Stored
    BY <1>4 DEF PickUp, HeldIsStored
  <2>2. [jobs[e][i] EXCEPT !.st = "active", !.owner = w] \in Jobs
    BY <1>0 DEF Jobs
  <2> QED
    BY <1>4, <2>1, <2>2 DEF PickUp
<1>5. ASSUME NEW w \in Workers, Return(w) \/ Throw(w) \/ Crash(w) \/ LockExpires(w) PROVE Goal
  <2> DEFINE job == jobs[worker[w].ev][worker[w].slot]
  <2>1. worker[w].ev \in Stored /\ worker[w].slot \in Slots
    BY <1>5 DEF Return, Throw, Crash, LockExpires, At, HeldIsStored, TypeOK, WorkerStates
  <2>2. job \in Jobs
    BY <1>0, <2>1 DEF Stored
  <2>3. /\ [job EXCEPT !.owner = NoWorker] \in Jobs
        /\ [job EXCEPT !.st = "waiting", !.tries = job.tries + 1, !.owner = NoWorker] \in Jobs
    <3> HIDE DEF job
    <3>1. job.tries + 1 \in Nat
      BY <2>2 DEF Jobs
    <3> QED
      BY <2>2, <3>1 DEF Jobs
  <2>4. \A to : MoveJob(w, to) => UNCHANGED jobs \/ SetJob(worker[w].ev, worker[w].slot, to)
    BY DEF MoveJob
  <2> QED
    BY <1>5, <2>1, <2>3, <2>4, NoJobType DEF Return, Throw, Crash, LockExpires
<1>6. CASE UNCHANGED jobs
  BY <1>6
<1> QED
  BY <1>2, <1>3, <1>4, <1>5, <1>6
  DEF Next, WorkerStep, Process, Claim, ParkMalformed, SkipItem, RefuseItem, WriteItem, ItemFault,
      QueueTicketLink, SettleRow, HandleFailure, Store, Replay, ChangeReach, Tick, Sweep, SweepFind,
      queueVars, vars

LEMMA InitHeldIsStored == Init => HeldIsStored
  BY DEF Init, HeldIsStored, NoJob, Idle, At

LEMMA NextHeldIsStored ==
  TypeOK /\ WorkerHasJob /\ HeldIsStored /\ [Next]_vars => HeldIsStored'
<1> SUFFICES ASSUME TypeOK, WorkerHasJob, HeldIsStored, [Next]_vars PROVE HeldIsStored'
  OBVIOUS
<1>0. Stored \subseteq Stored'
  BY StoredStays
<1>1. storing' \subseteq Stored'
  <2>1. ASSUME NEW e \in Events, Store(e) PROVE storing' \subseteq storing \union Stored'
    BY <2>1, StoreFields DEF Stored
  <2>2. CASE \A e \in Events : ~Store(e)
    <3>1. storing' \subseteq storing
      BY <2>2 DEF Next, WorkerStep, Process, Claim, ParkMalformed, SkipItem, RefuseItem, WriteItem,
          ItemFault, QueueTicketLink, SettleRow, HandleFailure, Return, Throw, PickUp, Crash,
          LockExpires, StallCheck, Forget, IngestEnqueue, Replay, ChangeReach, Tick, Sweep, SweepFind,
          SweepEnqueue, storeVars, vars
    <3> QED
      BY <1>0, <3>1 DEF HeldIsStored
  <2> QED
    BY <1>0, <2>1, <2>2 DEF HeldIsStored
<1>2. sweeping' \subseteq Stored'
  <2>1. CASE SweepFind
    BY <1>0, <2>1 DEF SweepFind, StaleBatch, Stale, Stored
  <2>2. CASE ~SweepFind
    <3>1. sweeping' \subseteq sweeping
      BY <2>2 DEF Next, WorkerStep, Process, Claim, ParkMalformed, SkipItem, RefuseItem, WriteItem,
          ItemFault, QueueTicketLink, SettleRow, HandleFailure, Return, Throw, PickUp, Crash,
          LockExpires, StallCheck, Forget, Store, IngestEnqueue, Replay, ChangeReach, Tick, Sweep,
          SweepEnqueue, queueVars, vars
    <3> QED
      BY <1>0, <3>1 DEF HeldIsStored
  <2> QED
    BY <2>1, <2>2
<1>3. ASSUME NEW e \in Events, NEW i \in Slots, jobs'[e][i].st # "none" PROVE e \in Stored'
  <2>1. CASE UNCHANGED jobs
    BY <1>0, <1>3, <2>1 DEF HeldIsStored
  <2>2. ASSUME NEW f \in Stored, NEW j \in Slots, NEW job, SetJob(f, j, job) PROVE e \in Stored'
    <3>1. e # f => jobs'[e] = jobs[e]
      BY <2>2 DEF SetJob, TypeOK
    <3> QED
      BY <1>0, <1>3, <3>1 DEF HeldIsStored
  <2> QED
    BY <2>1, <2>2, JobsOfStored
<1>4. ASSUME NEW w \in Workers, worker'[w].pc # "idle" PROVE worker'[w].ev \in Stored'
  <2>1. CASE ~WorkerStep(w) /\ ~Crash(w)
    BY <1>0, <1>4, <2>1, WorkerFrame DEF HeldIsStored, At
  <2>2. CASE Process(w)
    BY <1>0, <1>4, <2>2, ProcessKeepsEvent DEF HeldIsStored, At
  <2>3. ASSUME NEW e \in Events, NEW i \in Slots, PickUp(w, e, i) PROVE worker'[w].ev \in Stored'
    <3>1. worker'[w].ev = e /\ e \in Stored
      BY <2>3 DEF PickUp, TypeOK, Idle, HeldIsStored
    <3> QED
      BY <1>0, <3>1
  <2>4. CASE Crash(w)
    BY <1>4, <2>4 DEF Crash, TypeOK, Idle
  <2> QED
    BY <2>1, <2>2, <2>3, <2>4 DEF WorkerStep
<1> QED
  BY <1>1, <1>2, <1>3, <1>4 DEF HeldIsStored, At

(* Nothing works on a delivery before its row is committed, and a stored row *)
(* is never lost, whichever request, job, sweep or worker holds it.          *)
THEOREM StoredBeforeWork == Spec => []HeldIsStored
<1>1. IInv => TypeOK /\ WorkerHasJob
  BY DEF IInv
<1> QED
  BY IInvInvariant, InitHeldIsStored, NextHeldIsStored, <1>1, PTL DEF Spec

-----------------------------------------------------------------------------
(* The step simulation. *)
LEMMA InboxTyped ==
  ASSUME TypeOK, NEW e \in Events
  PROVE  /\ InboxState(e) = "unseen" <=> row[e].status = "none"
         /\ InboxState(e) = "pending" <=> row[e].status \in Claimable
         /\ InboxState(e) = "done" <=> row[e].status = "processed"
         /\ InboxState(e) = "parked" <=> row[e].status = "failed"
<1>1. row[e].status \in Statuses
  BY DEF TypeOK, Rows
<1> QED
  BY <1>1 DEF InboxState

LEMMA InboxTypedNext ==
  ASSUME TypeOK', NEW e \in Events
  PROVE  /\ InboxState(e)' = "unseen" <=> row'[e].status = "none"
         /\ InboxState(e)' = "pending" <=> row'[e].status \in Claimable
         /\ InboxState(e)' = "done" <=> row'[e].status = "processed"
         /\ InboxState(e)' = "parked" <=> row'[e].status = "failed"
<1>1. row'[e].status \in Statuses
  BY DEF TypeOK, Rows
<1> QED
  BY <1>1 DEF InboxState

LEMMA InboxFrame ==
  ASSUME NEW e \in Events, row'[e] = row[e]
  PROVE  InboxState(e)' = InboxState(e)
  BY DEF InboxState

(* The inbox states move as DurableInbox lets them. *)
LEMMA RowsSimulated ==
  ASSUME IInv, TypeOK', HeldIsStored, [Next]_vars, UNCHANGED recorded
  PROVE  [Inbox!InboxNext]_(Inbox!inboxVars)
<1> DEFINE before == [e \in Events |-> InboxState(e)]
           after == [e \in Events |-> InboxState(e)']
<1>0. RowStep
  BY RowSteps DEF IInv
<1> HIDE DEF before, after
<1>1. UNCHANGED row => after = before
  BY InboxFrame DEF before, after
<1>2. ASSUME NEW e \in Events, \A f \in Events \ {e} : row'[f] = row[f]
      PROVE  after = [before EXCEPT ![e] = InboxState(e)']
  BY <1>2, InboxFrame DEF before, after
<1>3. after = before => UNCHANGED Inbox!inboxVars
  BY DEF Inbox!inboxVars, before, after
<1>4. CASE UNCHANGED row
  BY <1>1, <1>3, <1>4
<1>5. ASSUME NEW e \in Events, \A f \in Events \ {e} : row'[f] = row[f],
             row[e].status = "none", row'[e].status = "received"
      PROVE  Inbox!Accept(e)
  <2>1. InboxState(e) = "unseen" /\ InboxState(e)' = "pending"
    BY <1>5, InboxTyped, InboxTypedNext DEF IInv
  <2> QED
    BY <1>2, <1>5, <2>1 DEF Inbox!Accept, before, after
<1>6. ASSUME NEW e \in Events, \A f \in Events \ {e} : row'[f] = row[f],
             row[e].status \in Claimable, row'[e].status = "processing"
      PROVE  after = before
  <2>1. InboxState(e)' = InboxState(e)
    BY <1>6, InboxTyped, InboxTypedNext DEF IInv
  <2> QED
    BY <1>2, <1>6, <2>1 DEF before
<1>7. ASSUME NEW e \in Events, \A f \in Events \ {e} : row'[f] = row[f],
             row[e].status = "failed", row'[e].status = "received"
      PROVE  Inbox!Reopen(e)
  <2>1. InboxState(e) = "parked" /\ InboxState(e)' = "pending"
    BY <1>7, InboxTyped, InboxTypedNext DEF IInv
  <2> QED
    BY <1>2, <1>7, <2>1 DEF Inbox!Reopen, before, after
<1>8. ASSUME NEW e \in Events, \A f \in Events \ {e} : row'[f] = row[f],
             NEW w \in Workers, ~At(w, "idle"), worker[w].ev = e
      PROVE  /\ row'[e].status = "failed" => Inbox!Park(e)
             /\ row'[e].status = "processed" /\ At(w, "apply") /\ ~MoreItems(w) /\ ~worker[w].parked
                  => Inbox!Complete(e)
  <2>1. InboxState(e) # "unseen"
    BY <1>8, InboxTyped DEF IInv, HeldIsStored, Stored
  <2>2. ASSUME row'[e].status = "failed" PROVE Inbox!Park(e)
    <3>1. InboxState(e)' = "parked"
      BY <2>2, InboxTypedNext
    <3> QED
      BY <1>2, <1>8, <2>1, <3>1 DEF Inbox!Park, before, after
  <2>3. ASSUME row'[e].status = "processed", At(w, "apply"), ~MoreItems(w), ~worker[w].parked
        PROVE  Inbox!Complete(e)
    <3>1. InboxState(e)' = "done"
      BY <2>3, InboxTypedNext
    <3>2. Readable(e) /\ Carried(e) \subseteq recorded
      BY <1>8, <2>3, AllItemsDone DEF IInv
    <3> QED
      BY <1>2, <1>8, <2>1, <3>1, <3>2 DEF Inbox!Complete, Inbox!FullyRecorded, before, after
  <2> QED
    BY <2>2, <2>3
<1> QED
  BY <1>0, <1>3, <1>4, <1>5, <1>6, <1>7, <1>8 DEF RowStep, Inbox!InboxNext

(* Only a worker on a written item records, and it records that item. *)
LEMMA RecordedBy ==
  ASSUME [Next]_vars, recorded' # recorded
  PROVE  \E w \in Workers : /\ At(w, "apply") /\ MoreItems(w) /\ Written(Item(w))
                            /\ recorded' = recorded \union {Item(w).msg}
                            /\ UNCHANGED row
  BY DEF Next, WorkerStep, Process, Claim, ParkMalformed, SkipItem, RefuseItem, WriteItem,
         ItemFault, QueueTicketLink, SettleRow, HandleFailure, Return, Throw, PickUp, Crash,
         LockExpires, StallCheck, Forget, Store, IngestEnqueue, Replay, ChangeReach, Tick, Sweep,
         SweepFind, SweepEnqueue, effectVars, storeVars, vars

LEMMA RecordsSimulated ==
  ASSUME IInv, HeldIsStored, [Next]_vars, recorded' # recorded
  PROVE  Inbox!InboxNext
<1>1. PICK w \in Workers : /\ At(w, "apply") /\ MoreItems(w) /\ Written(Item(w))
                           /\ recorded' = recorded \union {Item(w).msg}
                           /\ UNCHANGED row
  BY RecordedBy
<1>2. PICK e \in Events : e = worker[w].ev /\ InboxState(e) # "unseen"
  BY <1>1, InboxTyped DEF IInv, HeldIsStored, Stored, At
<1>3. Item(w) \in Items /\ Item(w) \in ItemsOf(e)
  BY <1>1, <1>2, ItemType, PayloadAssumption DEF IInv, TypeOK, WorkerStates, MoreItems, Item, ItemsOf
<1>4. Item(w).msg \in Carried(e) /\ Item(w).msg \in Messages
  BY <1>1, <1>3 DEF Written, Carried, Items
<1>5. \A f \in Events : InboxState(f)' = InboxState(f)
  BY <1>1, InboxFrame
<1>6. Inbox!Record(e, Item(w).msg)
  BY <1>1, <1>2, <1>4, <1>5 DEF Inbox!Record
<1> QED
  BY <1>4, <1>6 DEF Inbox!InboxNext

LEMMA InitSimulated == Init => Inbox!InboxInit
  BY DEF Init, Inbox!InboxInit, InboxState

(* The pipeline implements the promise of DurableInbox step by step: with    *)
(* any number of workers on one row, crashes, expired locks, sweeps and      *)
(* replays, a delivery is stored first, its messages are only ever added, it *)
(* is called done only when it is fully recorded, and only an operator       *)
(* reopens what was parked.                                                  *)
THEOREM InboxRefined == Spec => Inbox!InboxInit /\ InboxSteps
<1>1. IInv /\ IInv' /\ HeldIsStored /\ [Next]_vars => [Inbox!InboxNext]_(Inbox!inboxVars)
  BY RowsSimulated, RecordsSimulated DEF IInv
<1> QED
  BY IInvInvariant, StoredBeforeWork, InitSimulated, <1>1, PTL DEF Spec, InboxSteps
=============================================================================
