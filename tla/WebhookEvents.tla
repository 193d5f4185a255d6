----------------------------- MODULE WebhookEvents -----------------------------
(***************************************************************************)
(* The durable webhook pipeline of the API: WebhookIngestService stores a  *)
(* delivery and enqueues it, BullMQ workers run WhatsAppEventProcessor on  *)
(* it, WebhookSweeperService re-enqueues what nothing settled, and an      *)
(* operator may replay a parked row.  Postgres rows are the variables row  *)
(* and recorded; jobs is what Redis holds; worker is process memory and is *)
(* lost in a crash.                                                        *)
(***************************************************************************)
EXTENDS Integers, Sequences, FiniteSets

CONSTANTS Events,        \* deliveries, identified by the digest of their bytes
          Messages,      \* provider message ids carried by the deliveries
          Workers,       \* BullMQ worker slots, over all replicas
          NoEvent, NoWorker,
          Payload,       \* Payload[e]: the items of the delivery's changes, in order
          Malformed,     \* deliveries whose envelope does not parse
          MaxAttempts,   \* WEBHOOK_MAX_ATTEMPTS
          SweepBatch,    \* SWEEP_BATCH_SIZE
          MaxSwept,      \* bound: swept jobs of one event that exist at a time
          MaxFaults,     \* bound: crashes, timeouts and lost jobs
          MaxActs        \* bound: operator replays and account changes

(* One item is one message or one status of a change, or a change that is    *)
(* dropped or parked before any message of it is read.                       *)
Kinds == {"inbound", "status", "unmodelled_status", "bad_wa_id",
          "other_field", "unreadable"}
Items == [kind : Kinds, msg : Messages]

ASSUME FiniteAssumption == IsFiniteSet(Events)
ASSUME NoneAssumption == NoEvent \notin Events /\ NoWorker \notin Workers
ASSUME PayloadAssumption == Payload \in [Events -> Seq(Items)]
ASSUME MalformedAssumption == Malformed \subseteq Events
ASSUME BoundsAssumption == /\ MaxAttempts \in Nat \ {0}
                           /\ SweepBatch \in Nat \ {0}
                           /\ MaxSwept \in Nat
                           /\ MaxFaults \in Nat
                           /\ MaxActs \in Nat

VARIABLES
  row,          \* webhook_events: status, attempts and the rank of received_at
  staleBefore,  \* rows of rank at most this are older than WEBHOOK_STUCK_AFTER_MS
  storing,      \* rows inserted by a request that has not tried to enqueue yet
  jobs,         \* jobs[e][0] has the ingest job id, jobs[e][i] a swept one
  sweeping,     \* found by the running sweep and not re-enqueued yet
  worker,       \* what each worker slot is doing
  recorded,     \* messages committed by the inbound writer
  triggered,    \* messages whose ticket.ensure job was queued
  lost,         \* messages for which that enqueue failed at least once
  reach,        \* can the number be routed to a tenant that may be written to
  faults, acts  \* budgets spent

storeVars == <<row, staleBefore, storing>>
queueVars == <<jobs, sweeping>>
effectVars == <<recorded, triggered, lost>>
envVars == <<reach, acts>>
vars == <<row, staleBefore, storing, jobs, sweeping, worker,
          recorded, triggered, lost, reach, faults, acts>>

Statuses == {"none", "received", "processing", "processed", "failed"}
Claimable == {"received", "processing"}
Slots == 0..MaxSwept
JobStates == {"none", "waiting", "active", "completed", "failed"}
PCs == {"idle", "claim", "park", "apply", "trigger", "fail", "return", "throw"}
Reaches == {"unknown_number", "not_active", "ok"}

Rows == [status : Statuses, attempts : Nat, at : Nat]
Jobs == [st : JobStates, tries : Nat, stalls : Nat, owner : Workers \union {NoWorker}]
WorkerStates == [pc : PCs, ev : Events \union {NoEvent}, slot : Slots,
                 attempts : Nat, idx : Nat \ {0}, parked : BOOLEAN]

NoJob == [st |-> "none", tries |-> 0, stalls |-> 0, owner |-> NoWorker]
Idle == [pc |-> "idle", ev |-> NoEvent, slot |-> 0,
         attempts |-> 0, idx |-> 1, parked |-> FALSE]

Stored == {e \in Events : row[e].status # "none"}

Init ==
  /\ row = [e \in Events |-> [status |-> "none", attempts |-> 0, at |-> 0]]
  /\ staleBefore = 0
  /\ storing = {}
  /\ jobs = [e \in Events |-> [i \in Slots |-> NoJob]]
  /\ sweeping = {}
  /\ worker = [w \in Workers |-> Idle]
  /\ recorded = {} /\ triggered = {} /\ lost = {}
  /\ reach \in Reaches
  /\ faults = 0 /\ acts = 0

Healthy == UNCHANGED faults
Fault == faults < MaxFaults /\ faults' = faults + 1
Act == acts < MaxActs /\ acts' = acts + 1

-----------------------------------------------------------------------------
(* BullMQ, modelled from how QueueService and the runners use it.            *)

SetJob(e, i, job) == jobs' = [jobs EXCEPT ![e][i] = job]

(* add: an id BullMQ still holds, in any set, is ignored without a word.     *)
Add(e, i) == IF jobs[e][i].st = "none"
             THEN SetJob(e, i, [NoJob EXCEPT !.st = "waiting"])
             ELSE UNCHANGED jobs

(* A finished ingest job keeps its id (removeOnComplete, removeOnFail); a    *)
(* swept id is never used again, so its slot is free at once.                *)
Finished(i, st) == IF i = 0 THEN [NoJob EXCEPT !.st = st] ELSE NoJob

(* A worker whose lock expired can no longer move its job.                   *)
MoveJob(w, to) ==
  LET e == worker[w].ev
      i == worker[w].slot
  IN  IF jobs[e][i].owner = w THEN SetJob(e, i, to) ELSE UNCHANGED jobs

PickUp(w, e, i) ==
  /\ worker[w].pc = "idle" /\ jobs[e][i].st = "waiting"
  /\ SetJob(e, i, [jobs[e][i] EXCEPT !.st = "active", !.owner = w])
  /\ worker' = [worker EXCEPT ![w] = [Idle EXCEPT !.pc = "claim", !.ev = e, !.slot = i]]
  /\ UNCHANGED <<storeVars, sweeping, effectVars, envVars, faults>>

(* The handler returned: the job is complete. *)
Return(w) ==
  /\ worker[w].pc = "return"
  /\ MoveJob(w, Finished(worker[w].slot, "completed"))
  /\ worker' = [worker EXCEPT ![w] = Idle]
  /\ UNCHANGED <<storeVars, sweeping, effectVars, envVars, faults>>

(* The handler threw: back off and retry until the job's own attempts are    *)
(* spent, then keep the job in the failed set.                               *)
Throw(w) ==
  LET job == jobs[worker[w].ev][worker[w].slot]
  IN  /\ worker[w].pc = "throw"
      /\ MoveJob(w, IF job.tries + 1 < MaxAttempts
                    THEN [job EXCEPT !.st = "waiting", !.tries = job.tries + 1, !.owner = NoWorker]
                    ELSE Finished(worker[w].slot, "failed"))
      /\ worker' = [worker EXCEPT ![w] = Idle]
      /\ UNCHANGED <<storeVars, sweeping, effectVars, envVars, faults>>

(* The process dies anywhere in a handler; its job stays active, unlocked.   *)
Crash(w) ==
  /\ worker[w].pc # "idle" /\ Fault
  /\ MoveJob(w, [jobs[worker[w].ev][worker[w].slot] EXCEPT !.owner = NoWorker])
  /\ worker' = [worker EXCEPT ![w] = Idle]
  /\ UNCHANGED <<storeVars, sweeping, effectVars, envVars>>

(* The lock expires under a worker that is only slow, and which goes on.     *)
LockExpires(w) ==
  /\ worker[w].pc # "idle" /\ Fault
  /\ jobs[worker[w].ev][worker[w].slot].owner = w
  /\ MoveJob(w, [jobs[worker[w].ev][worker[w].slot] EXCEPT !.owner = NoWorker])
  /\ UNCHANGED <<storeVars, sweeping, worker, effectVars, envVars>>

(* The stalled check (maxStalledCount 1) requeues an unlocked active job     *)
(* once and fails it the second time.                                        *)
StallCheck(e, i) ==
  /\ jobs[e][i].st = "active" /\ jobs[e][i].owner = NoWorker
  /\ SetJob(e, i, IF jobs[e][i].stalls = 0
                  THEN [jobs[e][i] EXCEPT !.st = "waiting", !.stalls = 1]
                  ELSE Finished(i, "failed"))
  /\ UNCHANGED <<storeVars, sweeping, worker, effectVars, envVars, faults>>

(* Redis loses a job it held, or evicts a retained one. *)
Forget(e, i) ==
  /\ jobs[e][i].st \in {"waiting", "completed", "failed"} /\ Fault
  /\ SetJob(e, i, NoJob)
  /\ UNCHANGED <<storeVars, sweeping, worker, effectVars, envVars>>

-----------------------------------------------------------------------------
(* The unique (provider, provider_event_id) with ON CONFLICT DO NOTHING.      *)
(* Faulty variant: a retried delivery overwrites the row it should hit.      *)
InsertsAlways(e) == TRUE
Inserts(e) == row[e].status = "none"

(* WebhookIngestService.  A duplicate delivery inserts nothing and enqueues  *)
(* nothing; the request of a first one still has to enqueue.                 *)
Store(e) ==
  /\ IF Inserts(e)
     THEN /\ row' = [row EXCEPT ![e] = [status |-> "received", attempts |-> 0,
                                        at |-> Cardinality(Stored) + 1]]
          /\ storing' = storing \union {e}
     ELSE UNCHANGED <<row, storing>>
  /\ UNCHANGED <<staleBefore, queueVars, worker, effectVars, envVars, faults>>

(* The enqueue of the request, which reports an outcome and never throws: an *)
(* unreachable Redis, or a request that died first, leaves the row received. *)
IngestEnqueue(e) ==
  /\ e \in storing
  /\ storing' = storing \ {e}
  /\ \/ Add(e, 0) /\ Healthy
     \/ Fault /\ UNCHANGED jobs
  /\ UNCHANGED <<row, staleBefore, sweeping, worker, effectVars, envVars>>

(* Time passes: the oldest row not yet past WEBHOOK_STUCK_AFTER_MS gets there. *)
Tick ==
  /\ staleBefore < Cardinality(Stored)
  /\ staleBefore' = staleBefore + 1
  /\ UNCHANGED <<row, storing, queueVars, worker, effectVars, envVars, faults>>

(* findStale: claimable, older than the cut, oldest first, at most a batch.  *)
Stale == {e \in Events : row[e].status \in Claimable /\ row[e].at <= staleBefore}
StaleBatch == {e \in Stale :
                 Cardinality({f \in Stale : row[f].at < row[e].at}) < SweepBatch}

SweepFind ==
  /\ sweeping = {} /\ Stale # {}
  /\ sweeping' = StaleBatch
  /\ UNCHANGED <<storeVars, jobs, worker, effectVars, envVars, faults>>

(* The job ids a sweep may add under.                                        *)
(* Faulty variant: the ingest job's id, which a finished job may still hold. *)
SweptIdsIngest == {0}
SweptIds == Slots \ {0}

(* One iteration of sweep's loop: a job under an id of its own, or a failed  *)
(* enqueue that only lowers the count it reports.  With every slot taken the *)
(* bound MaxSwept leaves the event to the jobs it already has.               *)
SweepEnqueue(e) ==
  /\ e \in sweeping /\ \A f \in sweeping : row[e].at <= row[f].at
  /\ sweeping' = sweeping \ {e}
  /\ \/ \E i \in SweptIds : jobs[e][i].st = "none" /\ Add(e, i) /\ Healthy
     \/ /\ \A i \in SweptIds : jobs[e][i].st # "none"
        /\ UNCHANGED jobs /\ Healthy
     \/ Fault /\ UNCHANGED jobs
  /\ UNCHANGED <<storeVars, worker, effectVars, envVars>>

-----------------------------------------------------------------------------
(* WhatsAppEventProcessor.process, one step per await.                       *)

At(w, pc) == worker[w].pc = pc
Goto(w, pc) == worker' = [worker EXCEPT ![w].pc = pc]
Item(w) == Payload[worker[w].ev][worker[w].idx]
(* Faulty variant: the last item is never reached. *)
MoreItemsShort(w) == worker[w].idx < Len(Payload[worker[w].ev])
MoreItems(w) == worker[w].idx <= Len(Payload[worker[w].ev])
SetStatus(w, status) == row' = [row EXCEPT ![worker[w].ev].status = status]

(* claim: the conditional UPDATE that takes a received or processing row.    *)
Claim(w) ==
  LET e == worker[w].ev
  IN  /\ At(w, "claim")
      /\ \/ /\ row[e].status \in Claimable /\ Healthy
            /\ row' = [row EXCEPT ![e] =
                 [row[e] EXCEPT !.status = "processing", !.attempts = row[e].attempts + 1]]
            /\ worker' = [worker EXCEPT ![w] =
                 [worker[w] EXCEPT !.pc = IF e \in Malformed THEN "park" ELSE "apply",
                                   !.attempts = row[e].attempts + 1]]
         \/ /\ row[e].status \notin Claimable /\ Healthy
            /\ Goto(w, "return") /\ UNCHANGED row
         \/ Fault /\ Goto(w, "throw") /\ UNCHANGED row
      /\ UNCHANGED <<staleBefore, storing, queueVars, effectVars, envVars>>

(* An envelope that does not parse is parked outside the try block.          *)
ParkMalformed(w) ==
  /\ At(w, "park")
  /\ \/ SetStatus(w, "failed") /\ Goto(w, "return") /\ Healthy
     \/ Fault /\ Goto(w, "throw") /\ UNCHANGED row
  /\ UNCHANGED <<staleBefore, storing, queueVars, effectVars, envVars>>

(* Items that leave nothing behind: a change of another field, and a status  *)
(* this product does not model once its number resolved to an account.       *)
Skipped(item) ==
  \/ item.kind = "other_field"
  \/ item.kind = "unmodelled_status" /\ reach # "unknown_number"

(* Items that park the delivery while the rest of it still applies.          *)
Refused(item) ==
  \/ item.kind = "unreadable"
  \/ item.kind = "unmodelled_status" /\ reach = "unknown_number"
  \/ item.kind = "bad_wa_id"
  \/ item.kind \in {"inbound", "status"} /\ reach # "ok"

Written(item) == item.kind \in {"inbound", "status"} /\ reach = "ok"

(* The next item; parkedReason ??= keeps the first refusal.                  *)
Advance(w, parked) ==
  worker' = [worker EXCEPT ![w] =
               [worker[w] EXCEPT !.pc = "apply", !.idx = worker[w].idx + 1,
                                 !.parked = worker[w].parked \/ parked]]

SkipItem(w) ==
  /\ At(w, "apply") /\ MoreItems(w) /\ Skipped(Item(w))
  /\ Advance(w, FALSE)
  /\ UNCHANGED <<storeVars, queueVars, effectVars, envVars, faults>>

RefuseItem(w) ==
  /\ At(w, "apply") /\ MoreItems(w) /\ Refused(Item(w))
  /\ Advance(w, TRUE)
  /\ UNCHANGED <<storeVars, queueVars, effectVars, envVars, faults>>

(* Only an inbound message asks for a ticket, on a replay of it as well.     *)
(* Faulty variant: a message already recorded asks for none.                 *)
NeedsTicketIfNew(item) == item.kind = "inbound" /\ item.msg \notin recorded
NeedsTicket(item) == item.kind = "inbound"

(* The writer's transaction.  A replay finds the message recorded and goes   *)
(* on to its ticket trigger all the same.  (That the row is gone when        *)
(* replayOf looks for it takes its deletion in between: the insert waits for *)
(* the transaction it conflicts with, and no message is ever deleted here.)  *)
WriteItem(w) ==
  /\ At(w, "apply") /\ MoreItems(w) /\ Written(Item(w))
  /\ recorded' = recorded \union {Item(w).msg}
  /\ IF NeedsTicket(Item(w)) THEN Goto(w, "trigger") ELSE Advance(w, FALSE)
  /\ UNCHANGED <<storeVars, queueVars, triggered, lost, envVars, faults>>

(* A transient database error while resolving the number or writing: the     *)
(* transaction rolled back, or it committed and the answer was lost.         *)
ItemFault(w) ==
  /\ At(w, "apply") /\ MoreItems(w) /\ Fault
  /\ Item(w).kind \notin {"other_field", "unreadable"}
  /\ \/ UNCHANGED recorded
     \/ Written(Item(w)) /\ recorded' = recorded \union {Item(w).msg}
  /\ Goto(w, "fail")
  /\ UNCHANGED <<storeVars, queueVars, triggered, lost, envVars>>

(* queueTicketLink, after the commit: a failed enqueue is logged and dropped. *)
QueueTicketLink(w) ==
  /\ At(w, "trigger")
  /\ \/ /\ triggered' = triggered \union {Item(w).msg}
        /\ UNCHANGED lost /\ Healthy
     \/ /\ Fault
        /\ lost' = lost \union {Item(w).msg}
        /\ UNCHANGED triggered
  /\ Advance(w, FALSE)
  /\ UNCHANGED <<storeVars, queueVars, recorded, envVars>>

(* markFailed or markProcessed, whatever the row says by now. *)
SettleRow(w) ==
  /\ At(w, "apply") /\ ~MoreItems(w)
  /\ \/ /\ SetStatus(w, IF worker[w].parked THEN "failed" ELSE "processed")
        /\ Goto(w, "return") /\ Healthy
     \/ Fault /\ Goto(w, "fail") /\ UNCHANGED row
  /\ UNCHANGED <<staleBefore, storing, queueVars, effectVars, envVars>>

(* handleFailure: park when the claim that this worker made spent the budget *)
(* of the row, otherwise note the error and rethrow.                         *)
HandleFailure(w) ==
  /\ At(w, "fail")
  /\ \/ /\ worker[w].attempts >= MaxAttempts /\ Healthy
        /\ SetStatus(w, "failed") /\ Goto(w, "return")
     \/ /\ worker[w].attempts < MaxAttempts /\ Healthy
        /\ UNCHANGED row /\ Goto(w, "throw")
     \/ Fault /\ Goto(w, "throw") /\ UNCHANGED row
  /\ UNCHANGED <<staleBefore, storing, queueVars, effectVars, envVars>>

-----------------------------------------------------------------------------
(* Platform operators and tenants.                                           *)

(* replay: only a parked row, and nothing is enqueued. *)
Replay(e) ==
  /\ row[e].status = "failed" /\ Act
  /\ row' = [row EXCEPT ![e] = [row[e] EXCEPT !.status = "received", !.attempts = 0]]
  /\ UNCHANGED <<staleBefore, storing, queueVars, worker, effectVars, reach, faults>>

(* A number is connected; a tenant is deactivated or comes back. *)
ChangeReach(r) ==
  /\ r \in {"not_active", "ok"} /\ r # reach /\ Act
  /\ reach' = r
  /\ UNCHANGED <<storeVars, queueVars, worker, effectVars, faults>>

-----------------------------------------------------------------------------
Process(w) ==
  \/ Claim(w) \/ ParkMalformed(w)
  \/ SkipItem(w) \/ RefuseItem(w) \/ WriteItem(w) \/ ItemFault(w)
  \/ QueueTicketLink(w) \/ SettleRow(w) \/ HandleFailure(w)
  \/ Return(w) \/ Throw(w)

WorkerStep(w) == Process(w) \/ (\E e \in Events, i \in Slots : PickUp(w, e, i))

Sweep == SweepFind \/ (\E e \in Events : SweepEnqueue(e))

Next ==
  \/ \E e \in Events : Store(e) \/ IngestEnqueue(e) \/ Replay(e)
  \/ \E e \in Events, i \in Slots : StallCheck(e, i) \/ Forget(e, i)
  \/ \E w \in Workers : WorkerStep(w) \/ Crash(w) \/ LockExpires(w)
  \/ \E r \in Reaches : ChangeReach(r)
  \/ Tick \/ Sweep

(* A live worker pool, a running stalled check, a repeating sweep and the    *)
(* clock; nothing forces a fault, a delivery or an operator.                 *)
Fairness ==
  /\ \A w \in Workers : WF_vars(WorkerStep(w))
  /\ WF_vars(\E e \in Events, i \in Slots : StallCheck(e, i))
  /\ WF_vars(Tick) /\ WF_vars(Sweep)

Spec == Init /\ [][Next]_vars
FairSpec == Spec /\ Fairness

-----------------------------------------------------------------------------
(* Types of the rows, the jobs, the workers and the effects.                 *)
TypeOK ==
  /\ row \in [Events -> Rows]
  /\ staleBefore \in Nat
  /\ storing \subseteq Events
  /\ jobs \in [Events -> [Slots -> Jobs]]
  /\ sweeping \subseteq Events
  /\ worker \in [Workers -> WorkerStates]
  /\ recorded \subseteq Messages /\ triggered \subseteq Messages /\ lost \subseteq Messages
  /\ reach \in Reaches
  /\ faults \in 0..MaxFaults /\ acts \in 0..MaxActs

ItemsOf(e) == {Payload[e][k] : k \in 1..Len(Payload[e])}
Carried(e) == {x.msg : x \in {y \in ItemsOf(e) : y.kind \in {"inbound", "status"}}}
CarriedInbound(e) == {x.msg : x \in {y \in ItemsOf(e) : y.kind = "inbound"}}
Readable(e) == /\ e \notin Malformed
               /\ \A x \in ItemsOf(e) : x.kind \notin {"unreadable", "bad_wa_id"}

(* A delivery is called processed only when every message it carries is      *)
(* committed and nothing in it was refused: markProcessed after a retry, a   *)
(* crash, a second worker or a replay never covers a message left behind.    *)
ProcessedMeansRecorded ==
  \A e \in Events : row[e].status = "processed" =>
     Readable(e) /\ Carried(e) \subseteq recorded

(* Behind a processed delivery every inbound message either has its ticket   *)
(* trigger or was one whose enqueue Redis refused: dying between the commit  *)
(* and queueTicketLink does not lose the trigger, because a replay of the    *)
(* message queues it again.                                                  *)
ProcessedMeansTriggered ==
  \A e \in Events : row[e].status = "processed" =>
     CarriedInbound(e) \subseteq triggered \union lost

(* The strengthening of the two: what a worker that has refused nothing so   *)
(* far has already written, item by item.                                    *)
ItemDone(x) ==
  /\ x.kind \notin {"unreadable", "bad_wa_id"}
  /\ x.kind \in {"inbound", "status"} => x.msg \in recorded
  /\ x.kind = "inbound" => x.msg \in triggered \union lost

Progress(w) ==
  /\ At(w, "claim") => worker[w].idx = 1
  /\ At(w, "apply") \/ At(w, "trigger") =>
       /\ worker[w].ev \in Events \ Malformed
       /\ worker[w].idx <= Len(Payload[worker[w].ev]) + 1
       /\ ~worker[w].parked =>
            \A k \in 1..(worker[w].idx - 1) : ItemDone(Payload[worker[w].ev][k])
  /\ At(w, "trigger") => /\ MoreItems(w) /\ Item(w).kind = "inbound"
                         /\ Item(w).msg \in recorded

WorkerProgress == \A w \in Workers : Progress(w)

WorkerHasJob == \A w \in Workers : ~At(w, "idle") => worker[w].ev \in Events

IInv == TypeOK /\ WorkerHasJob /\ WorkerProgress
        /\ ProcessedMeansRecorded /\ ProcessedMeansTriggered

(* The row's status as the inbox state: received and processing are pending. *)
InboxState(e) ==
  CASE row[e].status = "none" -> "unseen"
    [] row[e].status \in Claimable -> "pending"
    [] row[e].status = "processed" -> "done"
    [] row[e].status = "failed" -> "parked"

Inbox == INSTANCE DurableInbox WITH
           Deliveries <- Events, Carries <- Carried, Applicable <- Readable,
           inbox <- [e \in Events |-> InboxState(e)], stored <- recorded

(* The pipeline implements the promise of DurableInbox, its fairness too:    *)
(* every stored delivery is settled, through crashes, lost jobs, expired     *)
(* locks and unreachable Redis, because the sweep re-enqueues what is not.   *)
ImplementsInbox == Inbox!InboxSpec

(* The safety half of it, for several workers on one row: no late worker     *)
(* takes a settled row back to pending or calls it done too early.           *)
InboxSteps == [][Inbox!InboxNext]_(Inbox!inboxVars)
=============================================================================
