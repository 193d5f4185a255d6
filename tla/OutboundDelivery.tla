---------------------------- MODULE OutboundDelivery ----------------------------
(***************************************************************************)
(* The life of an outbound message after an agent, the bot or a workflow   *)
(* committed it: the job that carries it to Meta (OutboundMessageDispatcher *)
(* under a BullMQ worker), Meta's answer, and the status webhooks that     *)
(* come back for it, which may overtake the write that records Meta's      *)
(* answer.  msg and placeholder are rows of the messages table; job is what *)
(* Redis holds; disp is process memory.                                    *)
(***************************************************************************)
EXTENDS Integers

CONSTANTS Msgs,          \* outbound messages, by row id
          Dispatchers,   \* BullMQ worker slots of the conversations queue
          NoMsg, NoDispatcher, NoPid,
          MaxAttempts,   \* SEND_MAX_ATTEMPTS
          MaxAccepts,    \* bound: times Meta accepts the same message
          MaxHits,       \* bound: infrastructure faults that hit one message
          MaxActs        \* bound: changes of the tenant's status

ASSUME NoneAssumption == NoMsg \notin Msgs /\ NoDispatcher \notin Dispatchers
ASSUME BoundsAssumption == /\ MaxAttempts \in Nat \ {0}
                           /\ MaxAccepts \in Nat \ {0}
                           /\ MaxHits \in Nat
                           /\ MaxActs \in Nat

(* The id Meta gives to the n-th time it accepts message o.                  *)
Pids == Msgs \X (1..MaxAccepts)
ASSUME NoPidAssumption == NoPid \notin Pids

VARIABLES
  msg,          \* messages rows written by the send paths: status, provider id
  placeholder,  \* status of the row a receipt opened for a provider id
  sending,      \* committed by a request that has not tried to enqueue yet
  job,          \* job[o] has the id send-message-<o>
  disp,         \* what each worker slot is doing
  accepted,     \* how often Meta accepted the message
  applied,      \* receipts <<provider id, status>> that were processed
  allowed,      \* TENANT_STATUS_EFFECTS[status].outboundAllowed
  hits,         \* infrastructure faults that hit the delivery of the message
  acts

rowVars == <<msg, placeholder>>
queueVars == <<sending, job>>
metaVars == <<accepted, applied>>
envVars == <<allowed, acts>>
vars == <<msg, placeholder, sending, job, disp, accepted, applied, allowed, hits, acts>>

(* MESSAGE_STATUS_RANK. *)
Statuses == {"queued", "sent", "delivered", "read", "failed"}
Rank == [s \in Statuses |-> CASE s = "queued" -> 0
                              [] s = "sent" -> 1
                              [] s = "delivered" -> 2
                              [] s = "read" -> 3
                              [] s = "failed" -> 99]
Reported == {"sent", "delivered", "read", "failed"}

(* The statuses a report may move a row from: advanceMessageStatus evaluates *)
(* isMessageStatusAdvance into the WHERE clause.                             *)
(* Faulty variant: a late report overwrites whatever is there.               *)
AdvanceableFromAll(to) == Statuses
AdvanceableFrom(to) == {from \in Statuses : from # "failed" /\ Rank[to] > Rank[from]}

Rows == [st : Statuses \union {"none"}, pid : Pids \union {NoPid}]
JobStates == {"none", "waiting", "active", "failed"}
Jobs == [st : JobStates, tries : Nat, stalls : Nat, owner : Dispatchers \union {NoDispatcher}]
PCs == {"idle", "load", "check", "call", "record_sent", "record_failed", "return", "throw"}
DispStates == [pc : PCs, o : Msgs \union {NoMsg}, attempt : 1..MaxAttempts,
               pid : Pids \union {NoPid}]

NoJob == [st |-> "none", tries |-> 0, stalls |-> 0, owner |-> NoDispatcher]
Idle == [pc |-> "idle", o |-> NoMsg, attempt |-> 1, pid |-> NoPid]

Init ==
  /\ msg = [o \in Msgs |-> [st |-> "none", pid |-> NoPid]]
  /\ placeholder = [p \in Pids |-> "none"]
  /\ sending = {}
  /\ job = [o \in Msgs |-> NoJob]
  /\ disp = [d \in Dispatchers |-> Idle]
  /\ accepted = [o \in Msgs |-> 0]
  /\ applied = {}
  /\ allowed = TRUE
  /\ hits = [o \in Msgs |-> 0]
  /\ acts = 0

Healthy == UNCHANGED hits
Fault(o) == hits[o] < MaxHits /\ hits' = [hits EXCEPT ![o] = hits[o] + 1]

-----------------------------------------------------------------------------
(* The producers: MessageSendService.send and AutomatedMessageSender commit  *)
(* the row first and hand over the delivery afterwards.                      *)

CommitMessage(o) ==
  /\ msg[o].st = "none"
  /\ msg' = [msg EXCEPT ![o] = [st |-> "queued", pid |-> NoPid]]
  /\ sending' = sending \union {o}
  /\ UNCHANGED <<placeholder, job, disp, metaVars, envVars, hits>>

(* Never throws: an unreachable Redis, or a request that dies between commit *)
(* and enqueue, leaves the row queued with nothing to carry it.              *)
QueueDelivery(o) ==
  /\ o \in sending
  /\ sending' = sending \ {o}
  /\ \/ job' = [job EXCEPT ![o] = [NoJob EXCEPT !.st = "waiting"]] /\ Healthy
     \/ Fault(o) /\ UNCHANGED job
  /\ UNCHANGED <<rowVars, disp, metaVars, envVars>>

-----------------------------------------------------------------------------
(* BullMQ, modelled from how QueueService and ConversationsQueueRunner use it. *)

SetJob(o, j) == job' = [job EXCEPT ![o] = j]
SetDisp(d, s) == disp' = [disp EXCEPT ![d] = s]
At(d, pc) == disp[d].pc = pc
Goto(d, pc) == SetDisp(d, [disp[d] EXCEPT !.pc = pc])

(* A worker whose lock expired can no longer move its job.                   *)
MoveJob(d, j) == IF job[disp[d].o].owner = d THEN SetJob(disp[d].o, j) ELSE UNCHANGED job

(* The attempt number the handler is given.                                  *)
Attempt(o) == job[o].tries + 1

PickUp(d, o) ==
  /\ At(d, "idle") /\ job[o].st = "waiting"
  /\ SetJob(o, [job[o] EXCEPT !.st = "active", !.owner = d])
  /\ SetDisp(d, [pc |-> "load", o |-> o, attempt |-> Attempt(o), pid |-> NoPid])
  /\ UNCHANGED <<rowVars, sending, metaVars, envVars, hits>>

(* The handler returned; removeOnComplete drops the job.                     *)
Return(d) ==
  /\ At(d, "return")
  /\ MoveJob(d, NoJob)
  /\ SetDisp(d, Idle)
  /\ UNCHANGED <<rowVars, sending, metaVars, envVars, hits>>

(* The handler threw: back off and retry while the job has attempts left.    *)
(* Faulty variant: the attempt is not counted.                               *)
RetriedUncounted(j) == [j EXCEPT !.st = "waiting", !.owner = NoDispatcher]
Retried(j) == [j EXCEPT !.st = "waiting", !.tries = j.tries + 1, !.owner = NoDispatcher]
Throw(d) ==
  LET j == job[disp[d].o]
  IN  /\ At(d, "throw")
      /\ MoveJob(d, IF j.tries + 1 < MaxAttempts
                    THEN Retried(j)
                    ELSE [NoJob EXCEPT !.st = "failed"])
      /\ SetDisp(d, Idle)
      /\ UNCHANGED <<rowVars, sending, metaVars, envVars, hits>>

(* The process dies; the job stays active and unlocked.                      *)
Crash(d) ==
  /\ ~At(d, "idle") /\ Fault(disp[d].o)
  /\ MoveJob(d, [job[disp[d].o] EXCEPT !.owner = NoDispatcher])
  /\ SetDisp(d, Idle)
  /\ UNCHANGED <<rowVars, sending, metaVars, envVars>>

(* The lock expires under a worker that is only slow, and which goes on.     *)
LockExpires(d) ==
  /\ ~At(d, "idle") /\ job[disp[d].o].owner = d /\ Fault(disp[d].o)
  /\ SetJob(disp[d].o, [job[disp[d].o] EXCEPT !.owner = NoDispatcher])
  /\ UNCHANGED <<rowVars, sending, disp, metaVars, envVars>>

(* The stalled check requeues an unlocked active job once, then fails it.    *)
StallCheck(o) ==
  /\ job[o].st = "active" /\ job[o].owner = NoDispatcher
  /\ SetJob(o, IF job[o].stalls = 0
               THEN [job[o] EXCEPT !.st = "waiting", !.stalls = 1]
               ELSE [NoJob EXCEPT !.st = "failed"])
  /\ UNCHANGED <<rowVars, sending, disp, metaVars, envVars, hits>>

(* Redis loses a job that waits.                                             *)
Forget(o) ==
  /\ job[o].st = "waiting" /\ Fault(o)
  /\ SetJob(o, NoJob)
  /\ UNCHANGED <<rowVars, sending, disp, metaVars, envVars>>

-----------------------------------------------------------------------------
(* OutboundMessageDispatcher.deliver, one step per await.                    *)

Continue(d, pc) == Goto(d, pc) /\ Healthy
(* A query that fails outside the try block: BullMQ sees the exception.      *)
QueryFails(d) == Goto(d, "throw") /\ Fault(disp[d].o)

Load(d) ==
  /\ At(d, "load")
  /\ \/ Continue(d, IF msg[disp[d].o].st = "queued" THEN "check" ELSE "return")
     \/ QueryFails(d)
  /\ UNCHANGED <<rowVars, queueVars, metaVars, envVars>>

StatusRefusingOutbound(d) ==
  /\ At(d, "check")
  /\ \/ Continue(d, IF allowed THEN "call" ELSE "record_failed")
     \/ QueryFails(d)
  /\ UNCHANGED <<rowVars, queueVars, metaVars, envVars>>

(* The catch block, for an error that a retry can fix and for any other.     *)
(* Faulty variant: the last attempt throws too.                              *)
HasAttemptsLeftInclusive(d) == disp[d].attempt <= MaxAttempts
HasAttemptsLeft(d) == disp[d].attempt < MaxAttempts
RetryOrFail(d) == Goto(d, IF HasAttemptsLeft(d) THEN "throw" ELSE "record_failed")
(* Faulty variant: every error counts as worth retrying.                     *)
FailTerminallyRetrying(d) == RetryOrFail(d)
FailTerminally(d) == Goto(d, "record_failed")

Accepts(o) == accepted[o] < MaxAccepts /\ accepted' = [accepted EXCEPT ![o] = accepted[o] + 1]

(* Meta accepts the message and says so.                                     *)
SendAccepted(d) ==
  LET o == disp[d].o
  IN  /\ At(d, "call") /\ Accepts(o)
      /\ SetDisp(d, [disp[d] EXCEPT !.pc = "record_sent", !.pid = <<o, accepted[o] + 1>>])
      /\ UNCHANGED <<rowVars, queueVars, applied, envVars, hits>>

(* Meta rejects the request or the credential, or the media cannot be read.  *)
SendRejected(d) ==
  /\ At(d, "call") /\ FailTerminally(d)
  /\ UNCHANGED <<rowVars, queueVars, metaVars, envVars, hits>>

(* Meta is unreachable or throttles.                                         *)
SendUnavailable(d) ==
  /\ At(d, "call") /\ RetryOrFail(d)
  /\ UNCHANGED <<rowVars, queueVars, metaVars, envVars, hits>>

(* The call times out although Meta accepted the message.                    *)
SendTimesOut(d) ==
  /\ At(d, "call") /\ Accepts(disp[d].o) /\ Fault(disp[d].o)
  /\ RetryOrFail(d)
  /\ UNCHANGED <<rowVars, queueVars, applied, envVars>>

(* The rows recordSent and recordFailed may write: WHERE status = 'queued'.  *)
(* Faulty variant: keyed on the id alone.                                    *)
StillQueuedAny(o) == TRUE
StillQueued(o) == msg[o].st = "queued"

(* recordSent.  A receipt that came first holds the provider id, and the     *)
(* unique index turns the write into an error that the catch block fails.    *)
RecordSent(d) ==
  LET o == disp[d].o
      pid == disp[d].pid
  IN  /\ At(d, "record_sent")
      /\ \/ /\ ~StillQueued(o)
            /\ Continue(d, "return") /\ UNCHANGED msg
         \/ /\ StillQueued(o) /\ placeholder[pid] = "none"
            /\ msg' = [msg EXCEPT ![o] = [st |-> "sent", pid |-> pid]]
            /\ Continue(d, "return")
         \/ /\ StillQueued(o) /\ placeholder[pid] # "none"
            /\ FailTerminally(d) /\ Healthy /\ UNCHANGED msg
         \/ FailTerminally(d) /\ Fault(o) /\ UNCHANGED msg
      /\ UNCHANGED <<placeholder, queueVars, metaVars, envVars>>

(* recordFailed. *)
RecordFailed(d) ==
  LET o == disp[d].o
  IN  /\ At(d, "record_failed")
      /\ \/ /\ msg' = IF StillQueued(o) THEN [msg EXCEPT ![o] = [msg[o] EXCEPT !.st = "failed"]]
                                        ELSE msg
            /\ Continue(d, "return")
         \/ QueryFails(d) /\ UNCHANGED msg
      /\ UNCHANGED <<placeholder, queueVars, metaVars, envVars>>

-----------------------------------------------------------------------------
(* WhatsAppInboundWriter.applyStatusUpdate: Meta may report any status for a *)
(* message it accepted, in any order and more than once.                     *)
ApplyStatus(p, s) ==
  /\ p[2] <= accepted[p[1]]
  /\ applied' = applied \union {<<p, s>>}
  /\ \/ /\ msg[p[1]].pid = p
        /\ msg' = IF msg[p[1]].st \in AdvanceableFrom(s)
                  THEN [msg EXCEPT ![p[1]] = [msg[p[1]] EXCEPT !.st = s]] ELSE msg
        /\ UNCHANGED placeholder
     \/ /\ msg[p[1]].pid # p /\ placeholder[p] # "none"
        /\ placeholder' = IF placeholder[p] \in AdvanceableFrom(s)
                          THEN [placeholder EXCEPT ![p] = s] ELSE placeholder
        /\ UNCHANGED msg
     \/ /\ msg[p[1]].pid # p /\ placeholder[p] = "none"
        /\ placeholder' = [placeholder EXCEPT ![p] = s]
        /\ UNCHANGED msg
  /\ UNCHANGED <<queueVars, disp, accepted, envVars, hits>>

(* The tenant is suspended or becomes active again. *)
ChangeTenantStatus ==
  /\ acts < MaxActs /\ acts' = acts + 1
  /\ allowed' = ~allowed
  /\ UNCHANGED <<rowVars, queueVars, disp, metaVars, hits>>

-----------------------------------------------------------------------------
(* What a healthy worker does with the job it holds.                         *)
Deliver(d) == \/ Load(d) \/ StatusRefusingOutbound(d)
              \/ SendAccepted(d) \/ SendRejected(d) \/ SendUnavailable(d) \/ SendTimesOut(d)
              \/ RecordSent(d) \/ RecordFailed(d) \/ Return(d) \/ Throw(d)

Next == \/ \E o \in Msgs : CommitMessage(o) \/ QueueDelivery(o) \/ StallCheck(o) \/ Forget(o)
        \/ \E d \in Dispatchers : Deliver(d) \/ Crash(d) \/ LockExpires(d)
        \/ \E d \in Dispatchers, o \in Msgs : PickUp(d, o)
        \/ \E p \in Pids, s \in Reported : ApplyStatus(p, s)
        \/ ChangeTenantStatus

Spec == Init /\ [][Next]_vars

(* Requests finish, a handler that runs goes on, and a waiting or stalled    *)
(* job is picked up: what a live API process and Redis provide.  Nothing is  *)
(* assumed about Meta's answers, receipts or the tenant.                     *)
FairSpec == /\ Spec
            /\ \A o \in Msgs : /\ WF_vars(QueueDelivery(o))
                               /\ WF_vars(StallCheck(o))
                               /\ WF_vars(\E d \in Dispatchers : PickUp(d, o))
            /\ \A d \in Dispatchers : WF_vars(Deliver(d))

-----------------------------------------------------------------------------
(* Types of the message rows, the jobs and the dispatchers.                  *)
TypeOK ==
  /\ msg \in [Msgs -> Rows]
  /\ placeholder \in [Pids -> Reported \union {"none"}]
  /\ sending \subseteq Msgs
  /\ job \in [Msgs -> Jobs]
  /\ disp \in [Dispatchers -> DispStates]
  /\ accepted \in [Msgs -> 0..MaxAccepts]
  /\ applied \subseteq Pids \X Reported
  /\ allowed \in BOOLEAN
  /\ hits \in [Msgs -> 0..MaxHits]
  /\ acts \in 0..MaxActs

(* A message's status only ever moves forward (MESSAGE_STATUS_RANK), a       *)
(* failure is final and a provider id once recorded stays, although          *)
(* dispatchers, redelivered jobs and receipts all write the row.             *)
Forward(old, new) == \/ old.st = "none"
                     \/ new = old
                     \/ /\ old.st # "failed" /\ Rank[new.st] > Rank[old.st]
                        /\ old.pid = NoPid \/ new.pid = old.pid
StatusForward == [][\A o \in Msgs : Forward(msg[o], msg'[o])]_vars

(* A receipt is never lost: whichever of recordSent and the webhooks comes   *)
(* first, the row that carries the provider id is at or past every status    *)
(* that was reported for it.                                                 *)
ReceiptsStick ==
  \A r \in applied :
    LET p == r[1]
        at == IF msg[p[1]].pid = p THEN msg[p[1]].st ELSE placeholder[p]
    IN  at \in Statuses /\ Rank[at] >= Rank[r[2]]

(* The customer gets a message once more only for an infrastructure fault    *)
(* that hit its delivery: retries by themselves never send it again, which   *)
(* is why only errors that mean "not accepted" are retried.                  *)
SecondSendNeedsFault == \A o \in Msgs : accepted[o] <= 1 + hits[o]

(* Something still carries a queued message: its request, its job, a worker. *)
Carried(o) == \/ o \in sending
              \/ job[o].st \in {"waiting", "active"}
              \/ \E d \in Dispatchers : disp[d].o = o

(* No queued message is left behind by the retry logic alone: the queue and  *)
(* the handler agree on the last attempt (SEND_MAX_ATTEMPTS).                *)
StuckNeedsFault == \A o \in Msgs : msg[o].st = "queued" /\ hits[o] = 0 => Carried(o)

(* Every committed reply is decided (sent or failed) in the end, unless a    *)
(* fault hit its delivery.                                                   *)
EventuallyDecided ==
  \A o \in Msgs : (msg[o].st = "queued") ~> (msg[o].st # "queued" \/ hits[o] > 0)

(* A message the dispatcher marked failed was not accepted by Meta.          *)
FailedMeansNotAccepted ==
  \A o \in Msgs : msg[o].st = "failed" /\ msg[o].pid = NoPid => accepted[o] = 0
=============================================================================
