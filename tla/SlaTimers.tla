------------------------------- MODULE SlaTimers -------------------------------
(***************************************************************************)
(* The SLA clocks of one ticket: the reconciler (SlaTimerService) that     *)
(* sla.evaluate-ticket jobs run, and the breach sweep (SlaSweepService),   *)
(* by the workers of one queue and of several replicas, while people and   *)
(* the bot answer, pause, resume and finish the ticket, and the tenant is  *)
(* suspended, restored and in the end deleted.  Transactions are read      *)
(* committed and take no lock on the ticket: every SELECT is a step of its *)
(* own, other commits fall between, and now() is the time of the first.    *)
(* The writes of a transaction are one step with its commit, and their     *)
(* WHERE clauses are evaluated there.  The tenant's policy sets a window   *)
(* for both kinds.                                                         *)
(***************************************************************************)
EXTENDS Integers

CONSTANTS Workers,       \* workers of the sla queue
          Window,        \* minutes of the policy, per kind
          MaxPause,      \* the longest pause that fits paused_ms, an int4 (24.8 days)
          MaxTime,       \* bound: the clock stops here
          MaxActs        \* bound: what is done to the ticket and the tenant, and faults:
                         \* crashes, failed transactions and enqueues

Kinds == {"first_response", "resolution"}        \* SLA_TIMER_KINDS
ASSUME WindowAssumption == Window \in [Kinds -> Nat]
ASSUME MaxPauseAssumption == MaxPause \in Nat
ASSUME BoundsAssumption == MaxTime \in Nat /\ MaxActs \in Nat

VARIABLES
  now,
  tenant,    \* the tenant's status
  ticket,    \* status, replied to by a person, first_responded_at, resolved_at
  timers,    \* sla_timers, by kind
  jobs,      \* queued sla.evaluate-ticket jobs
  worker,    \* what each worker is doing, with what it has read
  breaches,  \* breach records written per kind: ticket event and alerts
  triggered, \* kinds whose breach was handed to the workflows queue
  misjudged, \* kinds that a sweep with no other transaction beside it breached, though
             \* at no moment of its transaction did the ticket want them running
  overlapped,\* have two transactions ever run at the same time
  dropped,   \* has an evaluation been dropped because the tenant was deleted
  acts, faults

vars == <<now, tenant, ticket, timers, jobs, worker, breaches, triggered, misjudged, overlapped,
          dropped, acts, faults>>
breachVars == <<breaches, triggered, misjudged>>
ghostVars == <<breachVars, overlapped, dropped>>
dataVars == <<tenant, ticket, timers>>
boundVars == <<acts, faults>>

Statuses == {"open", "pending", "resolved", "closed"}
Mutable == {"running", "paused"}                 \* MUTABLE_STATES
TimerStates == Mutable \cup {"none", "met", "cancelled", "breached"}

(* Stored, but not swept; trialing, past_due and cancelled are like it.      *)
TenantStatuses == {"active", "suspended", "deleted"}

NoTimer == [st |-> "none", due |-> 0, pausedAt |-> 0, pausedFor |-> 0]
Unread == [st |-> "open", first |-> FALSE, resolved |-> FALSE, seen |-> [k \in Kinds |-> "none"]]
(* A sweep has found timers; alone is whether its transaction has been the   *)
(* only one so far, live the kinds the ticket wanted running meanwhile.      *)
Idle == [pc |-> "idle", at |-> 0, read |-> Unread, found |-> {}, alone |-> TRUE, live |-> {}]

Init ==
  /\ now = 0 /\ tenant = "active"
  /\ ticket = [st |-> "open", replied |-> FALSE, stamped |-> FALSE, resolved |-> FALSE]
  /\ timers = [k \in Kinds |-> NoTimer]
  /\ jobs = 1                                    \* ticket_created
  /\ worker = [w \in Workers |-> Idle]
  /\ breaches = [k \in Kinds |-> 0]
  /\ triggered = {} /\ misjudged = {}
  /\ overlapped = FALSE /\ dropped = FALSE
  /\ acts = 0 /\ faults = 0

At(w, pc) == worker[w].pc = pc
SetWorker(w, s) == worker' = [worker EXCEPT ![w] = s]
TransactionPCs == {"ticket", "timers", "reply", "commit", "blind"}
InTransaction == {w \in Workers : worker[w].pc \in TransactionPCs}
Fault == acts < MaxActs /\ acts' = acts + 1 /\ faults' = faults + 1

-----------------------------------------------------------------------------
(* The reconciler. *)

SlaTimerTargetFor(k, r) ==
  IF IF k = "first_response" THEN r.first ELSE r.resolved THEN "met"
  ELSE IF r.st \in {"resolved", "closed"} THEN "cancelled"
  ELSE IF r.st = "pending" THEN "paused" ELSE "running"

(* The ticket and the timers as they are, and the kinds ticket t wants        *)
(* running.                                                                  *)
TicketReading(t) == [Unread EXCEPT !.st = t.st, !.first = t.stamped \/ t.replied, !.resolved = t.resolved]
Wanted(t) == {k \in Kinds : SlaTimerTargetFor(k, TicketReading(t)) = "running"}

(* createMissingTimers, ON CONFLICT DO NOTHING; the deadline is anchored to  *)
(* the ticket's creation, at time 0.                                         *)
Created(r) == {k \in Kinds : r.seen[k] = "none" /\ timers[k].st = "none"}
Started(k) == [st |-> "running", due |-> Window[k], pausedAt |-> 0, pausedFor |-> 0]
AfterCreate(r, k) == IF k \in Created(r) THEN Started(k) ELSE timers[k]

(* Faulty variant: a resume pushes the deadline whatever the state is now.   *)
ResumableAny(t) == t.st \in Mutable
Resumable(t) == t.st = "paused"
Stoppable(t) == t.st \in Mutable

(* applyTransition at time at: three guarded updates, of which each counts   *)
(* the time spent paused.                                                    *)
Paused(t, at) == IF t.st = "running" THEN [t EXCEPT !.st = "paused", !.pausedAt = at] ELSE t
PauseEnded(t, st, at) ==
  [t EXCEPT !.st = st, !.pausedAt = 0,
            !.pausedFor = IF t.st = "paused" THEN @ + (at - t.pausedAt) ELSE @]
Resumed(t, at) ==
  IF Resumable(t)
  THEN [PauseEnded(t, "running", at) EXCEPT !.due = @ + (at - t.pausedAt)] ELSE t
Stopped(t, st, at) == IF Stoppable(t) THEN PauseEnded(t, st, at) ELSE t
ApplyTransition(t, target, at) ==
  CASE target = "paused" -> Paused(t, at)
    [] target = "running" -> Resumed(t, at)
    [] OTHER -> Stopped(t, target, at)

(* reconcileTimers goes by the states that were read, or, when it created    *)
(* timers, by a second reading.                                              *)
ReconcileTimers(r, at) ==
  [k \in Kinds |->
    LET t == AfterCreate(r, k)
        from == IF Created(r) # {} THEN t.st ELSE r.seen[k]
        target == SlaTimerTargetFor(k, r)
    IN IF from \in Mutable /\ from # target THEN ApplyTransition(t, target, at) ELSE t]

(* stampFirstResponse: a compare-and-set of first_responded_at.              *)
StampFirstResponse(r) == [ticket EXCEPT !.stamped = @ \/ r.first]

(* The ::int cast of a pause, and paused_ms with it, has 32 bits: to resume  *)
(* or stop a timer after a longer one raises, and undoes the transaction.    *)
TooLong(t, at) ==
  \E ms \in {at - t.pausedAt, t.pausedFor + (at - t.pausedAt)} : ms > MaxPause
CastRaises(r, at) ==
  \E k \in Kinds :
    /\ r.seen[k] \in Mutable /\ SlaTimerTargetFor(k, r) \notin {r.seen[k], "paused"}
    /\ timers[k].st = "paused" /\ TooLong(timers[k], at)

(* assert_tenant_serviceable lets the transaction begin, at the time now()   *)
(* will have throughout, with its first statement: s is what the worker then *)
(* knows.                                                                    *)
StartTransaction(w, s) ==
  LET others == InTransaction \ {w}
  IN /\ tenant # "deleted"
     /\ worker' = [v \in Workers |->
          IF v = w THEN [s EXCEPT !.at = now, !.alone = (others = {})]
          ELSE IF v \in others THEN [worker[v] EXCEPT !.alone = FALSE] ELSE worker[v]]
     /\ overlapped' = (overlapped \/ others # {})

(* The statements of reconcile: the ticket, its timers, and whether a person *)
(* has replied since it was created, if no reply is on the ticket yet.       *)
TicketRead == [Unread EXCEPT !.st = ticket.st, !.first = ticket.stamped, !.resolved = ticket.resolved]
Select(w, pc, next, r) ==
  /\ At(w, pc)
  /\ SetWorker(w, [worker[w] EXCEPT !.pc = next, !.read = r])
  /\ UNCHANGED <<now, dataVars, jobs, ghostVars, boundVars>>
ReadTicket(w) == Select(w, "ticket", "timers", TicketRead)
ReadTimers(w) ==
  Select(w, "timers", IF worker[w].read.first THEN "commit" ELSE "reply",
         [worker[w].read EXCEPT !.seen = [k \in Kinds |-> timers[k].st]])
ReadReply(w) ==
  Select(w, "reply", "commit", [worker[w].read EXCEPT !.first = @ \/ ticket.replied])

(* evaluateTicket: the job's transaction begins with the ticket; of a        *)
(* deleted tenant the job is dropped.                                        *)
EvaluateTicket(w) ==
  /\ At(w, "idle") /\ jobs > 0
  /\ jobs' = jobs - 1
  /\ \/ StartTransaction(w, [Idle EXCEPT !.pc = "timers", !.read = TicketRead]) /\ UNCHANGED dropped
     \/ tenant = "deleted" /\ dropped' = TRUE /\ UNCHANGED <<worker, overlapped>>
  /\ UNCHANGED <<now, dataVars, breachVars, boundVars>>

Evaluating(w) == worker[w].found = {}
EvaluateCommit(w) ==
  LET r == worker[w].read
  IN /\ At(w, "commit") /\ Evaluating(w) /\ ~CastRaises(r, worker[w].at)
     /\ ticket' = StampFirstResponse(r)
     /\ timers' = ReconcileTimers(r, worker[w].at)
     /\ SetWorker(w, Idle)
     /\ UNCHANGED <<now, tenant, jobs, ghostVars, boundVars>>

(* The transaction fails or the process dies: the job is retried.            *)
EvaluateFail(w) ==
  /\ w \in InTransaction /\ Evaluating(w) /\ Fault
  /\ jobs' = jobs + 1
  /\ SetWorker(w, Idle)
  /\ UNCHANGED <<now, dataVars, ghostVars>>

(* The cast raises: the job has no attempt left, as each of them would raise *)
(* (a retry is EvaluateFail); of a sweep, the chunk.                         *)
CastFails(w) ==
  /\ At(w, "commit") /\ CastRaises(worker[w].read, worker[w].at)
  /\ SetWorker(w, Idle)
  /\ UNCHANGED <<now, dataVars, jobs, ghostVars, boundVars>>

-----------------------------------------------------------------------------
(* The sweep. *)

(* Faulty variant: a timer is due only after its deadline.                   *)
DueAfter(t, at) == t.st = "running" /\ t.due < at
Due(t, at) == t.st = "running" /\ t.due <= at

(* Phase 1, findDueTimers: an unscoped read of ids of active tenants, oldest *)
(* deadline first.  The batch has a limit, of the tenant and of all, that    *)
(* other tickets use up as well, and a chunk of it is swept at a time.       *)
FindDueTimers(w) ==
  LET due == {k \in Kinds : Due(timers[k], now)}
  IN /\ At(w, "idle") /\ tenant = "active"
     /\ \E found \in (SUBSET due) \ {{}} :
          /\ \A k \in found, j \in due \ found : timers[k].due <= timers[j].due
          /\ SetWorker(w, [Idle EXCEPT !.pc = "found", !.found = found])
     /\ UNCHANGED <<now, dataVars, jobs, ghostVars, boundVars>>

(* Phase 2, the chunk's transaction: reconcileDueTickets looks which timers  *)
(* are still due.  With none it reconciles nothing, and the claim follows    *)
(* all the same; of a deleted tenant the chunk is skipped.                   *)
StillDue(w) == {k \in worker[w].found : Due(timers[k], now)}
ReconcileDueTickets(w) ==
  /\ At(w, "found")
  /\ \/ StartTransaction(w, [worker[w] EXCEPT !.pc = IF StillDue(w) # {} THEN "ticket" ELSE "blind",
                                                  !.live = Wanted(ticket)])
     \/ tenant = "deleted" /\ SetWorker(w, Idle) /\ UNCHANGED overlapped
  /\ UNCHANGED <<now, dataVars, jobs, breachVars, dropped, boundVars>>

(* Faulty variant: the claim trusts the evaluations to have run.             *)
ReconciledNot(w) == timers
Reconciled(w) == IF At(w, "blind") THEN timers ELSE ReconcileTimers(worker[w].read, worker[w].at)

(* Faulty variant: a timer another sweep has breached is claimed again.      *)
ClaimableAgain(t, at) == t.st \in {"running", "breached"} /\ t.due <= at
Claimable(t, at) == Due(t, at)

(* claimAndAlert: reconciles, claims what is running and due of all that was *)
(* found, and writes the event and the alerts of what it claimed.            *)
Claimed(w) == {k \in worker[w].found : Claimable(Reconciled(w)[k], worker[w].at)}
ClaimAndAlert(w) ==
  /\ \/ At(w, "commit") /\ ~Evaluating(w) /\ ~CastRaises(worker[w].read, worker[w].at)
     \/ At(w, "blind")
  /\ ticket' = StampFirstResponse(worker[w].read)
  /\ timers' = [k \in Kinds |-> IF k \in Claimed(w) THEN [Reconciled(w)[k] EXCEPT !.st = "breached"]
                               ELSE Reconciled(w)[k]]
  /\ breaches' = [k \in Kinds |-> IF k \in Claimed(w) THEN breaches[k] + 1 ELSE breaches[k]]
  /\ misjudged' = IF worker[w].alone THEN misjudged \cup (Claimed(w) \ worker[w].live) ELSE misjudged
  /\ SetWorker(w, IF Claimed(w) = {} THEN Idle ELSE [Idle EXCEPT !.pc = "trigger", !.found = Claimed(w)])
  /\ UNCHANGED <<now, tenant, jobs, triggered, overlapped, dropped, boundVars>>

Triggers(w) == worker[w].found
(* triggerWorkflowEvaluation for each breach, after the commit.              *)
TriggerWorkflowEvaluation(w) ==
  /\ At(w, "trigger")
  /\ triggered' = triggered \cup Triggers(w)
  /\ SetWorker(w, Idle)
  /\ UNCHANGED <<now, dataVars, jobs, breaches, misjudged, overlapped, dropped, boundVars>>

(* A chunk fails, or the process dies, in the sweep: the next sweep looks    *)
(* again, and what was not enqueued after a commit is lost.                  *)
SweepFail(w) ==
  /\ ~At(w, "idle") /\ ~Evaluating(w) /\ Fault
  /\ SetWorker(w, Idle)
  /\ UNCHANGED <<now, dataVars, jobs, ghostVars>>

-----------------------------------------------------------------------------
(* The ticket and its tenant.  Each change of the ticket is committed and    *)
(* its evaluation enqueued; Redis may lose the job.                          *)

(* Faulty variant: a finished ticket asks for no evaluation.                 *)
QueueSlaEvaluationLive == jobs' = IF ticket'.st \in {"open", "pending"} THEN jobs + 1 ELSE jobs
QueueSlaEvaluation == jobs' = jobs + 1
Change(t) ==
  /\ tenant # "deleted" /\ acts < MaxActs /\ acts' = acts + 1
  /\ ticket' = t
  /\ worker' = [w \in Workers |->
       IF w \in InTransaction /\ ~Evaluating(w) THEN [worker[w] EXCEPT !.live = @ \cup Wanted(t)]
       ELSE worker[w]]
  /\ \/ QueueSlaEvaluation /\ UNCHANGED faults
     \/ UNCHANGED jobs /\ faults' = faults + 1
  /\ UNCHANGED <<now, tenant, timers, ghostVars>>

(* A person's outbound message.                                              *)
SendReply == ~ticket.replied /\ Change([ticket EXCEPT !.replied = TRUE])
(* A person, a workflow or the bot pauses; they or the customer resume.      *)
Pause == ticket.st = "open" /\ Change([ticket EXCEPT !.st = "pending"])
Resume == ticket.st = "pending" /\ Change([ticket EXCEPT !.st = "open"])
FinishTicket(st) ==
  /\ ticket.st \in {"open", "pending"} \cup (IF st = "closed" THEN {"resolved"} ELSE {})
  /\ Change([ticket EXCEPT !.st = st, !.resolved = @ \/ st = "resolved"])

(* An operator suspends the tenant, or restores it; a timer deletes it.      *)
ChangeTenant ==
  /\ acts < MaxActs /\ acts' = acts + 1
  /\ \/ tenant = "active" /\ tenant' = "suspended"
     \/ tenant = "suspended" /\ tenant' \in {"active", "deleted"}
  /\ UNCHANGED <<now, ticket, timers, jobs, worker, ghostVars, faults>>

Tick == /\ now < MaxTime /\ now' = now + 1
        /\ UNCHANGED <<dataVars, jobs, worker, ghostVars, boundVars>>

Step(w) == \/ EvaluateTicket(w) \/ FindDueTimers(w) \/ ReconcileDueTickets(w)
           \/ ReadTicket(w) \/ ReadTimers(w) \/ ReadReply(w)
           \/ EvaluateCommit(w) \/ ClaimAndAlert(w) \/ CastFails(w)
           \/ TriggerWorkflowEvaluation(w)
TicketStep == SendReply \/ Pause \/ Resume \/ \E st \in {"resolved", "closed"} : FinishTicket(st)

Next == \/ \E w \in Workers : Step(w) \/ EvaluateFail(w) \/ SweepFail(w)
        \/ TicketStep \/ ChangeTenant \/ Tick

Spec == Init /\ [][Next]_vars
(* A scheduler raises the sweep for ever and jobs are delivered: some worker *)
(* of the queue proceeds, though a given one may be stuck.                   *)
FairSpec == Spec /\ WF_vars(\E w \in Workers : Step(w))

-----------------------------------------------------------------------------
(* Types of the ticket, the timers and the workers.  A resume by a           *)
(* transaction that began before the pause it ends takes time off, so due_at *)
(* and paused_ms have no lower bound.                                        *)
TypeOK ==
  /\ now \in 0..MaxTime /\ tenant \in TenantStatuses
  /\ ticket \in [st : Statuses, replied : BOOLEAN, stamped : BOOLEAN, resolved : BOOLEAN]
  /\ timers \in [Kinds -> [st : TimerStates, due : Int, pausedAt : 0..MaxTime, pausedFor : Int]]
  /\ jobs \in Nat
  /\ worker \in [Workers -> [pc : TransactionPCs \cup {"idle", "found", "trigger"}, at : 0..MaxTime,
                             read : [st : Statuses, first : BOOLEAN, resolved : BOOLEAN,
                                     seen : [Kinds -> TimerStates]],
                             found : SUBSET Kinds, alone : BOOLEAN, live : SUBSET Kinds]]
  /\ breaches \in [Kinds -> Nat]
  /\ triggered \subseteq Kinds /\ misjudged \subseteq Kinds
  /\ overlapped \in BOOLEAN /\ dropped \in BOOLEAN
  /\ acts \in 0..MaxActs /\ faults \in 0..acts

(* The deadline moves by the time spent paused and by nothing else, however  *)
(* evaluations and sweeps interleave: due_at is the creation plus the window *)
(* plus paused_ms while the timer runs, and once it has breached.            *)
DeadlineAccounted ==
  \A k \in Kinds : timers[k].st \in {"running", "paused", "breached"} =>
    timers[k].due = Window[k] + timers[k].pausedFor

(* A breach is of an overdue clock, is recorded and alerted exactly once, by *)
(* however many sweeps, and is handed to the workflows unless a crash fell   *)
(* between its commit and the enqueue.                                       *)
BreachedOnce ==
  \A k \in Kinds :
    /\ breaches[k] = IF timers[k].st = "breached" THEN 1 ELSE 0
    /\ timers[k].st = "breached" =>
         /\ timers[k].due <= now
         /\ \/ k \in triggered \/ faults > 0
            \/ \E w \in Workers : At(w, "trigger") /\ k \in worker[w].found

(* A lost evaluation does not breach a ticket: when no other transaction of  *)
(* the queue runs beside the sweep's, it breaches a clock only if the ticket *)
(* wanted it running at some moment of that transaction, whatever became of  *)
(* the evaluations before it and whatever people do meanwhile.               *)
LostJobBreachesNothing == misjudged = {}

(* A timer in agreement with its ticket, or stopped for good.                *)
Agrees(k) == timers[k].st \in {SlaTimerTargetFor(k, TicketReading(ticket)), "breached", "met", "cancelled"}
Settled == jobs = 0 /\ \A w \in Workers : At(w, "idle")
Overlong == \E k \in Kinds : timers[k].st = "paused" /\ TooLong(timers[k], now)
(* Evaluations that ran one after the other, in any order, leave the timers  *)
(* in the state the ticket implies, unless one was dropped because the       *)
(* tenant was deleted, or a pause has become too long to be counted.         *)
SerialEvaluationsConverge ==
  Settled /\ ~overlapped /\ faults = 0 => dropped \/ Overlong \/ \A k \in Kinds : Agrees(k)

(* No timer stays overdue for ever: each is breached, or stopped, or paused. *)
(* Of a tenant that is not active it is left as it is.                       *)
OverdueIsJudged == []<>(tenant = "active" => \A k \in Kinds : timers[k].st = "running" => timers[k].due > now)
=============================================================================
