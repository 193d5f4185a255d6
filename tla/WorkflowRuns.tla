------------------------------ MODULE WorkflowRuns ------------------------------
(***************************************************************************)
(* The workflow engine on one ticket: workflow.evaluate-ticket jobs, the   *)
(* claim of a run per workflow and occurrence, its actions, and the        *)
(* occurrences the actions raise in turn (WorkflowTriggerService), with    *)
(* the sweep that offers an overdue ticket to elapsed workflows            *)
(* (WorkflowElapsedSweep).  Every step is one statement or transaction of  *)
(* a worker; what a ticket matches and what an action meets is a free      *)
(* choice.                                                                 *)
(***************************************************************************)
EXTENDS Integers, FiniteSets, FiniteSetsExt

CONSTANTS Workflows,     \* the tenant's workflows, as numbers: their position
          Trigger,       \* the type of occurrence each waits for: event or elapsed
          ActionCount,   \* actions of each workflow
          Workers,       \* workers of the workflows queue
          MaxChainDepth, \* WORKFLOW_LIMITS.maxChainDepth
          Budget,        \* WORKFLOW_LIMITS.runsPerTicketPerHour
          MaxTries,      \* attempts of a job
          MaxEvents,     \* bound: ticket events that are occurrences
          MaxActs,       \* bound: steps of people, and hours that pass
          MaxFaults      \* bound: crashes, failed statements and enqueues

ASSUME WorkflowAssumption == /\ Workflows \subseteq Nat
                             /\ Trigger \in [Workflows -> {"event", "elapsed"}]
                             /\ ActionCount \in [Workflows -> Nat \ {0}]
ASSUME BoundsAssumption == /\ MaxChainDepth \in Nat /\ Budget \in Nat /\ MaxTries \in Nat
                           /\ MaxEvents \in Nat \ {0} /\ MaxActs \in Nat /\ MaxFaults \in Nat
ASSUME FiniteAssumption == IsFiniteSet(Workflows) /\ IsFiniteSet(Workers)

VARIABLES
  runs,      \* workflow_runs, by workflow and occurrence
  armed,     \* workflows that are active
  jobs,      \* queued workflow.evaluate-ticket jobs
  worker,    \* what each worker is doing
  recent,    \* runs created within the last hour
  events,    \* ticket events so far
  open,      \* is the ticket unresolved
  performed, \* how often the actions of each run were started
  notices,   \* notices to the admins that a workflow was disarmed
  arms,      \* how often each workflow was armed
  settled,   \* events that a worker took up, or whose evaluation a fault kept from the queue
  abandoned, \* runs that a crash or a second failure left open
  acts, faults

vars == <<runs, armed, jobs, worker, recent, events, open, performed, notices, arms, settled,
          abandoned, acts, faults>>
ghostVars == <<performed, notices, arms, settled, abandoned>>
boundVars == <<acts, faults>>

Elapsed == 0                              \* the one elapsed occurrence of the ticket
Occurrences == Elapsed..MaxEvents
Keys == Workflows \X Occurrences          \* UNIQUE (workflow_id, dedupe_key)
(* A closed run succeeded, was skipped or failed; of the reasons of a failure*)
(* two make a difference here, and all other ends are alike.                 *)
Reasons == {"none", "reference_missing", "run_budget_exceeded"}
NoRun == [st |-> "none", reason |-> "none", depth |-> 0]
NoJob == [occ |-> Elapsed, depth |-> 0, tries |-> 0]
Idle == [pc |-> "idle", job |-> NoJob, left |-> {}, over |-> "unknown", w |-> Elapsed, next |-> 1,
         reason |-> "none", raised |-> {}]

(* A person has just changed the ticket.                                     *)
Init ==
  /\ runs = [k \in Keys |-> NoRun]
  /\ armed = Workflows
  /\ jobs = {[occ |-> 1, depth |-> 0, tries |-> 0]}
  /\ worker = [k \in Workers |-> Idle]
  /\ recent = {} /\ events = 1 /\ open = TRUE
  /\ performed = [k \in Keys |-> 0]
  /\ notices = [w \in Workflows |-> 0]
  /\ arms = [w \in Workflows |-> 1]
  /\ settled = {} /\ abandoned = {}
  /\ acts = 0 /\ faults = 0

At(k, pc) == worker[k].pc = pc
SetWorker(k, s) == worker' = [worker EXCEPT ![k] = s]
Current(k) == <<worker[k].w, worker[k].job.occ>>
TypeOf(occ) == IF occ = Elapsed THEN "elapsed" ELSE "event"
Act == acts < MaxActs /\ acts' = acts + 1 /\ UNCHANGED faults
Fault == faults < MaxFaults /\ faults' = faults + 1 /\ UNCHANGED acts
(* The loop over the candidates goes on, or ends the job.                    *)
NextCandidate(s) ==
  IF s.left = {} THEN Idle
  ELSE [Idle EXCEPT !.pc = "claim", !.job = s.job, !.left = s.left, !.over = s.over]
Close(k, reason) == SetWorker(k, [worker[k] EXCEPT !.pc = "close", !.reason = reason])

-----------------------------------------------------------------------------
(* A job. *)

TooDeep(depth) == depth > MaxChainDepth
LoadCandidates(occ) == {w \in armed : Trigger[w] = TypeOf(occ)}

(* evaluate: an elapsed occurrence asks for the budget before all else.      *)
Evaluate(k, j) ==
  /\ At(k, "idle") /\ j \in jobs
  /\ jobs' = jobs \ {j}
  /\ IF TooDeep(j.depth) \/ LoadCandidates(j.occ) = {} THEN UNCHANGED worker
     ELSE SetWorker(k, [Idle EXCEPT !.job = j, !.left = LoadCandidates(j.occ),
                                    !.pc = IF j.occ = Elapsed THEN "first" ELSE "claim"])
  /\ settled' = settled \cup ({j.occ} \ {Elapsed})
  /\ UNCHANGED <<runs, armed, recent, events, open, performed, notices, arms, abandoned,
                 boundVars>>

IsOverRunBudget == Cardinality(recent) > Budget

DeferInsteadOfSpending(over) == over
BudgetFirst(k) ==
  /\ At(k, "first")
  /\ SetWorker(k, IF DeferInsteadOfSpending(IsOverRunBudget) THEN Idle
                  ELSE [worker[k] EXCEPT !.pc = "claim",
                                         !.over = IF IsOverRunBudget THEN "yes" ELSE "no"])
  /\ UNCHANGED <<runs, armed, jobs, recent, events, open, ghostVars, boundVars>>

(* Faulty variant: a conflict returns the row that is there.                 *)
ClaimableAgain(key) == runs[key].st \in {"none", "running"}
(* ON CONFLICT DO NOTHING.                                                   *)
Claimable(key) == runs[key].st = "none"

(* claim: of the next candidate, by position.  The ticket may not have passed*)
(* the threshold of an elapsed workflow yet.                                 *)
Claim(k, due) ==
  LET w == Min(worker[k].left)
      key == <<w, worker[k].job.occ>>
      s == [worker[k] EXCEPT !.left = @ \ {w}]
  IN /\ At(k, "claim")
     /\ due \/ worker[k].job.occ = Elapsed
     /\ IF due /\ Claimable(key)
        THEN /\ runs' = [runs EXCEPT ![key] = [st |-> "running", reason |-> "none",
                                               depth |-> worker[k].job.depth]]
             /\ recent' = recent \cup {key}
             /\ SetWorker(k, [s EXCEPT !.w = w, !.pc = "budget", !.next = 1, !.raised = {}])
        ELSE SetWorker(k, NextCandidate(s)) /\ UNCHANGED <<runs, recent>>
     /\ UNCHANGED <<armed, jobs, events, open, ghostVars, boundVars>>

(* Faulty variant: nothing is over the budget.                               *)
ExceededNever(k) == FALSE
(* budgetExceeded: counted once per job.                                     *)
Exceeded(k) == IF worker[k].over = "unknown" THEN IsOverRunBudget ELSE worker[k].over = "yes"
(* runOne: within the budget, the fact sheet matches, does not, or cannot be *)
(* read.                                                                     *)
RunOne(k) ==
  LET s == [worker[k] EXCEPT !.over = IF Exceeded(k) THEN "yes" ELSE "no"]
  IN /\ At(k, "budget")
     /\ \/ /\ Exceeded(k)
           /\ SetWorker(k, [s EXCEPT !.pc = "closeOver", !.reason = "run_budget_exceeded"])
           /\ UNCHANGED performed
        \/ /\ ~Exceeded(k)
           /\ SetWorker(k, [s EXCEPT !.pc = "act"])
           /\ performed' = [performed EXCEPT ![Current(k)] = @ + 1]
        \/ /\ ~Exceeded(k)
           /\ SetWorker(k, [s EXCEPT !.pc = "close"])
           /\ UNCHANGED performed
     /\ UNCHANGED <<runs, armed, jobs, recent, events, open, notices, arms, settled, abandoned,
                    boundVars>>

(* executeActions: in order, up to the first failure.  An action writes, and *)
(* may write a ticket event that is an occurrence, or it fails.              *)
AfterAction(k) ==
  IF worker[k].next = ActionCount[worker[k].w]
  THEN [worker[k] EXCEPT !.pc = "close"]
  ELSE [worker[k] EXCEPT !.next = @ + 1]
Execute(k) ==
  /\ At(k, "act")
  /\ \/ SetWorker(k, AfterAction(k)) /\ UNCHANGED events
     \/ /\ events < MaxEvents
        /\ events' = events + 1
        /\ SetWorker(k, [AfterAction(k) EXCEPT !.raised = @ \cup {events + 1}])
     \/ /\ \E reason \in Reasons \ {"run_budget_exceeded"} : Close(k, reason)
        /\ UNCHANGED events
  /\ UNCHANGED <<runs, armed, jobs, recent, open, ghostVars, boundVars>>

(* finish.  A missing reference disarms the workflow next, and then, or at   *)
(* once, what the actions raised is enqueued.                                *)
(* Faulty variant: what a run that met a gap raised is dropped.                *)
AfterRunFailed(k) ==
  IF worker[k].raised # {} /\ worker[k].reason # "reference_missing"
  THEN [worker[k] EXCEPT !.pc = "raise"] ELSE NextCandidate(worker[k])
AfterRun(k) ==
  IF worker[k].raised # {} THEN [worker[k] EXCEPT !.pc = "raise"] ELSE NextCandidate(worker[k])
Finish(k) ==
  /\ worker[k].pc \in {"close", "closeOver", "reclose"}
  /\ runs' = [runs EXCEPT ![Current(k)].st = "closed", ![Current(k)].reason = worker[k].reason]
  /\ SetWorker(k, IF At(k, "close") /\ worker[k].reason = "reference_missing"
                  THEN [worker[k] EXCEPT !.pc = "disarm"] ELSE AfterRun(k))
  /\ UNCHANGED <<armed, jobs, recent, events, open, ghostVars, boundVars>>

(* Faulty variant: the workflow stays armed.                                 *)
DisarmedNot(w) == armed
Disarmed(w) == armed \ {w}
Tells(w) == w \in armed
(* deactivate: whatever version of the workflow is armed now.                *)
Deactivate(k) ==
  LET w == worker[k].w
  IN /\ At(k, "disarm")
     /\ armed' = Disarmed(w)
     /\ notices' = [notices EXCEPT ![w] = IF Tells(w) THEN @ + 1 ELSE @]
     /\ SetWorker(k, AfterRun(k))
     /\ UNCHANGED <<runs, jobs, recent, events, open, performed, arms, settled,
                    abandoned, boundVars>>

ChainedDepth(k) == worker[k].job.depth + 1
AfterRaise(k, o) ==
  IF worker[k].raised = {o} THEN NextCandidate(worker[k]) ELSE [worker[k] EXCEPT !.raised = @ \ {o}]
(* raiseChainedTrigger, for each occurrence the actions raised.              *)
RaiseChainedTrigger(k) ==
  LET o == Min(worker[k].raised)
  IN /\ At(k, "raise")
     /\ jobs' = jobs \cup {[occ |-> o, depth |-> ChainedDepth(k), tries |-> 0]}
     /\ SetWorker(k, AfterRaise(k, o))
     /\ UNCHANGED <<runs, armed, recent, events, open, ghostVars, boundVars>>

-----------------------------------------------------------------------------
(* Faults. *)

Requeue(j) ==
  jobs' = IF j.tries + 1 < MaxTries THEN jobs \cup {[j EXCEPT !.tries = @ + 1]} ELSE jobs

(* The run of a worker that goes away in the middle of it stays open, and    *)
(* what it raised is never evaluated.                                        *)
InRun(k) == worker[k].pc \in {"budget", "act", "close", "closeOver", "reclose", "disarm", "raise"}
Abandon(k) ==
  /\ abandoned' = IF InRun(k) THEN abandoned \cup {Current(k)} ELSE abandoned
  /\ settled' = settled \cup worker[k].raised
  /\ Requeue(worker[k].job)
  /\ SetWorker(k, Idle)

(* A statement outside runOne fails, or the one that records a failure: the  *)
(* job fails and is tried again.  A process that dies has the same effect.   *)
Crash(k) ==
  /\ ~At(k, "idle") /\ Fault
  /\ Abandon(k)
  /\ UNCHANGED <<runs, armed, recent, events, open, performed, notices, arms>>

(* A statement inside runOne fails: the run is closed as internal_error, and *)
(* the occurrences its actions raised are forgotten.                         *)
(* Faulty variant: the error is only logged.                                 *)
AfterErrorLogged(k) == NextCandidate(worker[k])
AfterError(k) == [worker[k] EXCEPT !.pc = "reclose", !.reason = "none", !.raised = {}]
StatementFails(k) ==
  /\ worker[k].pc \in {"close", "disarm"} /\ Fault
  /\ settled' = settled \cup worker[k].raised
  /\ SetWorker(k, AfterError(k))
  /\ UNCHANGED <<runs, armed, jobs, recent, events, open, performed, notices, arms,
                 abandoned>>

(* The enqueueing of a chained trigger fails: it is logged.                  *)
EnqueueFails(k) ==
  LET o == Min(worker[k].raised)
  IN /\ At(k, "raise") /\ Fault
     /\ settled' = settled \cup {o}
     /\ SetWorker(k, AfterRaise(k, o))
     /\ UNCHANGED <<runs, armed, jobs, recent, events, open, performed, notices, arms,
                    abandoned>>

(* A job outlives its lock and is delivered to another worker as well.       *)
Stall(k) ==
  /\ ~At(k, "idle") /\ Fault
  /\ Requeue(worker[k].job)
  /\ UNCHANGED <<runs, armed, worker, recent, events, open, ghostVars>>

-----------------------------------------------------------------------------
(* The sweep, time and people. *)

(* findOverdueTickets and enqueueAll: an open ticket that has passed the     *)
(* smallest threshold, as long as an armed workflow has not run.             *)
Overdue ==
  /\ open
  /\ \E w \in armed : Trigger[w] = "elapsed" /\ runs[<<w, Elapsed>>].st = "none"
Sweep ==
  /\ Overdue
  /\ jobs' = jobs \cup {NoJob}
  /\ UNCHANGED <<runs, armed, worker, recent, events, open, ghostVars, boundVars>>

HourPasses ==
  /\ Act /\ recent # {}
  /\ recent' = {}
  /\ UNCHANGED <<runs, armed, jobs, worker, events, open, ghostVars>>

(* TicketCommandService, triggerWorkflowEvaluation: a person changes the     *)
(* ticket, or finishes it.  An evaluation that cannot be queued is logged.   *)
ChangeTicket(finish, queued) ==
  /\ acts < MaxActs /\ acts' = acts + 1
  /\ open /\ events < MaxEvents
  /\ events' = events + 1
  /\ open' = ~finish
  /\ \/ /\ queued
        /\ jobs' = jobs \cup {[occ |-> events + 1, depth |-> 0, tries |-> 0]}
        /\ UNCHANGED <<settled, faults>>
     \/ /\ ~queued /\ faults < MaxFaults /\ faults' = faults + 1
        /\ settled' = settled \cup {events + 1}
        /\ UNCHANGED jobs
  /\ UNCHANGED <<runs, armed, worker, recent, performed, notices, arms, abandoned>>

(* WorkflowService: a supervisor repairs and arms a workflow, or disarms it. *)
Arm(w) ==
  /\ Act /\ w \notin armed
  /\ armed' = armed \cup {w}
  /\ arms' = [arms EXCEPT ![w] = @ + 1]
  /\ UNCHANGED <<runs, jobs, worker, recent, events, open, performed, notices, settled,
                 abandoned>>

Disarm(w) ==
  /\ Act /\ w \in armed
  /\ armed' = armed \ {w}
  /\ UNCHANGED <<runs, jobs, worker, recent, events, open, ghostVars>>

-----------------------------------------------------------------------------
WorkerStep(k) ==
  \/ \E j \in jobs : Evaluate(k, j)
  \/ \E due \in BOOLEAN : Claim(k, due)
  \/ BudgetFirst(k) \/ RunOne(k) \/ Execute(k)
  \/ Finish(k) \/ Deactivate(k) \/ RaiseChainedTrigger(k)
FaultStep(k) == Crash(k) \/ StatementFails(k) \/ EnqueueFails(k) \/ Stall(k)
PeopleStep ==
  \/ \E finish, queued \in BOOLEAN : ChangeTicket(finish, queued)
  \/ \E w \in Workflows : Arm(w) \/ Disarm(w)

Next ==
  \/ \E k \in Workers : WorkerStep(k) \/ FaultStep(k)
  \/ Sweep \/ HourPasses
  \/ PeopleStep

Spec == Init /\ [][Next]_vars

-----------------------------------------------------------------------------
(* Properties. *)

(* A worker in a run has claimed it, and only a closed run has a reason.     *)
PCs == {"idle", "first", "claim", "budget", "act", "close", "closeOver", "reclose", "disarm", "raise"}
JobRecords == [occ : Occurrences, depth : 0..(MaxChainDepth + 1), tries : 0..MaxTries]
WorkerRecords ==
  [pc : PCs, job : JobRecords, left : SUBSET Workflows, over : {"unknown", "yes", "no"}, w : Nat,
   next : Nat, reason : Reasons, raised : SUBSET Occurrences]
TypeOK ==
  /\ runs \in [Keys -> [st : {"none", "running", "closed"}, reason : Reasons, depth : 0..(MaxChainDepth + 1)]]
  /\ armed \subseteq Workflows /\ recent \subseteq Keys
  /\ jobs \subseteq JobRecords /\ worker \in [Workers -> WorkerRecords]
  /\ events \in 1..MaxEvents /\ open \in BOOLEAN
  /\ performed \in [Keys -> Nat]
  /\ notices \in [Workflows -> Nat] /\ arms \in [Workflows -> Nat]
  /\ settled \subseteq Occurrences /\ abandoned \subseteq Keys
  /\ \A k \in Workers : InRun(k) => /\ Current(k) \in Keys /\ runs[Current(k)].st # "none"
                                   /\ worker[k].next \in 1..ActionCount[worker[k].w]
  /\ \A key \in Keys : runs[key].reason # "none" => runs[key].st = "closed"
  /\ acts \in 0..MaxActs /\ faults \in 0..MaxFaults

(* No action of a workflow runs twice for one occurrence, however often the  *)
(* job is delivered and wherever a worker died.                              *)
ActionsOnce == \A key \in Keys : performed[key] <= 1

(* Workflows that trigger each other are stopped, by the depth of the chain  *)
(* and by the hourly budget.  The budget is counted once per job, after its  *)
(* first claim: the runs of an hour that are allowed to act exceed it by no  *)
(* more than the further candidates of the jobs under way.  Elapsed runs     *)
(* come on top, and their one key is not spent on a run the budget refuses.  *)
EventWorkflows == {w \in Workflows : Trigger[w] = "event"}
FurtherCandidates == IF EventWorkflows = {} THEN 0 ELSE Cardinality(EventWorkflows) - 1
RunawayBounded ==
  /\ \A key \in Keys : runs[key].st # "none" => runs[key].depth <= MaxChainDepth
  /\ Cardinality({key \in recent : key[2] # Elapsed /\ performed[key] > 0})
       <= Budget + Cardinality(Workers) * FurtherCandidates
  /\ \A w \in Workflows : runs[<<w, Elapsed>>].reason # "run_budget_exceeded"

(* A run that is left open for good was abandoned by a crash.                *)
OpenRunNeedsCrash ==
  \A key \in Keys :
    runs[key].st = "running" /\ ~(\E k \in Workers : InRun(k) /\ Current(k) = key)
    => key \in abandoned

(* A workflow whose run met a missing reference has been disarmed since, and *)
(* however many runs meet it, the admins are told once per arming.           *)
MissingReferenceDisarms ==
  /\ \A key \in Keys :
       /\ runs[key].reason = "reference_missing"
       /\ ~\E k \in Workers : InRun(k) /\ Current(k) = key
       /\ key \notin abandoned
       => key[1] \notin armed \/ arms[key[1]] > 1
  /\ \A w \in Workflows : notices[w] <= arms[w]

(* Every occurrence that is recorded is offered to the workflows, whatever   *)
(* becomes of the run that raised it, unless a fault loses it on the way.    *)
OccurrenceLostNeedsFault ==
  \A o \in 1..events :
    \/ o \in settled
    \/ \E j \in jobs : j.occ = o
    \/ \E k \in Workers : o \in worker[k].raised
================================================================================
