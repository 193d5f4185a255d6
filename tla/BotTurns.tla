------------------------------- MODULE BotTurns -------------------------------
(***************************************************************************)
(* The chatbot's turns in one conversation (BotTurnService), run by the    *)
(* workers of the ai queue, against the people who take, hand off or close *)
(* the conversation in the meantime.  A turn gates on a snapshot, spends   *)
(* a model call on it, and writes afterwards: the only re-checks at the    *)
(* write are the unique claim row of the message and the condition         *)
(* bot_state <> human_active.  What retrieval finds and what the model     *)
(* says is a free choice.  The tenant has a handoff message configured.    *)
(* Once it is deleted no transaction begins, and a turn that needs one is  *)
(* dropped.  What a commit owes other queues they may refuse; the code     *)
(* logs it and goes on.                                                    *)
(***************************************************************************)
EXTENDS Integers, FiniteSets

CONSTANTS Messages,     \* inbound messages of the conversation
          NoMessage,
          Workers,      \* workers of the ai queue
          MaxBotTurns,  \* settings.maxBotTurns
          MaxTries,     \* attempts of an ai.handle_inbound job
          MaxFaults,    \* bound: crashes, failed queries and stalled jobs
          MaxActs       \* bound: steps of people

ASSUME MessageAssumption == NoMessage \notin Messages
ASSUME BoundsAssumption == /\ MaxBotTurns \in Nat \ {0}
                           /\ MaxTries \in Nat \ {0}
                           /\ MaxFaults \in Nat
                           /\ MaxActs \in Nat

VARIABLES
  deleted,  \* is the tenant deleted
  thread,   \* the conversation: bot_state, bot_engaged_at
  ticket,   \* the status of its active ticket
  rows,     \* bot_turns, one row per message at most
  job,      \* the ai.handle_inbound job of each message
  worker,   \* what each worker is doing
  asker,    \* an agent's request for a handoff: has it read that the bot is active
  clock,    \* time, as far as stamps are compared
  life,     \* since the conversation was last reset: replies, notices, overlapping turns
  answers,  \* replies sent to each message
  owed,     \* what a commit still has to enqueue: <<message, follow-up>>
  refused,  \* of that, what the queue did not take
  faults, acts

botVars == <<deleted, thread, ticket, rows, job, worker, asker, clock, life, answers, owed, refused,
             faults, acts>>
ghostVars == <<life, answers, owed, refused>>
boundVars == <<faults, acts>>

States == {"off", "bot_active", "handed_off", "human_active"}
Never == 0                                            \* bot_engaged_at IS NULL
Outcomes == {"none", "claimed", "replied", "handed_off", "suppressed"}
Reasons == {"max_turns", "customer_requested", "no_match", "bot_error", "low_confidence"}
PCs == {"idle", "gate", "suppress", "claim", "ask", "reply", "handoff", "dispatch", "follow"}
FollowUps == {"deliver", "evaluate", "route"}

IdleWorker == [pc |-> "idle", m |-> NoMessage, bot |-> "off", engaged |-> Never,
               reason |-> "no_match", own |-> FALSE]
NewLife(raced) == [replies |-> 0, notices |-> 0, raced |-> raced]

BotInit ==
  /\ deleted = FALSE
  /\ thread = [bot |-> "off", engaged |-> Never]
  /\ ticket = "open"
  /\ rows = [m \in Messages |-> [out |-> "none", at |-> 0]]
  /\ job = [m \in Messages |-> [st |-> "none", tries |-> 0]]
  /\ worker = [w \in Workers |-> IdleWorker]
  /\ asker = "none"
  /\ clock = 1
  /\ life = NewLife(FALSE)
  /\ answers = [m \in Messages |-> 0]
  /\ owed = {} /\ refused = {}
  /\ faults = 0 /\ acts = 0

At(w, pc) == worker[w].pc = pc
SetWorker(w, s) == worker' = [worker EXCEPT ![w] = s]
Goto(w, pc) == SetWorker(w, [worker[w] EXCEPT !.pc = pc])
SetJob(m, st, tries) == job' = [job EXCEPT ![m] = [st |-> st, tries |-> tries]]
SetRow(m, out, at) == rows' = [rows EXCEPT ![m] = [out |-> out, at |-> at]]
InFlight == {w \in Workers : worker[w].pc \notin {"idle", "dispatch", "follow"}}

(* The handler returned: the job is complete, unless it stalled meanwhile.   *)
Finish(w) ==
  /\ SetWorker(w, IdleWorker)
  /\ IF job[worker[w].m].st = "running" THEN SetJob(worker[w].m, "done", 0) ELSE UNCHANGED job

-----------------------------------------------------------------------------
(* The queue and the gate. *)

(* TicketQueueRunner.triggerBot: the message was linked to its ticket, and a *)
(* paused ticket reopened.                                                   *)
TriggerBot(m) ==
  /\ job[m].st = "none" /\ ~deleted
  /\ SetJob(m, "queued", 0)
  /\ ticket' = IF ticket = "pending" THEN "open" ELSE ticket
  /\ UNCHANGED <<deleted, thread, rows, worker, asker, clock, ghostVars, boundVars>>

(* BotEligibilityService.snapshot reads the conversation ...                 *)
Snapshot(w, m) ==
  /\ At(w, "idle") /\ job[m].st = "queued" /\ ~deleted
  /\ SetJob(m, "running", job[m].tries)
  /\ SetWorker(w, [IdleWorker EXCEPT !.pc = "gate", !.m = m, !.bot = thread.bot,
                                     !.engaged = thread.engaged])
  /\ life' = [life EXCEPT !.raced = @ \/ InFlight # {}]
  /\ UNCHANGED <<deleted, thread, ticket, rows, asker, clock, answers, owed, refused, boundVars>>

(* ... or meets a TenantNotActiveError, which completes the job.             *)
DropJob(w, m) ==
  /\ At(w, "idle") /\ job[m].st = "queued" /\ deleted
  /\ SetJob(m, "done", 0)
  /\ UNCHANGED <<deleted, thread, ticket, rows, worker, asker, clock, ghostVars, boundVars>>

(* Faulty variant: the reply that opened the engagement is not counted.      *)
RepliesSinceUncounted(engaged) ==
  Cardinality({m \in Messages : rows[m].out = "replied" /\ rows[m].at >= engaged})
(* countRepliesThisEngagement: the replied turns since the stamp, and the    *)
(* one that wrote it, which was claimed before it.                           *)
RepliesSince(engaged) ==
  IF engaged = Never THEN 0
  ELSE 1 + Cardinality({m \in Messages : rows[m].out = "replied" /\ rows[m].at >= engaged})

(* already_released                                                          *)
Released(s) == s.bot \in {"human_active", "handed_off"}

HandOffNext(w, reason) ==
  SetWorker(w, [worker[w] EXCEPT !.pc = "handoff", !.reason = reason])

(* ... then counts the replies of the engagement; decideEligibility, the     *)
(* keyword gate and retrieval follow.  A refusal for the tenant's sake       *)
(* writes nothing; one for this conversation or message leaves a row, be it  *)
(* that the thread was released or that the contact opted out, the window    *)
(* closed or the message has no text, which are not told apart.              *)
Decide(w) ==
  /\ At(w, "gate") /\ ~deleted
  /\ \/ Finish(w)
     \/ Goto(w, "suppress") /\ UNCHANGED job
     \/ /\ ~Released(worker[w]) /\ UNCHANGED job
        /\ IF RepliesSince(worker[w].engaged) >= MaxBotTurns
           THEN HandOffNext(w, "max_turns")
           ELSE \/ HandOffNext(w, "customer_requested")
                \/ HandOffNext(w, "no_match")
                \/ Goto(w, "claim")
  /\ UNCHANGED <<deleted, thread, ticket, rows, asker, clock, ghostVars, boundVars>>

(* suppress(): a row unless the message has one.                             *)
Suppress(w) ==
  /\ At(w, "suppress") /\ ~deleted
  /\ IF rows[worker[w].m].out = "none"
     THEN SetRow(worker[w].m, "suppressed", clock) ELSE UNCHANGED rows
  /\ Finish(w)
  /\ UNCHANGED <<deleted, thread, ticket, asker, clock, ghostVars, boundVars>>

(* Faulty variant: the claim is not checked against the rows there are.      *)
UnclaimedAny(m) == m \in Messages
Unclaimed(m) == rows[m].out = "none"

(* claimTurn: an insert, pessimistically a bot_error handoff.                *)
ClaimTurn(w) ==
  /\ At(w, "claim") /\ ~deleted
  /\ IF Unclaimed(worker[w].m)
     THEN /\ SetRow(worker[w].m, "claimed", clock)
          /\ SetWorker(w, [worker[w] EXCEPT !.pc = "ask", !.own = TRUE])
          /\ UNCHANGED job
     ELSE Finish(w) /\ UNCHANGED rows
  /\ UNCHANGED <<deleted, thread, ticket, asker, clock, ghostVars, boundVars>>

(* The model call and resolve(): failed, refused by the gate on grounding    *)
(* and score, or good enough to send.                                        *)
Answer(w) ==
  /\ At(w, "ask")
  /\ \/ HandOffNext(w, "bot_error")
     \/ HandOffNext(w, "low_confidence")
     \/ Goto(w, "reply")
  /\ UNCHANGED <<deleted, thread, ticket, rows, job, asker, clock, ghostVars, boundVars>>

-----------------------------------------------------------------------------
(* The two transactions a turn may end in. *)

(* From its commit on, a turn knows of bot_state only what it wrote.         *)
CommitTurn(w, to) ==
  SetWorker(w, [IdleWorker EXCEPT !.pc = "dispatch", !.m = worker[w].m, !.bot = to])

(* Faulty variant: the update of the conversation has no condition.          *)
KeepsAny(s) == s = "none"
Keeps(s) == s = "human_active"          \* WHERE bot_state <> 'human_active'
MoveBot(to, engaged) ==
  thread' = IF Keeps(thread.bot) THEN thread ELSE [bot |-> to, engaged |-> engaged]

SentAt == clock + 1                          \* the time of the reply, and its stamp

(* reply(): the message, the outcome, the state of the conversation, with a  *)
(* stamp if the SNAPSHOT had none, and the pause of an open ticket.          *)
Reply(w) ==
  LET m == worker[w].m
      engaged == IF worker[w].engaged = Never THEN SentAt ELSE thread.engaged
  IN /\ At(w, "reply") /\ ~deleted
     /\ SetRow(m, "replied", rows[m].at)
     /\ MoveBot("bot_active", engaged)
     /\ ticket' = IF ticket = "open" THEN "pending" ELSE ticket
     /\ owed' = owed \cup {<<m, "deliver">>}
                     \cup (IF ticket = "open" THEN {<<m, "evaluate">>} ELSE {})
     /\ clock' = clock + 1
     /\ answers' = [answers EXCEPT ![m] = @ + 1]
     /\ life' = [life EXCEPT !.replies = @ + 1]
     /\ CommitTurn(w, "bot_active")
     /\ UNCHANGED <<deleted, job, asker, refused, boundVars>>

(* The bot could not help in a conversation it never spoke in: no handoff.   *)
(* (Without a stamp the snapshot's reply count is 0, which is tested too.)   *)
UnansweredUnengaged(s) == s.reason \in {"no_match", "low_confidence"} /\ s.engaged = Never

SuppressUnanswered(w) ==
  /\ At(w, "handoff") /\ UnansweredUnengaged(worker[w]) /\ ~deleted
  /\ IF worker[w].own \/ rows[worker[w].m].out = "none"
     THEN SetRow(worker[w].m, "suppressed", IF worker[w].own THEN rows[worker[w].m].at ELSE clock)
     ELSE UNCHANGED rows
  /\ Finish(w)
  /\ UNCHANGED <<deleted, thread, ticket, asker, clock, ghostVars, boundVars>>

(* handOff(): the outcome of a claimed turn, HandoffService.record and the   *)
(* handoff message.                                                          *)
HandOff(w) ==
  LET m == worker[w].m
  IN /\ At(w, "handoff") /\ ~UnansweredUnengaged(worker[w]) /\ ~deleted
     /\ IF worker[w].own THEN SetRow(m, "handed_off", rows[m].at) ELSE UNCHANGED rows
     /\ MoveBot("handed_off", thread.engaged)
     /\ owed' = owed \cup {<<m, "deliver">>, <<m, "route">>}
     /\ life' = [life EXCEPT !.notices = @ + 1]
     /\ CommitTurn(w, "handed_off")
     /\ UNCHANGED <<deleted, ticket, job, asker, clock, answers, refused, boundVars>>

Enqueues(o) == owed' = owed \ {o} /\ UNCHANGED refused
IsRefused(o) == refused' = refused \cup (owed \cap {o}) /\ UNCHANGED owed

(* AutomatedMessageSender.dispatch, after the commit.                        *)
Dispatch(w) ==
  LET o == <<worker[w].m, "deliver">>
  IN /\ At(w, "dispatch")
     /\ Enqueues(o) \/ IsRefused(o)
     /\ Goto(w, "follow")
     /\ UNCHANGED <<deleted, thread, ticket, rows, job, asker, clock, life, answers, boundVars>>

(* Faulty variant: nothing tells the SLA module.                             *)
FollowUpRoute(s) == "route"
FollowUp(s) == IF s.bot = "bot_active" THEN "evaluate" ELSE "route"
(* queueSlaEvaluation, or requestRoutingIfUnowned, which reads the ticket.   *)
Follow(w) ==
  LET o == <<worker[w].m, FollowUp(worker[w])>>
  IN /\ At(w, "follow")
     /\ FollowUp(worker[w]) = "route" => ~deleted
     /\ Enqueues(o) \/ IsRefused(o)
     /\ Finish(w)
     /\ UNCHANGED <<deleted, thread, ticket, rows, asker, clock, life, answers, boundVars>>

(* TenantNotActiveError ends the turn wherever it needs the database, and    *)
(* completes the job.                                                        *)
Drop(w) ==
  /\ deleted
  /\ \/ worker[w].pc \notin {"idle", "dispatch", "follow"}
     \/ At(w, "follow") /\ FollowUp(worker[w]) = "route"
  /\ Finish(w)
  /\ UNCHANGED <<deleted, thread, ticket, rows, asker, clock, ghostVars, boundVars>>

-----------------------------------------------------------------------------
(* Faults. *)

Fault == faults < MaxFaults /\ faults' = faults + 1 /\ UNCHANGED acts

(* The process dies: the job stalls and is delivered again.                  *)
Crash(w) ==
  /\ ~At(w, "idle") /\ Fault
  /\ SetWorker(w, IdleWorker)
  /\ SetJob(worker[w].m, "queued", job[worker[w].m].tries)
  /\ UNCHANGED <<deleted, thread, ticket, rows, asker, clock, ghostVars>>

(* A query fails: the handler throws, and BullMQ retries or gives up.        *)
Throw(w) ==
  LET m == worker[w].m
  IN /\ worker[w].pc \notin {"idle", "dispatch"} /\ Fault
     /\ SetWorker(w, IdleWorker)
     /\ IF job[m].tries + 1 < MaxTries
        THEN SetJob(m, "queued", job[m].tries + 1) ELSE SetJob(m, "failed", MaxTries)
     /\ UNCHANGED <<deleted, thread, ticket, rows, asker, clock, ghostVars>>

(* The lock of a slow worker's job expires: it is delivered a second time    *)
(* while the first handler runs on.                                          *)
Stall(m) ==
  /\ job[m].st = "running" /\ Fault
  /\ SetJob(m, "queued", job[m].tries)
  /\ UNCHANGED <<deleted, thread, ticket, rows, worker, asker, clock, ghostVars>>

-----------------------------------------------------------------------------
(* People. *)

Act == acts < MaxActs /\ acts' = acts + 1 /\ UNCHANGED faults

(* claim, assign to a user, or a reply by an agent.                          *)
TakeThread ==
  /\ Act /\ ~deleted
  /\ thread' = [thread EXCEPT !.bot = "human_active"]
  /\ UNCHANGED <<deleted, ticket, rows, job, worker, asker, clock, ghostVars>>

(* setStatus(resolved | closed) resets the bot.                              *)
SetStatus ==
  /\ Act /\ ~deleted
  /\ thread' = [bot |-> "off", engaged |-> Never]
  /\ life' = NewLife(InFlight # {})
  /\ UNCHANGED <<deleted, ticket, rows, job, worker, asker, clock, answers, owed, refused>>

(* requestFromAgent reads the state, and records the handoff later: bound:   *)
(* one request.                                                              *)
RequestFromAgent ==
  /\ asker = "none" /\ thread.bot = "bot_active" /\ ~deleted
  /\ asker' = "read"
  /\ UNCHANGED <<deleted, thread, ticket, rows, job, worker, clock, ghostVars, boundVars>>

RecordFromAgent ==
  /\ asker = "read" /\ asker' = "done"
  /\ IF deleted THEN UNCHANGED thread ELSE MoveBot("handed_off", thread.engaged)
  /\ UNCHANGED <<deleted, ticket, rows, job, worker, clock, ghostVars, boundVars>>

(* The lifecycle timer; nothing leads back from deleted.                     *)
DeleteTenant ==
  /\ ~deleted /\ deleted' = TRUE
  /\ UNCHANGED <<thread, ticket, rows, job, worker, asker, clock, ghostVars, boundVars>>

Step(w) == \/ \E m \in Messages : Snapshot(w, m) \/ DropJob(w, m)
           \/ Decide(w) \/ Suppress(w) \/ ClaimTurn(w) \/ Answer(w) \/ Reply(w)
           \/ SuppressUnanswered(w) \/ HandOff(w) \/ Dispatch(w) \/ Follow(w) \/ Drop(w)
People == TakeThread \/ SetStatus \/ RequestFromAgent \/ RecordFromAgent \/ DeleteTenant

BotNext == \/ \E m \in Messages : TriggerBot(m) \/ Stall(m)
        \/ \E w \in Workers : Step(w) \/ Crash(w) \/ Throw(w)
        \/ People

BotSpec == BotInit /\ [][BotNext]_botVars

-----------------------------------------------------------------------------
(* Types: the rows, the jobs, the workers and what is owed.                  *)
BotTypeOK ==
  /\ deleted \in BOOLEAN
  /\ thread \in [bot : States, engaged : 0..clock]
  /\ ticket \in {"open", "pending"}
  /\ rows \in [Messages -> [out : Outcomes, at : Nat]]
  /\ job \in [Messages -> [st : {"none", "queued", "running", "done", "failed"}, tries : 0..MaxTries]]
  /\ worker \in [Workers -> [pc : PCs, m : Messages \cup {NoMessage}, bot : States,
                             engaged : Nat, reason : Reasons, own : BOOLEAN]]
  /\ asker \in {"none", "read", "done"}
  /\ clock \in Nat
  /\ life \in [replies : Nat, notices : Nat, raced : BOOLEAN]
  /\ answers \in [Messages -> Nat]
  /\ owed \subseteq Messages \X FollowUps /\ refused \subseteq Messages \X FollowUps
  /\ faults \in 0..MaxFaults /\ acts \in 0..MaxActs

(* The claim row of a message lets one turn answer it, however often its job *)
(* is delivered, also while an earlier delivery still runs; and the row says *)
(* replied exactly when a reply was sent.                                    *)
OneReplyOnRecord ==
  \A m \in Messages : answers[m] = IF rows[m].out = "replied" THEN 1 ELSE 0

(* Between two resets of the conversation the bot replies MaxBotTurns times  *)
(* and sends the handoff message once, redeliveries and crashes included,    *)
(* unless turns overlapped or were in flight at a reset.                     *)
SequentialTurnsBounded == ~life.raced => life.replies <= MaxBotTurns /\ life.notices <= 1

(* No turn is left half done without a crash or a failed query: a message    *)
(* that is claimed ends in a reply, a handoff or a suppression, and what a   *)
(* commit owes (the delivery of its message, the SLA evaluation of a ticket  *)
(* it paused, the routing of a conversation it released) gets enqueued,      *)
(* unless the queue refuses it; a deleted tenant may leave the claim and the *)
(* routing behind, and nothing else.                                         *)
HalfDoneNeedsFault ==
  faults = 0 =>
    /\ \A m \in Messages : rows[m].out = "claimed" =>
         deleted \/ \E w \in Workers : worker[w].m = m /\ worker[w].own
    /\ \A o \in owed \ refused :
         \/ o[2] = "route" /\ deleted
         \/ \E w \in Workers : worker[w].m = o[1] /\ worker[w].pc \in {"dispatch", "follow"}

(* A person who has taken the thread keeps it: no step of a turn, and no     *)
(* late handoff, takes bot_state from human_active; only closing resets it.  *)
HumanKeepsThread ==
  [][thread.bot = "human_active" => thread'.bot = "human_active" \/ SetStatus]_botVars

=============================================================================
