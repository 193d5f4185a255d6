# A TLA+ model of the WhatsApp CRM API

The repository is a multi-tenant CRM on the WhatsApp Cloud API: a NestJS API
(`apps/api`), two Next.js consoles (`apps/web`, `apps/admin`) and shared
contracts (`packages/contracts`). PostgreSQL holds the state (Prisma, row-level
security per tenant), BullMQ on Redis carries background jobs, Socket.IO pushes
events to the consoles. All logic that can go wrong in time is in the API: the
handlers run on several replicas, every `await` is a place where another one
may step in, Redis may be down, jobs run again, and Meta delivers webhooks late,
twice and out of order. There are few locks; the code relies on unique indexes,
conditional `UPDATE`s and sweepers. The modules here check whether that is
enough.

## 1. Inventory

| Component | State | Operations | Hard because | What makes it correct |
|---|---|---|---|---|
| Webhook pipeline (`webhooks/`) | `webhook_events` rows, jobs | ingest, claim, process items, settle, sweep, operator replay | lost enqueue, crash between items, two workers on a row, retained job ids | processed means everything is recorded and triggered; every delivery is settled |
| Inbound writer (`webhooks/whatsapp-inbound.writer.ts`) | contacts, conversations, messages, usage meter | store a message, apply a receipt, trigger the ticket job | replays, receipts before sends, trigger after the commit | one row and one count per message; statuses only advance |
| Outbound delivery (`conversations/outbound-message.dispatcher.ts`) | message status, send job | commit, enqueue, attempt, record | timeout after acceptance, receipt before the record, last attempt | no second send without a fault, every reply is decided |
| Conversation thread (`conversations/`) | clock, unread count, service window, assignee, status | send, automated send, mark read, claim, assign | the window is judged before the commit; late messages | free-form only inside the window, exact counts |
| Ticket linking (`tickets/ticket-linker.service.ts`) | tickets of a contact, number counter | attach, reopen, create | read-then-write against people, workflows and the bot | at most one active ticket, finished ones stay finished |
| Ticket commands (`tickets/ticket-command.service.ts`) | status, assignee, events | update, assign, escalate, automation | compare-and-set on what was read | legal moves only |
| Idempotency (`common/idempotency`) | `idempotency_keys` row | claim, replay, complete, release | expiry, races of inserts and deletes, crash after the work | one at work, faithful replay |
| Queue (`queue/`) | BullMQ jobs | enqueue, schedule, register worker | Redis unavailable, stalled jobs | callers survive a lost job |
| AI bot (`ai/`) | turns, `bot_state`, handoffs | claim a turn, reply, hand off, take over | minutes between read and write | a person keeps the thread; one reply per message; the cap; nothing a commit owes is dropped |
| SLA (`sla/`) | timers, alerts | reconcile, pause, resume, breach sweep | concurrent evaluations, several sweepers | one breach per timer, deadlines moved by pauses only, every overdue timer judged |
| Assignment (`assignment/`) | rules, rotation cursor | route, rotate, defer | cursor and load are read before the write | a person's assignment wins; overshoot of the cap is bounded; no ticket without a verdict |
| Workflows (`workflows/`) | runs by occurrence | trigger, claim, execute, chain | crash after the claim, cycles | each occurrence once, chains end, budget, disarmed with one notice |
| Identity (`identity/`) | sessions, cache, throttle, invites, resets | login, resolve, revoke, redeem | cache and sockets against revocation | a revoked session is refused and its sockets closed |
| Tenancy and lifecycle (`tenancy/`) | tenants, domains, purge state | provision, transition, sweep, purge | rescue while purging, resumed purge | no purge of a live tenant |
| Signup, billing, entitlements | signups, subscriptions, usage | verify, sync, reconcile, push seats, caps | provider events out of order | newest event wins; caps hold |
| Realtime, media, WhatsApp connection | sockets, attachments, accounts, templates | relay, download, connect, sync | best effort, byte transfer | never ahead of the commit |
| Consoles, contracts, people, contacts, tags, reporting, audit, config | – | CRUD and views | – | – |

How the parts interact: the pipeline calls the inbound writer once per item; the
writer commits a message and then enqueues `ticket.ensure`; the ticket worker
links the message and then enqueues routing, SLA evaluation, workflows and the
bot; the bot and the composer commit replies, whose jobs the dispatcher
delivers; Meta's receipts come back through the pipeline and write the same
message rows. Every arrow is a commit followed by an enqueue that may be lost.

`PROJECT.json` lists the hazards line by line, with the properties that cover
them. Three have none: they belong to the tenant purge and to billing, which are
not modelled.

## 2. Modules

Each component is a module that EXTENDS only library modules and an `MC` module
with its small instances; its proofs are in a `Proofs` module. Two pairs that write
the same rows share one: `TicketProofs` is about `TicketLinker` and
`TicketRouting`, `ConversationProofs` about `ConversationThread` and `BotTurns`.
For that the second of each pair names its parts apart (`RoutingInit`,
`RoutingNext`, `RoutingSpec`, `BotInit`, `BotNext`, `BotSpec`, …).

**`DurableInbox`** – the abstract promise of the pipeline: an accepted delivery is
kept, is settled as done or parked, and is done only if all it carries was
recorded. No queue, worker or fault appears in it.

**`WebhookEvents`** – the pipeline. `row` is the `webhook_events` table, `jobs` the
Redis jobs of a row (slot 0 has the ingest id, the others ids of sweeps),
`worker` a process's memory, `recorded`/`triggered`/`lost` the effects. A payload
is a sequence of item kinds (message, status, status that is not modelled by the
code, invalid WhatsApp id, other webhook field, unreadable change). Actions:
`Store` and `IngestEnqueue` (ingest), `PickUp`, `Claim`, `ParkMalformed`,
`SkipItem`, `RefuseItem`, `WriteItem`, `ItemFault`, `QueueTicketLink`,
`SettleRow`, `HandleFailure`, `Return`, `Throw` (processor under BullMQ),
`SweepFind` and `SweepEnqueue` (sweeper), `Replay` (operator), `ChangeReach`
(tenants and numbers), and the faults `Crash`, `LockExpires`, `Forget` with the
recovery `StallCheck`. One database or Redis call is one step.

**`OutboundDelivery`** – one reply after its commit: `QueueDelivery`, the dispatcher
`Load` → `StatusRefusingOutbound` → `Send…` → `RecordSent`/`RecordFailed`, and
`ApplyStatus` for the receipts. `placeholder[p]` is the row that a receipt opens
for a provider id it does not find; the unique index on that id is the guard of
`RecordSent`. `MESSAGE_STATUS_RANK` is the function `Rank`. Meta may accept,
reject, be unavailable, or accept and time out.

**`ConversationThread`** – one thread: `last_message_at`, `unread_count`,
`service_window_expires_at`, the usage meter, under customer messages with any
timestamp of the past, receipts of messages sent by other means, agents' and
automated replies (target read and window judged in one step, row committed in
another) and `markRead`. Time is a small integer; `Window` stands for 24 hours.

**`TicketLinker`** – the tickets of one contact: `ReadInboundTarget`, `ReadActive`,
`AttachOpen`, `Reopen`, `Create`, `TriggerSlaEvaluation` (after the commit; the
queue may refuse it), `Return`, `Throw` of a worker; `RequireTicket`
and `WriteStatus` of a person or workflow; `PauseSla` of the bot; redelivery and
crash of the job; `DeleteTenant`, after which no transaction begins and the runner
drops the job. `Indexed` is the partial unique index that
`ON CONFLICT DO NOTHING` relies on. `opened` is what a message did to tickets,
`told` what the SLA queue was asked, `refused` what it did not take.

**`IdempotencyKeys`** – the requests of one key: `ClaimInsert`, `ClaimLook`,
`ClaimDelete`, `Work`, `Complete`, `Release`, `Crash`, `Expire`. A pass of
`claim` remembers the time it read at its start (`req[r].now`), so a key that
expires between insert and look is judged with the older time, as in the code.
`Expire` waits for requests at work: a key lives 24 hours and no request does.

**`BotTurns`** – the chatbot on one conversation. A worker takes `Snapshot` and
`Decide`, a turn that is not eligible goes to `Suppress`, the others through
`ClaimTurn` (the unique row of the message),
`Answer` (the model call, a free choice), then `Reply`, `SuppressUnanswered` or
`HandOff`, and the enqueues after the commit, `Dispatch` and `Follow`. People
`TakeThread`, `SetStatus`, and ask for a handoff (`RequestFromAgent`,
`RecordFromAgent`). `Crash`, `Throw` and `Stall` strike the job; once `DeleteTenant`
has happened, `DropJob` and `Drop` end a turn where it needs the database. `owed` is
what a commit still has to enqueue, `refused` what the queue did not take of it (the
code logs that); `life.raced` says that turns overlapped.

**`SlaTimers`** – the two clocks of one ticket, statement by statement, as read
committed transactions see it. An evaluation is `EvaluateTicket` (the job and the
read of the ticket), `ReadTimers`, `ReadReply` if no reply is on the ticket yet, and
`EvaluateCommit`; it may end in `EvaluateFail`, in `CastFails` (a pause that does not
fit `paused_ms`), or be dropped because the tenant was deleted. A sweep is
`FindDueTimers` (ids of active tenants, without a transaction), `ReconcileDueTickets`
(which of them are still due), then `ReadTicket`, `ReadTimers`, `ReadReply` as
above, or nothing if none is due (`blind`), and in both cases `ClaimAndAlert`, which
claims all ids found; then `TriggerWorkflowEvaluation`, or `SweepFail`. `SendReply`,
`Pause`, `Resume` and `FinishTicket` change the ticket and may lose the job,
`ChangeTenant` suspends, restores and deletes the tenant; `Tick` is time.

**`TicketRouting`** – `RouteTicket`, `MatchRules`, `ResolveFallback`,
`AdvanceCursor`, `Assign`, `Defer`, `RouteFail` and `Stall` of a router;
`RequestRoutingIfUnowned` enqueues under the ticket's job id. People
`AssignRequest` and `WriteAssignment` (checks and write apart), `FinishTicket`,
`ComeOrGo` and `RemoveUser`.

**`WorkflowRuns`** – the engine on one ticket: `Evaluate`, `BudgetFirst`, `Claim`,
`RunOne`, `Execute`, `Finish`, `Deactivate`, `RaiseChainedTrigger`; the job layer
`Abandon`, `Crash`, `StatementFails`, `EnqueueFails`, `Stall`; the elapsed `Sweep`;
`HourPasses`, `ChangeTicket`, `Arm` and `Disarm`. An occurrence is the number of a
ticket event, or `Elapsed`. How an action ends is a free choice; the ends that
have no consequence are one reason, `none`.

**`SessionAccess`** – the sessions of one user. A request: `ReadCache`, `ReadRow`,
`Track` (the index), `Write` (the entry); a revocation of any of the four kinds:
`Revoke`, `FindEntries`, `Evict`, `Commit`, then the second purge (`FindEntries`,
`Evict`, or `ForgetEntry` and `Unlist` for a single session) and
`OnSessionsRevoked`; a socket: `Handshake`, `HandleConnection`, `Disconnect`.
`Login`, `Lapse` (TTL), `PurgeFails` and `Crash` complete it.

Definitions ending in a variant word (`…Always`, `…Inclusive`, `…Dropped` and the
like), marked "Faulty variant", are mutations of the definition below them. They
are used by no specification; each one shows that a property notices the bug.

## 3. Runs

| Run | Checks | Instance |
|---|---|---|
| `webhook_race` | `ProcessedMeansRecorded`, `ProcessedMeansTriggered`, `InboxSteps` (each step is one of `DurableInbox`) | 1 delivery of 3 items, 2 workers, 2 attempts, 2 faults, 1 operator step |
| `webhook_settle` | `ImplementsInbox` (refinement with fairness: every delivery is settled) | 2 deliveries, one malformed, 1 worker, sweep batch 1, 1 attempt, 1 fault, 1 operator step |
| `outbound_race` | `ReceiptsStick`, `SecondSendNeedsFault`, `StuckNeedsFault`, `StatusForward`, `EventuallyDecided` | 1 message, 2 dispatchers, 3 attempts, 2 acceptances, 1 fault, 1 tenant change |
| `outbound_failed_accepted` | `FailedMeansNotAccepted`, violated | 1 dispatcher, no fault at all |
| `thread_order` | `UnreadIsExact`, `FreeFormInWindow`, `WindowLostToLaterRow` | 2 messages, 1 foreign receipt, 2 sends, time 0..4, window 2 |
| `linker_race` | `OneActive`, `SlaIsTold`, `SecondTicketNeedsRepeat`, `EventuallyLinked` | 2 messages, 2 workers, 2 writers, 3 tickets, 2 acts (moves, the deletion of the tenant), 1 repeat or crash, refusals free |
| `idempotency_race` | `OneAtWork`, `ReplayIsFaithful`, `RepeatNeedsFault` | 4 requests, 2 bodies, 2 passes, 2 faults, 2 expiries |
| `bot_race` | `OneReplyOnRecord`, `SequentialTurnsBounded`, `HalfDoneNeedsFault`, `HumanKeepsThread` | 2 messages, 2 workers, cap 1, 2 tries, 1 fault, 1 step of a person, 1 request for a handoff; refusals and the deletion of the tenant free |
| `sla_race` | `DeadlineAccounted`, `BreachedOnce`, `LostJobBreachesNothing`, `SerialEvaluationsConverge`, `OverdueIsJudged` | 2 workers, windows 1 and 2, time 0..2, longest pause 1, 2 acts (changes of ticket and tenant, faults) |
| `routing_race` | `OvershootBounded`, `OneVerdict`, `RemovedHoldsNothing`, `RoutersTakeFromNobody` | 3 tickets, 2 agents, a rule for one agent and one for the team of the other, cap 1, 2 routers, 1 act, 1 fault |
| `workflow_race` | `ActionsOnce`, `RunawayBounded`, `OpenRunNeedsCrash`, `MissingReferenceDisarms`, `OccurrenceLostNeedsFault` | 1 event workflow of 2 actions, 1 elapsed workflow, 2 workers, chain depth 1, budget 2, 2 tries, 3 events, 1 act, 1 fault |
| `session_revocation` | `StaleNeedsOvertaking`, `OrphanNeedsOvertaking`, `RenewalNeedsOvertaking` | 2 sessions, 1 request, 2 revocations, 1 socket, 1 fault |

`TypeOK` of each module and the parts of its inductive invariant hold
on the same instances; they are not in the configurations, which keep to what
takes several steps to break. Where they are proved, section 5 says so.

Many properties have the form "X happens only if Y": the code does not exclude X,
and the property names the one way it can come about. So `OvershootBounded` says
how far concurrent routers can exceed an agent's cap, and `StaleNeedsOvertaking`
that a revoked session stays in the cache only through a request that had read
before the commit and writes after both purges, or through a failed purge.

*Bounds.* Named constants cap everything: `MaxFaults`, `MaxHits`, `MaxActs`, `MaxPeopleActs`,
`MaxRepeats`, `MaxTries`, `MaxExpiries`, `MaxAccepts`, `MaxTickets`, `MaxTime`, `MaxSwept`,
`MaxEvents`, `MaxRevocations`. The races are between two actors on one row, so two
workers are enough to interleave. Attempts are cut to one, two or three (the code
has 3 to 5) because only "attempts left" and "last attempt" differ; with one
attempt the retained failed job and the sweep meet at once. `webhook_settle` has a
backlog larger than its batch; a third pass of `MAX_LINK_ATTEMPTS` is reached, and
so is giving up; `routing_race` has more tickets than its agents may hold, so
deferral happens; `workflow_race` reaches the depth limit and the budget; the
windows of `sla_race` end inside the time bound, and a pause of the whole of it is
longer than `MaxPause`. In `sla_race` one act is a change of the ticket or the
tenant or a fault, a lost enqueue is part of the change it follows; two are enough
to pause a ticket and lose the job, to pause and resume it between two statements of
a sweep, or to suspend and delete the tenant. `HourPasses` counts as an act. Symmetry is used where the members of a set are
told apart by nothing: workers in `webhook_race` and `workflow_race`, messages and
sends in `thread_order`, tickets and routers in `routing_race`, sessions and
revokers in `session_revocation`; none of these runs checks liveness. Deadlock is
checked in `session_revocation`, where somebody can always log in or ask; in the
other runs a finished bounded instance stops, as an idle API does.

*Fairness.* Weak fairness for a worker that holds or can take a job (`Link(l)`,
`WorkerStep(w)`, `Deliver(d)`), for the stalled check, for a request
on its way to the enqueue (outbound only), for the sweep and the clock: the API
process keeps running, BullMQ polls and the sweep repeats on a schedule. For SLA
only some worker of the queue must proceed. Nothing is assumed about Meta, the
language model, people, operators or the absence of faults; an ingest
request may die before its enqueue for ever. The tenant may be deleted at any moment
in `linker_race`, `bot_race` and `sla_race`, may become unreachable in the webhook
runs and be suspended in `outbound_race`; `EventuallyLinked` and `OverdueIsJudged`
except a deleted and an inactive one, as the code does. Routing and workflows leave
the tenant out (section 6). `EventuallyDecided` excludes messages
hit by a fault because no sweeper exists for them, which `StuckNeedsFault` states
as the safety half.

## 4. Where code and comments disagree

The run `outbound_failed_accepted` shows one: a receipt processed before
`recordSent` takes the provider id; the unique index rejects the dispatcher's
UPDATE and the message is shown as failed although Meta accepted it.

The models met these too. Where a property is named, it bounds what happens.

* The webhook claim also matches rows that are `processing`, so two workers do
  work on one row. The data survive it (`webhook_race`); a settled row may be
  settled again with the other verdict.
* The service window moves only if the message also moves `last_message_at`, which
  replies and receipts move too (`service-window.ts:11`): a message recorded late
  may not open its window, but only a later row can cost it
  (`WindowLostToLaterRow`).
* A trigger delivered again after the ticket was finished puts the same message on
  a second ticket (`ticket-linker.service.ts:84`; `SecondTicketNeedsRepeat`).
* Overlapping turns of the bot may both send the handoff message
  (`bot-turn.service.ts:306`; `SequentialTurnsBounded`), and together exceed the cap.
* A pause that commits after the resume it overlapped leaves a clock paused, and a
  stale one can credit the same time twice (`sla-timer.service.ts:24`;
  `SerialEvaluationsConverge`).
* The sweep's claim is said to be safe because the tickets were reconciled in the
  same transaction (`sla-sweep.service.ts:655`). It claims every id that was found,
  also those the reconciliation no longer saw as due, and a stale evaluation beside
  it can resume a paused timer in between: a pending ticket is breached.
  `LostJobBreachesNothing` therefore speaks of sweeps with no other transaction
  beside them.
* The sweep reads timers of tenants with status `active` only
  (`sla-sweep.service.ts:301`), which the comment at 277 calls the term the
  transaction enforces. The gate is `assert_tenant_serviceable`, which refuses
  only tenants that are not yet provisioned or deleted
  (`tenant-scope.extension.ts:217`). So the timers of a trialing, past-due, suspended
  or cancelled tenant are evaluated but never swept while that lasts
  (`OverdueIsJudged` is about active tenants), and the runners' comments that a
  dropped job belongs to a deactivated tenant, whose ticket can be opened after a
  reactivation (`ticket-queue.runner.ts:129`), describe an older gate: what is dropped
  belongs to a deleted tenant, and nothing leads back from there.
* `paused_ms` is an int4, and so is the cast of the pause
  (`sla-timer.service.ts:376`, `:392`). After a pause of more than 24.8 days each
  resume and each stop of the timer raises and undoes the transaction (`CastFails`);
  `SerialEvaluationsConverge` excepts it as `Overlong`.
* Not a disagreement but easy to overlook: a refused enqueue for the SLA module, the
  dispatcher or routing is logged and forgotten (`ticket-queue.runner.ts:185`,
  `automated-message.sender.ts:144`, `handoff.service.ts:361`). `SlaIsTold` and
  `HalfDoneNeedsFault` say that only this, a fault or the deletion of the tenant
  loses one.
* The bot's handoff asks for routing again; a completed job still holds the
  ticket's id and the request is ignored (`handoff.service.ts:357` against
  `contracts/src/assignment.ts:331`).
* Logging out of one session drops the whole index although other sessions live
  (`session-cache.service.ts:139`). An entry tracked before and written after such
  a purge is in no index, and the next revocation cannot find it until its 60 s
  TTL is over.

Consequences of the design that the properties state as their exceptions: a
routing job has a single attempt, so one failed query leaves a ticket undecided;
`defer` also marks a ticket taken meanwhile; a user looked up before a removal may
be assigned after it. A crash leaves a workflow run `running` for ever; a failure
while a run is closed closes it as `internal_error`, loses the occurrences it
raised and leaves the workflow armed; candidates loaded before a disarm still run.
A handshake that read its row before the revocation and joins after the re-check
keeps its socket.

## 5. Proofs

TLAPS checks every proof in the eight `Proofs` modules, for all values of the
constants that satisfy the ASSUMEs (bounds are naturals, sets that are counted are
finite, the `No…` values are outside their sets, payloads are sequences of items).
Each component has an inductive invariant (`IInv`, `RoutingIInv`, `BotIInv`), a
lemma for the initial state and one for the step (by action, or by the kind of
change an action makes), and a theorem for each property. TLC checked the parts of
each invariant on the small instances before they were proved.

* `WebhookEventsProofs`. `ProcessedMeansRecorded` is not inductive: `SettleRow`
  looks only at the worker's position. `IInv` adds `WorkerProgress`: the items a
  worker has passed without parking are done, and a worker at `trigger` stands on
  a committed message. Since `recorded` and `triggered ∪ lost` only grow, no other
  worker disturbs this, whatever it does to the row. `HeldIsStored` is a second
  invariant: only stored rows are in a job, a sweep, a request or a worker.
  `InboxRefined` proves the safety half of the refinement from both: the initial
  state is one of `DurableInbox` (`InitSimulated`), and a step changes the abstract
  state of one delivery at most (`RowSteps`, `RowsSimulated`), by accepting it,
  recording of it (`RecordsSimulated`), settling it, which needs
  `ProcessedMeansRecorded` for "done", or by a second verdict.
* `OutboundDeliveryProofs`. A dispatcher at `record_sent` holds an id Meta gave it,
  a queued row has no id, and jobs and dispatchers agree on the attempt they are at
  (`JobsAreSound`, `WorkersAreSound`); without a fault a message has one dispatcher
  (`FaultFreeIsExclusive`), hence `StuckNeedsFault`. `SecondSendNeedsFault` needs an
  account (`SendsArePaid`): the acceptances of a message and the sends still under
  way or to come are paid for by one delivery and the faults that hit it, counted as
  a cardinality over the dispatchers. `StatusForward` is an action property:
  `recordSent` is conditional on the status it read, receipts on the rank.
* `SessionAccessProofs`. What is cached is indexed (`CachedIsIndexed`), except what
  was overtaken, and a purge that has not finished still has on its list what it must
  evict (`PurgeUnderWay`); a request or a handshake that read before a commit and is
  still on its way is named as overtaken (`RequestsOvertaken`,
  `HandshakesOvertaken`), and an announcement that is still to come
  (`AnnouncementUnderWay`) covers the sockets. The action property
  `RenewalNeedsOvertaking` follows from the first.
* `SlaTimersProofs`. What a transaction has read may be old, but a timer it saw
  stopped is still stopped (`ReadingsArePast`), and the two timers move together while
  both are live (`TimersTogether`), which gives `DeadlineAccounted` and `BreachedOnce`
  under any interleaving. The other two need to know what runs beside what
  (`AloneIsAlone`, `AloneOrOverlapped`). The timers an evaluation or a sweep without
  company has read are as it read them, and what its `blind` claim looked at is not
  due (`AloneSees`); `live` holds what the ticket wanted running at some moment since
  the transaction began, and a reading wants nothing running beyond that, except for
  a reply that came between two statements and that the next one will see
  (`LiveIsWanted`): hence `LostJobBreachesNothing`.
  `SerialEvaluationsConverge` needs that, as long as nothing overlapped, what is read
  is still so or an evaluation is queued (`ReadingsAreCurrent`), and that a ticket
  that disagrees with its timers has an evaluation on the way, or one was dropped, or
  its pause is overlong, which time does not mend (`EvaluationIsDue`). The proof
  showed that paused time may be negative: a resume of a transaction that began
  before the pause it ends takes time off, so `TypeOK` gives it and the deadline the
  integers.
* `WorkflowRunsProofs`. The unique key gives a claimed run one owner (`OneOwner`),
  and only the owner starts, closes, disarms or raises for it (`Sound`, `RunsSound`);
  `Kinds` sorts all steps by what they do to the run, and the conjuncts follow from
  the kinds. `RunawayBounded` needs an account: a worker that has counted the budget
  holds its remaining candidates as licences, and spares one event workflow, the one
  it counted for; the runs of the hour that acted plus the licences never exceed
  `Budget + |Workers| · FurtherCandidates`. A first run within the count starts the
  account anew, a later one spends a licence. The proof found the bound wrong for
  a tenant without event workflows, which `FurtherCandidates` now covers.
* `TicketProofs`, linking. `OneActive` rests on the index at `Create` and on the
  compare-and-set of `Reopen` and `WriteStatus`: no write makes an inactive row
  active. `NumbersAllocated` (used rows are a prefix and their numbers are below
  the counter), `MovesAreLegal` and `WorkersHaveMessages` complete `IInv`.
  `FinishedStaysFinished` is an action property from the same invariant.
  `SlaIsTold` holds because a worker at `tell` stands for each ticket that was opened
  and not yet told, and leaves only by telling, by a refusal, or in a crash; losing a
  race leads back to `read` before anything is opened. `DoneMeansLinked` is in `IInv`
  with its exception, a job dropped because the tenant was deleted.
  `SecondTicketNeedsRepeat` needs `FirstDelivery`: until a message's job has been
  delivered twice, its first link is its only one. `NoTriggerIsDropped` is the
  safety half of `EventuallyLinked`: a running job has a worker
  (`RunningHasWorker`), which lets go of it only by completing, requeueing or
  failing it; without a link it completes only for a deleted tenant.
* `TicketProofs`, routing. A router reads an agent's load, chooses, and writes
  later, so `OvershootBounded` is not inductive. `RotationAccount` adds what is
  promised: the tickets rotation gave an agent plus the routers about to give it
  one never exceed `Cap + |Routers| - 1`. Choosing makes a promise, but only for an
  agent below its cap (`ChosenIsEligible`: the order of rotation has a first among
  the eligible, by `LeastNatural`), when no more than the other routers can have
  promised; an assignment turns a promise into a ticket; nothing else adds. Without
  a fault a router's job runs and is nobody else's (`WorkIsRunning`,
  `WorkIsAlone`), a ticket that gets an owner under a router's hands is marked
  (`WorkIsCrossed`), hence `OneVerdict`. All steps are sorted by kind
  (`RoutingKinds`). `RoutersTakeFromNobody` is an action property: the write of a
  router is conditional on the ticket being unowned.
* `ConversationProofs`, thread. Stored things have past times (`StampsArePast`), a
  thread exists exactly if something was stored in it, and a request that judged
  itself in the window saw a stored message that justifies it; messages are
  never removed, so the judgement stays true until the commit.
  `WindowLostToLaterRow` is inductive together with `LastMessageIsNewest`: the
  write that leaves a window behind has just compared with a newer row.
* `ConversationProofs`, bot. The claim row has one holder (`ClaimsHold`,
  `ClaimsAlone`), which gives `OneReplyOnRecord`; without a fault a claimed row has
  its worker and what is owed and was not refused has a worker that has not enqueued it
  yet and knows from the state it wrote which follow-up that is (`ClaimedHasWorker`,
  `OwedHasWorker`); what a deleted tenant leaves behind is the exception of both. `SequentialTurnsBounded` is about a count
  read before the model call and a stamp written after it. As long as turns do not
  overlap, `Sequential` holds: one turn is in flight, what it saw of the engagement
  is current, and there is room for its reply (`RoomToReply`). The replies of a
  stamped engagement are those counted (`StampedReplies`), because a turn claims
  its row no earlier than the stamp it saw (`SnapshotIsPast`); a reply that found
  the thread taken leaves no stamp, but then a person has the thread and no later
  turn speaks (`UnstampedReply`); after the handoff message every turn sees the
  thread released (`NoticeEnds`) and stops at the gate (`ReleasedStops`). The set of
  messages need not be finite; the replies on record are (`RepliesAreFinite`).
* `IdempotencyKeysProofs`. The row belongs to whoever is at work
  (`HolderIsAtWork`); a completed row has an owner whose work is done. The delete
  of an expired row cannot remove a live claim because it carries the expiry in
  its WHERE clause.

Every invariant and every action property of the runs is a theorem. Only
model-checked: liveness (`EventuallyDecided`, `EventuallyLinked`,
`OverdueIsJudged`) and the fairness half of `ImplementsInbox`; reasoning about
fairness is outside the prover's reach. `FailedMeansNotAccepted`, which the code
violates, has a counterexample and no theorem.

## 6. Not modelled

* The tenant lifecycle with its purge, billing and signup: protocols, left for
  later (section 7).
* Media bytes, the knowledge base, template synchronisation and account connection:
  transfers and HTTP calls around one status column.
* Passwords, throttling, session deadlines and the single-use tokens of invites,
  resets and realtime tickets.
* Policies and business hours of the SLA, conditions of rules and workflows, the
  prompt and the retrieval of the bot: what they yield is a free choice.
* Signature verification, JSON parsing and mapping, wording, logging, metrics,
  row-level security (a property of every query, not of a protocol), CRUD of one
  transaction, seeds, and the two consoles, which are most of the repository's
  lines and read what the API committed.
* A job's backoff is not timed: a waiting job may be taken at any moment.
* `TicketRouting` and `WorkflowRuns` leave the tenant out: their runners drop the jobs
  of a deleted tenant (`assignment-queue.runner.ts:101`, `workflow-queue.runner.ts:119`),
  so `OneVerdict` and `OccurrenceLostNeedsFault` are about tenants that are not deleted.
* In `SlaTimers` the writes of a transaction are one step with its commit, its begin
  one with its first statement. The bounded batch of the sweep may or may not reach
  this ticket's timers; that it does in the end is what `OverdueIsJudged` takes from the
  fairness of the workers, so a backlog that outgrows every batch is not covered.
* The messages of a deleted tenant go with its purge. In the pipeline no message is
  deleted, so the null answer of `replayOf` (`whatsapp-inbound.writer.ts:263`), a row
  that vanished between two statements, is left out.

## 7. Plan

The proofs of what is modelled are complete, up to liveness. Next:

1. `TenantLifecycle` with the purge, and `SubscriptionSync` with the seat pushes:
   the three hazards without a property.
2. The composition of `WebhookEvents` and `TicketLinker` (message to ticket).
