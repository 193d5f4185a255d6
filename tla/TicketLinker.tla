------------------------------ MODULE TicketLinker ------------------------------
(***************************************************************************)
(* The tickets of one contact under everything that writes their status:   *)
(* ticket.ensure jobs (TicketLinkerService) that attach a customer message *)
(* to the active ticket, reopen it or create one; people and workflows     *)
(* moving a ticket (TicketCommandService); and the bot pausing it.  No two *)
(* of them share a lock: each reads first, and its write carries what it   *)
(* read in the WHERE clause, or an ON CONFLICT on the partial unique index  *)
(* over active tickets.  Reads and writes are separate steps.  What a      *)
(* message did to its ticket is told the SLA queue after the commit.  Once *)
(* the tenant is deleted, no transaction begins (a job is dropped then).   *)
(***************************************************************************)
EXTENDS Integers, FiniteSets

CONSTANTS Messages,        \* inbound messages of the contact
          Linkers,         \* workers of the ticket queue
          Writers,         \* requests and workflow runs that move a ticket
          NoMessage,
          MaxTickets,      \* bound: tickets of the contact
          MaxLinkAttempts, \* MAX_LINK_ATTEMPTS
          MaxTries,        \* attempts of a ticket.ensure job
          MaxRepeats,      \* bound: triggers delivered again, and crashes
          MaxActs          \* bound: moves of people, workflows and the bot

ASSUME MessageAssumption == NoMessage \notin Messages
ASSUME BoundsAssumption == /\ MaxTickets \in Nat \ {0}
                           /\ MaxLinkAttempts \in Nat \ {0}
                           /\ MaxTries \in Nat \ {0}
                           /\ MaxRepeats \in Nat
                           /\ MaxActs \in Nat

VARIABLES
  tickets,   \* the rows, in the order of their creation
  counter,   \* ticket_counters.next_number
  trigger,   \* the ticket.ensure job of each message, with its attemptsMade
  linker,    \* what each worker is doing
  writer,    \* what each request has read
  deleted,   \* is the tenant deleted
  linked,    \* tickets each message was put on
  opened,    \* tickets each message created or reopened
  told,      \* of these, tickets whose SLA evaluation was queued afterwards
  refused,   \* messages with an SLA evaluation that the queue did not take
  repeats, acts

vars == <<tickets, counter, trigger, linker, writer, deleted, linked, opened, told, refused,
          repeats, acts>>
ghostVars == <<linked, opened, told, refused>>
boundVars == <<repeats, acts>>

Ids == 1..MaxTickets
Statuses == {"open", "pending", "resolved", "closed"}
Active == {"open", "pending"}                    \* TICKET_ACTIVE_STATUSES
Finished == Statuses \ Active
TriggerStates == {"none", "queued", "running", "done", "failed"}
PCs == {"idle", "read", "attach", "reopen", "create", "tell", "return", "throw"}

(* TICKET_STATUS_TRANSITIONS. *)
CanAgentTransition(from, to) ==
  CASE from = "open" -> to \in {"pending", "resolved", "closed"}
    [] from = "pending" -> to \in {"open", "resolved", "closed"}
    [] from = "resolved" -> to = "closed"
    [] OTHER -> FALSE

NoTicket == [st |-> "none", number |-> 0]
FirstAttempt == 1
IdleLinker == [pc |-> "idle", m |-> NoMessage, attempt |-> 1, t |-> 1]
IdleWriter == [busy |-> FALSE, t |-> 1, before |-> "open", to |-> "open"]

Init ==
  /\ tickets = [t \in Ids |-> NoTicket]
  /\ counter = 1
  /\ trigger = [m \in Messages |-> [st |-> "none", tries |-> 0]]
  /\ linker = [l \in Linkers |-> IdleLinker]
  /\ writer = [a \in Writers |-> IdleWriter]
  /\ linked = [m \in Messages |-> {}]
  /\ opened = [m \in Messages |-> {}]
  /\ told = [m \in Messages |-> {}]
  /\ refused = {} /\ deleted = FALSE
  /\ repeats = 0 /\ acts = 0

ActiveIds == {t \in Ids : tickets[t].st \in Active}
Unused == {t \in Ids : tickets[t].st = "none"}
SetStatus(t, st) == tickets' = [tickets EXCEPT ![t] = [tickets[t] EXCEPT !.st = st]]
Repeat == repeats < MaxRepeats /\ repeats' = repeats + 1 /\ UNCHANGED acts
Act == acts < MaxActs /\ acts' = acts + 1 /\ UNCHANGED repeats

-----------------------------------------------------------------------------
(* The queue.  The job id is forgotten on completion (removeOnComplete), and *)
(* the webhook sweeper's replay enqueues the trigger of a stored message     *)
(* again; a crash returns the job to the queue.                              *)

SetTrigger(m, st, tries) == trigger' = [trigger EXCEPT ![m] = [st |-> st, tries |-> tries]]

Enqueue(m) ==
  /\ \/ trigger[m].st = "none" /\ UNCHANGED boundVars
     \/ trigger[m].st = "done" /\ Repeat
  /\ SetTrigger(m, "queued", 0)
  /\ UNCHANGED <<tickets, counter, linker, writer, deleted, ghostVars>>

SetLinker(l, s) == linker' = [linker EXCEPT ![l] = s]
At(l, pc) == linker[l].pc = pc
Goto(l, pc) == SetLinker(l, [linker[l] EXCEPT !.pc = pc])

(* A worker takes the job and reads the message the trigger names.           *)
(* TenantNotActiveError completes the job with nothing done.                 *)
ReadInboundTarget(l, m) ==
  /\ At(l, "idle") /\ trigger[m].st = "queued"
  /\ \/ /\ ~deleted
        /\ SetTrigger(m, "running", trigger[m].tries)
        /\ SetLinker(l, [pc |-> "read", m |-> m, attempt |-> FirstAttempt, t |-> 1])
     \/ deleted /\ SetTrigger(m, "done", 0) /\ UNCHANGED linker
  /\ UNCHANGED <<tickets, counter, writer, deleted, ghostVars, boundVars>>

Complete(l) == SetTrigger(linker[l].m, "done", 0) /\ SetLinker(l, IdleLinker)
Return(l) ==
  /\ At(l, "return") /\ Complete(l)
  /\ UNCHANGED <<tickets, counter, writer, deleted, ghostVars, boundVars>>

(* Faulty variant: the job that threw is dropped.                            *)
ThrowDropped(l) == /\ At(l, "throw")
                   /\ SetTrigger(linker[l].m, "none", 0)
                   /\ SetLinker(l, IdleLinker)
                   /\ UNCHANGED <<tickets, counter, writer, deleted, ghostVars, boundVars>>
(* TicketLinkRaceUnresolvedError: BullMQ retries while attempts are left.    *)
Throw(l) ==
  LET m == linker[l].m
  IN  /\ At(l, "throw")
      /\ IF trigger[m].tries + 1 < MaxTries THEN SetTrigger(m, "queued", trigger[m].tries + 1)
                                            ELSE SetTrigger(m, "failed", 0)
      /\ SetLinker(l, IdleLinker)
      /\ UNCHANGED <<tickets, counter, writer, deleted, ghostVars, boundVars>>

Crash(l) ==
  /\ ~At(l, "idle") /\ Repeat
  /\ SetTrigger(linker[l].m, "queued", trigger[linker[l].m].tries)
  /\ SetLinker(l, IdleLinker)
  /\ UNCHANGED <<tickets, counter, writer, deleted, ghostVars>>

-----------------------------------------------------------------------------
(* TicketLinkerService.ensureTicketForMessage: linkOnce reads the contact's  *)
(* active ticket and acts on it in the same transaction, but in a statement  *)
(* of its own.  Of a deleted tenant the transaction does not begin, and the  *)
(* runner completes the job.                                                 *)

ReadActive(l) ==
  /\ At(l, "read")
  /\ \/ /\ ~deleted /\ UNCHANGED trigger
        /\ \/ ActiveIds = {} /\ Goto(l, "create")
           \/ \E t \in ActiveIds :
                SetLinker(l, [linker[l] EXCEPT !.t = t,
                                !.pc = IF tickets[t].st = "pending" THEN "reopen" ELSE "attach"])
     \/ deleted /\ Complete(l)
  /\ UNCHANGED <<tickets, counter, writer, deleted, ghostVars, boundVars>>

(* slaReasonFor: a message put on a ticket that was open tells nothing.      *)
(* Faulty variant: a reopened ticket is taken for an open one.               *)
SlaReasonForCreated(outcome) == outcome = "created"
SlaReasonFor(outcome) == outcome \in {"created", "reopened"}

(* Faulty variant: the loop goes on after an attempt that attached.          *)
LinkToAgain(l, t, outcome) ==
  /\ SetLinker(l, [linker[l] EXCEPT !.t = t,
                     !.pc = IF SlaReasonFor(outcome) THEN "tell" ELSE "read"])
  /\ linked' = [linked EXCEPT ![linker[l].m] = linked[linker[l].m] \union {t}]
(* The attempt ends with the message on ticket t. *)
LinkTo(l, t, outcome) ==
  /\ SetLinker(l, [linker[l] EXCEPT !.t = t,
                     !.pc = IF SlaReasonFor(outcome) THEN "tell" ELSE "return"])
  /\ linked' = [linked EXCEPT ![linker[l].m] = linked[linker[l].m] \union {t}]
Opens(m, t) == opened' = [opened EXCEPT ![m] = opened[m] \union {t}]

(* A compare-and-set matched nothing: again in a new transaction, or give up. *)
LostRace(l) ==
  SetLinker(l, IF linker[l].attempt < MaxLinkAttempts
               THEN [linker[l] EXCEPT !.pc = "read", !.attempt = linker[l].attempt + 1]
               ELSE [linker[l] EXCEPT !.pc = "throw"])

(* attach to an open ticket writes nothing to the ticket. *)
AttachOpen(l) ==
  /\ At(l, "attach")
  /\ LinkTo(l, linker[l].t, "attached")
  /\ UNCHANGED <<tickets, counter, trigger, writer, deleted, opened, told, refused, boundVars>>

(* reopen: UPDATE ... WHERE status = 'pending'.                              *)
ReopenMatches(t) == tickets[t].st = "pending"
(* attach goes on only if reopen says that it moved the ticket.              *)
Reopen(l) ==
  LET t == linker[l].t
  IN  /\ At(l, "reopen")
      /\ \/ ReopenMatches(t) /\ SetStatus(t, "open") /\ Opens(linker[l].m, t) /\ LinkTo(l, t, "reopened")
         \/ ~ReopenMatches(t) /\ LostRace(l) /\ UNCHANGED <<tickets, opened, linked>>
      /\ UNCHANGED <<counter, trigger, writer, deleted, told, refused, boundVars>>

(* The rows of the partial unique index tickets_one_active_per_contact.      *)
(* Faulty variant: the index covers open tickets only.                       *)
IndexedOpen == {t \in Ids : tickets[t].st = "open"}
Indexed == {t \in Ids : tickets[t].st \in Active}
(* create: one statement allocates a number and inserts ON CONFLICT DO       *)
(* NOTHING; the number is spent even when the insert loses.                  *)
NextNumber == counter + 1
Create(l) ==
  /\ At(l, "create")
  /\ counter' = NextNumber
  /\ \/ /\ Indexed = {}
        /\ \E t \in Unused : /\ \A u \in Unused : t <= u
                             /\ tickets' = [tickets EXCEPT ![t] = [st |-> "open", number |-> counter]]
                             /\ Opens(linker[l].m, t) /\ LinkTo(l, t, "created")
     \/ /\ Indexed # {}
        /\ LostRace(l) /\ UNCHANGED <<tickets, opened, linked>>
  /\ UNCHANGED <<trigger, writer, deleted, told, refused, boundVars>>

(* triggerSlaEvaluation, after the commit: a refused enqueue is logged.      *)
TriggerSlaEvaluation(l) ==
  LET m == linker[l].m
  IN  /\ At(l, "tell") /\ Goto(l, "return")
      /\ \/ told' = [told EXCEPT ![m] = told[m] \union {linker[l].t}] /\ UNCHANGED refused
         \/ refused' = refused \union {m} /\ UNCHANGED told
      /\ UNCHANGED <<tickets, counter, trigger, writer, deleted, linked, opened, boundVars>>

-----------------------------------------------------------------------------
(* TicketCommandService.update and applyAutomation: read, judge the move,     *)
(* then compare-and-set on the status read.                                  *)

RequireTicket(a, t, to) ==
  /\ ~writer[a].busy /\ tickets[t].st \in Statuses
  /\ CanAgentTransition(tickets[t].st, to)
  /\ ~deleted /\ Act
  /\ writer' = [writer EXCEPT ![a] = [busy |-> TRUE, t |-> t, before |-> tickets[t].st, to |-> to]]
  /\ UNCHANGED <<tickets, counter, trigger, linker, deleted, ghostVars>>

(* A lost compare-and-set is a conflict (or a no_op of a workflow); the      *)
(* write is a transaction of its own, refused of a deleted tenant.           *)
WriteStatus(a) ==
  LET matches == ~deleted /\ tickets[writer[a].t].st = writer[a].before
  IN
  /\ writer[a].busy
  /\ \/ matches /\ SetStatus(writer[a].t, writer[a].to)
     \/ ~matches /\ UNCHANGED tickets
  /\ writer' = [writer EXCEPT ![a] = IdleWriter]
  /\ UNCHANGED <<counter, trigger, linker, deleted, ghostVars, boundVars>>

(* BotTurnService.pauseSla, in the transaction of a bot reply. *)
PauseSla(t) ==
  /\ tickets[t].st = "open" /\ Act
  /\ SetStatus(t, "pending")
  /\ UNCHANGED <<counter, trigger, linker, writer, deleted, ghostVars>>

(* The lifecycle timer; nothing leads back from deleted.                     *)
DeleteTenant ==
  /\ ~deleted /\ deleted' = TRUE /\ Act
  /\ UNCHANGED <<tickets, counter, trigger, linker, writer, ghostVars>>

-----------------------------------------------------------------------------
Link(l) == \/ ReadActive(l) \/ AttachOpen(l) \/ Reopen(l) \/ Create(l)
           \/ TriggerSlaEvaluation(l) \/ Return(l) \/ Throw(l) \/ \E m \in Messages : ReadInboundTarget(l, m)

Next == \/ \E m \in Messages : Enqueue(m)
        \/ \E l \in Linkers : Link(l) \/ Crash(l)
        \/ \E a \in Writers, t \in Ids, to \in Statuses : RequireTicket(a, t, to)
        \/ \E a \in Writers : WriteStatus(a)
        \/ \E t \in Ids : PauseSla(t)
        \/ DeleteTenant

Spec == Init /\ [][Next]_vars

(* A worker that is up goes on with its job and takes waiting ones.          *)
FairSpec == Spec /\ \A l \in Linkers : WF_vars(Link(l))

-----------------------------------------------------------------------------
TypeOK ==
  /\ tickets \in [Ids -> [st : Statuses \union {"none"}, number : Nat]]
  /\ counter \in Nat \ {0}
  /\ trigger \in [Messages -> [st : TriggerStates, tries : Nat]]
  /\ linker \in [Linkers -> [pc : PCs, m : Messages \union {NoMessage},
                             attempt : 1..MaxLinkAttempts, t : Ids]]
  /\ writer \in [Writers -> [busy : BOOLEAN, t : Ids, before : Statuses, to : Statuses]]
  /\ linked \in [Messages -> SUBSET Ids]
  /\ opened \in [Messages -> SUBSET Ids] /\ told \in [Messages -> SUBSET Ids]
  /\ refused \subseteq Messages /\ deleted \in BOOLEAN
  /\ repeats \in 0..MaxRepeats /\ acts \in 0..MaxActs

(* The contact never has two active tickets, although jobs create and reopen *)
(* them while people, workflows and the bot move them.                       *)
OneActive == \A t, u \in ActiveIds : t = u

(* Ticket numbers are unique and follow the order of creation, lost inserts  *)
(* included.                                                                 *)
NumbersInOrder ==
  \A t, u \in Ids \ Unused : t < u => tickets[t].number < tickets[u].number

NoneComesBack ==
  \A t \in Ids : tickets[t].st \in Finished =>
    \/ tickets'[t].st = tickets[t].st
    \/ (tickets[t].st = "resolved" /\ tickets'[t].st = "closed")

(* Nothing brings a finished ticket back: not a reply that raced the agent,  *)
(* not a stale request, not the bot.                                         *)
FinishedStaysFinished == [][NoneComesBack]_vars

(* The SLA evaluation of a ticket is asked for by a message only if that     *)
(* message created or reopened it, and then it is asked for, or was refused  *)
(* by the queue, before the job ends, however many races were lost; only a   *)
(* crash between the commit and the enqueue leaves it out.                   *)
SlaIsTold ==
  \A m \in Messages :
    /\ told[m] \subseteq opened[m]
    /\ repeats = 0 /\ m \notin refused =>
         \A t \in opened[m] \ told[m] :
           \E l \in Linkers : At(l, "tell") /\ linker[l].m = m /\ linker[l].t = t

(* A job that completed has put its message on a ticket, unless the tenant   *)
(* was deleted: losing a race never loses the message.                       *)
DoneMeansLinked == \A m \in Messages : trigger[m].st = "done" => linked[m] # {} \/ deleted

(* Every trigger is worked off: its message is on a ticket, or its job is in *)
(* the failed set, where it is monitored, or was dropped because the tenant  *)
(* was deleted.                                                              *)
EventuallyLinked ==
  \A m \in Messages :
    (trigger[m].st = "queued") ~>
      (linked[m] # {} \/ trigger[m].st = "failed" \/ (deleted /\ trigger[m].st = "done"))

(* A message gets onto a second ticket only when its job is delivered again  *)
(* (a replay, or a crash between the commit and the end of the job): within  *)
(* one delivery no lost race and no retry puts it on two.                    *)
SecondTicketNeedsRepeat ==
  repeats = 0 => \A m \in Messages : \A t, u \in linked[m] : t = u

-----------------------------------------------------------------------------
(* What the safety properties rest on.                                       *)

(* Rows are used in order, with numbers the counter has passed. *)
NumbersAllocated ==
  \A u \in Ids \ Unused :
    /\ tickets[u].number < counter
    /\ \A t \in Ids : t < u => t \notin Unused

(* A request writes only a move that was allowed when it read. *)
MovesAreLegal ==
  \A a \in Writers : writer[a].busy => CanAgentTransition(writer[a].before, writer[a].to)

(* A busy worker has a message, which is on a ticket when it returns, and    *)
(* tells only of a ticket that the message opened.                           *)
WorkersHaveMessages ==
  \A l \in Linkers :
    /\ ~At(l, "idle") => linker[l].m \in Messages
    /\ linker[l].pc \in {"tell", "return"} => linked[linker[l].m] # {}
    /\ At(l, "tell") => linker[l].t \in opened[linker[l].m]

(* Until a job is delivered again, one worker has it while it runs, and its  *)
(* message is on no ticket until that worker has put it on one.              *)
FirstDelivery ==
  repeats = 0 =>
    /\ \A l \in Linkers : ~At(l, "idle") => trigger[linker[l].m].st = "running"
    /\ \A l, k \in Linkers :
         ~At(l, "idle") /\ ~At(k, "idle") /\ linker[l].m = linker[k].m => l = k
    /\ \A l \in Linkers : linker[l].pc \notin {"idle", "tell", "return"} => linked[linker[l].m] = {}
    /\ \A m \in Messages : trigger[m].st \in {"none", "queued", "failed"} => linked[m] = {}
    /\ \A m \in Messages : \A t, u \in linked[m] : t = u

IInv == /\ TypeOK /\ OneActive /\ NumbersInOrder /\ NumbersAllocated
        /\ MovesAreLegal /\ WorkersHaveMessages /\ DoneMeansLinked /\ SlaIsTold
=============================================================================
