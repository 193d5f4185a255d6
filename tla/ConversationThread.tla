--------------------------- MODULE ConversationThread ---------------------------
(***************************************************************************)
(* One conversation row under everything that writes its clocks and        *)
(* counters: inbound webhooks (late, repeated and out of order), delivery  *)
(* receipts for messages the product never wrote, agents and automation    *)
(* replying, and agents reading.  The row is a high-water mark             *)
(* (last_message_at), the end of Meta's customer service window            *)
(* (service_window_expires_at) and an unread count.  Every writer is one    *)
(* READ COMMITTED transaction whose guards sit in its WHERE clauses and     *)
(* which holds the row lock until it commits, so it is one step; a send     *)
(* reads the row first and writes later.  The bot_state column, which the  *)
(* send writes too, is BotTurns.                                           *)
(***************************************************************************)
EXTENDS Integers, FiniteSets

CONSTANTS Inbound,   \* customer messages, by provider id
          Foreign,   \* receipts for messages sent on the number by other means
          Sends,     \* replies of agents and automation
          Window,    \* SERVICE_WINDOW_MS, in ticks
          MaxTime    \* bound: the clock

ASSUME WindowAssumption == Window \in Nat \ {0}
ASSUME TimeAssumption == MaxTime \in Nat \ {0}
ASSUME InboundAssumption == IsFiniteSet(Inbound)

VARIABLES
  now,
  sentAt,    \* Meta's timestamp of a customer message, 0 before it is written
  receiptAt, \* Meta's timestamp of a receipt, 0 before there is one
  recorded,  \* customer messages stored
  placed,    \* receipts that got their placeholder row
  conv,      \* the conversations row; window 0 is NULL
  lastSeen,  \* contacts.last_seen_at, 0 before the contact exists
  opened,    \* usage metric conversations_opened
  read,      \* customer messages stored when an agent last marked the thread read
  send,      \* replies: what was asked, when it was checked, the row's sent_at
  optedOut

vars == <<now, sentAt, receiptAt, recorded, placed, conv, lastSeen, opened, read, send, optedOut>>
clockVars == <<now, sentAt, receiptAt>>

Times == 0..MaxTime
Kinds == {"text", "template", "automated"}
FreeForm == {"text", "automated"}
SendStates == {"none", "checked", "committed", "refused"}
NoSend == [st |-> "none", kind |-> "text", checked |-> 0, at |-> 0]
NoThread == [exists |-> FALSE, last |-> 0, window |-> 0, unread |-> 0]

Init ==
  /\ now = 1
  /\ sentAt = [i \in Inbound |-> 0]
  /\ receiptAt = [f \in Foreign |-> 0]
  /\ recorded = {} /\ placed = {}
  /\ conv = NoThread
  /\ lastSeen = 0 /\ opened = 0
  /\ read = {}
  /\ send = [o \in Sends |-> NoSend]
  /\ optedOut = FALSE

-----------------------------------------------------------------------------
(* The outside world.                                                        *)

Tick ==
  /\ now < MaxTime /\ now' = now + 1
  /\ UNCHANGED <<sentAt, receiptAt, recorded, placed, conv, lastSeen, opened, read, send, optedOut>>

CustomerWrites(i) ==
  /\ sentAt[i] = 0
  /\ sentAt' = [sentAt EXCEPT ![i] = now]
  /\ UNCHANGED <<now, receiptAt, recorded, placed, conv, lastSeen, opened, read, send, optedOut>>

MetaReports(f) ==
  /\ receiptAt[f] = 0
  /\ receiptAt' = [receiptAt EXCEPT ![f] = now]
  /\ UNCHANGED <<now, sentAt, recorded, placed, conv, lastSeen, opened, read, send, optedOut>>

OptOut ==
  /\ ~optedOut /\ optedOut' = TRUE
  /\ UNCHANGED <<clockVars, recorded, placed, conv, lastSeen, opened, read, send>>

-----------------------------------------------------------------------------
(* WhatsAppInboundWriter.                                                    *)

ServiceWindowEnd(at) == at + Window

(* upsertContact: last_seen_at moves only forward. *)
UpsertContact(at) == lastSeen' = IF lastSeen < at THEN at ELSE lastSeen

(* upsertConversation: the thread as it is, or as it is opened by a message  *)
(* (or receipt) of time at with the window it opens.                         *)
Opened(at, window) ==
  IF conv.exists THEN conv
  ELSE [exists |-> TRUE, last |-> at, window |-> window, unread |-> 0]
Metered == IF conv.exists THEN opened ELSE opened + 1

(* Is this provider message id new to ON CONFLICT DO NOTHING?                *)
(* Faulty variant: a replay counts again.                                    *)
IsNewAlways(i) == TRUE
IsNew(i) == i \notin recorded

(* Faulty variant: a window is opened and never extended.                    *)
AdvanceOnce(c, at) ==
  IF c.last < at
  THEN [c EXCEPT !.unread = c.unread + 1, !.last = at,
                 !.window = IF c.window = 0 THEN ServiceWindowEnd(at) ELSE c.window]
  ELSE [c EXCEPT !.unread = c.unread + 1]
(* advanceConversation on the row c. *)
Advance(c, at) ==
  IF c.last < at
  THEN [c EXCEPT !.unread = c.unread + 1, !.last = at, !.window = ServiceWindowEnd(at)]
  ELSE [c EXCEPT !.unread = c.unread + 1]

(* applyInboundMessage, for a first delivery or any replay of it.            *)
ApplyInbound(i) ==
  LET at == sentAt[i]
      thread == Opened(at, ServiceWindowEnd(at))
  IN  /\ at # 0
      /\ UpsertContact(at)
      /\ opened' = Metered
      /\ conv' = IF IsNew(i) THEN Advance(thread, at) ELSE thread
      /\ recorded' = recorded \union {i}
      /\ UNCHANGED <<clockVars, placed, read, send, optedOut>>

(* applyStatusUpdate for an unknown message: createStatusPlaceholder opens a *)
(* thread without a window and leaves an existing one as it is.              *)
PlaceholderWindow(f) == 0
PlaceReceipt(f) ==
  /\ receiptAt[f] # 0 /\ f \notin placed
  /\ UpsertContact(receiptAt[f])
  /\ opened' = Metered
  /\ conv' = Opened(receiptAt[f], PlaceholderWindow(f))
  /\ placed' = placed \union {f}
  /\ UNCHANGED <<clockVars, recorded, read, send, optedOut>>

-----------------------------------------------------------------------------
(* MessageSendService, AutomatedMessageSender.                               *)

(* Faulty variant: NULL read as unknown, and allowed.                        *)
IsServiceWindowOpenOrNull(at) == conv.window = 0 \/ conv.window > at
IsServiceWindowOpen(at) == conv.window # 0 /\ conv.window > at

(* loadSendTarget and prepare, or the bot's eligibility gate: the row is read *)
(* and judged here, and written in the next step.                            *)
PrepareSend(o, kind) ==
  /\ send[o].st = "none" /\ conv.exists
  /\ send' = [send EXCEPT ![o] =
       IF ~optedOut /\ (kind \in FreeForm => IsServiceWindowOpen(now))
       THEN [st |-> "checked", kind |-> kind, checked |-> now, at |-> 0]
       ELSE [st |-> "refused", kind |-> kind, checked |-> now, at |-> 0]]
  /\ UNCHANGED <<clockVars, recorded, placed, conv, lastSeen, opened, read, optedOut>>

(* An agent's message is stamped when it is checked; an automated one when   *)
(* its transaction starts, after the model has answered.                     *)
Stamp(o) == IF send[o].kind = "automated" THEN now ELSE send[o].checked

(* The outbound half of the high-water mark.                                 *)
Touch(at) == IF conv.last < at THEN [conv EXCEPT !.last = at] ELSE conv

CommitSend(o) ==
  /\ send[o].st = "checked"
  /\ send' = [send EXCEPT ![o] = [send[o] EXCEPT !.st = "committed", !.at = Stamp(o)]]
  /\ conv' = Touch(Stamp(o))
  /\ UNCHANGED <<clockVars, recorded, placed, lastSeen, opened, read, optedOut>>

(* The transaction is rolled back: the plan's conversation allowance is spent. *)
RefuseSend(o) ==
  /\ send[o].st = "checked"
  /\ send' = [send EXCEPT ![o] = [send[o] EXCEPT !.st = "refused"]]
  /\ UNCHANGED <<clockVars, recorded, placed, conv, lastSeen, opened, read, optedOut>>

(* ConversationCommandService.markRead: a blunt reset. *)
MarkRead ==
  /\ conv.exists
  /\ conv' = [conv EXCEPT !.unread = 0]
  /\ read' = recorded
  /\ UNCHANGED <<clockVars, recorded, placed, lastSeen, opened, send, optedOut>>

-----------------------------------------------------------------------------
Next == \/ Tick \/ OptOut \/ MarkRead
        \/ \E i \in Inbound : CustomerWrites(i) \/ ApplyInbound(i)
        \/ \E f \in Foreign : MetaReports(f) \/ PlaceReceipt(f)
        \/ \E o \in Sends : CommitSend(o) \/ RefuseSend(o)
        \/ \E o \in Sends, kind \in Kinds : PrepareSend(o, kind)

Spec == Init /\ [][Next]_vars

-----------------------------------------------------------------------------
TypeOK ==
  /\ now \in 1..MaxTime
  /\ sentAt \in [Inbound -> Times] /\ receiptAt \in [Foreign -> Times]
  /\ recorded \subseteq Inbound /\ placed \subseteq Foreign
  /\ conv \in [exists : BOOLEAN, last : Times, window : 0..(MaxTime + Window), unread : Nat]
  /\ lastSeen \in Times /\ opened \in Nat
  /\ read \subseteq Inbound
  /\ send \in [Sends -> [st : SendStates, kind : Kinds, checked : Times, at : Times]]
  /\ optedOut \in BOOLEAN

Committed == {o \in Sends : send[o].st = "committed"}

(* The inbox sorts by last_message_at: it is the time of the newest message  *)
(* of the thread in either direction, whatever order messages, replays and   *)
(* replies arrive in.  A receipt's row counts only if it opened the thread.  *)
LastMessageIsNewest ==
  conv.exists =>
    /\ \A i \in recorded : sentAt[i] <= conv.last
    /\ \A o \in Committed : send[o].at <= conv.last
    /\ \/ \E i \in recorded : conv.last = sentAt[i]
       \/ \E o \in Committed : conv.last = send[o].at
       \/ \E f \in placed : conv.last = receiptAt[f]

(* Unread counts each customer message stored since the last mark-as-read    *)
(* exactly once, although webhooks are replayed and arrive out of order.     *)
UnreadIsExact == conv.unread = Cardinality(recorded \ read)

(* The window comes from a customer message and from nothing else: neither a *)
(* receipt nor a reply opens or extends it.                                  *)
WindowIsEarned ==
  conv.window # 0 => \E i \in recorded : conv.window = ServiceWindowEnd(sentAt[i])

InWindow(at) ==
  \E i \in recorded : sentAt[i] <= at /\ at < ServiceWindowEnd(sentAt[i])

(* A free-form message is committed only if, when it was judged, the customer *)
(* had written to us within the window (and that message was stored).        *)
FreeFormInWindow == \A o \in Committed : send[o].kind \in FreeForm => InWindow(send[o].checked)

(* A thread is metered when it opens and never again, whichever of a message *)
(* and a receipt opens it and however often either is replayed.              *)
MeteredOnce == opened = IF conv.exists THEN 1 ELSE 0

(* Recording a customer message opens the window it entitles us to, unless a *)
(* reply or a receipt of the same or a later time is on the thread: only     *)
(* those can have moved the mark that guards the extension.                  *)
WindowLostToLaterRow ==
  \A i \in recorded :
    \/ conv.window >= ServiceWindowEnd(sentAt[i])
    \/ \E o \in Committed : send[o].at >= sentAt[i]
    \/ \E f \in placed : receiptAt[f] >= sentAt[i]

-----------------------------------------------------------------------------
(* What the safety properties rest on.                                       *)

(* What is stored has a time, and no customer message is of the future. *)
StampsArePast ==
  /\ \A i \in Inbound : sentAt[i] <= now /\ (i \in recorded => sentAt[i] # 0)
  /\ \A f \in placed : receiptAt[f] # 0

(* Before the thread exists nothing is stored and nothing was asked of it. *)
NothingBeforeThread ==
  ~conv.exists => /\ conv.window = 0 /\ recorded = {} /\ placed = {}
                  /\ \A o \in Sends : send[o].st = "none"

(* What an agent marked as read had been stored. *)
ReadIsStored == read \subseteq recorded

(* A free-form send that passed the check passed it inside the window. *)
JudgedInWindow ==
  \A o \in Sends : send[o].st \in {"checked", "committed"} /\ send[o].kind \in FreeForm =>
    InWindow(send[o].checked)

IInv == /\ TypeOK /\ StampsArePast /\ NothingBeforeThread /\ ReadIsStored /\ JudgedInWindow
        /\ LastMessageIsNewest /\ UnreadIsExact /\ WindowIsEarned /\ MeteredOnce
=============================================================================
