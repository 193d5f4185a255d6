----------------------------- MODULE DurableInbox -----------------------------
(***************************************************************************)
(* What the webhook pipeline promises Meta and the tenant, with no queue,  *)
(* worker, sweeper or crash in it: a delivery that was accepted is kept,   *)
(* is settled as done or parked, and is called done only when every        *)
(* message it carries has been recorded.  WebhookEvents implements it.     *)
(***************************************************************************)
EXTENDS Naturals

CONSTANTS Deliveries,      \* deliveries Meta may make
          Messages,        \* provider message ids
          Carries(_),      \* the messages a delivery carries
          Applicable(_)    \* every change of the delivery is one the pipeline reads

VARIABLES inbox,           \* inbox[d]: unseen, pending, done or parked
          stored           \* messages recorded so far

inboxVars == <<inbox, stored>>

InboxStates == {"unseen", "pending", "done", "parked"}

(* A delivery counts as done only when nothing in it was left behind. *)
FullyRecorded(d, msgs) == Applicable(d) /\ Carries(d) \subseteq msgs

InboxInit == /\ inbox = [d \in Deliveries |-> "unseen"]
             /\ stored = {}

Accept(d) == /\ inbox[d] = "unseen"
             /\ inbox' = [inbox EXCEPT ![d] = "pending"]
             /\ UNCHANGED stored

(* A message is recorded while a delivery that carries it is known; messages *)
(* are never removed.                                                        *)
Record(d, m) == /\ inbox[d] # "unseen"
                /\ m \in Carries(d)
                /\ stored' = stored \union {m}
                /\ UNCHANGED inbox

Complete(d) == /\ inbox[d] # "unseen"
               /\ FullyRecorded(d, stored)
               /\ inbox' = [inbox EXCEPT ![d] = "done"]
               /\ UNCHANGED stored

Park(d) == /\ inbox[d] # "unseen"
           /\ inbox' = [inbox EXCEPT ![d] = "parked"]
           /\ UNCHANGED stored

Reopen(d) == /\ inbox[d] = "parked"
             /\ inbox' = [inbox EXCEPT ![d] = "pending"]
             /\ UNCHANGED stored

InboxNext == \E d \in Deliveries :
                \/ Accept(d) \/ Complete(d) \/ Park(d) \/ Reopen(d)
                \/ \E m \in Messages : Record(d, m)

(* A pending delivery does not stay pending. *)
Settle(d) == inbox[d] = "pending" /\ (Complete(d) \/ Park(d))

InboxSpec == /\ InboxInit /\ [][InboxNext]_inboxVars
             /\ \A d \in Deliveries : WF_inboxVars(Settle(d))
=============================================================================
