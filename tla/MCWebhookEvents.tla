---------------------------- MODULE MCWebhookEvents ----------------------------
(* Small instances of WebhookEvents for TLC. *)
EXTENDS WebhookEvents, TLC

CONSTANTS e1, e2, m1, m2, w1, w2

It(kind, msg) == [kind |-> kind, msg |-> msg]

(* A delivery with a status that is not modelled, a message and a receipt. *)
MCOne == (e1 :> <<It("unmodelled_status", m2), It("inbound", m1), It("status", m2)>>)

(* A delivery with a message, and one whose envelope does not parse. *)
MCTwo == (e1 :> <<It("inbound", m1)>>) @@ (e2 :> <<>>)

(* Worker slots are interchangeable and no property tells them apart. *)
WorkerSymmetry == Permutations(Workers)
=============================================================================
