--------------------------- MODULE MCOutboundDelivery ---------------------------
(* Small instances of OutboundDelivery for TLC. *)
EXTENDS OutboundDelivery, TLC

CONSTANTS o1, o2, d1, d2
=============================================================================
