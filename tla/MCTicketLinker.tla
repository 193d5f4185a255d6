----------------------------- MODULE MCTicketLinker -----------------------------
(* Small instances of TicketLinker for TLC. *)
EXTENDS TicketLinker

CONSTANTS m1, m2, l1, l2, a1, a2
=============================================================================
