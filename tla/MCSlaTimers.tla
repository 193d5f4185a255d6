----------------------------- MODULE MCSlaTimers -----------------------------
(* Small instances of SlaTimers for TLC. *)
EXTENDS SlaTimers

CONSTANTS w1, w2
MCWindow == [k \in Kinds |-> IF k = "first_response" THEN 1 ELSE 2]
=============================================================================
