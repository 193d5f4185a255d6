--------------------------- MODULE MCIdempotencyKeys ---------------------------
(* Small instances of IdempotencyKeys for TLC. *)
EXTENDS IdempotencyKeys

CONSTANTS r1, r2, r3, r4, b1, b2

(* Three sends of one body and a request that reuses the key for another. *)
MCHashOf == [r \in Requests |-> IF r = r4 THEN b2 ELSE b1]
=============================================================================
