---------------------------- MODULE MCSessionAccess ----------------------------
(* A small instance of SessionAccess for TLC. *)
EXTENDS SessionAccess, TLC

CONSTANTS s1, s2, r1, v1, v2, k1

(* Sessions and revokers are interchangeable. *)
Symmetry == Permutations(Sessions) \cup Permutations(Revokers)
================================================================================
