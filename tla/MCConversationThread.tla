------------------------- MODULE MCConversationThread -------------------------
(* Small instances of ConversationThread for TLC. *)
EXTENDS ConversationThread, TLC

CONSTANTS i1, i2, i3, o1, o2, f1

(* Customer messages are interchangeable, and so are replies. *)
ThreadSymmetry == Permutations(Inbound) \union Permutations(Sends)
=============================================================================
