--------------------------- MODULE MCConversation ---------------------------
(* Three requests at a time over one conversation of up to four tool calls. *)
EXTENDS Conversation, TLC

CONSTANTS r1, r2, r3

MCRequests == {r1, r2, r3}
Symmetry == Permutations(MCRequests)
=============================================================================
