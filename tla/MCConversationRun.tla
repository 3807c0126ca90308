------------------------- MODULE MCConversationRun -------------------------
(* Instances of ConversationRun for TLC. *)
EXTENDS ConversationRun, TLC
=============================================================================
