---------------------------- MODULE MCConversations ----------------------------
(* Small instances of the conversations for TLC. *)
EXTENDS Conversations
=============================================================================
