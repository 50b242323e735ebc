---------------------------- MODULE MCConversation ----------------------------
(***************************************************************************)
(* Instances of Conversation for TLC: the user's messages are              *)
(* interchangeable until they are sent.                                    *)
(***************************************************************************)
EXTENDS Conversation, TLC

Interchangeable == Permutations(Messages)
=============================================================================
