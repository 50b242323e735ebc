----------------------------- MODULE MCGroupAdmin -----------------------------
(* Instances of GroupAdmin.  The properties of the flag look at no setting:  *)
(* the group is open, and the one command is to open it.  Spoken, and ending *)
(* before it is dispatched, it is any message that is no command.            *)
EXTENDS GroupAdmin

MCKinds == {"open", "bot_and_members"}
MCRename == {"talk", "name"}
=============================================================================
