------------------------------ MODULE MCOutbound ------------------------------
(* The lists the orchestrator's stages and commands build, one of each shape. *)
EXTENDS Outbound

MCCommands == {<<"text">>, <<"image">>, <<"video">>, <<"transcribe">>, <<"translate">>}
MCMessages ==
  {<<"noop">>, <<"text", "job">>, <<"sticker">>, <<"hidetag">>, <<"spoken">>,
   <<"delete", "text", "mute">>}
MCDenials == {<<"text">>}
MCDispatched ==
  [kind \in {"spoken", "transcribe", "translate"} |->
     CASE kind = "transcribe" -> {}
       [] kind = "translate" -> {<<"text">>}
       [] kind = "spoken" -> {<<"noop">>, <<"text", "job">>, <<"voice">>, <<"image">>,
                              <<"sticker">>, <<"transcribe">>, <<"translate">>}]
=============================================================================
