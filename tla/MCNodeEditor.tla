---------------------------- MODULE MCNodeEditor ----------------------------
(***************************************************************************)
(* Two nodes of the types that differ most: an output and a port drawn      *)
(* nowhere, or two controls and no output. Two mouse buttons.              *)
(***************************************************************************)
EXTENDS NodeEditor

MCMenuTypes == {"Filter", "Telegram_Send_Message"}
=============================================================================
