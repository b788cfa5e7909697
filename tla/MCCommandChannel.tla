------------------------- MODULE MCCommandChannel -------------------------
(* Instances of CommandChannel: its constants are numbers, given in the cfg. *)
EXTENDS CommandChannel
=============================================================================
