--------------------------------- MODULE MCGateway ---------------------------------
(* Instances of Gateway for TLC. *)
EXTENDS Gateway

CONSTANTS old, new

MCPhone == {old, new}
MCOld == {old}
MCScene == {"admin", "traffic"}
====================================================================================
