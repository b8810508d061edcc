------------------------------- MODULE MCWindowsSetup -------------------------------
(* Instances of WindowsSetup for TLC. *)
EXTENDS WindowsSetup
====================================================================================
