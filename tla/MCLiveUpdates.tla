----------------------------- MODULE MCLiveUpdates -----------------------------
(***************************************************************************)
(* Instances of LiveUpdates for TLC.                                       *)
(***************************************************************************)
EXTENDS LiveUpdates

\* A tab or an application.
MCInstallation == [Client -> Kind]
=============================================================================
