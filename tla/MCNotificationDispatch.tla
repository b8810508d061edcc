------------------------ MODULE MCNotificationDispatch ------------------------
(***************************************************************************)
(* Instances of NotificationDispatch for TLC.                              *)
(***************************************************************************)
EXTENDS NotificationDispatch, TLC

MCWindow == [m \in Mode |-> IF m = "digest" THEN 2 ELSE 1]
MCInterval == [m \in Mode |-> IF m = "digest" THEN 3 ELSE 2]
\* Devices and workers are interchangeable.
MCSymmetry == Permutations(Endpoint) \union Permutations(Worker)
=============================================================================
