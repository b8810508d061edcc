---------------------------- MODULE MCTaskLifecycle ----------------------------
(***************************************************************************)
(* Instances of TaskLifecycle for TLC.                                     *)
(***************************************************************************)
EXTENDS TaskLifecycle, TLC

\* Requests are interchangeable, and so are tasks of one kind.
MCSymmetry == Permutations(Request)
=============================================================================
