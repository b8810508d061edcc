---------------------------- MODULE MCEventAnalysis ----------------------------
(***************************************************************************)
(* Instances of EventAnalysis for TLC.                                     *)
(***************************************************************************)
EXTENDS EventAnalysis, TLC

CONSTANTS e1, e2, e3, w1, w2

\* An outgoing letter and an answer to it, beside an external task.
MCLetters == (e1 :> "email") @@ (e2 :> "email") @@ (e3 :> "external")
MCAnswer == (e1 :> {e2}) @@ (e2 :> {}) @@ (e3 :> {})

\* A letter and an invitation.
MCMeeting == (e1 :> "email") @@ (e2 :> "invitation")
MCNoReply == (e1 :> {}) @@ (e2 :> {})

MCSymmetry == Permutations(Worker)
=============================================================================
