--------------------------------- MODULE MCSupport ---------------------------------
(* Instances of Support for TLC. *)
EXTENDS Support, TLC

CONSTANTS s1, s2, k1, r1, r2, t1, t2, p1, p2, c1

MCSender == {s1, s2}
MCDelivery == {k1}
MCRule == {r1, r2}
MCText == {t1, t2}
MCPersonal == {p1, p2}
\* p1 is another model, p2 are instructions for the first one.
MCModel == [p \in {NoPersonal, p1, p2} |-> p = p1]
MCCall == {c1}
MCScene == {"report", "replies"}
MCReplies == {"replies"}
MCReport == {"report"}
MCSymmetry == Permutations(MCSender) \cup Permutations(MCRule)
              \cup Permutations(MCText)
===================================================================================
