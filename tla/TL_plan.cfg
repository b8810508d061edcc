CONSTANTS
    MailTask = {m1}
    ManualTask = {u1}
    Request = {r1, r2}
    Analyzer = analyzer
    Maintainer = maintainer
    Op = {"create", "complete", "reject", "remind"}
    NoPlan = NoPlan
SPECIFICATION Spec
INVARIANT PlanMatches
PROPERTY RingsOpenTask
SYMMETRY MCSymmetry
CHECK_DEADLOCK FALSE
