CONSTANTS
    MailTask = {m1}
    ManualTask = {}
    Request = {r1, r2}
    Analyzer = analyzer
    Maintainer = maintainer
    Op = {"complete", "reject"}
    NoPlan = NoPlan
SPECIFICATION Spec
PROPERTY RejectKeepsCompleted
CHECK_DEADLOCK FALSE
