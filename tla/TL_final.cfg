CONSTANTS
    MailTask = {m1}
    ManualTask = {}
    Request = {r1}
    Analyzer = analyzer
    Maintainer = maintainer
    Op = {"complete"}
    NoPlan = NoPlan
SPECIFICATION Spec
PROPERTY UserDecides
CHECK_DEADLOCK FALSE
