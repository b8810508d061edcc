CONSTANTS
    MailTask = {m1}
    ManualTask = {}
    Request = {r1}
    Analyzer = analyzer
    Maintainer = maintainer
    Op = {"patch", "complete", "confirm", "reject", "list", "plan", "remind", "source"}
    NoPlan = NoPlan
SPECIFICATION FairSpec
PROPERTIES EveryRequestEnds PlanReady
CHECK_DEADLOCK FALSE
