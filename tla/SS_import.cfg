CONSTANTS
    inbox = inbox
    mail = mail
    post = post
    mts = mts
    w1 = w1
    w2 = w2
    c1 = c1
    Mail = {inbox, mail, post}
    Mts = {mts}
    Worker = {w1, w2}
    Checker = {c1}
    Label <- MCLabel
    MaxLabel = 1
    Bodiless = {1}
    Installation <- MCInstallation
    Endpoint = {1}
    FirstValidity <- MCApart
    Op <- MCOp
    Stops = {w1, w2, c1}
    MaxLetter <- MCMaxLetter
    MaxRenumber <- MCMaxRenumber
    MaxPair = 3
    NoSource = NoSource
SPECIFICATION Spec
INVARIANTS LettersKept LoginKept NoCircle
PROPERTY StatusKept
SYMMETRY MCSymmetry
CHECK_DEADLOCK FALSE
