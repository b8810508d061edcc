CONSTANTS
    inbox = inbox
    mail = mail
    post = post
    mts = mts
    w1 = w1
    w2 = w2
    c1 = c1
    Mail = {inbox, mail, post}
    Mts = {mts}
    Worker = {w1, w2}
    Checker = {c1}
    Label <- MCLabel
    MaxLabel = 1
    Bodiless = {}
    Installation <- MCMtsOnly
    Endpoint = {1}
    FirstValidity <- MCApart
    Op <- MCExpiring
    Stops = {}
    MaxLetter <- MCTwo
    MaxRenumber <- MCMaxRenumber
    MaxPair = 3
    NoSource = NoSource
SPECIFICATION FairSpec
PROPERTY Renewed
CHECK_DEADLOCK FALSE
