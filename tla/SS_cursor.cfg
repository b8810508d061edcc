CONSTANTS
    inbox = inbox
    mail = mail
    post = post
    mts = mts
    w1 = w1
    w2 = w2
    c1 = c1
    Mail = {inbox, mail, post}
    Mts = {mts}
    Worker = {w1, w2}
    Checker = {c1}
    Label <- MCLabel
    MaxLabel = 1
    Bodiless = {}
    Installation <- MCMailOnly
    Endpoint = {1, 2}
    FirstValidity <- MCAlike
    Op <- MCConfigured
    Stops = {}
    MaxLetter <- MCTwo
    MaxRenumber <- MCMaxRenumber
    MaxPair = 3
    NoSource = NoSource
SPECIFICATION Spec
INVARIANT FreshCursor
CHECK_DEADLOCK FALSE
