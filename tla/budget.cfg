SPECIFICATION FairSpec
CONSTANTS
    Call = {k1, k2}
    Admin = {p1}
    Cap = {0, 3}
    Worst = 2
    WarnPercent = 50
    MaxMonth = 2
    MaxCalls = 4
    Events = {"crash", "refuse", "handlerless", "save", "reset", "off", "notifyOnly", "look"}
    MaxUpsets = 1
CHECK_DEADLOCK FALSE
INVARIANTS OverrunBounded NoticeOnce
PROPERTIES CapIsNoticed
