SPECIFICATION FairSpec
CONSTANTS
    Callers = {}
    Subs = {s1, s2}
    Closers = {x1}
    Nobody = Nobody
    MaxRequests = 0
    MaxEvents = 2
    StdinCap = 1
    StdoutCap = 1
    SubBuf = 1
    PiReplies <- MCReplies
PROPERTIES
    ExitEndsSubscriptions
    RefinesSubscription
