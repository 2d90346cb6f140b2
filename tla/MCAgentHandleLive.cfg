SPECIFICATION FairSpec
CONSTANTS
    Callers = {c1, c2}
    Subs = {}
    Closers = {x1}
    Nobody = Nobody
    MaxRequests = 1
    MaxEvents = 0
    StdinCap = 1
    StdoutCap = 1
    SubBuf = 1
    PiReplies <- MCReplies
PROPERTIES
    ExitReleasesCalls
    CloseEndsProcess
