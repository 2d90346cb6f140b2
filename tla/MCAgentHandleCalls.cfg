SPECIFICATION Spec
CONSTANTS
    Callers = {c1, c2}
    Subs = {}
    Closers = {x1}
    Nobody = Nobody
    MaxRequests = 2
    MaxEvents = 0
    StdinCap = 1
    StdoutCap = 1
    SubBuf = 1
    PiReplies <- MCReplies
SYMMETRY Symmetry
INVARIANTS
    TypeOK
    ChannelSafety
    PendingOwned
    NothingPendingAfterDone
PROPERTIES
    ErrorHasCause
    RefinesCommandCalls
