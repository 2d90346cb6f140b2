SPECIFICATION FairSpec
CONSTANTS
    Clients = {c1, c2}
    MaxId = 1
    MaxProc = 2
    MaxCrashes = 1
    WorkingDirs = {d1}
    NoDir = NoDir
    None = None
    StoreMayFail = TRUE
PROPERTIES
    SessionDirKept
    AbandonedPiEnds
    
