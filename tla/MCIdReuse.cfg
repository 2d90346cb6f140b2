SPECIFICATION Spec
CONSTANTS
    Clients = {c1}
    MaxId = 1
    MaxProc = 2
    MaxCrashes = 1
    WorkingDirs = {}
    NoDir = NoDir
    None = None
    StoreMayFail = FALSE
INVARIANTS
    OwnTranscript
