SPECIFICATION Spec
CONSTANTS
    Clients = {c1}
    MaxId = 1
    MaxProc = 1
    MaxCrashes = 0
    WorkingDirs = {}
    NoDir = NoDir
    None = None
    StoreMayFail = FALSE
PROPERTIES
    ResumeGivesLivePi
