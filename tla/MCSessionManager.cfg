SPECIFICATION Spec
CONSTANTS
    Clients = {c1, c2}
    MaxId = 2
    MaxProc = 3
    MaxCrashes = 1
    WorkingDirs = {}
    NoDir = NoDir
    None = None
    StoreMayFail = TRUE
SYMMETRY Symmetry
VIEW Untold
INVARIANTS
    TypeOK
    NoLostProcess
    CounterAhead
    HandleServesItsRow
    NoForeignTranscript
