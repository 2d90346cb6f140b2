SPECIFICATION FairSpec
CONSTANTS
    Cap = 2
    OutCap = 2
    MaxOther = 3
INVARIANTS
    NoPiLeftBehind
    SnapshotOfThisBoot
    NoVainWait
PROPERTIES
    BootEnds
    HarvesterEnds
CHECK_DEADLOCK FALSE
