SPECIFICATION Spec
CONSTANTS
    Base = 3
    PadWidth = 1
    MaxN = 3
    MaxTime = 3
    FracDigits = 1
    DefaultLimit = 1
    MaxLimit = 2
    AskedLimits <- SomeLimits
    Names = {a}
    NoName = NoName
    MaxLate = 1
INVARIANTS
    CounterAheadOfRows
    ExternalLookup
    ListedNewestFirst
    ActivityIsOwn
PROPERTIES
    NoSessionSkipped
