SPECIFICATION FairSpec
CONSTANTS
    PiLines <- SomeLines
    MaxLines = 3
    MaxSent = 1
    SubBuf = 1
    NetCap = 1
    StdinCap = 1
INVARIANTS
    GaplessUnlessFull
    ClientViewAgrees
PROPERTIES
    StreamEnds
    ReaderEnds
    ExitEndsStream
    UIRoundTrip
