SPECIFICATION Spec
CONSTANTS
    IPs = {ip1}
    Max = 2
    WindowSeconds = 3
    TicksPerSecond = 2
    CleanupInterval = 5
    MaxTime = 14
INVARIANTS
    AtMostMaxPerWindow
    RefusedOnlyWhenFull
    RetryAfterIsCloseEnough
