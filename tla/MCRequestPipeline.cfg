SPECIFICATION Spec
CONSTANTS
    Keys <- MCKeys
    ScopesOf <- MCScopesOf
    NoToken <- MCNoToken
INVARIANTS
    ServedIsEntitled
    EntitledNotDenied
PROPERTIES
    OnlyEntitledChange
