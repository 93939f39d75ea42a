SPECIFICATION Spec
CONSTANTS
    Devices = {d1, d2}
    Fields = {f1}
    Keys = {k1, k2}
    Existing = {k1}
    MaxMutations = 2
    MaxDeletions = 1
    MaxFaults = 1
    RetryLimit = 0
    ClaimToken = ClaimToken
    NoToken = NoToken
    NoPayload = NoPayload
    NoDoc = NoDoc
SYMMETRY Symmetry
INVARIANTS
    CursorSound
PROPERTY NoBlindWrite
CHECK_DEADLOCK FALSE
