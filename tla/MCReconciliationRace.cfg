SPECIFICATION Spec
CONSTANTS
    Devices = {d1, d2}
    Fields = {f1}
    Keys = {k1, k2}
    Existing = {k1, k2}
    MaxMutations = 2
    MaxDeletions = 0
    MaxFaults = 0
    RetryLimit = 2
    ClaimToken = ClaimToken
    NoToken = NoToken
    NoPayload = NoPayload
    NoDoc = NoDoc
SYMMETRY Symmetry
INVARIANT NothingLost
CHECK_DEADLOCK FALSE
