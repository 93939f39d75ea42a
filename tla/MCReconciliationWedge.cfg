SPECIFICATION Spec
CONSTANTS
    Devices = {d1, d2}
    Fields = {f1, f2}
    Keys = {k1}
    Existing = {k1}
    MaxMutations = 2
    MaxDeletions = 0
    MaxFaults = 1
    RetryLimit = 2
    ClaimToken = ClaimToken
    NoToken = NoToken
    NoPayload = NoPayload
    NoDoc = NoDoc
SYMMETRY Symmetry
INVARIANT NeverWedged
CHECK_DEADLOCK FALSE
