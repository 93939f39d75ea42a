SPECIFICATION Spec
CONSTANTS
    Devices = {d1, d2}
    Fields = {f1}
    Keys = {k1}
    Existing = {}
    MaxMutations = 2
    MaxDeletions = 1
    MaxFaults = 1
    RetryLimit = 2
    ClaimToken = ClaimToken
    NoToken = NoToken
    NoPayload = NoPayload
    NoDoc = NoDoc
SYMMETRY Symmetry
PROPERTY TombstonesStay
CHECK_DEADLOCK FALSE
