SPECIFICATION RepresentativeSpec
CONSTANTS
    Devices = {d1, d2}
    Fields = {f1, f2}
    Keys = {k1}
    Existing = {k1}
    MaxMutations = 2
    MaxDeletions = 1
    MaxFaults = 1
    RetryLimit = 2
    ClaimToken = ClaimToken
    NoToken = NoToken
    NoPayload = NoPayload
    NoDoc = NoDoc
PROPERTY Settles
CHECK_DEADLOCK FALSE
