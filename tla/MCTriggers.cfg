SPECIFICATION TriggersSpec
CONSTANTS
    None = None
    Devices = {d1}
    CoalesceTicks = 1
    Heartbeat = 2
    Stale = 3
    TokenLife = 2
    Rollover = 2
    ChannelLife = 2
    Channels = {c1, c2}
    MaxMutations = 3
    Mutations = {1, 2, 3}
    Targets = {1, 2, 3}
    Keys = {k1, k2}
    Workers = {w1}
    Tokens = {t1}
    NoToken = NoToken
    LeaseTicks = 2
    RetryTicks = 1
    ClaimLimit = 1
INVARIANTS
    TriggersTypeOK
    WorkStaysScheduled
PROPERTIES
    EveryChangeSettles
    MutationsReachAPass
    PollingResumes
    ChangesAreSignalled
    DeadSocketsClose
    ChangesAreLearnt
CHECK_DEADLOCK FALSE
