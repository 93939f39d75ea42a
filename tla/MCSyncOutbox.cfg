SPECIFICATION Spec
CONSTANTS
    MaxMutations = 3
    Mutations = {1, 2, 3}
    Targets = {1, 2, 3}
    Keys = {k1, k2}
    Workers = {w1, w2}
    Tokens = {t1, t2}
    NoToken = NoToken
    LeaseTicks = 1
    RetryTicks = 1
    ClaimLimit = 2
SYMMETRY Symmetry
INVARIANTS
    TypeOK
    OnePendingPerKey
    ClaimsExclusive
    NoChangeForgotten
PROPERTY ImplementsPromise
CHECK_DEADLOCK FALSE
