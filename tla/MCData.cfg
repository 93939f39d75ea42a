SPECIFICATION Spec
CONSTANTS
    Adapters = {a1, a2}
    MaxFiles = 2
    MaxTypes = 3
    MaxColumns = 2
    MaxLabels = 2
    MaxNotes = 1
    MaxChanges = 4
    ConfigTypes = {t1, t2}
    Parts = {p1}
    MaxMutations = 3
    Images = {i1}
    MaxDocuments = 2
    MaxFaults = 2
    MaxEdits = 2
    MaxStops = 2
    MaxAttempts = 2
    Providers = {google, onedrive}
    People = {anna}
    MaxConnects = 2
    MaxRefreshes = 1
    MaxDisconnects = 1
    MaxChecks = 4
    Filters = {f1}
    Callers = {dialog}
    MaxUpdates = 1
    MaxRuns = 1
    MaxLosses = 1
INVARIANTS
    TypeOK
    DevicesUseOneFile
    ChangesAreJournaled
    CatalogIsWhole
    ExportsImport
    ConfigurationWhole
    NothingSilentlyLost
    ImagesFollowNotes
    DataKept
    OneBackend
    DisconnectsAreFinal
    OffersHold
    ListsKeepUp
CHECK_DEADLOCK FALSE
