SPECIFICATION MCSpec
CONSTANTS
    Txns = {t1, t2}
    MaxTrees = 3
    MaxFaults = 2
    MaxStops = 2
    MaxVersion = 3
    MaxProtections = 1
    MaxWrites = 1
    MaxIOFaults = 2
    MaxKills = 2
    MaxRuns = 3
    Jobs = {1, 2}
    Paths = {p1, p2}
    NoPath = NoPath
    MaxErrors = 1
    MaxExits = 1
    Files = {"a", "b", "x"}
    Excluded = {"x"}
    MaxChanges = 3
    MaxChildren = 3
    MaxSupervisorMishaps = 1
    MaxLaunches = 1
    MaxRelease = 2
    MaxAttempts = 1
    MaxUpdateMishaps = 1
    Accounts = {a1, a2}
    NoAccount = NoAccount
    MaxChannelOps = 2
    MaxChannelMishaps = 1
    DataFiles = {"db", "backups"}
    MaxLegacyWrites = 1
    MaxDataFaults = 2
    MaxPrereqs = 2
    MaxPrereqFaults = 1
    MaxPrereqStops = 1
    MaxLocks = 2
    Keys = {"d", "D", "d/x"}
    Above <- MCAbove
    Fold <- MCFold
    Sizes = {0, 3, 5}
    MaxWord = 7
    MaxMembers = 2
    MaxMember = 3
    MaxTotal = 5
    MaxRatio = 2
    MaxRecipients = 1
CHECK_DEADLOCK FALSE
INVARIANTS
    RestoreTrue
    MigrationTrue
    BackupsAgree
    SnapshotConsistent
    SupervisorTrue
    UpdateTrue
    ChannelsTrue
    ProductDataKept
    PrerequisitesTrue
    ArtifactTrue
PROPERTIES
    TreeKept
