\* Every part around the engine, each on the instance named in MCPlatform.
SPECIFICATION PlatformSpec
CONSTANTS
    Sweeps = {s1, s2}
    Callers = {c1}
    t1 = t1
    t2 = t2
    wf1 = wf1
    wf2 = wf2
    Triggers = {t1, t2}
    NoTrigger = NoTrigger
    Workflows = {wf1}
    WorkflowOf <- TwoOfOne
    FireFaults = TRUE
    PublishFaults = TRUE
    MaxToggles = 0
    MaxCrashes = 0
    c1 = c1
    Clients = {c1, c2}
    Graphs = {g1, g2, g3}
    MaxVersions = 3
    SharedGraphs = {g1, g2}
    MaxShared = 2
    w1 = w1
    w2 = w2
    MaxJobs = 2
    MaxRetries = 1
    MaxFaults = 1
    MaxReconnects = 1
    f1 = f1
    f2 = f2
    Files = {f1, f2}
    Folders = {d1}
    Mirrored = {f1}
    NoFile = NoFile
    Root = Root
    NoToken = NoToken
    MaxChanges = 4
    MaxScans = 3
    MaxAborts = 1
    MaxEdits = 2
    MaxTime = 5
    MaxPasses = 4
    MaxUpgrades = 1
    MaxArchives = 1
    MaxDeaths = 1
    Checksums = {k1, k2}
    NoKey = NoKey
    MaxActs = 1
    MaxRuns = 2
    Browsers = {b1, b2}
    TokenJobs = {j1}
    Tabs = {b1, b2}
    MaxClock = 4
    MaxTokens = 3
    MaxLosses = 1
    MaxGrants = 2
    ToolLimit = 1
    MaxOutages = 1
INVARIANTS VersionsInOrder OccurrencesInOrder JobsInOrder MirrorInOrder DerivedOrPending SchemaInOrder ArchivesInOrder AccountInOrder
PROPERTIES HistoryKept TriggersRecur CancelledStays JobsAllEnd FilesKept AuditsKept KeepsSession
CHECK_DEADLOCK FALSE
