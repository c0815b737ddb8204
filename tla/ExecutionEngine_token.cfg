\* A token request that fails after the job was marked running.
SPECIFICATION FairSpec
CONSTANTS
    Workers = {w1}
    Clients = {c1}
    ForwardJobs = {f1}
    RollbackJobs = {r1}
    NoJob = NoJob
    NumSteps = 1
    Trashing <- OneTrashes
    TokenFaults = TRUE
    RefreshFaults = FALSE
    PublishFaults = FALSE
    MaxCrashes = 0
    MaxDrifts = 0
    MaxPauses = 0
PROPERTIES JobsSettle
