\* One step, a crash and a pause, with the fairness of FairSpec.
SPECIFICATION FairSpec
CONSTANTS
    Workers = {w1, w2}
    Clients = {c1}
    ForwardJobs = {f1}
    RollbackJobs = {r1}
    NoJob = NoJob
    NumSteps = 1
    Trashing <- OneTrashes
    TokenFaults = FALSE
    RefreshFaults = TRUE
    PublishFaults = FALSE
    MaxCrashes = 1
    MaxDrifts = 0
    MaxPauses = 1
PROPERTIES JobsSettle
INVARIANTS TypeOK NoJobLost
