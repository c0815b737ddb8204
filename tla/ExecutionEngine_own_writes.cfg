\* A user's own change to a file whose write never happened.
SPECIFICATION Spec
CONSTANTS
    Workers = {w1, w2}
    Clients = {c1}
    ForwardJobs = {f1}
    RollbackJobs = {r1}
    NoJob = NoJob
    NumSteps = 1
    Trashing <- OneTrashes
    TokenFaults = FALSE
    RefreshFaults = FALSE
    PublishFaults = FALSE
    MaxCrashes = 0
    MaxDrifts = 1
    MaxPauses = 0
SYMMETRY Symmetric
PROPERTIES RestoresOnlyOwnWrites
