\* Two jobs from two approvals of a plan of one step, a crash, failing tokens and enqueues.
SPECIFICATION Spec
CONSTANTS
    Workers = {w1, w2}
    Clients = {c1}
    ForwardJobs = {f1, f2}
    RollbackJobs = {r1}
    NoJob = NoJob
    NumSteps = 1
    Trashing <- NoneTrashes
    TokenFaults = TRUE
    RefreshFaults = FALSE
    PublishFaults = TRUE
    MaxCrashes = 1
    MaxDrifts = 0
    MaxPauses = 0
SYMMETRY Symmetric
INVARIANTS WayBack AtMostOneWrite WriteDiscipline
PROPERTY WritesAhead
