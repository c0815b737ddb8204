\* No crash: one approval, one pause, one rollback, one change by a user.
SPECIFICATION Spec
CONSTANTS
    Workers = {w1, w2}
    Clients = {c1}
    ForwardJobs = {f1}
    RollbackJobs = {r1}
    NoJob = NoJob
    NumSteps = 2
    Trashing <- FirstTrashes
    TokenFaults = FALSE
    RefreshFaults = FALSE
    PublishFaults = FALSE
    MaxCrashes = 0
    MaxDrifts = 1
    MaxPauses = 1
SYMMETRY Symmetric
INVARIANTS OneForwardResult CompletedMeansDecided RolledBackIsRestored PlanVerdictTrue
PROPERTIES TerminalIsFinal DecidedIsFinal
