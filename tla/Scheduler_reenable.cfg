\* A trigger is disabled, swept and enabled again.
SPECIFICATION FairSpec
CONSTANTS
    Sweeps = {s1}
    Callers = {}
    t1 = t1
    t2 = t2
    wf1 = wf1
    wf2 = wf2
    Triggers = {t1, t2}
    NoTrigger = NoTrigger
    Workflows = {wf1}
    WorkflowOf <- Together
    FireFaults = FALSE
    PublishFaults = FALSE
    MaxToggles = 2
    MaxCrashes = 0
PROPERTIES KeepsComing
CHECK_DEADLOCK FALSE
