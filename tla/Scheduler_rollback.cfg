\* One failing trigger rolls back the claims of the others.
SPECIFICATION Spec
CONSTANTS
    Sweeps = {s1, s2}
    Callers = {}
    t1 = t1
    t2 = t2
    wf1 = wf1
    wf2 = wf2
    Triggers = {t1, t2}
    NoTrigger = NoTrigger
    Workflows = {wf1, wf2}
    WorkflowOf <- Apart
    FireFaults = TRUE
    PublishFaults = FALSE
    MaxToggles = 0
    MaxCrashes = 0
INVARIANTS FiresOnce
