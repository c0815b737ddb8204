\* A sweep and a call by hand look at one workflow.
SPECIFICATION Spec
CONSTANTS
    Sweeps = {s1}
    Callers = {c1}
    t1 = t1
    t2 = t2
    wf1 = wf1
    wf2 = wf2
    Triggers = {t1, t2}
    NoTrigger = NoTrigger
    Workflows = {wf1}
    WorkflowOf <- Together
    FireFaults = FALSE
    PublishFaults = FALSE
    MaxToggles = 0
    MaxCrashes = 0
INVARIANTS OneRunAtATime
