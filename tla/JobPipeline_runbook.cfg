\* A worker dies between the commit of a successor and its message.
SPECIFICATION FairSpec
CONSTANTS
    Asks = {{"scan", "enrichment"}}
    Workers = {w1}
    Callers = {c1}
    MaxJobs = 2
    MaxRetries = 0
    MaxFaults = 1
    MaxReconnects = 0
PROPERTIES CancelFrees
CHECK_DEADLOCK FALSE
