\* Two calls of the API and one job at a time.
SPECIFICATION Spec
CONSTANTS
    Clients = {c1, c2}
    Jobs = {j1}
    MaxGrants = 2
INVARIANTS StatusMatchesCred OneGrant
CHECK_DEADLOCK FALSE
