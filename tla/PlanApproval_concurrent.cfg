SPECIFICATION FairSpec
CONSTANTS
    c1 = c1
    c2 = c2
    p1 = p1
    p2 = p2
    Clients <- TwoClients
    Plans <- TwoPlans
    NodePlans <- OneNode
    Decisions <- OnlyReject
    Deaths = TRUE
INVARIANT JobsMatchApprovals
PROPERTY SessionsEnd
