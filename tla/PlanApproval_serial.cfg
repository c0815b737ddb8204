SPECIFICATION Spec
CONSTANTS
    c1 = c1
    c2 = c2
    p1 = p1
    p2 = p2
    Clients <- OneClient
    Plans <- TwoPlans
    NodePlans <- NoNodes
    Decisions <- AllDecisions
    Deaths = TRUE
INVARIANTS TypeOK ActsOnWhatItRead VerdictsAgree OnePlanInFlight
PROPERTY DecidesOnce
