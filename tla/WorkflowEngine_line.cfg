\* One worker at a time: a delay, an approval and an action, one crash, one
\* pause and one resumption.
SPECIFICATION FairSpec
CONSTANTS
    Workers = {w1}
    NoWorker = NoWorker
    start = start
    cond = cond
    wait = wait
    ask = ask
    act = act
    done = done
    Nodes <- LineNodes
    NoNode = NoNode
    Trigger = start
    Kind <- LineKind
    Edge <- LineEdge
    MaxCrashes = 1
    MaxPauses = 1
    MaxResumes = 1
INVARIANTS TypeOK ApprovalGate OneRequestPerNode
PROPERTIES RunsSettle DecidedMovesOn
CHECK_DEADLOCK FALSE
