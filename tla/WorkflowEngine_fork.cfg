\* A crash after a branch was committed and before the run was parked.
SPECIFICATION Spec
CONSTANTS
    Workers = {w1}
    NoWorker = NoWorker
    start = start
    cond = cond
    wait = wait
    ask = ask
    act = act
    done = done
    Nodes <- ForkNodes
    NoNode = NoNode
    Trigger = start
    Kind <- ForkKind
    Edge <- ForkEdge
    MaxCrashes = 1
    MaxPauses = 0
    MaxResumes = 0
PROPERTIES FollowsRecord
CHECK_DEADLOCK FALSE
