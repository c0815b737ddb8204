\* Two sessions at a time.
SPECIFICATION Spec
CONSTANTS
    Clients = {c1, c2}
    MaxVersions = 3
    Graphs = {g1, g2, g3}
    MaxDeaths = 0
INVARIANTS OnePublished OneGraph
PROPERTIES Frozen
CHECK_DEADLOCK FALSE
