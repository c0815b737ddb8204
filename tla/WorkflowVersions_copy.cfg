\* One session at a time.
SPECIFICATION Spec
CONSTANTS
    Clients = {c1}
    MaxVersions = 3
    Graphs = {g1, g2, g3}
    MaxDeaths = 0
PROPERTIES DraftCopiesPublished
CHECK_DEADLOCK FALSE
