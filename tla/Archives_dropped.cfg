SPECIFICATION Spec
CONSTANTS
    Files = {f1, f2}
    MaxArchives = 1
    MaxDeaths = 1
PROPERTIES NeverOnlyCopy
CHECK_DEADLOCK FALSE
