SPECIFICATION Spec
CONSTANTS
    Files = {f1, f2}
    Checksums = {k1, k2}
    NoFile = NoFile
    NoKey = NoKey
    MaxActs = 1
    MaxRuns = 2
PROPERTIES LastCopyStays
CHECK_DEADLOCK FALSE
