\* Two folders and a file, one folder within the other or beside it, Drive quiet
\* during full scans. A folder does not go with its contents, unless Whole is TRUE.
SPECIFICATION Spec
CONSTANTS
    Folders = {d, e}
    Files = {f}
    Root = Root
    NoToken = NoToken
    Nested = TRUE
    Whole = FALSE
    QuietListing = TRUE
    Trashes = TRUE
    MaxChanges = 6
    MaxScans = 2
    MaxAborts = 0
INVARIANT NothingMissed
PROPERTY TrailKept
CHECK_DEADLOCK FALSE
