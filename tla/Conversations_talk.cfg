\* One tab. Two statements: a turn in one transaction breaks ThreadInOrder; an outage
\* between INCR and EXPIRE breaks LetInAgain.
SPECIFICATION FairSpec
CONSTANTS
    Tabs = {b1}
    MaxTime = 4
    ToolLimit = 1
    MaxOutages = 1
INVARIANTS ThreadInOrder
PROPERTIES LetInAgain
CHECK_DEADLOCK FALSE
