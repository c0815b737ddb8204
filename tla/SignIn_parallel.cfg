\* One browser, whose page has two requests in flight; nothing is lost.
SPECIFICATION Spec
CONSTANTS
    Browsers = {b1}
    MaxParallel = 2
    MaxTokens = 3
    MaxLosses = 0
PROPERTIES StaysSignedIn
CHECK_DEADLOCK FALSE
