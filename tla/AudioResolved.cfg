SPECIFICATION FairSpec
CONSTANTS
    Assets = {n1, n2}
    MaxAttempts = 2
PROPERTY QueuedIsResolved
CHECK_DEADLOCK FALSE
