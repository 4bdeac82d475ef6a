SPECIFICATION FairSpec
CONSTANTS
    Assets = {n1, n2, n3}
    MaxAttempts = 2
INVARIANTS TypeOK NothingVanishes GiveUpIsEarned QueuedHasAttempts
PROPERTY DrainEnds
CHECK_DEADLOCK FALSE
