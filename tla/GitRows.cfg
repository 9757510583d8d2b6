CONSTANTS
    w1 = w1  w2 = w2  r1 = r1  r2 = r2  None = None
    Wts <- TwoWts
    Roots <- TwoRoots
    Heads = {"h", "k"}
    Counts = {"ahead"}
    Works <- TwoWorks
    Faults = {"git", "upsert", "mark", "emit", "crash"}
    MaxChanges = 2
    MaxFaults = 1
SPECIFICATION FairSpec
PROPERTIES StaleOnlyIfVanished RowsConverge LiveIsTold GoneIsUntold
