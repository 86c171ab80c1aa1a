SPECIFICATION Spec
CONSTANTS
    d1 = d1
    d2 = d2
    e1 = e1
    b1 = b1
    b2 = b2
    None = None
    Bad = Bad
    Daemons = {d1}
    Embedders = {e1}
    Backfillers = {b1}
    Keys <- MCKeys
    LiveBatches <- MCLive
    FileBatches <- MCFile
    MaxAge = 2
    Skew = 1
    MaxClock = 4
    MaxRecords = 4
    Overlap = FALSE
    Crashes = FALSE
INVARIANTS
    NoEchoes NoCandidateLost

