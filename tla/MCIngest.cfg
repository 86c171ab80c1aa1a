SPECIFICATION Spec
CONSTANTS
    d1 = d1
    d2 = d2
    e1 = e1
    b1 = b1
    b2 = b2
    None = None
    Bad = Bad
    Daemons = {d1, d2}
    Embedders = {}
    Backfillers = {}
    Keys <- MCKeys
    LiveBatches <- MCLive
    FileBatches <- MCFile
    MaxAge = 2
    Skew = 1
    MaxClock = 5
    MaxRecords = 6
    Overlap = TRUE
    Crashes = TRUE
INVARIANTS
    RevisionsContiguous CacheEqualsRebuild CompileVerifies NoCandidateLost
