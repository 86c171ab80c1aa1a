SPECIFICATION Spec
CONSTANTS
    Keys = {"cpi", "nfp"}
    Vals = {5, 6}
    MinLag = 2
    RefuseDerived = TRUE
    BackfillAs = {"derived"}
    Latency = 1
    MaxClock = 5
    MaxRecords = 3
CHECK_DEADLOCK FALSE
INVARIANTS
    ReplayEqualsLive LatestKnowledgeWins
