SPECIFICATION Spec
CONSTANTS
    One = 10
    None = None
    Fine = Fine
    Limit = 10000
    DayLen = 2
    MonthLen = 2
    MinTime = 8
    MaxPolls = 3
    Collate <- MCCollate
    DocumentLoads <- Loads
    SchemaOf <- LoadSchema
    ValueOf <- Evaluated
    ReachOf <- Reach
    Documents <- HighImpact
    Feeds <- MCFeeds
INVARIANT
    DerivedNeverRefuses
CHECK_DEADLOCK FALSE
