SPECIFICATION Spec
CONSTANTS
    One = 10
    None = None
    Fine = Fine
    Limit = 10000
    DayLen = 2
    MonthLen = 2
    MinTime = 8
    MaxPolls = 3
    Collate <- MCCollate
    DocumentLoads <- Loads
    SchemaOf <- LoadSchema
    ValueOf <- Evaluated
    ReachOf <- Reach
    Documents <- MCDocuments
    Feeds <- MCFeeds
INVARIANTS
    ParseMatchesGrammar
    LoadedSchemaEvaluates
    LookbackSuffices
    AcceptedEncodes
    RangeReplaysJournal
    RepollSettles
    NumbersWerePrinted
CHECK_DEADLOCK FALSE
