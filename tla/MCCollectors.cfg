SPECIFICATION Spec
CONSTANTS
    None = None
    AllCountries = AllCountries
    Malformed = Malformed
    Refused = Refused
    PerHour = 2
    Batch = 2
    PublishLag = 1
    GapFinal = 3
    KnownLag = 6
    Regions <- MCRegions
    Codes = {"conflict"}
    KINDS = {"cpi", "nfp"}
    Kinds = {"cpi"}
    Zones <- MCZones
    HandOver = 1
    Export <- MCExport
    Late = {4}
    Calendars <- MCCalendars
    Scope = 1
    Since = 0
    Every <- MCEvery
    MaxFetch = 1
    Skew = 1
    Reuse = FALSE
    MaxUpsets = 1
    Begin = 4
    MaxClock = 11
CHECK_DEADLOCK FALSE
INVARIANTS
    GapIsFinal EveryHourIsRecorded KnowledgeGrows EvidenceIsArchived CalendarIsCurrent
