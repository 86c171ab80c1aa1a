SPECIFICATION Spec
CONSTANTS
    Count = 2
    Steady <- MCSteady
    NearEvery <- MixedEvery
    Before <- MixedBefore
    After <- MixedBefore
    Releases <- MixedEvents
    Validators = {1}
    Retry = 1
    AlertAt = 2
    Timeout = 2
    CompileEvery = 4
    CompileTime = 1
    BeatEvery = 2
    Nap = 2
    MinNap = 1
    Day = 4
    Week = 8
    Troubles <- MixedTrouble
    Fatal = TRUE
    MaxClock = 10
    MaxDoc = 2
CHECK_DEADLOCK FALSE
INVARIANTS
    AlertMatchesFailures
PROPERTIES
    HeartbeatIsRecent PolledInTime UnchangedWasTaken
