SPECIFICATION LiveTSpec
CONSTANTS
    None = None
    Procs = {"hub"}
    Datasets = {"cal"}
    Followed = "cal"
    Days = {1, 2}
    Facts = {"long"}
    Size <- MCSize
    MaxSeq = 2
    MaxRestarts = 1
    ShortWrites = FALSE
    Backfills = FALSE
INVARIANTS
    TailInOrder DeliveredIsCommitted TailMissesNothing SkipsNothing
PROPERTY
    EverythingIsDelivered
