SPECIFICATION LiveSpec
CONSTANTS
    c1 = c1
    c2 = c2
    v1 = v1
    None = None
    Torn = Torn
    Corrupt = Corrupt
    Count = 1
    Months = {1, 2}
    Versions = {1, 2}
    Compilers = {c1}
    Verifiers = {v1}
    Overlap = FALSE
    Mortal = {}
    Losses = TRUE
    Drifting = {1}
    MaxSeq = 3
PROPERTIES
    VerifyOkMeansIntact HealthyIsCompiled
