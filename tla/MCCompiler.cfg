SPECIFICATION Spec
CONSTANTS
    c1 = c1
    c2 = c2
    v1 = v1
    None = None
    Torn = Torn
    Corrupt = Corrupt
    Count = 1
    Months = {1, 2, 3}
    Versions = {1}
    Compilers = {c1}
    Verifiers = {}
    Overlap = FALSE
    Mortal = {c1}
    Losses = FALSE
    Drifting = {}
    MaxSeq = 4
PROPERTY
    SaveIsFresh
