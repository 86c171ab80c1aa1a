SPECIFICATION Spec
CONSTANTS
    p1 = p1
    p2 = p2
    None = None
    Procs <- MCProcs
    Datasets = {"cal"}
    Days <- MCDays
    Facts = {"f"}
    MaxSeq = 3
    ShortWrites = TRUE
CONSTRAINT FewTorn
SYMMETRY MCSymmetry
INVARIANTS
    SeqUnique
PROPERTY AppendOnly
