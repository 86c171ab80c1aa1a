SPECIFICATION Spec
CONSTANTS
    p1 = p1
    p2 = p2
    None = None
    Procs <- MCProcs
    Datasets <- MCDatasets
    Days <- MCDays
    Facts = {"f"}
    MaxSeq = 2
    ShortWrites = FALSE
CONSTRAINT FewTorn
SYMMETRY MCSymmetry
INVARIANTS
    TypeOK SingleWriter SeqGapless NoGarbledLine WriterAgreesWithDisk
PROPERTY
    ImplementsLedger
