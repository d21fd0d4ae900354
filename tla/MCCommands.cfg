SPECIFICATION Spec
CONSTANTS
    ac = ac
    i1 = i1
    i2 = i2
    a1 = a1
    a2 = a2
    t1 = t1
    t2 = t2
    None = None
    Devices <- MCDevices
    Results <- MCResults
    Slots <- MCSlots
    Ids <- MCIds
    Analyses <- MCAnalyses
    Readers <- MCReaders
    Window = 1
    LastMoment = 2
SYMMETRY Symmetry
INVARIANTS
    TypeOK
    RecordsAgreeUnlessInterrupted
    ComplianceTruthful
