SPECIFICATION Spec
CONSTANTS
    u1 = u1
    u2 = u2
    s1 = s1
    s2 = s2
    r1 = r1
    p1 = p1
    p2 = p2
    p3 = p3
    None = None
    Buildings = {1, 2}
    Units <- TwoUnits
    Slots <- TwoSlots
    Readings <- OneReading
    Pks <- ThreeKeys
    MaxCommits = 5
SYMMETRY Symmetry
INVARIANTS
    TypeOK
    FiguresAgreeUnlessMoved
    ExportRepeatsOnlyTagged
PROPERTIES
    BuildingGoesWithUnitsUnlessRaced
