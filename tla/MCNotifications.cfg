SPECIFICATION Spec
CONSTANTS
    admin = admin
    coordinator = coordinator
    c1 = c1
    b1 = b1
    n1 = n1
    n2 = n2
    t1 = t1
    t2 = t2
    None = None
    Absent = Absent
    Users <- MCUsers
    Profile <- MCProfile
    Communities <- MCCommunities
    Buildings <- MCBuildings
    Ids <- MCIds
    Slots <- MCSlots
    Listers <- MCListers
    Limit = 1
    LastDay = 2
SYMMETRY Symmetry
INVARIANTS
    TypeOK
    DailyLimitUnlessRaced
    MarkedWhenAnswered
    ListsTruthful
