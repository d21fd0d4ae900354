SPECIFICATION Spec
CONSTANTS
    u1 = u1
    u2 = u2
    Community = Community
    Units <- TwoUnits
    WeekStarts <- Mondays
    MonthStarts <- MonthFirsts
    DayLength = 2
    HourLength = 2
    CurveSpan = 4
    MaxTime = 7
    MaxReadings = 2
    Sent <- SomeNegative
SYMMETRY Symmetry
INVARIANTS
    TypeOK
    CountedOnce
    PeakUnlessNegative
    WeekInCurveUnlessLate
    UnitsWithinCommunity
    MonthsAgree
    
