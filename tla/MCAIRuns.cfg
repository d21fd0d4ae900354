SPECIFICATION FairSpec
CONSTANTS
    r1 = r1
    Scheduler = Scheduler
    Communities <- TwoCommunities
    Requests <- OneRequest
    RetryCount = 1
    ManualHours = 2
    Readings <- ThreeReadings
    MaxRuns = 2
    Watched <- OneWatched
    DbMayFail = TRUE
INVARIANTS
    TypeOK
    AnsweredTruthfully
PROPERTIES
    ImplementsLog
    StatusCoherent
    RoundAdvances
    RoundsEnd
