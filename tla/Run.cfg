SPECIFICATION MCSpec
CONSTANTS
    Calls <- MCCalls
    Terms <- MCTerms
    Kinds = {"conn", "dns"}
    Paths = {p1, p2, p3}
    Exports <- MCExports
    Hour = 2
    Day = 6
    Horizon = 23
    Scenes <- MCScenes
    Setups <- MCSetups
    Registry <- MCShipped
    LinesOf <- MCLinesOf
    FormOf <- MCFormOf
    Hits <- MCHits
    RulesOf <- MCRulesOf
    LowerOf <- MCLowerOf
    ApexOf <- MCApexOf
    CopyNames <- MCCopyNames
    Hunters = {"dns", "beacon", "syslog"}
    MaxVerbs = 2
    EraArchives <- MCEraArchives
    Week = 2
    Enough = 1
    Span = 3
    Side = 1
    Floor = 2
    Instances = 2
    BurnIn = 1
    Cohort = 2
    Late = 2
    FollowUp <- MCFollowUp
    AddressCap = 2
    DomainCap = 3
    ByteLimit = 2
    MinutesADay = 2
    FileScenes <- MCDesks
    Chunks = 2
INVARIANTS
    SetupIsHonest
    
    DeckIsTheArchive
    ExportIsExact
    WritesAreWhole
    PlanIsTheRun
    RunTellsTheTruth
CHECK_DEADLOCK FALSE
