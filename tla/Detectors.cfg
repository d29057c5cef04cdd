SPECIFICATION DetectorsSpec
CONSTANTS
    NFiles = 2
    Templates = {"a", "b", "c"}
    Hosts = {"web", "db", "nat"}
    Unknown = "unknown"
    Contents <- MCContents
    ZeekFeeds <- MCZeekFeeds
    MaxCount = 2
    RarityPct = 60
    Populations <- MCPopulations
    FamilyOf <- MCFamilyOf
    Day = 4
    MaxGap = 2
    Span = 12
    ArrivalDays = 2
    ArrivalHistory = 1
    SyncAddresses = 2
    FoldMinMembers = 2
    FoldMembers = 1
    BurstAbs = 3
    BurstMult = 2
    BurstActive = 2
    RecurringPeriods = 2
    GapLimit = 3
    FindingLimit = 3
    Logins <- MCLogins
    ConcentrationFloor = 4
    LandingRunFloor = 2
    HostSpreadFloor = 2
    VolumeDailyRate = 3
    SecondsPerDay = 6
    LineSets <- MCLineSets
    PrivilegedPrograms = {"sudo", "su", "sshd", "unknown"}
    BurstGap = 2
    BurstMinSize = 2
    FamilyMinSize = 2
    RebootCluster = 4
    AdminCluster = 8
    AdminMaxSpan = 6
    UpdateCluster = 4
    UpdateMinAnchors = 2
    LeadTolerance = 1
    TailTolerance = 2
    MinMemberFindings = 2
    BootLead = 1
    BootTail = 1
    ConnSets <- MCConnSets
    VerticalThreshold = 3
    HorizontalThreshold = 3
    WindowSecs = 4
    BlockPorts = 2
    BlockHosts = 2
    SlowMinPorts = 3
    SlowMinBuckets = 3
    BlockStateMin = 30
    SlowStateMin = 25
    FoldCount = 2
    ManyHosts = 3
    MoreHosts = 3
    Broad = 3
    Broader = 4
    Discovery = {5353}
    Peers = {23}
    Trackers = {24}
    Dark = {25}
    Trails <- MCTrails
    MinEvents = 2
    MinScorable = 3
    SweepGap = 3
    BurstMinFirsts = 2
    BurstHighErrors = 50
    Feeds <- MCFeeds
    ScoreOf <- MCScoreOf
    ParentOf <- MCParentOf
    PublicParents = {"tunnel", "site"}
    NoDomain = {"x."}
    ZeekClusterSize = 2
    PiholeClusterSize = 2
    ZeekScanFloor = 2
    PiholeScanFloor = 2
    HighScore = 3
    HighShare = 80
    ParentShare = 60
    SampleCap = 2
    FamilyFloor = 2
    FailShare = 90
    FlowLogs <- MCFlowLogs
    AddressOf <- MCAddressOf
    Unparsable = {"bad"}
    HomeAddresses = {"in", "in2"}
    NonRoutable = {"all"}
    Mapped = {"inm", "x1m"}
    NonUnicast = {"all"}
    PoolOf <- MCPoolOf
    Lexicon <- MCLexicon
    MinOut = 10
    MinShare = 60
    PoolFold = 2
    MinConnections = 1
    MinSamples = 2
    RhythmThreshold = 50
    EstNoteRows = 2
    EstNoteShare = 50
    ReliableSpan = 7
    TlsLogs <- MCTlsLogs
    Hosted = {"ann", "ben"}
    Unreadable = {"???"}
    Nowhere = {"all"}
    TlsLexicon <- MCTlsLexicon
    MinSessions = 2
    PortLogs <- MCPortLogs
    Registered <- MCRegistered
    Conventional <- MCConventional
    Carriers <- MCCarriers
    Elastic = {}
    MinPairs = 2
    RareShare = 60
    RareDays = 2
    DayLength = 10
    ReferenceFloor = 2
    ReferenceShare = 90
    EntityFold = 2
INVARIANTS
    PreparedMatchesOrdinary
    PopulationIsWhole
    ReportIsExact
    AlarmsAreTold
    
    ScansAreExact
    PrincipalsAreAccounted
    
    FlowsAreAccounted
    EntitiesAreAccounted

    
