SPECIFICATION PopSpec
CONSTANTS
    DayLength = 2
    DateRankBase = 100
    Span = 2
    History = 1
    Archives <- MCArchives
    Requests <- MCRequests
    Scenes <- MCSceneSet
    Graphs <- MCGraphs
    Unit = 12
    Ceiling = 8
    Widths <- MCWidths
    MinDense = 3
    TailBins = 3
    DensityDen = 2
    MassDen = 4
    MaxFragments = 5
    MaxFlows = 10
    MaxPairs = 16
    MaxSmooth = 200
    LeastRadius = 1
    RadiusDen = 4
    NFiles = 2
    Compressed = {2}
    Sinks = {"templates", "counts"}
    InPlace = {"templates"}
    Plans = {"none", "frame", "admit"}
    Inodes = {i1, i2, i3}
    Gone = Gone
    Closed = Closed
    Linked = Linked
    MaxRows = 2
    MaxChanges = 2
SYMMETRY MCSymmetry
CONSTRAINT MCBound
INVARIANTS
    NoWindowRowIsLost
    DefaultWindowIsTheArchiveTail
    EmptinessIsExplained
    
    GraphIsTheTraffic
    FoldInv
    SinksAgree
    FrameIsCommitted
    MutationCostsAll
    OutcomesPartition
PROPERTIES
    OutIsForGood
