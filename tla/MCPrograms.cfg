CONSTANTS
    Nodes <- MCNodes
    WorkerNum = 1
    Workers <- MCWorkers
    Keys <- MCKeys
    MaxClock = 45
    Staleness = 0
    NumFeats = 2
    RankNum = 2
    SketchPerRank = 2
    Scale = 160000
    MaxDepth = 1
    Complexity = 1
    NodeData <- MCNodeData
    NumTrees = 2
    Revised = TRUE
SPECIFICATION ProgramsSpec
INVARIANTS
    AllReduceIsExact
    NobodyIsLeft
    ExchangeExact
    ClusteringInStep
    AlteredOnlyUnasked
    OneRoundOfHelp
    NoWorkLost
    StuckForAReason
PROPERTY BoostingHelps
