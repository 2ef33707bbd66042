CONSTANTS
    Stale = Stale
    Garbage = Garbage
    Series = {"a", "b", "d"}
    Dropped = {"d"}
    Unparsable = "unparsable"
    SampleLimit = 1
    CacheSlack = 1
    MaxBody = 2
    MaxScrapes = 3
    MaxCommitFailures = 1
    Queries <- MCQueries
    Interval = 1
    Delay = 1
    MaxFlush = 1
    MaxTime = 6
    MaxFaults = 2
    NaN = NaN
    None = None
    Workers <- MCWorkers
    Parsers = {"ra", "rb"}
    MatchOf <- MCMatches
    NoMatch = NoMatch
    one = one
    Size <- MCSize
    KeepsBits = TRUE
    Json <- MCJson
    Numbers <- MCNumbers
    Whole <- MCWhole
    Hex <- MCHex
    Times <- MCTimes
    Severities <- MCSeverities
    Default = 0
    SevText <- MCSevText
    Ops <- MCOps
    FirstOp = "router"
    Batches <- MCBatches
    Concurrency = 2
    MaxOps = 12
    Spans <- MCCalls
    Dimensions <- MCDimensions
    Excluded = {}
    Configs <- MCConfigs
    CacheSize = 1
    MaxServices = 1
    MaxOperations = 1
    MaxSpans = 3
    MaxBuilds = 2
    Resources <- MCResources
    MeterDims = {"service.name"}
    MaxConsumed = 3
    MaxTicks = 2
    MaxWriteFailures = 1
    Procs = 2
    Detectors <- MCDetectors
    HostnameSources <- MCHostnameSources
    Enabled = {"host.id", "cpu"}
    EnvLabels <- MCEnvLabels
    Malformed = None
    Failures <- MCFailures
    Override = FALSE
    Batch <- MCBatch
    Policies <- MCPolicies
    Traces <- MCTraces
    RegexMatches <- MCRegexMatches
    MaxHash = 4
    MaxSecond = 2
    MaxEvaluations = 3
SPECIFICATION Spec
INVARIANTS
    StalenessIsExact
    OrderIndependent
    BucketsAddUp
    EveryEventOnce
    CachesAreSound
    VerdictsAreSound
    MeteredOnce
    BilledIsWritten
    OutputIsTheInput
    CacheIsBounded
    NoCallIsStuck
    EveryBatchIsComplete
PROPERTIES
    GonePointsAreMarked
    WaitsEnd
CHECK_DEADLOCK FALSE
