CONSTANTS
    Pushes = {"p1", "p2"}
    Records = {1, 2, 3, 4}
    PushOf <- MCPushOf
    ResourceOf <- MCResourceOf
    KeyOf <- MCKeyOf
    Old = {4}
    Cap = 1
    MaxFailures = 1
    TracePushes = {"p1"}
    Spans = {1, 2, 3}
    TracePushOf <- MCTracePushOf
    TraceResourceOf <- MCTraceResourceOf
    TraceKeyOf <- MCTraceKeyOf
    TraceOld = {3}
    Exceptions = {1}
    MaxTraceFailures = 2
    MetricPushes = {"p1", "p2"}
    RowsOf <- MCRowsOf
    Internal = {"i"}
    MaxMetricFailures = 1
SPECIFICATION ExportersSpec
INVARIANTS
    UsageIsReported
    StoredSampleHasSeries
PROPERTIES
    ImplementsSink
CHECK_DEADLOCK FALSE
