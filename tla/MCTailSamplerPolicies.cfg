CONSTANTS
    Consumers = {c1, c2}
    s1 = s1
    s2 = s2
    s3 = s3
    t1 = t1
    t2 = t2
    Spans = {s1, s2, s3}
    TraceIDs = {t1, t2}
    TraceOf <- MCTraceOf
    NumTraces = 1
    NumBatches = 2
    PendingCap = 1
    PolicyCfgs <- MCPolicyCfgs
    FromConfig = TRUE
    Nil = Nil
SPECIFICATION Spec
PROPERTY
    ConfiguredPoliciesDecide
