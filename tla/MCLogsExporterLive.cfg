CONSTANTS
    Pushes = {"p1", "p2"}
    Records = {1, 2, 3}
    PushOf <- MCPushOf
    ResourceOf <- MCResourceOf
    KeyOf <- MCKeyOf
    Old = {2}
    Cap = 1
    MaxFailures = 1
SPECIFICATION FairSpec
CONSTRAINT UntilAFailure
PROPERTIES
    PushAndShutdownEnd
    CachedResourceIsStored
CHECK_DEADLOCK FALSE
