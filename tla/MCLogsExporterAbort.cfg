CONSTANTS
    Pushes = {"p1"}
    Records = {1, 2, 3}
    PushOf <- OnePushOf
    ResourceOf <- OneResourceOf
    KeyOf <- OneKeyOf
    Old = {}
    Cap = 1
    MaxFailures = 1
SPECIFICATION FairSpec
PROPERTIES
    AbortEndsThePush
CHECK_DEADLOCK FALSE
