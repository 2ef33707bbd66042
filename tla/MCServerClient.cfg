CONSTANTS
    Main = main
    Watcher = watcher
    Callback = callback
    Callers = {main, watcher, callback}
    Instances = {i1}
    Received = received
    Initial = initial
    Noop = noop
    Torn = torn
    Remote = {good, bad}
    Configs = {initial, noop, torn, good, bad}
    BadConfigs = {torn, bad}
    NoConfig = NoConfig
    Nil = Nil
    ErrCap = 1
    MaxIOFaults = 1
    ServerWaits = TRUE
SPECIFICATION Spec
INVARIANTS
    NoOrphanCollector
    ConfigsAgree
    AppliedIsInFile
    RunsWhatWasConfirmed
PROPERTY RunNilMeansStarted
CHECK_DEADLOCK FALSE
