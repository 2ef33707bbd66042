CONSTANTS
    Main = main
    Watcher = watcher
    Callback = callback
    Callers = {main, watcher, callback}
    Instances = {i1}
    Received = received
    Initial = initial
    Noop = noop
    Torn = torn
    Remote = {good}
    Configs = {initial, noop, torn, good}
    BadConfigs = {torn}
    NoConfig = NoConfig
    Nil = Nil
    ErrCap = 1
    MaxIOFaults = 0
    ServerWaits = TRUE
SPECIFICATION MCSpec
PROPERTIES
    DeathNoticedWhenQuiet
    EveryConfigAnswered
    StartAndStopEnd
CHECK_DEADLOCK FALSE
