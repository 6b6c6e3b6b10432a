\* A check beside the warm-up: two threads, two scripts, every kind of process.
SPECIFICATION FairSpec
CONSTANTS
    one = one
    warmup = warmup
    NoOne = NoOne
    Calls = {one}
    Warmup = warmup
    Scripts = 2
    Workers = 2
    SettingsSet <- Deployments
    Kinds <- FaultKinds
    Debounce = 2
INVARIANTS
    EnginesLoadOnce
    ExitIsOrderly
PROPERTIES
    OneEndEndsAll
    FaultsReachTheOperator
CHECK_DEADLOCK FALSE
