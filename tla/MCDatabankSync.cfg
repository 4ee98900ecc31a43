\* A pipeline and two flushes that run against each other, with one fault.
SPECIFICATION FairSpec
CONSTANTS
    Trades = {t1}
    NoTrade = notrade
    Pipelines = {w1}
    Flushes = {f1, f2}
    Threshold = 2
    MaxFaults = 1
INVARIANTS
    NothingLost
    HaltsAtThreshold
    HaltHasCause
PROPERTIES EventuallyRemote
CHECK_DEADLOCK FALSE
