\* The ops process and a review that run against each other, with a kill.
SPECIFICATION QueueSpec
CONSTANTS
    MaxItems = 3
    Batch = 2
    OpsKeep = 2
    ReviewKeep = 1
    Reviewers = {r1}
    OpsLoop = ops
    MaxFaults = 1
INVARIANTS
    BoughtOnce
    YoungestKept
    MarkFindsItem
CHECK_DEADLOCK FALSE
