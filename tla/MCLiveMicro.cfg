SPECIFICATION Spec
CONSTANTS
    Product = {btc, eth}
    NoProduct = NoProduct
    MaxCandidates = 2
    MaxOrders = 3
    MaxOpen = 2
    CohortSize = 1
    AnswersLost = TRUE
    CancelInScope = TRUE
    MaxTrades = 5
    SessionTradesOnFile = 0
    MaxFaults = 1
SYMMETRY ProductSymmetry
INVARIANTS SlotHeld SnapshotCurrent AtMostOneBuyPerItem RowsMatchVenue ClosedForAReason
           BuysAreRecorded CohortFaithful
PROPERTIES ClosedIsFinal ImplementsBook
