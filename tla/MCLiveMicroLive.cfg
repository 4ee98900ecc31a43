SPECIFICATION FairSpec
CONSTANTS
    Product = {btc}
    NoProduct = NoProduct
    MaxCandidates = 1
    MaxOrders = 3
    MaxOpen = 1
    CohortSize = 1
    AnswersLost = TRUE
    CancelInScope = FALSE
    MaxTrades = 5
    SessionTradesOnFile = 0
    MaxFaults = 1
PROPERTIES PendingResolves ClosingResolves
