\* Exits and resting orders under the scheduler; no swap of self.state, one fault.
SPECIFICATION FairSpec
CONSTANTS
    Products = {btc}
    NoProduct = noproduct
    Orders = {o1, o2}
    Full = 2
    Modes <- Resting
    MaxOpen = 2
    ClampOpen = 1
    MaxPending = 2
    ClampLosses = 1
    MaxLosses = 2
    MaxReloads = 0
    MaxFaults = 1
    Torn = torn
PROPERTIES PendingResolves
