\* Every setting, one swap of self.state, one kill or cleared halt.
SPECIFICATION Spec
CONSTANTS
    Products = {btc, eth}
    NoProduct = noproduct
    Orders = {o1, o2}
    Full = 2
    Modes <- EverySetting
    MaxOpen = 2
    ClampOpen = 1
    MaxPending = 2
    ClampLosses = 1
    MaxLosses = 2
    MaxReloads = 1
    MaxFaults = 1
    Torn = torn
SYMMETRY Symmetries
INVARIANTS
    OneRowPerProduct
    RowsAreBacked
    StreakIsTrue
PROPERTIES
    RowsLeaveForAReason
    StreakFreezes
