SPECIFICATION Spec
CONSTANTS
    Process = {p1, p2}
    Trade = {t1, t2}
    Kind <- Kinds
    Needed = 2
    Repeat = 2
    Recent = 2
    Evidence = 2
    MaxDrawdown = 5
    EnvActive = TRUE
    MaxKills = 1
SYMMETRY Symmetries
INVARIANTS RowsBounded PassIsEarned MarksStay CompleteIsDecided
PROPERTIES UndecidedStays
