SPECIFICATION Spec
CONSTANTS
    Process = {p1, p2}
    Key = {k1}
    Exit = Exit
    Torn = Torn
    MaxStreak = 2
    Window = 2
    MaxCrashes = 1
SYMMETRY FailsafeSymmetry
INVARIANT HaltIsTold
PROPERTIES NoDuplicates ImplementsLatch
