SPECIFICATION Spec
CONSTANTS
    Process = {p1, p2, p3}
    MaxHalts = 2
    MaxCrashes = 1
SYMMETRY ProcessSymmetry
INVARIANT LayersAgree
PROPERTY ImplementsLatch
