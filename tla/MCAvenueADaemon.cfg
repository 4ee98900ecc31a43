\* Two daemons of one root, two trips, one kill.
SPECIFICATION Spec
CONSTANTS
    Daemons = {d1, d2}
    Need = 1
    Full = 2
    MaxTrips = 2
    MaxKills = 1
SYMMETRY DaemonSymmetry
INVARIANTS
    LoopIsEarned
    SuccessIsFlat
    OkStreakTrue
    AutonomousBarred
