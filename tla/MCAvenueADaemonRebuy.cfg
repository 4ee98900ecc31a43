\* One daemon, two trips, one kill.
SPECIFICATION Spec
CONSTANTS
    Daemons = {d1}
    Need = 1
    Full = 2
    MaxTrips = 2
    MaxKills = 1
PROPERTIES RebuyWhenResolved
