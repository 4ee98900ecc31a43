SPECIFICATION FairSpec
CONSTANTS
    Ops = {o1, o2}
    Research = {r1}
    Renewing = {o1, r1}
    Ttl = 1
    Nobody = Nobody
    NoFile = NoFile
    MaxCrashes = 1
PROPERTIES RoleIsServed ImplementsLease
