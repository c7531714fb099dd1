SPECIFICATION FairSpec
CONSTANTS
    x = x
    y = y
    z = z
    Procs = {x, y, z}
    Settings <- MCSettings
    Values <- MCValues
    MaxGen = 3
    MaxCalls = 3
    MaxLife = 4
INVARIANTS TypeOK OpenIsMigrated ServedAsIssued GrantIsOurs 
PROPERTIES GenerationKept LoginEnds
CHECK_DEADLOCK FALSE
