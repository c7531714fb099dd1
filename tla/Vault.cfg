SPECIFICATION FairSpec
CONSTANTS
    Profiles = {p}
    w1 = w1
    w2 = w2
    Procs = {w1, w2}
    Settings <- MCSettings
    MaxTries = 3
    MaxRows = 2
    MaxOff = 1
    MaxRev = 2
INVARIANTS TypeOK QuietViewIsCurrent GrantUsable
PROPERTIES ReviveOnlyByRace DisableIsListed
CHECK_DEADLOCK FALSE
