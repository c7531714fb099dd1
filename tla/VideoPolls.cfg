SPECIFICATION VideoSpec
CONSTANTS
    Document <- MCDocument
    AdapterHandlers = {}
    Asks <- MCAsks
    MaxPicks = 4
    MaxJobs = 2
INVARIANTS PollFindsItsJob
CHECK_DEADLOCK FALSE
