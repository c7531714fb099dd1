SPECIFICATION FairSpec
CONSTANTS
    MaxLines = 4
    Buffer = 2
    Settings <- MCSettings
INVARIANTS TypeOK EventsAreFlushed 
 
CHECK_DEADLOCK FALSE
