SPECIFICATION FairSpec
CONSTANTS
    MaxLines = 4
    Buffer = 2
    Settings <- MCWrapped
INVARIANTS EventsAreFlushed
CHECK_DEADLOCK FALSE
