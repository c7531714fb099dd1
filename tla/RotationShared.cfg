SPECIFICATION Spec
CONSTANTS
    Document <- MCDocument
    AdapterHandlers <- MCAdapterHandlers
    Asks <- MCAsks
    MaxPicks = 4
INVARIANTS EveryPoolInRotation
