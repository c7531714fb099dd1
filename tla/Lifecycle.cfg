SPECIFICATION FairSpec
CONSTANTS
    d1 = d1
    m1 = m1
    a1 = a1
    Requests <- MCRequests
    Planes = {"data", "admin"}
    PlaneOf <- MCPlaneOf
    Tracked <- MCTracked
    Callers = {"main", "host"}
INVARIANTS TypeOK StoreOutlivesHandlers 
PROPERTIES  ShutdownReturns
CHECK_DEADLOCK FALSE
