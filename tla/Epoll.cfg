CONSTANTS
    c1 = c1  c2 = c2  Conns = {c1, c2}
    Requested = 2  BufSize = 2  MaxSent <- MCMaxSent  Writers = {c1}
    Leavers = {c1}  MaxEvents = 2  MaxFails = 1
SPECIFICATION FairSpec
CHECK_DEADLOCK FALSE
INVARIANTS BuffersIntact ExactlyOnce
PROPERTIES DataArrives ClosesConnections WritableIsTold StopReturns
