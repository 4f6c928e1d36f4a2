CONSTANTS
    t1 = t1  t2 = t2  t3 = t3  Tasks = {t1, t2, t3}  None = None
    MaxConcurrency = 2  DriftBound = 2
SPECIFICATION Spec
CHECK_DEADLOCK FALSE
INVARIANTS CountIsExact LimitHolds
PROPERTY Unravels
