CONSTANTS
    r1 = r1  Requests = {r1}  MaxTimers = 1  QueueBound = 2
SPECIFICATION Spec
CHECK_DEADLOCK FALSE
PROPERTY InitializationEnds
