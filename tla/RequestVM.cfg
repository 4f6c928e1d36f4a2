CONSTANTS
    h1 = h1  h2 = h2  h3 = h3  Hashes = {h1, h2, h3}  Loaned = h1
    Kinds <- AllKinds
    Responses <- AllResponses  EarlySize = 3  MaxPull = 2
    POST_BUFFER = 2  Top = 5
SPECIFICATION Spec
CHECK_DEADLOCK FALSE
INVARIANTS NoTraceLeft RegexesAreSound ResumedAtPause PostIsIntact BodyIsWhole
