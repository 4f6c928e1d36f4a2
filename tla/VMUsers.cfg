CONSTANTS
    t1 = t1  t2 = t2  A = A  B = B  a = a  b = b
    NoSlot = NoSlot  Fetch = Fetch
    Fetches = {t1}  Strings = {t2}  Tasks = {t1, t2}
    Tenants = {A, B}  Slots = {a, b}  TenantOf <- MCTenantOf
    Chains <- CrossedChains  StringChains <- FirstBreaks
    Replies <- AllReplies  MaxRetries = 2
    WSFails = {"start", "methods", "copy", "htc"}
SPECIFICATION FairSpec
CHECK_DEADLOCK FALSE
INVARIANTS ReservedOnce OnlyCurrentAtCall NothingHeldAfter UsersKeepReserved RunsOwnProgram
PROPERTY EveryoneEnds
