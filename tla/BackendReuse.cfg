CONSTANTS
    t1 = t1  t2 = t2  A = A  B = B  a = a  b = b
    NoSlot = NoSlot  Fetch = Fetch
    Fetches = {t1}  Strings = {}  Tasks = {t1}
    Tenants = {A, B}  Slots = {a, b}  TenantOf <- MCTenantOf
    Chains <- FinalReuse  StringChains = {}
    Replies <- AllReplies  MaxRetries = 0
    WSFails = {}
SPECIFICATION UsersSpec
CHECK_DEADLOCK FALSE
INVARIANT NothingHeldAfter
