CONSTANTS
    r1 = r1  r2 = r2  u1 = u1  p1 = p1  p2 = p2
    a = a  b = b  c = c  n0 = n0
    NoProg = NoProg  NoSlot = NoSlot  NoThread = NoThread
    ProgOf <- MCProgOf  First <- MCFirst  InitProg = p1  Node0 = n0  Home <- MCHome
    Requests = {r1, r2}
    Updaters = {u1}
    Programs = {p1, p2}
    Slots = {a, b, c}
    Nodes = {n0}
    Ephemeral = {p2}
SPECIFICATION FairSpec
INVARIANTS Exclusive NoLostVM UsedIsAlive
PROPERTIES ImplementsExclusivePool VMsComeBack ReplacedIsDropped
