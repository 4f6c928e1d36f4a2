CONSTANTS
    r1 = r1  s1 = s1  u1 = u1  d1 = d1
    p1 = p1  p2 = p2  p3 = p3  p4 = p4  p5 = p5
    NoProgram = NoProgram  Nobody = Nobody
    Requests = {r1}  Starters = {s1}  Updaters = {}  Reloaders = {d1}
    Programs = {p1, p2, p3, p4, p5}
    FromURI = TRUE  FileName = "path"  HasStorage = FALSE  Failures = {"fetch", "boot", "fork", "write"}
    MaxUpdates = 0  MaxReloads = 1
SPECIFICATION FairSpec
CHECK_DEADLOCK FALSE
INVARIANTS LoadedOncePerUnload NullIsTemporary
PROPERTY EveryoneReturns
