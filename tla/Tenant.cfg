CONSTANTS
    r1 = r1  s1 = s1  u1 = u1  d1 = d1
    p1 = p1  p2 = p2  p3 = p3  p4 = p4  p5 = p5
    NoProgram = NoProgram  Nobody = Nobody
    Requests = {r1}  Starters = {}  Updaters = {u1}  Reloaders = {d1}
    Programs = {p1, p2, p3, p4, p5}
    FromURI = FALSE  FileName = "path"  HasStorage = TRUE  Failures = {"load", "boot", "transfer", "write"}
    MaxUpdates = 1  MaxReloads = 1
SPECIFICATION Spec
CHECK_DEADLOCK FALSE
INVARIANTS ServedProgramWorks OneWaiterAtFuture OnlyEarlierLoads
PROPERTY UpdateKeepsWorking
