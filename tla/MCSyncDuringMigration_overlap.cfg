SPECIFICATION OverlapSpec
CONSTANTS
    s1 = s1  s2 = s2
    a = a  b = b  c = c
    j1 = j1  j2 = j2  j3 = j3
    f1 = f1  f2 = f2  f3 = f3
    Source = {s1}
    Place = {a, b}
    Home <- HomeIsA
    JobId = {j1}
    File = {f1, f2}
    Library = {f1}
    IoErrors = FALSE
    BadBatches = FALSE
    Missing = Missing
    None = None
    Reconciling = {s1}
    Careful = FALSE
    MaxRestarts = 0
    MaxCancels = 0
INVARIANTS
    HistoryConsistent
CHECK_DEADLOCK FALSE
