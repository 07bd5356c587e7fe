SPECIFICATION OverlapSpec
CONSTANTS
    s1 = s1  s2 = s2
    a = a  b = b  c = c
    j1 = j1  j2 = j2  j3 = j3
    f1 = f1  f2 = f2  f3 = f3
    Source = {s1}
    Place = {a, b, c}
    Home <- HomeIsA
    JobId = {j1, j2}
    File = {f1, f2, f3}
    Library = {f1, f2}
    IoErrors = TRUE
    BadBatches = TRUE
    Missing = Missing
    None = None
    Reconciling = {}
    Careful = TRUE
    MaxRestarts = 2
    MaxCancels = 0
SYMMETRY OverlapSymmetry
INVARIANTS
    CompleteCopy
    HistoryUntilSpoiled
CHECK_DEADLOCK FALSE
