SPECIFICATION MCSpec
CONSTANTS
    s1 = s1  s2 = s2
    a = a  b = b  c = c
    j1 = j1  j2 = j2  j3 = j3
    f1 = f1  f2 = f2
    Source = {s1}
    Place = {a, b}
    Home <- HomeIsA
    JobId = {j1}
    File = {f1, f2}
    Library = {f1, f2}
    IoErrors = FALSE
    BadBatches = FALSE
    Missing = Missing
    None = None
    MaxRestarts = 1
    MaxCancels = 0
INVARIANTS
    SettledComplete
CHECK_DEADLOCK FALSE
