SPECIFICATION MCSpec
CONSTANTS
    k1 = k1  k2 = k2  k3 = k3
    s1 = s1  s2 = s2
    p1 = p1  p2 = p2
    a1 = a1  a2 = a2
    w1 = w1  w2 = w2  w3 = w3
    c1 = c1  c2 = c2
    Key = {k1, k2, k3}
    Source = {s1, s2}
    Provider = {p1, p2}
    Account = {a1, a2}
    Client = {c1, c2}
    Worker = {w1, w2, w3}
    SourceOf <- StorySourceOf
    ProviderOf <- TwoLaneProviderOf
    AccountOf <- TwoAccountOf
    HoldAccount = {a1}
    Mode = {"normal", "timeline", "force"}
    DiskErrors = FALSE
    None = None
    MaxCalls = 3
    MaxRestarts = 0
    MaxWorld = 0
    Cancels = TRUE
SYMMETRY Symmetry
INVARIANTS
    OneWorkerPerLane
    NoStrandedLane
    TokenMatchesRun
PROPERTIES
    ImplementsLanes
CHECK_DEADLOCK FALSE
