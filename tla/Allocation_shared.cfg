\* Two users are created at once.
SPECIFICATION AllocFairSpec
CONSTANTS
    w1 = w1  w2 = w2  w3 = w3  w4 = w4  w5 = w5  w6 = w6  g1 = g1  g2 = g2
    User = {1, 2}
    Port = {1, 2}
    Password = {w1, w2, w3, w4, w5, w6}
    Goroutine = {g1, g2}
    Regimes = {{"overlap"}}
    MaxEvents = 1
    None = None
INVARIANT DistinctPorts
