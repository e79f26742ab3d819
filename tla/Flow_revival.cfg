\* The process of a server dies and is started again.
SPECIFICATION Spec
CONSTANTS
    u1 = u1  u2 = u2  p1 = p1  p2 = p2
    User = {u1, u2}
    Port = {p1}
    Owner <- OneOwner
    MaxRun = 2
    MaxTraffic = 2
    MaxQueue = 1
    Quota = 2
    Regimes = {{"die"}}
    MaxEvents = 2
    None = None
INVARIANT Guilty
