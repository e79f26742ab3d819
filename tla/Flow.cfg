\* Two users and one port.
SPECIFICATION FairSpec
CONSTANTS
    u1 = u1  u2 = u2  p1 = p1  p2 = p2
    User = {u1, u2}
    Port = {p1}
    Owner <- OneOwner
    MaxRun = 2
    MaxTraffic = 2
    MaxQueue = 1
    Quota = 2
    Regimes = {{"restart", "fault", "crash"}, {"die", "restart", "fault", "crash"},
               {"die", "execfail", "expire"}, {"reassign"}}
    MaxEvents = 2
    None = None
INVARIANTS FlowTypeOK RecordsTrue OnlyGuilty
PROPERTIES Settles OverLimitRemoved ExpiredRemoved
