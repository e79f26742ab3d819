\* One Server, its caller and its watch daemons, where processes die and either
\* ss-server fails to start at times or run directories disappear.
SPECIFICATION FairSpec
CONSTANTS
    s1 = s1  p1 = p1  w1 = w1  c1 = c1  d1 = d1  d2 = d2  d3 = d3
    q1 = q1  q2 = q2
    Server = {s1}
    Port = {p1}
    PortOf <- OneServer
    Password = {w1}
    Caller = {c1}
    Daemon = {d1, d2, d3}
    Pid = {q1, q2}
    Regimes = {{"tick", "die", "execfail"}, {"tick", "die", "rmdir"}}
    None = None
    Torn = Torn
    Other = Other
INVARIANTS TypeOK DaemonOwned Watched Tracked
PROPERTIES KeepsTrack StaysUp
