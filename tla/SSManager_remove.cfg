\* A watch daemon restarts a server that is being removed.
SPECIFICATION MgrSpec
CONSTANTS
    sa1 = sa1  sa2 = sa2  sa3 = sa3  sb1 = sb1  sb2 = sb2
    p1 = p1  p2 = p2  w1 = w1  w2 = w2  main = main  h1 = h1  h2 = h2
    d1 = d1  d2 = d2  d3 = d3  q1 = q1  q2 = q2  q3 = q3  q4 = q4
    Server = {sa1, sa2, sa3}
    Port = {p1}
    PortOf <- OnePort3
    Password = {w1}
    Caller = {main, h1}
    Main = main
    Daemon = {d1, d2}
    Pid = {q1, q2, q3}
    Regimes = {{"tick", "free"}}
    None = None
    Torn = Torn
    Other = Other
SYMMETRY Symmetry
INVARIANT RemoveKills
