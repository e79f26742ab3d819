\* Two ports in the environments that the properties name.
SPECIFICATION MgrSpec
CONSTANTS
    sa1 = sa1  sa2 = sa2  sa3 = sa3  sb1 = sb1  sb2 = sb2
    p1 = p1  p2 = p2  w1 = w1  w2 = w2  main = main  h1 = h1  h2 = h2
    d1 = d1  d2 = d2  d3 = d3  q1 = q1  q2 = q2  q3 = q3  q4 = q4
    Server = {sa1, sa2, sb1, sb2}
    Port = {p1, p2}
    PortOf <- TwoPorts
    Password = {w1}
    Caller = {main, h1, h2}
    Main = main
    Daemon = {d1, d2, d3}
    Pid = {q1, q2, q3, q4}
    Regimes = {{"die", "crash", "free"},
               {"execfail", "crash", "free"},
               {"execfail", "crash", "reboot", "shutdown"},
               {"reboot", "free"},
               {"die", "execfail", "free", "shutdown"},
               {"tick", "die", "execfail"},
               {"execfail", "reboot", "reuse"}}
    None = None
    Torn = Torn
    Other = Other
SYMMETRY Symmetry
INVARIANTS NoOrphan Durable SurvivesCrash SurvivesReboot CleanedUp
