\* One e-mail address, two handlers and a goroutine that logs, a queue of one.
SPECIFICATION WebFairSpec
CONSTANTS
    low = low  high = high  e1 = e1  h1 = h1  h2 = h2  l1 = l1  s1 = s1  s2 = s2
    Email = {e1}
    User = {1, 2, 3}
    Handler = {h1, h2}
    Logger = {h1, h2, l1}
    Saver = {s1, s2}
    Limit = {low, high}
    FirstLimits <- LowHigh
    VipLimits <- HighLow
    MaxSent = 2
    Cap = 1
    Regimes = {{"login", "overlap", "limit"}, {"login", "overlap", "change"},
               {"login", "crash"}, {"put", "diskfail", "crash"},
               {"overlap", "put", "resave"}}
    MaxEvents = 3
    None = None
    Torn = Torn
INVARIANTS WebTypeOK NotAllBlocked SentLimit OneUser ConfigKept
PROPERTY RequestsEnd
\* A master that finds no configuration that parses ends, and there it stops.
CHECK_DEADLOCK FALSE
