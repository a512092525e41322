SPECIFICATION LockFairSpec
CONSTANTS
    u1 = u1
    u2 = u2
    h = h
    c1 = c1
    c2 = c2
    Uri = {u1, h}
    Health = h
    Version = {1}
    NStats <- One
    BufLines = 3
    Fault = {}
    UriList <- UriOne
    Retries = 0
    Client = {c1, c2}
PROPERTIES PollsForEver
