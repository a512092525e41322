SPECIFICATION Spec
CONSTANTS
    u1 = u1
    u2 = u2
    h = h
    c1 = c1
    c2 = c2
    Uri = {u1, u2, h}
    Health = h
    Version = {1}
    NStats <- Two
    BufLines = 4
    Fault = {"block"}
    UriList <- UrisPlain
    Retries = 0
    Client = {}
INVARIANTS ListsTrue
