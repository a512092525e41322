SPECIFICATION FairSpec
CONSTANTS
    c1 = c1
    c2 = c2
    b1 = b1
    Conn = {c1, c2}
    Backends = {b1}
    MaxFd = 2
    Uris = {"items"}
    Requests <- PlainRequests
    MaxAsk = 2
    Fault = {"fdopen"}
INVARIANTS FrontTypeOK Owned
PROPERTIES ClosedByOwner SessionsView Served Reclaimed Admitted
