SPECIFICATION Spec
CONSTANTS
    c1 = c1
    c2 = c2
    b1 = b1
    Conn = {c1, c2}
    Backends = {b1}
    MaxFd = 3
    Uris = {"items"}
    Requests <- EnableRequest
    MaxAsk = 1
    Fault = {}
PROPERTIES ClosedByOwner
