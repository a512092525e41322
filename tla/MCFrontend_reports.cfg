SPECIFICATION Spec
CONSTANTS
    c1 = c1
    c2 = c2
    b1 = b1
    Conn = {c1}
    Backends = {}
    MaxFd = 3
    Uris = {"items"}
    Requests <- AllRequests
    MaxAsk = 2
    Fault = {"noname", "noreporter", "nofile", "error"}
INVARIANTS Accounted
PROPERTIES SessionsView
