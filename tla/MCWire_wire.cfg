SPECIFICATION DriftSpec
CONSTANTS
    u1 = u1
    u2 = u2
    h = h
    c1 = c1
    c2 = c2
    Uri = {u1, u2, h}
    Health = h
    Version = {1, 2, 3}
    NStats <- ShortAndLong
    BufLines = 4
    Fault = {"refuse", "nosocket", "block", "broken", "slow", "eof", "error", "long"}
    UriList <- UrisAround
    Retries = 0
    Client = {}
VIEW PollerView
INVARIANTS FirstListTrue HealthHonest ListsInStep LostAtCuts
