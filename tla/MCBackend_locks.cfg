SPECIFICATION FairSpec
CONSTANTS
    u1 = u1
    u2 = u2
    h = h
    c1 = c1
    c2 = c2
    Uri = {u1, h}
    Health = h
    Version = {1, 2}
    NStats <- TwoTwo
    BufLines = 4
    Fault = {"refuse"}
    UriList <- UriOne
    Retries = 1
    Client = {c1, c2}
INVARIANTS TypeOK PageIntact ServingWhilePolling ErrorNamed
PROPERTIES BufferedView Answered PollsWhenUnread
