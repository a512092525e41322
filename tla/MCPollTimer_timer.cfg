SPECIFICATION FairSpec
CONSTANTS
    Timeout = 3
    PollFreq = 5
    Nap = 2
    RetryWait = 1
    Retries = 1
    UsecSpan = 20
    Uris = 2
    Probe = 1
    Parts = 2
    Jump <- Jumps
    MaxJumps = 1
INVARIANTS TimerTypeOK ReadBudget WriteBudget SleepBounded IntervalKept
PROPERTIES RoundsGoOn
