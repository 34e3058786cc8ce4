SPECIFICATION FairSpec
CONSTANTS
    Workers = {w1, w2}
    Commands = {c1}
    Layers = {cityworks, census}
    Nobody = Nobody
    MIN_DELAY = 1
    FAILURE_BACKOFF = 2
    LOCK_BUSY_RETRY = 1
    POLL_INTERVAL = 9
    MaxRun = 2
    MaxFaults = 2
INVARIANTS
    TypeOK
    RunKeepsItsStaging
    OneFailureIsNotOverdue
PROPERTY
    EveryWorkerRuns
