\* Two requests and two workers with batches of one, so that a request waits for
\* the other; clocks that differ, and one failure or late worker.
SPECIFICATION Spec
CONSTANTS
    Word = 16
    Second = 1
    MostDoublings = 30
    None = None
    Requests = {r1, r2}
    Workers = {w1, w2}
    BatchSize = 1
    Poll = 1
    RetryBase = 1
    RetryMax = 2
    TTL = 2
    MaxAttempts = 4
    Skew = 1
    MaxFaults = 1
    MaxTime = 8
SYMMETRY RetrySymmetry
INVARIANTS
    RetriesSound
    WaitBounded
PROPERTIES
    RejectedWhileMissing
    AttemptsSurvive
CHECK_DEADLOCK FALSE
