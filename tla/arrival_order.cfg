\* Two buys at one price wait for the lock: std's RwLock is not a queue.
CONSTANTS
    Workers = {w1, w2}
    NoWorker = none
    Users = {u1, u2}
    Prices = {1}
    Volumes = {1}
    Modulus = 16
    OverflowChecks = TRUE
    MaxCalls = 3
SPECIFICATION SpecA
INVARIANT TieBreakIsArrivalOrder
