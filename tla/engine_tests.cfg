\* Three threads; volumes 1..2, prices 1..2, vectors of length 2, three tasks.
CONSTANTS
    Workers = {w1, w2, w3}
    NoWorker = none
    Users = {"u1", "u2", "u3", "lo", "hi", "1", "2", "3"}
    Prices = {1, 2, 3, 4, 10}
    Volumes = {0, 1, 2, 3, 4, 10, 15, 50, 100, 150, 200, 250, 300, 400}
    Modulus = 2000
    OverflowChecks = TRUE
    MaxCalls = 6
    MaxVolume = 2
    MaxPrice = 2
    MaxLength = 2
    Tasks = 3
    NoTask = noTask
    Text <- ToString
SPECIFICATION TestSpec
INVARIANT TestsPass
PROPERTIES ImplementsBook AllocationsIncrease
