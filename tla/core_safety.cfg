\* Two workers, four calls, volumes 0 to 2, far below the width: no overflow.
CONSTANTS
    Workers = {w1, w2}
    NoWorker = none
    Users = {u1, u2}
    Prices = {1, 2}
    Volumes = {0, 1, 2}
    Modulus = 16
    OverflowChecks = TRUE
    MaxCalls = 4
SPECIFICATION SpecH
SYMMETRY Symmetry
INVARIANTS TypeOK IInv Conservation DemandAccounted NoIdleSupply ReadsStayFresh
PROPERTIES PriceTimePriority ImplementsEngine
