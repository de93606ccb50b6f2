\* A u64 of four values in a debug build: a sell that does not fit.
CONSTANTS
    Workers = {w1}
    NoWorker = none
    Users = {u1}
    Prices = {1}
    Volumes = {1, 3}
    Modulus = 4
    OverflowChecks = TRUE
    MaxCalls = 3
SPECIFICATION Spec
PROPERTY SupplyOverflowPanics
