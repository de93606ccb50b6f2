\* Two workers and a u64 of three values, debug build: sums overflow and poison
\* the locks.  No symmetry, because of the liveness property.
CONSTANTS
    Workers = {w1, w2}
    NoWorker = none
    Users = {u1, u2}
    Prices = {1, 2}
    Volumes = {1, 2}
    Modulus = 3
    OverflowChecks = TRUE
    MaxCalls = 4
SPECIFICATION FairSpec
INVARIANTS LocksInOrder PoisonedTogether NothingLostInPanic
PROPERTIES ImplementsEngine CallsEnd
