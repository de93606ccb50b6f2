\* A u64 of three values, debug build: sells wrap, sums panic, the lock is poisoned.
\* No symmetry: TLC's symmetry reduction is unsound for liveness.
CONSTANTS
    Workers = {w1, w2}
    NoWorker = none
    Users = {u1, u2}
    Prices = {1}
    Volumes = {1, 2}
    Modulus = 3
    OverflowChecks = TRUE
    MaxCalls = 4
SPECIFICATION FairDumpSpec
INVARIANTS NobodyHoldsMoreThanSold ShownIsHeld ShownCountsOnce
PROPERTIES PoisonFreezes AllocationNeverDecreases BurstDrains
