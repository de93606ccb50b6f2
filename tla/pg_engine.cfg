\* Three tasks share two connections, of which one is lost at any statement
\* or refused.
\* No symmetry, because of the liveness property.
CONSTANTS
    Workers = {w1, w2, w3}
    Users = {u1}
    Prices = {1, 2}
    Volumes = {1, 2}
    Modulus = 64
    PoolSize = 2
    MaxCalls = 3
    MaxFailures = 1
SPECIFICATION FairSpec
INVARIANTS IInv OneWriter BooksBalance ConfirmedIsKept NoIdleSupply
PROPERTIES AllocationNeverDecreases ImplementsEngine CallsEnd
