\* Three calls, one of them sent twice.  A client that gives up leaves its call
\* under way when it makes the next, so that the calls of one overlap.
CONSTANTS
    Clients = {c1}
    Users = {u1, nobody}
    EmptyName = nobody
    Prices = {0}
    Volumes = {2}
    NoField = NoField
    MaxCalls = 3
    MaxRetries = 1
SPECIFICATION Spec
INVARIANTS AnswersAreHonest ReadsAreFresh AttemptsAreBooked
