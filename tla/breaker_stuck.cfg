\* The trial gets a body that does not parse.
CONSTANTS
    Callers = {c1, c2, c3}
    Cooldown = 2
    Threshold = 3
    Disconnects = FALSE
SPECIFICATION FairSpec
PROPERTY TestHasResult
