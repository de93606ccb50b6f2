\* A call from before the circuit opened succeeds late.
CONSTANTS
    Callers = {c1, c2, c3, c4}
    Cooldown = 2
    Threshold = 3
    Disconnects = FALSE
SPECIFICATION Spec
PROPERTY OpenForCooldown
