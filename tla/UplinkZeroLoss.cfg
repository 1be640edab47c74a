\* No restart, no lost answer, no eviction: only the outage itself.
SPECIFICATION Spec
CONSTANTS
    Events = {e1, e2, e3, e4, e5}
    Cognized = {}
    Records = {}
    MaxAttempts = 2
    MaxLen = 5
    Depth = 2
    Burst = 1
    MaxOutages = 1
    MaxUnanswered = 0
    MaxRestarts = 0
INVARIANT ZeroLoss
CHECK_DEADLOCK FALSE
