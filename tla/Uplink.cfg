\* Two events with their briefs and a record; every limit of the code is
\* small enough to be reached.
SPECIFICATION FairSpec
CONSTANTS
    Events = {e1, e2}
    Cognized = {e1}
    Records = {r1}
    MaxAttempts = 2
    MaxLen = 2
    Depth = 1
    Burst = 2
    MaxOutages = 1
    MaxUnanswered = 2
    MaxRestarts = 1
INVARIANTS
    TypeOK
    Accounted
    WrittenOncePerAnswer
PROPERTIES
    Delivered
    ImplementsEventLog
CHECK_DEADLOCK FALSE
