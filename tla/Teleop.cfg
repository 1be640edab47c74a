\* Every timeout can run out, and a thread be held up for longer than each.
SPECIFICATION Spec
CONSTANTS
    Staleness = 1
    HttpTimeout = 1
    CmdTimeout = 1
    Window = 3
    DownMax = 2
INVARIANTS
    TypeOK
    StopsAfterRelease
    ObstacleStops
