\* Two incidents; a count of two bits, so that two counts that are lost are
\* already at the edge of what a wrapped difference can tell.
SPECIFICATION FairSpec
CONSTANTS
    CmdVelTimeout = 1
    FwTimeout = 1
    ReconnectTicks = 2
    AssertTicks = 2
    CountMod = 4
    MaxTurn = 1
    TopicDepth = 2
    RxMax = 2
    BlockMax = 2
    MaxIncidents = 2
INVARIANTS
    TypeOK
    MotionFresh
    PoseTrue
PROPERTIES
    ModeRestored
