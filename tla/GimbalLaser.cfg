\* Both executors and the aim node.  An indication outlasts the command timeout;
\* so does a wait of a tick that begins with the sustain timer due, and waits
\* may follow one another.
SPECIFICATION Spec
CONSTANTS
    Executors = {receiver, voice}
    Waiting = {receiver, voice}
    Aim = aim
    LaserTicks = 2
    CommandTimeout = 1
    BlockMax = 1
SYMMETRY Symmetry
INVARIANTS
    TypeOK
    LightHasCause
    LightOn
    MotorsExpire
    PointingIsArmed
