\* A batch holds two of the four commands; one POST goes wrong, and the node
\* or the robot goes down once.  When all is done the system may rest.
SPECIFICATION RestartedSpec
CONSTANTS
    Commands <- MCCommands
    NoCommand = "no command"
    KindOf <- MCKindOf
    PendingLimit = 2
    MaxFaults = 1
    MaxCrashes = 1
PROPERTY SwitchingEnds
CHECK_DEADLOCK FALSE
