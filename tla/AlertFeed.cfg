\* Two events, three uploads (one is a brief's or a repetition); a queue and a
\* page that are too short for all of it.
SPECIFICATION FairSpec
CONSTANTS
    Events = {1, 2}
    NoAnswer = NoAnswer
    QueueMax = 2
    PageLimit = 1
    MaxIngests = 3
INVARIANTS
    TypeOK
    ListTrue
PROPERTIES
    NewsArrives
    PollingCatchesUp
