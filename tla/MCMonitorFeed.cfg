\* Three notifications and a line of another kind, some in one millisecond; a loss of the
\* connection, before or after a replay, or in the midst of one.  The kinds left out make
\* events that end at once, as that other line does.
SPECIFICATION FairSpec
CONSTANTS
    Kinds = {"update", "legacy", "empty"}
    Noises = {"stats", "ack"}
    MaxLog = 3
    MaxNoise = 1
    MaxQueue = 1
    MaxLosses = 1
INVARIANTS
    TypeOK
    NoneIsLost
PROPERTIES
    ImplementsFeed
    EveryNotificationIsReceived
    EveryUpdateIsHandled
CHECK_DEADLOCK FALSE
