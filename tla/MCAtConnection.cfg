\* One caller, whole records, every fault of the peer, connect() before a command.
SPECIFICATION FairSpec
CONSTANTS
    Callers = {main}
    main = main
    eventLoop = eventLoop
    MaxCommands = 3
    ShortReads = FALSE
    Reconnects = TRUE
    Retries = {TRUE, FALSE}
    PeerFaults = {"eof", "reset", "timeout"}
INVARIANTS
    TypeOK
    ReplyMatchesCommand
    CleanStream
    InStep
    ClosedMeansDisconnected
PROPERTIES
    ImplementsRequestReply
    CommandCompletesUnlessEof
CHECK_DEADLOCK FALSE
