\* A console whose bootstrap failed has no bus and takes no step of its own: with the
\* products done, that is a place where this system stops.
SPECIFICATION FairSpec
CONSTANTS
    stream = stream
    pinnedStream = pinnedStream
    event = event
    event2 = event2
    foreign = foreign
    lossy = lossy
    aged = aged
    File <- OneStream
    Pinned = {}
    Line = {event}
    Conforming = {event}
    Foreign = {}
    Lossy = {}
    Old = {}
    QuarAges = FALSE
    HeadLines = 2
    MaxLines = 2
    MaxInode = 1
    MaxReplace = 0
    MaxCrashes = 0
    MaxFaults = 1
    LiveReplace = FALSE
    RegisterRace = TRUE
    InodeReuse = FALSE
PROPERTY EveryLineIsRecorded
CHECK_DEADLOCK FALSE
