\* A console whose bootstrap failed has no bus and takes no step of its own: with the
\* products done, that is a place where this system stops.
\* One stream: replaced while the console is down, or under every trouble at once.
SPECIFICATION ScenesSpec
CONSTANTS
    stream = stream
    pinnedStream = pinnedStream
    event = event
    event2 = event2
    foreign = foreign
    lossy = lossy
    aged = aged
    File <- OneStream
    Pinned = {}
    Line = {event, event2, lossy}
    Conforming = {event, event2, lossy}
    Foreign = {}
    Lossy = {lossy}
    Old = {}
    QuarAges = FALSE
    HeadLines = 2
    MaxLines = 2
    MaxInode = 2
    MaxReplace = 1
    MaxCrashes = 1
    MaxFaults = 1
    LiveReplace = TRUE
    RegisterRace = TRUE
    InodeReuse = TRUE
INVARIANT ReplacedWhileDownIsRead
PROPERTY LoopNeverWedges
CHECK_DEADLOCK FALSE
