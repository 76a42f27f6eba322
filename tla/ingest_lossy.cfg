SPECIFICATION Spec
CONSTANTS
    stream = stream
    pinnedStream = pinnedStream
    event = event
    event2 = event2
    foreign = foreign
    lossy = lossy
    aged = aged
    File <- OneStream
    Pinned = {}
    Line = {event, lossy}
    Conforming = {event, lossy}
    Foreign = {}
    Lossy = {lossy}
    Old = {}
    QuarAges = FALSE
    HeadLines = 2
    MaxLines = 2
    MaxInode = 1
    MaxReplace = 0
    MaxCrashes = 0
    MaxFaults = 0
    LiveReplace = FALSE
    RegisterRace = TRUE
    InodeReuse = FALSE
INVARIANT OffsetNotPastRead
