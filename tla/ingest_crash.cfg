SPECIFICATION GrowingSpec
CONSTANTS
    stream = stream
    pinnedStream = pinnedStream
    event = event
    event2 = event2
    foreign = foreign
    lossy = lossy
    aged = aged
    File <- TwoStreams
    Pinned = {pinnedStream}
    Line = {foreign, aged}
    Conforming = {foreign, aged}
    Foreign = {foreign}
    Lossy = {}
    Old = {aged}
    QuarAges = TRUE
    HeadLines = 2
    MaxLines = 2
    MaxInode = 1
    MaxReplace = 0
    MaxCrashes = 1
    MaxFaults = 0
    LiveReplace = FALSE
    RegisterRace = TRUE
    InodeReuse = FALSE
INVARIANTS NothingLost ResumeIsSafe
PROPERTY ImplementsBusLog
