\* One page, four events, one proof of each kind, three bus rows, two runs, two packs.
SPECIFICATION MCSpec
CONSTANTS
    Page = {"p1"}
    Capacity = 2
    FetchLimit = 3
    MaxLines = 3
    MaxEvents = 4
    MaxChunk = 3
    MaxAttempts = 2
    MaxCuts = 3
    PolicyJob = {"p"}
    BudgetJob = {"b"}
    SlotLimit = 1
    Timeout = 1
    Limits <- Candidates
    Trace <- Traces
    Replays <- ReplaysOf
    LastTick = 2
    Agent = {"a", "b"}
    Kind = {"policy_deny", "killed_by_person", "refusal", "block", "other"}
    MaxRows = 3
    LastDay = 4
    AheadDays = 0
    Window = 4
    Retention = 3
    DetailScan = 2
    StopsLimit = 2
    MinDays = 3
    MaxStored = 3
    Unit = {"u"}
    RunId = {"r1", "r2"}
    Cap = 1
    MaxSpend = 1
    MaxMoves = 3
    MaxTrouble = 1
    MaxFailing = 3
    Limit = 2
    ScanFactor = 2
    ScanMax = 3
    PageSize = 3
    MaxWritten = 6
    Build = {"b1", "b2"}
    MaxEdits = 1
    MaxDeaths = 1
    Nothing = Nothing
    Requests <- Asked
    BusEvent <- BusEvents
    Nil = Nil
CHECK_DEADLOCK FALSE
INVARIANTS StreamIsFaithful FeedIsTheBus ProofsAreEarned CountsAreHonest
INVARIANTS GraphIsFaithful PanelsAreHonest ReportsAreHonest PackIsWhatItSays
