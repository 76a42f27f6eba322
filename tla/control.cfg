\* Two calls on four entities with a death and a failed request or an agent that moves; two calls
\* on one agent; four planes.
SPECIFICATION MCSpec
CONSTANTS
    a1 = a1
    a2 = a2
    a3 = a3
    pay = pay
    payments = payments
    h1 = h1
    Agent = {a1, a2, a3}
    Unit = {pay, payments}
    Handle = {h1}
    Team <- TwoUnits
    Owner <- OneOwner
    SameTail = {}
    Identities = {a1, a3}
    Running = {a1}
    Prefix <- BlockPrefixes
    MemberId <- MemberIds
    StartsWith <- Begins
    Toggled <- AllKinds
    Movers = {a2}
    Call = {"c1", "c2"}
    None = None
    Tries = 2
    MaxCalls = 2
    MaxCrashes = 1
    MaxFaults = 1
    MaxMoves = 1
    Stoppable = {a1}
    Run = {r1, r2}
    RunOf <- RunOfA1
    Stopper = {"s1", "s2"}
    Limit = 1
    MaxOutages = 1
    MaxVouchryx = 1
    Plane = {"money", "memory", "bus", "evidence"}
    Env = {"e1", "e2"}
    MaxChanges = 2
    MaxStarts = 1
CHECK_DEADLOCK FALSE
INVARIANTS BlockHolds BadgesAreTrue StoppedIsStopped
PROPERTIES RestartShowsBlocks StopTakesHold PlanesSettleOnTheNewest
