\* Three device commands; three remote commands; three reads of two agents; two wizards; every schema version.
SPECIFICATION MCSpec
CONSTANTS
    j1 = j1
    j2 = j2
    j3 = j3
    Job = {j1, j2, j3}
    FirstHost = 2
    LastHost = 3
    MaxBroken = 1
    MaxReboots = 1
    Caller = {"c1", "c2", "c3"}
    Box = {"b1", "b2"}
    NoBox = "none"
    MaxFailures = 1
    Read = {r1, r2, r3}
    Scope = {x, y}
    WholeFile = WholeFile
    BadName = BadName
    MaxHeld = 1
    IdleAfter = 1
    LastTime = 2
    MaxDeaths = 1
    MaxNoise = 1
    w1 = w1
    w2 = w2
    Wizard = {w1, w2}
    a1 = a1
    a2 = a2
    a3 = a3
    Agent = {a1, a2, a3}
    FlatName <- Flattened
    Unit = {"u"}
    Baseline = {q1, q2}
    MaxEdits = 1
    MaxLosses = 1
    None = None
    MaxRestarts = 2
SYMMETRY Symmetric
CHECK_DEADLOCK FALSE
INVARIANTS PeersAreAccounted RemoteIsAccounted OnboardedIsConsistent VersionMeansSchema
PROPERTY ReadsAreSafe
