\* One answer of three turns; two seals of one incident; two questions to a provider that moves.
SPECIFICATION MCSpec
CONSTANTS
    Row <- Rows
    Statement <- Statements
    Proposal <- Proposals
    Brief <- Briefs
    MaxIterations = 3
    MaxCalls = 2
    Sealing = {s1, s2}
    MaxTurns = 1
    MaxDeaths = 1
    MaxAlter = 1
    LastSecond = 1
    MaxMoves = 2
    MaxAsks = 2
    Word = 2
    MaxCount = 2
SYMMETRY Symmetric
CHECK_DEADLOCK FALSE
INVARIANTS NothingUngrounded SealedIsTrue
PROPERTY ResidencyHolds
