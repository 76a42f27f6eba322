\* Two deaths and two failures; the console's own file, or one that everything happens to.
CONSTANTS
    Call = {c1, c2, c3, bg}
    Unjustified = {bg}
    None = None
    Foreign = Foreign
    Garbled = Garbled
    MaxForeign = 0
    MaxTruncate = 0
    MaxCrashes = 2
    MaxFaults = 2
    FaultKinds = {"journal", "open", "write"}
SPECIFICATION ScenesSpec
SYMMETRY CallSymmetry
INVARIANTS OneChain EveryLineHasRow AcknowledgedIsOnBus NeverForks
