\* Two users and two commands; two removals of two keys; a removal and an enrolment with a death.
SPECIFICATION ScenesSpec
CONSTANTS
    alice = alice
    bob = bob
    key1 = key1
    key2 = key2
    kill = kill
    freeze = freeze
    User = {alice, bob}
    Entitled = {alice}
    Command = {kill, freeze}
    Kinds = {"command", "remove", "enroll", "register"}
    Cred = {key1, key2}
    InitialKeys <- TwoUsers
    Challenge = {c1, c2}
    Request = {r1, r2, r3}
    None = None
    RequirePasskey = TRUE
    MaxCrashes = 1
    MaxFaults = 1
    TornWrites = TRUE
SYMMETRY Symmetric
CHECK_DEADLOCK FALSE
INVARIANTS TypeOK OneShot BoundToWhatWasConfirmed AnsweredOutlivesRestart
PROPERTY LastKeyNeedsPassword
