\* Two sign-ins and two set-passwords; two verifications, two rotations, a failed fetch; two commands.
SPECIFICATION MCSpec
CONSTANTS
    Login = {l1, l2}
    Owner = op
    OtherNames = {other}
    Addr = {ip}
    AccountLimit = 1
    AddressLimit = 2
    Window = 2
    MaxKeys = 1
    IdleTimeout = 2
    Lifetime = 2
    Sid = {s1}
    None = None
    Torn = Torn
    Horizon = 2
    MaxVersions = 2
    Kid = {k1, k2}
    k1 = k1
    k2 = k2
    Finder = {f1, f2}
    Sets <- PublishedSets
    Nobody = Nobody
    MaxAge = 2
    Cooldown = 2
    FetchTimeout = 1
    LastTick = 3
    MaxRotations = 2
    MaxFailedFetches = 1
    Attempt = {a1, a2}
    Offered = {"money_kill_run", "money_close_retained", "policy_decide_approval", "evidence_build"}
    Person = {person}
    ServiceAccount = sa
    Target = {t}
    TokenTtl = 1
    LastMoment = 2
    MaxUnwritten = 1
    MaxEnds = 1
    MaxHangUps = 1
    Nil = Nil
SYMMETRY Symmetric
CHECK_DEADLOCK FALSE
INVARIANTS SignInIsSound KeysAreTheProviders EffectsAreJournaled AnswersAreTrue
