\* One command; the browser may close its connection while the plane is answering.
SPECIFICATION HangUpSpec
CONSTANTS
    Attempt = {a1}
    Offered = {"money_kill_run", "money_close_retained", "policy_decide_approval"}
    Person = {person}
    ServiceAccount = sa
    Target = {t}
    TokenTtl = 1
    LastMoment = 1
    MaxUnwritten = 0
    MaxEnds = 0
    MaxHangUps = 1
    Nil = Nil
CHECK_DEADLOCK FALSE
INVARIANT EveryAttemptIsJournaled
