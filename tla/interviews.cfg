SPECIFICATION ISpec
CONSTANTS
    Handlers = {h1, h2, h3}
    Subs = {s1}
    PaidPlans = {pro}
    Free = free
    None = none
    InOrder = TRUE
    MaxDocs = 1
    MaxNow = 0
    MaxEvents = 5
    Happens = {"ensure", "check", "use", "crash"}
    MaxSessions = 4
    Questions = {1, 2}
    Limit = 1
    Regimes = {"meter", "alone", "overlap"}
    MaxVisits = 3
SYMMETRY Symmetry
INVARIANTS SessionsWhole InterviewsBounded UsesCounted
PROPERTY NothingLost
CHECK_DEADLOCK FALSE
