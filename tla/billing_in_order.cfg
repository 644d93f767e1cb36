SPECIFICATION FairSpec
CONSTANTS
    Handlers = {h1}
    Subs = {s1, s2}
    PaidPlans = {pro}
    Free = free
    None = none
    InOrder = TRUE
    MaxDocs = 2
    MaxNow = 2
    MaxEvents = 7
    Happens = {"ensure", "check", "use", "buy", "renew", "unpaid", "cancel", "tick"}
INVARIANT InSync
PROPERTY PaidGetsPlan
CHECK_DEADLOCK FALSE
