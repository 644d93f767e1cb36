SPECIFICATION Spec
CONSTANTS
    Handlers = {h1, h2}
    Subs = {s1, s2}
    PaidPlans = {basic, pro}
    Free = free
    None = none
    InOrder = FALSE
    MaxDocs = 3
    MaxNow = 1
    MaxEvents = 4
    Happens = {"ensure", "check", "buy", "buy_unmarked", "buy_second", "renew", "unpaid", "cancel", "tick", "erase", "crash"}
SYMMETRY Symmetry
INVARIANTS BillingTypeOK NeverGuessed DocumentsBounded
CHECK_DEADLOCK FALSE
