SPECIFICATION Spec
CONSTANTS
    Rows = {r1, r2}
    Tasks = {t1, t2}
    Feeders = {f1}
    NoRow = NoRow
    ApplySlots = 2
    MaxConcurrentPerUser = 1
    PlanLimit = 2
    BatchMax = 2
    Tailored = FALSE
    MaxEvents = 9
    Happens = {"match", "reap", "purge", "sweep", "apply_now", "apply_batch", "verified", "run", "pause", "meter_error", "api_publish_error"}
SYMMETRY Symmetry
INVARIANT AtMostOnce
PROPERTY SubmittedSticks
CHECK_DEADLOCK FALSE
