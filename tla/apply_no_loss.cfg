SPECIFICATION FairSpec
CONSTANTS
    Rows = {r1}
    Tasks = {t1, t2}
    Feeders = {f1, f2}
    NoRow = NoRow
    ApplySlots = 2
    MaxConcurrentPerUser = 1
    PlanLimit = 1
    BatchMax = 1
    Tailored = FALSE
    MaxEvents = 6
    Happens = {"match", "reap", "purge", "sweep", "apply_now", "apply_batch", "verified", "run", "pause", "stop", "set_status", "apply_crash", "task_error", "meter_error", "api_publish_error"}
INVARIANT QueuedHasWork
PROPERTY QueuedResolves
CHECK_DEADLOCK FALSE
