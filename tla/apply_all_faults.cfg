SPECIFICATION Spec
CONSTANTS
    Rows = {r1, r2, r3}
    Tasks = {t1, t2}
    Feeders = {f1, f2}
    NoRow = NoRow
    ApplySlots = 2
    MaxConcurrentPerUser = 2
    PlanLimit = 1
    BatchMax = 2
    Tailored = TRUE
    MaxEvents = 5
    Happens = {"match", "reap", "purge", "sweep", "apply_now", "apply_batch", "verified", "run", "pause", "stop", "set_status", "edit", "apply_crash", "process_crash", "hard_kill", "tailor_error", "task_error", "meter_error", "retry_error", "api_publish_error", "task_publish_error"}
SYMMETRY Symmetry
INVARIANTS Evidence OvershootBounded IInv SweepRespectsCap
PROPERTY ImplementsLedger
CHECK_DEADLOCK FALSE
