SPECIFICATION Spec
CONSTANTS
    Sites = {s1, s2}
    Users = {u1}
    Procs = {p1, p2}
    MaxKey = 3
    MaxEvents = 8
INVARIANTS KeysTypeOK ReportTrue CredentialsOpen
CHECK_DEADLOCK FALSE
SYMMETRY Symmetry
