SPECIFICATION Spec
CONSTANTS
    Requests = {r1, r2}
    Totp = totp
    CodesPerSetup = 1
    MaxTokens = 4
    MaxLinks = 2
    MaxChanges = 1
    MaxCodes = 0
    MaxEvents = 7
    Happens = {"login", "refresh", "logout", "logout_all", "change", "crash", "lost_answer"}
SYMMETRY Symmetry
INVARIANT ChangeSignsOut
PROPERTY StaysSignedOut
CHECK_DEADLOCK FALSE
