SPECIFICATION Spec
CONSTANTS
    Requests = {r1}
    Totp = totp
    CodesPerSetup = 1
    MaxTokens = 4
    MaxLinks = 3
    MaxChanges = 2
    MaxCodes = 2
    MaxEvents = 6
    Happens = {"login", "token", "google", "verify_code", "refresh", "logout", "logout_all",
               "change", "settings", "setup_2fa", "enable_2fa", "disable_2fa", "forgot",
               "resend", "reset", "verify_email", "crash", "lost_answer", "expire"}
INVARIANTS SessionsTypeOK RotatedOnce ReuseEndsFamily NewestLinkOnly CodeOnce
CHECK_DEADLOCK FALSE
