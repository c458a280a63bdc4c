SPECIFICATION Spec
CONSTANTS
    Handlers = {h1, h2}
    Passwords = {"admin", "other"}
    Default = "admin"
    Tokens = {t1}
    Tries = {1, 2, 3, 4}
    Limit = 2
    Window = 3
    Ttl = 3
INVARIANTS LockoutBound OldSessionsEnd DiskAgrees LockoutBrief
