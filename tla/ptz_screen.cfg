SPECIFICATION ScreenSpec
CONSTANTS
    Conns = {c1}
    Tokens <- MCTokens
    NoToken = ""
    Begins <- MCBegins
    Names = {0}
    Requests <- MCRequests
    MaxPresets = 1
    ListRoom = 3
    Backlog = 1
    HeaderRoom = 1
    BodyRoom = 1
    Readable = {"P1", "?"}
    Hold = 3
    Every = 2
INVARIANTS ScreenFollowsFile
