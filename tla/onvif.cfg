SPECIFICATION FairSpec
CONSTANTS
    Conns = {c1, c2}
    Tokens <- MCTokens
    NoToken = ""
    Begins <- MCBegins
    Names = {1}
    Requests <- MCRequests
    MaxPresets = 2
    ListRoom = 3
    Backlog = 2
    HeaderRoom = 2
    BodyRoom = 2
INVARIANTS TypeOK PresetsApart
PROPERTIES ImplementsBook EveryConnectionEnds
