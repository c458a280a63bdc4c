SPECIFICATION FairSpec
CONSTANTS
    Dogs = {d1, d2}
    Webs = {w1, w2}
    Requests = {r1}
    Urls = {"a", "b"}
    NoUrl = "none"
    Period = 3
    MaxDisplays = 2
    MaxFaults = 1
INVARIANTS TypeOK OneDisplay FilesAgree LitAtLast
PROPERTY ComesBack
