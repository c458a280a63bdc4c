SPECIFICATION FairSpec
CONSTANTS
    Handlers = {h1, h2}
    Ops = {"hls_start", "hls_stop", "preview_start", "preview_stop", "logout"}
    MaxStarts = 2
INVARIANTS OrphansOnlyFromClash TokenOpensItsStart ChannelOfSlot
PROPERTY ReplacedStreamsEnd
