SPECIFICATION FairSpec
CONSTANTS
  Sessions = {s1}
  Mounts = {m1}
  Bufs = {}
  Methods = {"SETUP", "PLAY", "TEARDOWN"}
  Hangups = {"fin", "reset"}
  SockCap = 1
  MaxFrags = 1
  Client = Client
  Nobody = Nobody

PROPERTIES FeedReturns HungUpFreed RequestEnds
