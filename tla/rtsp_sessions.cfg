SPECIFICATION Spec
CONSTANTS
  Sessions = {s1, s2}
  Mounts = {m1}
  Bufs = {}
  Methods = {"SETUP", "PLAY"}
  Hangups = {}
  SockCap = 1
  MaxFrags = 1
  Client = Client
  Nobody = Nobody
SYMMETRY Symmetry
INVARIANTS PointersLive LockOrder
