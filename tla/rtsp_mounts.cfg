SPECIFICATION Spec
CONSTANTS
  Sessions = {s1}
  Mounts = {m1, m2}
  Bufs = {b1}
  Methods = {"OPTIONS", "DESCRIBE", "SETUP", "PLAY", "TEARDOWN"}
  Hangups = {"fin", "reset"}
  SockCap = 2
  MaxFrags = 2
  Client = Client
  Nobody = Nobody
SYMMETRY Symmetry
INVARIANTS NoMixedUnits RtpAfterPlayReply SnapshotValid
PROPERTIES ImplementsContract DeadStaysUnserved
