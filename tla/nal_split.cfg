SPECIFICATION Spec
CONSTANTS
    Bytes = {0, 1}
    MaxSize = 13
    FirstCap = 1
INVARIANTS FedWhole RoomForUnits NothingKept
