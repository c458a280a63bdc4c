SPECIFICATION Spec
CONSTANTS
    FirstDelay = 2
    DelayCap = 30
    CheckPeriod = 3
    StaleLimit = 2
    MaxMessages = 2
INVARIANTS OneRestart RestartOnlyWhenBroken ExitsInTime BackoffCutShort
PROPERTY ExitsOnlyWhenQuiet
