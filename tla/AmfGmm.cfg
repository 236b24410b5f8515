CONSTANTS
    MaxT3550RetryTimes = 1
    MaxT3560RetryTimes = 1
    MaxStray = 1
    MaxRunning = 1
SPECIFICATION Spec
INVARIANTS
    TypeOK
    OnlyConfirmed
    TimersFollowState
    ResetFindsTimer
PROPERTIES
    ImplementsLife
    TimersEnd
    GivenUp
CHECK_DEADLOCK FALSE
