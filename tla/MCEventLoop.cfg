CONSTANTS
    IdleLimit = 0
    PushTimeout = 1
    PushPeriod = 2
    PushSlack = 1
    PushRetry = 1
    SleepTimeout = 1
    MaxReady = 1
    MaxTroubles = 2
SPECIFICATION Spec
INVARIANTS
    LoopSound
    WakesInTime
PROPERTIES
    TimedOutCloses
    PushRecovers
    SleepsInTheEnd
