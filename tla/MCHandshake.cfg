SPECIFICATION FairSpec
CONSTANTS
    Disturbances <- AnyDisturbance
    MaxDisturb = 2
    MaxBegun = 7
    AppTasks <- AnyTask
    MaxTasks = 2
INVARIANTS
    ExchangeSound
    KeyConfirmed
PROPERTIES
    CompletesUndisturbed
CHECK_DEADLOCK FALSE
