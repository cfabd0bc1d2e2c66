CONSTANTS
    c1 = c1
    c2 = c2
    c3 = c3
    Checks = {c1, c2, c3}
    Slots <- TwoSlots
    MaxBreaks = 2
SPECIFICATION Spec
INVARIANTS
    ChecksSound
    NoneForgotten
PROPERTIES
    AnsweredInTheEnd
CHECK_DEADLOCK FALSE
