SPECIFICATION Spec
CONSTANTS
    Absent = Absent
    Torn = Torn
    MaxWrites = 5
    Faults <- WriteFaults
INVARIANTS
    TypeOK
    LoadedSurvives
    ReportedDurable
PROPERTIES
    DurableNeverRegresses
