SPECIFICATION Spec
CONSTANTS
    Viewers = {v1, v2}
    Items = {doorway}
    Statuses = {visit}
    NotTriaged = NotTriaged
    MaxSaves = 3
    MaxNotes = 1
    MaxFaults = 1
SYMMETRY ViewersAlike
INVARIANTS
    TypeOK
    OneFailureLeavesNothingUnrecorded
PROPERTY
    ChangedTimeAdvances
CHECK_DEADLOCK FALSE
