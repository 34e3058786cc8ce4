SPECIFICATION Spec
CONSTANTS
    Viewers = {v1}
    Items = {doorway}
    Statuses = {visit, scheduled}
    NotTriaged = NotTriaged
    MaxSaves = 2
    MaxNotes = 1
    MaxFaults = 2
INVARIANT
    NeverLeftUnrecorded
CHECK_DEADLOCK FALSE
