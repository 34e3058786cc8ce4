SPECIFICATION Spec
CONSTANTS
    MaxVersion = 2
    MaxOutside = 2
    MaxRun = 1
    Interval = 1
INVARIANTS
    TypeOK
    OverdueMeansLate
    BlameIsJust
    BehindWasTrue
