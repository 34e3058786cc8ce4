SPECIFICATION FairSpec
CONSTANTS
    MaxVersion = 3
    RowCount <- MCRowCount
    PageSizes = {1, 2}
    MaxRestarts = 1
    MaxFaults = 2
INVARIANTS
    TypeOK
    ResumeIsExact
    ReconciledMeansWhole
PROPERTIES
    EventuallyLoaded
