SPECIFICATION FairSpec
CONSTANTS
    MaxVersion = 3
    PageCount <- MCPageCount
    MaxFaults = 2
    Modes = {"auto", "force", "poll_only", "reload"}
    AlwaysDated = TRUE
INVARIANTS
    TypeOK
    BaselineNotAhead
    HeldWholeOrReported
    RetainedNameNotAhead
PROPERTIES
    EventuallyCurrent
    ImplementsVersionedCopy
