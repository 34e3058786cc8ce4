SPECIFICATION FairSpec
CONSTANTS
    MaxVersion = 2
    PageCount <- MCGrowing
    MaxFaults = 1
    Modes = {"auto"}
    AlwaysDated = TRUE
PROPERTIES
    EventuallyReady
