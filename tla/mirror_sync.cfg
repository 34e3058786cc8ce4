SPECIFICATION FairSpec
CONSTANTS
    MaxVersion <- MCMaxVersion
    MaxFaults = 1
    MaxByHand = 1
    Outages <- MCOutages
    Selections <- MCAllLayers
    Modes <- MCEveryMode
INVARIANTS
    TypeOK
    ListsNotAhead
    
PROPERTIES
    HealthyLayersConverge
    ImplementsVersionedCopies
