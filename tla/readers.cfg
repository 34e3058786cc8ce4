SPECIFICATION Spec
CONSTANTS
    MaxVersion = 2
    MaxHandLoads = 1
    Routes <- MCRoutes
INVARIANTS
    TypeOK
    ReadinessNeverRetreats
    SelectionAndAttributesAgree
    ExportOfOneState
    DivergenceExplained
