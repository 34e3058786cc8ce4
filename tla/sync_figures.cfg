SPECIFICATION Spec
CONSTANTS
    MaxVersion <- MCMaxVersion
    MaxFaults = 0
    MaxByHand = 1
    Outages <- MCNoOutage
    Selections <- MCAllLayers
    Modes <- MCWorkerOnly
INVARIANT
    FiguresAnswerForHeldRows
