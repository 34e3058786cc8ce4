SPECIFICATION Spec
CONSTANTS
    MaxVersion = 3
    RowCount <- MCRowCount
    PageSizes = {1, 2}
    MaxRestarts = 0
    MaxFaults = 0
INVARIANT PulledNotAhead
