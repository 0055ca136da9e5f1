CONSTANTS
    A = A
    B = B
    NoValue = NoValue
    None = NoValue
    Charts <- MCTwoCharts
    Keys <- MCKeys
    Datasets <- MCDatasets

SPECIFICATION Spec

INVARIANT HoverShowsOwnRow
