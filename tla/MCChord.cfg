CONSTANTS
    A = A
    B = B
    NoValue = NoValue
    None = NoValue
    Charts <- MCOneChart
    Keys <- MCKeys
    Datasets <- MCDatasets

SPECIFICATION Spec

INVARIANT HoverShowsOwnRow
INVARIANT RefreshedShowsData
