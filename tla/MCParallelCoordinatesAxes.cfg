CONSTANTS
    None = NoValue
    NoValue = NoValue
    Dims <- MCDims
    Rows <- MCRows
    Width = 22
    Height = 4
    Xs <- MCXs
    Brushes <- MCBrushes
    Duration = 1
SPECIFICATION Spec
INVARIANT AxesInOrder
