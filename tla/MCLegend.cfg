CONSTANTS
    A = A
    B = B
    NoValue = NoValue
    None = NoValue
    Legends <- MCLegends
    Lengths = {2}
    RowsIn = {2}
    Heights = {36}
SPECIFICATION Spec
INVARIANT ItemsInOwnCells
CHECK_DEADLOCK FALSE
