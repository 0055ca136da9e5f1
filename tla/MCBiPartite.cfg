CONSTANTS
    none = none
    NoHover = none
    Prim <- MCPrim
    Sec <- MCSec
    Vals <- MCVals
    Height = 100
    Pad = 1
    MinBar = 30

SPECIFICATION Spec

INVARIANT MainBarsFit

CHECK_DEADLOCK FALSE
