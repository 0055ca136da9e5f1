CONSTANTS
    PastDuration <- MCPastDuration
    BrushWidth <- MCBrushWidth
    MaxTime <- MCMaxTime
    MaxPush <- MCMaxPush
    PushLag = 1

SPECIFICATION Spec

INVARIANT Retained
