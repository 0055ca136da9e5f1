CONSTANTS
    PastDuration <- MCPastDuration
    BrushWidth <- MCBrushWidth
    MaxTime <- MCMaxTime
    MaxPush <- MCMaxPush
    PushLag = 0

SPECIFICATION Spec

INVARIANT TypeOK
INVARIANT ViewportMatchesBrush
INVARIANT ViewportWithinWindow
INVARIANT RenderedInWindow
INVARIANT UniqueTickIds

PROPERTY ImplementsLiveWindow
