CONSTANTS
    b1 = b1
    b2 = b2
    Batches <- MCBatches
    MaxRenders <- MCMaxRenders

SPECIFICATION Spec

INVARIANT TicksForwarded
