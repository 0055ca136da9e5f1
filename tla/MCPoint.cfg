CONSTANTS
    None = NoValue
    NoValue = NoValue
    Datasets <- MCDatasets
    Widths <- MCWidths
    DefaultWidth = 4
    Height = 4
    Rects <- MCRects
    OrientsIn <- MCOrients
    KeyScales <- MCKeyScales
    ValueScales <- MCValueScales
SPECIFICATION Spec
INVARIANT TypeOK
INVARIANT RefreshConsistent
INVARIANT FilterSelectsRect
