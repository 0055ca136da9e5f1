CONSTANTS
    v1 = v1
    v2 = v2
    v3 = v3
    NoValue = NoValue
    None = NoValue
    Values <- MCValues
    Datasets <- MCDatasets
    Checks <- MCChecks
    AllTrue <- MCAllTrue
    MaxLen = 3

SPECIFICATION Spec

INVARIANT TypeOK
INVARIANT CheckedMatchesSelection
PROPERTY ImplementsCheckSelection
