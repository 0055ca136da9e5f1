CONSTANT Duration <- MCDuration
SPECIFICATION Spec
INVARIANT TypeOK
INVARIANT LabelsShownWhenOpen
CHECK_DEADLOCK FALSE
