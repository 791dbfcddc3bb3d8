CONSTANTS
    Ids <- MCIds
    MaxCrashes = 1
    MP2Failures = TRUE
SPECIFICATION Spec
PROPERTY Settles
CHECK_DEADLOCK FALSE
