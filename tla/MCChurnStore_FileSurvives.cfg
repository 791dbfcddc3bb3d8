CONSTANTS
    Ids <- MCIds
    MaxCrashes = 0
    MP2Failures = FALSE
    NUM_REPLICAS = 2
    QUORUM_SIZE = 2
    RingId <- MCRingId
    FileRingId <- MCFileRingId
SPECIFICATION SpecS
INVARIANT FileSurvives
CHECK_DEADLOCK FALSE
