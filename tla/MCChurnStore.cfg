CONSTANTS
    Ids <- MCIds2
    MaxCrashes = 1
    MP2Failures = TRUE
    NUM_REPLICAS = 1
    QUORUM_SIZE = 1
    RingId <- MCRingId2
    FileRingId <- MCFileRingId
SPECIFICATION SpecS
PROPERTY SettlesOnceRefreshesSucceed GCConverges
CHECK_DEADLOCK FALSE
