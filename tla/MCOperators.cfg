CONSTANTS
    Versions = {1, 2, 3, 4, 5}
    DiffVersions = {1, 2}
    FileNames = {fa, fb}
    Ks = {1, 2, 3}
    Nodes = {1, 2, 3, 4}
    RingSize = 8
    NodeRingId <- RingIdOf4
    NUM_REPLICAS = 2
SPECIFICATION Spec
INVARIANT NewestSurvives
INVARIANT DiffIsDifference
INVARIANT PartitionIsClockwiseSuccessors
