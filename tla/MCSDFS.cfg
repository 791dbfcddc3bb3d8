CONSTANTS
    Nodes = {1, 2, 3}
    fa = fa
    fb = fb
    Files <- MCFiles
    Contents = {c1, c2}
    Clients = {cl}
    Readers = {}
    READ_CONSISTENCY = 2
    NUM_REPLICAS = 2
    QUORUM_SIZE = 1
    NUM_VERSIONS = 2
    RingSize = 8
    NodeRingId <- NodeRingIds
    FileRingId <- FileRingIds
    MaxClock = 3
    MaxRounds = 1
    TransportFailures = FALSE
    Absent = Absent
    None = None
SPECIFICATION Spec
SYMMETRY ContentSymmetry
INVARIANT ReservationsMatchTransfers
PROPERTY VersionedStoreRefined
