CONSTANTS
    Nodes = {1, 2}
    fa = fa
    fb = fb
    Files <- OneFile
    Contents = {c1}
    Clients = {cl}
    Readers = {rd}
    READ_CONSISTENCY = 2
    NUM_REPLICAS = 2
    QUORUM_SIZE = 1
    NUM_VERSIONS = 2
    RingSize = 8
    NodeRingId <- TwoNodeRingIds
    FileRingId <- OneFileRingId
    MaxClock = 2
    MaxRounds = 1
    TransportFailures = TRUE
    Absent = Absent
    None = None
SPECIFICATION Spec
INVARIANT ReservationsMatchTransfers
