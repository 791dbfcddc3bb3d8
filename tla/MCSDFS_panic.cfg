CONSTANTS
    Nodes = {1, 2}
    fa = fa
    fb = fb
    Files <- OneFile
    Contents = {c1}
    Clients = {cl}
    Readers = {}
    READ_CONSISTENCY = 2
    NUM_REPLICAS = 2
    QUORUM_SIZE = 2
    NUM_VERSIONS = 2
    RingSize = 8
    NodeRingId <- TwoNodeRingIds
    FileRingId <- OneFileRingId
    MaxClock = 3
    MaxRounds = 2
    TransportFailures = FALSE
    Absent = Absent
    None = None
SPECIFICATION Spec
INVARIANT TypeOK ReservationsMatchTransfers
CHECK_DEADLOCK FALSE
