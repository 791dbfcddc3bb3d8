CONSTANTS
    Nodes = {1, 2, 3}
    fa = fa
    fb = fb
    Files <- OneFile
    Contents = {c1}
    Clients = {cl}
    Readers = {}
    READ_CONSISTENCY = 2
    NUM_REPLICAS = 3
    QUORUM_SIZE = 2
    NUM_VERSIONS = 2
    RingSize = 8
    NodeRingId <- NodeRingIds
    FileRingId <- OneFileRingId
    MaxClock = 1
    MaxRounds = 2
    TransportFailures = FALSE
    Absent = Absent
    None = None
SPECIFICATION Spec
INVARIANT ReservationsMatchTransfers NoDuplicateFetch
PROPERTY ReservationsReleased
