\* Locally triggered handshakes (New jobs) alongside received handshake
\* messages: the handshake_queued flag and progress of the channel under the
\* handshake workers' fairness.
CONSTANTS
    h1 = h1  h2 = h2  p1 = p1  p2 = p2  e1 = e1  e2 = e2  f1 = f1
    NoPeer = NoPeer  NoEndpoint = NoEndpoint
    HandshakeWorkers <- MCHandshakeWorkers
    Peers <- MCPeers
    SessionIds = {1, 2, 3}
    Mtus = {0, 1420}
    PendingWidth = 3
    RouterSlots = 2
    Endpoints4 <- MCEndpoints4
    Endpoints6 = {}
    UdpWorkers = {"V4"}
    THRESHOLD_UNDER_LOAD = 1
    QUEUE_SIZE = 1
    DatagramKinds = {"Initiation", "Response"}
    MaxDatagrams = 2
    MaxInitiations = 2
    TrackArrival = FALSE
    RemovablePeers = {}
SPECIFICATION Spec
INVARIANT HandshakeQueuedTracksJob
PROPERTY InitiationEventuallyHandled
CHECK_DEADLOCK FALSE
