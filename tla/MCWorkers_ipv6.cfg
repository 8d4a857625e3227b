\* Handshake initiations arriving on the IPv6 socket: write6 panics each
\* handshake worker that answers one; a timer then requests a handshake.
CONSTANTS
    h1 = h1  h2 = h2  p1 = p1  p2 = p2  e1 = e1  e2 = e2  f1 = f1
    NoPeer = NoPeer  NoEndpoint = NoEndpoint
    HandshakeWorkers <- MCHandshakeWorkers
    Peers <- MCPeers
    SessionIds = {1, 2, 3}
    Mtus = {0, 1420}
    PendingWidth = 3
    RouterSlots = 2
    Endpoints4 = {}
    Endpoints6 <- MCEndpoints6
    UdpWorkers = {"V6"}
    THRESHOLD_UNDER_LOAD = 1
    QUEUE_SIZE = 1
    DatagramKinds = {"Initiation"}
    MaxDatagrams = 4
    MaxInitiations = 1
    TrackArrival = FALSE
    RemovablePeers = {}
SPECIFICATION Spec
PROPERTY InitiationEventuallyHandled
CHECK_DEADLOCK FALSE
