\* Two initiations from one peer, arriving from e1 then e2, taken by two
\* handshake workers; the engine accepts them in arrival order (replay
\* protection), but the workers may reach set_endpoint in either order.
CONSTANTS
    h1 = h1  h2 = h2  p1 = p1  p2 = p2  e1 = e1  e2 = e2  f1 = f1
    NoPeer = NoPeer  NoEndpoint = NoEndpoint
    HandshakeWorkers <- MCHandshakeWorkers
    Peers <- MCPeers
    Endpoints4 <- MCEndpoints4
    Endpoints6 = {}
    UdpWorkers = {"V4"}
    SessionIds = {1, 2, 3}
    Mtus = {0, 1420}
    THRESHOLD_UNDER_LOAD = 1
    QUEUE_SIZE = 2
    PendingWidth = 3
    RouterSlots = 2
    DatagramKinds = {"Initiation"}
    MaxDatagrams = 2
    MaxInitiations = 0
    TrackArrival = TRUE
    RemovablePeers = {}
SPECIFICATION Spec
INVARIANT EndpointIsLatest
CHECK_DEADLOCK FALSE
