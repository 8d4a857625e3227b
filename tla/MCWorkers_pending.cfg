\* The pending counter and the session ids, under every interleaving of the
\* IPv4 udp_worker, two handshake workers, one timer-triggered handshake and
\* the removal of the peer.
CONSTANTS
    h1 = h1  h2 = h2  p1 = p1  p2 = p2  e1 = e1  e2 = e2  f1 = f1
    NoPeer = NoPeer  NoEndpoint = NoEndpoint
    HandshakeWorkers <- MCHandshakeWorkers
    Peers <- MCPeers
    Endpoints4 <- MCEndpoints4
    Endpoints6 = {}
    UdpWorkers = {"V4"}
    SessionIds = {1, 2, 3}
    Mtus = {0, 1420}
    THRESHOLD_UNDER_LOAD = 1
    QUEUE_SIZE = 2
    PendingWidth = 3
    RouterSlots = 1
    DatagramKinds = {"Initiation", "Response", "CookieReply", "Transport", "Short"}
    MaxDatagrams = 2
    MaxInitiations = 1
    TrackArrival = FALSE
    RemovablePeers <- MCPeers
SPECIFICATION Spec
INVARIANT TypeOK SessionIdsPartition
PROPERTY LoadRefinement
CHECK_DEADLOCK FALSE
