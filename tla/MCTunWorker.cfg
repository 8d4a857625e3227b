\* The device going up with MTU 40 or 160 and down, under the TUN worker and
\* a udp worker; a rise from 40 to 160 makes transport messages longer than
\* the udp worker's 188-byte buffer.
CONSTANTS
    MESSAGE_PADDING_MULTIPLE = 16
    CAPACITY_MESSAGE_POSTFIX = 16
    SIZE_MESSAGE_PREFIX = 16
    MAX_HANDSHAKE_MSG_SIZE = 148
    HandshakeSizes <- MCHandshakeSizes
    Mtus = {0, 40, 160}
    MaxPackets = 2
    MaxDatagrams = 3
    NoSend = NoSend
    NoRecv = NoRecv
    MaxSize = 40
    PacketSizes <- MCEdgePacketSizes
SPECIFICATION DeviceSpec
INVARIANT NoTruncationAtLoadedMtu StaleReadAtMostOnce PaddingMatchesReference PaddingIdempotent
CHECK_DEADLOCK FALSE
