\* The MTU raised from 8 to 40 while the TUN worker is blocked in its read.
CONSTANTS
    MESSAGE_PADDING_MULTIPLE = 16
    CAPACITY_MESSAGE_POSTFIX = 16
    Mtus = {0, 8, 40}
    MaxPackets = 3
    NoSend = NoSend
    MaxSize = 40
    PacketSizes <- MCAllPacketSizes
    SIZE_MESSAGE_PREFIX = 16
    MAX_HANDSHAKE_MSG_SIZE = 148
    HandshakeSizes <- MCHandshakeSizes
    MaxDatagrams = 0
    NoRecv = NoRecv
SPECIFICATION DeviceSpec
INVARIANT NoPacketTruncated
CHECK_DEADLOCK FALSE
