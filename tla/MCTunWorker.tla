---------------------------- MODULE MCTunWorker ----------------------------
(* The device's two loops: the TUN worker and a udp worker, both reading    *)
(* the one wg.mtu the device changes while they are blocked.               *)
EXTENDS TunWorker

CONSTANTS
    MaxSize,                \* bound: sizes and MTUs padding() is checked on
    MAX_HANDSHAKE_MSG_SIZE, SIZE_MESSAGE_PREFIX, HandshakeSizes,
    MaxDatagrams, NoRecv

VARIABLES udpPc, udpMtu, lastRecv, staleReads, delivered

Udp == INSTANCE UdpWorker

\* Initiation, response and cookie reply, as the handshake module sizes them.
MCHandshakeSizes == [Initiation |-> 148, Response |-> 92, CookieReply |-> 64]

tunVars == <<tunPc, loaded, lastSend, packets>>
udpVars == <<udpPc, udpMtu, lastRecv, staleReads, delivered>>

\* Each worker steps alone; an MTU change is seen by both.
DeviceNext ==
    \/ (TunLoad \/ TunRead \/ TunReadError) /\ UNCHANGED udpVars
    \/ Udp!WorkerNext /\ UNCHANGED tunVars
    \/ SetMtu /\ Udp!SetMtu

DeviceInit == Init /\ Udp!Init

DeviceSpec == DeviceInit /\ [][DeviceNext]_<<vars, udpVars>>

Sizes == 0..MaxSize

\* The padding checks over every size and MTU up to MaxSize.  As constant
\* definitions TLC evaluates them once, when the model starts.
PaddingAgreesOnSizes == \A s, m \in Sizes : padding(s, m) = RefPadding(s, m)
PaddingStableOnSizes == \A s, m \in Sizes : padding(padding(s, m), m) = padding(s, m)

\* Every packet length up to MaxSize.
MCAllPacketSizes == 1..MaxSize

\* The lengths at the padding and MTU edges: a multiple of 16, one either
\* side of it, and each MTU with one either side.
MCEdgePacketSizes == {1, 15, 16, 17, 39, 40, 41, 159, 160}

\* spec.md 4.3 and 8.1, S6: for every size and MTU the branch-free min and
\* the modular rounding of padding() compute the least multiple of
\* MESSAGE_PADDING_MULTIPLE that is at least size, capped at mtu; and so
\* does the padding the TUN worker just applied, at any device MTU.
PaddingMatchesReference ==
    /\ PaddingAgreesOnSizes
    /\ lastSend # NoSend =>
          LET payload == ReadLength(lastSend.len, lastSend.mtu)
          IN  lastSend.padded = RefPadding(payload, lastSend.mtu)

\* spec.md 8.1: padding an already padded length changes nothing, over the
\* bounded range and for the packet the TUN worker just padded.
PaddingIdempotent ==
    /\ PaddingStableOnSizes
    /\ lastSend # NoSend =>
          padding(lastSend.padded, lastSend.mtu) = lastSend.padded

\* The udp worker's buffer (workers.rs 107-110) holds every datagram sized
\* for the MTU it loaded; only an MTU changed during recvmsg cuts one.
NoTruncationAtLoadedMtu == Udp!NoTruncationAtLoadedMtu

\* spec.md 5: after an MTU change the udp worker reads at most one datagram
\* with a buffer sized from the old MTU (it reloads wg.mtu every loop).
StaleReadAtMostOnce == Udp!StaleReadAtMostOnce

=============================================================================
