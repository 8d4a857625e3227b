----------------------------- MODULE UdpWorker -----------------------------
(***************************************************************************)
(* udp_worker of src/src/wireguard/workers.rs with datagram lengths: the   *)
(* MTU is loaded, a buffer of mtu + MAX_HANDSHAKE_MSG_SIZE bytes is        *)
(* allocated, and the worker blocks in recvmsg while the device may change *)
(* the MTU.  A datagram longer than the buffer is cut by the kernel.  The  *)
(* pending counter and the channel are modelled in Workers; here the       *)
(* outcome of the type de-multiplexer is recorded.                         *)
(***************************************************************************)
EXTENDS Naturals, Padding

CONSTANTS
    Mtus,                     \* values wg.mtu can take (0 = device down)
    MAX_HANDSHAKE_MSG_SIZE,   \* handshake::MAX_HANDSHAKE_MSG_SIZE
    SIZE_MESSAGE_PREFIX,      \* router::SIZE_MESSAGE_PREFIX
    CAPACITY_MESSAGE_POSTFIX, \* router::CAPACITY_MESSAGE_POSTFIX
    HandshakeSizes,           \* [handshake type -> length of its message]
    MaxDatagrams,             \* bound: datagrams received
    NoRecv                    \* model value: nothing received yet

ASSUME /\ 0 \in Mtus /\ Mtus \subseteq Nat
       /\ MAX_HANDSHAKE_MSG_SIZE \in Nat
       /\ \A k \in DOMAIN HandshakeSizes : HandshakeSizes[k] <= MAX_HANDSHAKE_MSG_SIZE
       /\ MaxDatagrams \in Nat

VARIABLES
    wgMtu,      \* wg.mtu
    udpPc,      \* "load" | "recv" | "exited"
    udpMtu,     \* the worker's local `mtu`, loaded at the top of the loop
    lastRecv,   \* the last datagram read: cut by recvmsg, buffer from an
                \* MTU other than the current one, and what the worker did
    staleReads, \* reads since the last MTU change whose buffer came from an older MTU
    delivered   \* bound counter: datagrams received

udpVars == <<udpPc, udpMtu, lastRecv, staleReads, delivered>>
vars == <<wgMtu, udpVars>>

HandshakeKinds == DOMAIN HandshakeSizes

\* The length of a transport message a peer with the same MTU sends: the
\* router frames a padded payload (tun_worker) with SIZE_MESSAGE_PREFIX
\* bytes of header and CAPACITY_MESSAGE_POSTFIX bytes of tag.
TransportLen(payload, m) ==
    SIZE_MESSAGE_PREFIX + padding(payload, m) + CAPACITY_MESSAGE_POSTFIX

\* What the network may deliver while the device MTU is m: a runt shorter
\* than the type field, a datagram of an unknown type, each handshake
\* message, and, with the device up, every transport message length.
Datagrams(m) ==
    {[type |-> "Short", len |-> 3], [type |-> "Unknown", len |-> 32]}
    \cup {[type |-> k, len |-> HandshakeSizes[k]] : k \in HandshakeKinds}
    \cup {[type |-> "Transport", len |-> TransportLen(p, m)] : p \in 1..m}

\* Fault: a buffer sized like the TUN worker's head-room only.
BufferSizePrefixOnly(m) == m + SIZE_MESSAGE_PREFIX

\* `let size = mtu + MAX_HANDSHAKE_MSG_SIZE` (workers.rs 108-110).
BufferSize(m) == m + MAX_HANDSHAKE_MSG_SIZE

\* The de-multiplexer after the truncation (workers.rs 121-157): with the
\* loaded MTU 0, or fewer than four bytes, the datagram is dropped; the
\* little-endian type field selects the handshake queue or router.recv.
Demux(type, got, m) ==
    IF m = 0 \/ got < 4 THEN "dropped"
    ELSE IF type \in HandshakeKinds THEN "handshake"
    ELSE IF type = "Transport" THEN "transport"
    ELSE "dropped"

Init ==
    /\ wgMtu \in Mtus
    /\ udpPc = "load"
    /\ udpMtu = 0
    /\ lastRecv = NoRecv
    /\ staleReads = 0
    /\ delivered = 0

\* Fault: the MTU loaded once, before the loop.
UdpLoadOnce ==
    /\ udpPc = "load"
    /\ udpMtu' = IF delivered = 0 THEN wgMtu ELSE udpMtu
    /\ udpPc' = "recv"
    /\ UNCHANGED <<wgMtu, lastRecv, staleReads, delivered>>

\* wg.mtu.load(Relaxed) at the top of the loop (workers.rs 106-110).
UdpLoad ==
    /\ udpPc = "load"
    /\ udpMtu' = wgMtu
    /\ udpPc' = "recv"
    /\ UNCHANGED <<wgMtu, lastRecv, staleReads, delivered>>

\* reader.read into the buffer, msg.truncate(size) and the de-multiplexer
\* (workers.rs 112-157).  recvmsg cuts a datagram to the buffer's length.
UdpRecv ==
    /\ udpPc = "recv"
    /\ delivered < MaxDatagrams
    /\ \E d \in Datagrams(wgMtu) :
         LET got == IF d.len <= BufferSize(udpMtu) THEN d.len ELSE BufferSize(udpMtu)
         IN  lastRecv' = [cut |-> got < d.len,
                          stale |-> udpMtu # wgMtu,
                          outcome |-> Demux(d.type, got, udpMtu)]
    /\ staleReads' = IF udpMtu # wgMtu THEN staleReads + 1 ELSE staleReads
    /\ delivered' = delivered + 1
    /\ udpPc' = "load"
    /\ UNCHANGED <<wgMtu, udpMtu>>

\* A failed read ends the worker (workers.rs 113-117).
UdpReadError ==
    /\ udpPc = "recv"
    /\ udpPc' = "exited"
    /\ UNCHANGED <<wgMtu, udpMtu, lastRecv, staleReads, delivered>>

\* The device stores a new MTU; the stale-read count starts again.
SetMtu ==
    /\ \E m \in Mtus \ {wgMtu} : wgMtu' = m
    /\ staleReads' = 0
    /\ UNCHANGED <<udpPc, udpMtu, lastRecv, delivered>>

WorkerNext == UdpLoad \/ UdpRecv \/ UdpReadError

Next == WorkerNext \/ SetMtu

Spec == Init /\ [][Next]_vars

-----------------------------------------------------------------------------
TypeOK ==
    /\ wgMtu \in Mtus /\ udpMtu \in Mtus
    /\ udpPc \in {"load", "recv", "exited"}
    /\ lastRecv = NoRecv \/ lastRecv.outcome \in {"dropped", "handshake", "transport"}
    /\ staleReads \in 0..MaxDatagrams
    /\ delivered \in 0..MaxDatagrams

\* The comment at workers.rs 107 ("big enough for any message given current
\* MTU"): a datagram sized for the MTU the worker loaded, handshake or
\* transport, is received whole; recvmsg cuts one only when the device
\* changed the MTU after the load.
NoTruncationAtLoadedMtu ==
    (lastRecv # NoRecv /\ lastRecv.cut) => lastRecv.stale

\* spec.md 5: the relaxed MTU load means "a stale read at most produces one
\* suboptimal packet": after an MTU change, at most one datagram is read
\* into a buffer sized from an older MTU, because the loop reloads it.
StaleReadAtMostOnce == staleReads <= 1

=============================================================================
