----------------------------- MODULE TunWorker -----------------------------
(***************************************************************************)
(* tun_worker of src/src/wireguard/workers.rs: reads IP packets from the   *)
(* TUN device, pads them and hands them to the router.  The MTU is loaded  *)
(* before the blocking read and the device may change it meanwhile.        *)
(***************************************************************************)
EXTENDS Naturals, Padding

CONSTANTS
    Mtus,                     \* values wg.mtu can take (0 = device down)
    CAPACITY_MESSAGE_POSTFIX, \* router::CAPACITY_MESSAGE_POSTFIX
    MaxPackets,               \* bound: packets read from the TUN device
    PacketSizes,              \* lengths of the IP packets the TUN device may deliver
    NoSend                    \* model value: nothing handed to the router yet

ASSUME /\ 0 \in Mtus /\ Mtus \subseteq Nat
       /\ CAPACITY_MESSAGE_POSTFIX \in Nat
       /\ MaxPackets \in Nat /\ PacketSizes \subseteq Nat \ {0}

VARIABLES
    wgMtu,     \* wg.mtu
    tunPc,     \* "load" | "read" | "exited"
    loaded,    \* the worker's local `mtu`, loaded at the top of the loop
    lastSend,  \* the last message handed to router.send
    packets    \* bound counter: packets read so far

vars == <<wgMtu, tunPc, loaded, lastSend, packets>>

MaxMtu == CHOOSE m \in Mtus : \A n \in Mtus : n <= m

\* The TUN reader (spec.md 6) places the packet at SIZE_MESSAGE_PREFIX in a
\* buffer of mtu + SIZE_MESSAGE_PREFIX + 1 + CAPACITY_MESSAGE_POSTFIX bytes;
\* a longer packet is cut to the room after the prefix.
ReadLength(len, m) == min(len, m + 1 + CAPACITY_MESSAGE_POSTFIX)

Init ==
    /\ wgMtu \in Mtus
    /\ tunPc = "load"
    /\ loaded = 0
    /\ lastSend = NoSend
    /\ packets = 0

\* wg.mtu.load(Relaxed) and the buffer sized from it (workers.rs 60-62).
TunLoad ==
    /\ tunPc = "load"
    /\ loaded' = wgMtu
    /\ tunPc' = "read"
    /\ UNCHANGED <<wgMtu, lastSend, packets>>

\* reader.read returns a packet of at most the device's current MTU; with the
\* loaded MTU 0 it is dropped, otherwise the buffer is truncated to the
\* padded length and passed to router.send (workers.rs 65-99).
TunRead ==
    /\ tunPc = "read"
    /\ packets < MaxPackets
    /\ wgMtu > 0
    /\ \E len \in PacketSizes \cap 1..wgMtu :
         LET payload == ReadLength(len, loaded) IN
         /\ lastSend' = IF loaded = 0 THEN lastSend
                        ELSE [len |-> len, mtu |-> loaded,
                              padded |-> padding(payload, loaded)]
    /\ packets' = packets + 1
    /\ tunPc' = "load"
    /\ UNCHANGED <<wgMtu, loaded>>

\* A failed TUN read ends the worker (workers.rs 67-70).
TunReadError ==
    /\ tunPc = "read"
    /\ tunPc' = "exited"
    /\ UNCHANGED <<wgMtu, loaded, lastSend, packets>>

\* The device stores a new MTU (interface up, down or reconfigured).
SetMtu ==
    /\ \E m \in Mtus \ {wgMtu} : wgMtu' = m
    /\ UNCHANGED <<tunPc, loaded, lastSend, packets>>

Next == TunLoad \/ TunRead \/ TunReadError \/ SetMtu

Spec == Init /\ [][Next]_vars

-----------------------------------------------------------------------------
TypeOK ==
    /\ wgMtu \in Mtus
    /\ tunPc \in {"load", "read", "exited"}
    /\ loaded \in Mtus
    /\ lastSend \in {NoSend} \cup
         [len : 1..MaxMtu, mtu : Mtus, padded : 0..(MaxMtu + 1 + CAPACITY_MESSAGE_POSTFIX)]
    /\ packets \in 0..MaxPackets

\* Padding only adds bytes: the router is handed the whole IP packet the
\* TUN device delivered (spec.md 5: a stale MTU "at most produces one
\* suboptimal packet").
NoPacketTruncated == lastSend # NoSend => lastSend.padded >= lastSend.len

=============================================================================
