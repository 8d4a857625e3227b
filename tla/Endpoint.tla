------------------------------ MODULE Endpoint ------------------------------
(***************************************************************************)
(* LinuxEndpoint of src/src/platform/linux/udp.rs and what the kernel      *)
(* makes of it.  A SocketAddr is the address as Rust's std::net sees it:   *)
(* its octets in network order and a host-order port.  The libc sockaddr  *)
(* fields are kept as the integer VALUES the Rust code stores; the bytes   *)
(* the kernel reads are their little-endian memory image (x86_64 and       *)
(* aarch64, the targets of this code).                                     *)
(***************************************************************************)
EXTENDS Naturals, Sequences, SequencesExt

CONSTANTS
    CMSG_HDR_LEN  \* sizeof(struct cmsghdr): the least msg_controllen the
                  \* kernel will look for a control message in

-----------------------------------------------------------------------------
(* Integer and byte conversions, by what they do on a little-endian host. *)

\* A u16 is an integer; a u32 is the list of its 4 bytes, most significant
\* first (TLC integers are 32-bit signed).
\* u16::swap_bytes: to_be() and from_be() on little endian
Swap16(x) == (x % 256) * 256 + x \div 256
\* u32::swap_bytes: to_be() and from_be() on little endian
Swap32(x) == Reverse(x)
\* u32::from(Ipv4Addr): the octets read as a big-endian number
U32FromOctets(o) == o
\* Ipv4Addr::from(u32): the big-endian bytes of the number
OctetsFromU32(x) == x
\* The bytes of a u32 value in memory, least significant first
MemBytes32(x) == Reverse(x)
\* Ipv6Addr::from(u128::from_ne_bytes(octets)): from_ne_bytes reads the
\* octets little-endian and Ipv6Addr::from lays the number out big-endian.
V6FromNeBytes(o) == Reverse(o)

-----------------------------------------------------------------------------
(* LinuxEndpoint                                                           *)

\* Endpoint::from_address (udp.rs 83-116): sin_addr is stored with to_be(),
\* the port with no conversion; the packet info is zeroed ("via routing
\* table").
from_address(a) ==
    IF a.family = "V4"
    THEN [family |-> "V4", port |-> a.port,
          addr |-> Swap32(U32FromOctets(a.ip)),
          ifindex |-> 0, src |-> <<0, 0, 0, 0>>]
    ELSE [family |-> "V6", port |-> a.port, addr |-> a.ip,
          ifindex |-> 0, src |-> <<>>]

\* Endpoint::into_address (udp.rs 118-133): the destination only.
into_address(e) ==
    IF e.family = "V4"
    THEN [family |-> "V4", ip |-> OctetsFromU32(e.addr), port |-> e.port]
    ELSE [family |-> "V6", ip |-> V6FromNeBytes(e.addr), port |-> e.port]

\* Endpoint::clear_src (udp.rs 70-81): zero the interface and source address.
clear_src(e) ==
    [e EXCEPT !.ifindex = 0, !.src = IF e.family = "V4" THEN <<0, 0, 0, 0>> ELSE <<>>]

\* Fault: the received port converted to host order (from_be) when the
\* endpoint is built, as from_address stores it.
RecvEndpointHostPort(sender, local, ifindex) ==
    IF sender.family = "V4"
    THEN [family |-> "V4", port |-> sender.port,
          addr |-> Reverse(sender.ip),
          ifindex |-> ifindex, src |-> Reverse(local)]
    ELSE [family |-> "V6", port |-> sender.port, addr |-> sender.ip,
          ifindex |-> ifindex, src |-> local]

\* read4 / read6 (udp.rs 171-264): recvmsg fills the sockaddr from the
\* sender's wire address (network byte order: the memory image of the
\* value is the octets) and the packet info from the
\* IP_PKTINFO / IPV6_PKTINFO control message: the local address the
\* datagram was sent to and the interface it arrived on.
RecvEndpoint(sender, local, ifindex) ==
    IF sender.family = "V4"
    THEN [family |-> "V4", port |-> Swap16(sender.port),
          addr |-> Reverse(sender.ip),
          ifindex |-> ifindex, src |-> Reverse(local)]
    ELSE [family |-> "V6", port |-> Swap16(sender.port), addr |-> sender.ip,
          ifindex |-> ifindex, src |-> local]

\* write4 (udp.rs 285-326): sendmsg to the endpoint's sockaddr with an
\* IP_PKTINFO control message but msg_controllen = 1.
WRITE4_CONTROLLEN == 1

\* What the kernel does with that sendmsg: the destination is read from the
\* sockaddr bytes, the port as big-endian; the control message is only
\* looked at when msg_controllen holds a cmsghdr, and a pinned source of 0
\* (cleared) also leaves the choice to the routing table.
Wire4(e, routeSrc) ==
    LET pinned == WRITE4_CONTROLLEN >= CMSG_HDR_LEN /\ e.src # <<0, 0, 0, 0>>
    IN  [dst  |-> [family |-> "V4", ip |-> MemBytes32(e.addr),
                   port |-> Swap16(e.port)],
         from |-> IF pinned THEN MemBytes32(e.src) ELSE routeSrc]

=============================================================================
