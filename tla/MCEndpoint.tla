----------------------------- MODULE MCEndpoint -----------------------------
(* The endpoint conversions over every sender address, local address and   *)
(* interface of a small host.                                              *)
EXTENDS Endpoint, FiniteSets

CONSTANTS Ips4, Ips6, Ports, LocalIps4, Interfaces, DefaultSource

ASSUME DefaultSource \in LocalIps4

MCIps4 == {<<10,0,0,1>>, <<192,168,7,2>>, <<172,16,0,9>>}
MCIps6 == {<<254,128,0,0,0,0,0,0,0,0,0,0,0,0,0,1>>,
           <<32,1,13,184,0,0,0,0,0,0,0,0,0,0,42,5>>}
MCLocalIps4 == {<<10,0,0,2>>, <<10,0,1,2>>, <<192,168,7,1>>}
MCDefaultSource == <<10,0,0,2>>

SocketAddrs ==
    [family : {"V4"}, ip : Ips4, port : Ports]
      \cup [family : {"V6"}, ip : Ips6, port : Ports]

VARIABLES sender, local, ifindex
vars == <<sender, local, ifindex>>

\* A datagram from `sender` arrives for local address `local` on `ifindex`;
\* for a configured peer, `sender` is also the address given to from_address.
Init == sender \in SocketAddrs /\ local \in LocalIps4 /\ ifindex \in Interfaces
Next == sender' \in SocketAddrs /\ local' \in LocalIps4 /\ ifindex' \in Interfaces
Spec == Init /\ [][Next]_vars

Received == RecvEndpoint(sender, IF sender.family = "V4" THEN local
                                 ELSE <<0,0,0,0,0,0,0,0,0,0,0,0,0,0,0,1>>,
                         ifindex)

\* A reply written by write4 to the endpoint read4 returned goes back to
\* the exact address and port the datagram came from: the byte order
\* conversions of recvmsg's sockaddr and of sendmsg cancel out.
ReplyToSender ==
    sender.family = "V4" => Wire4(Received, DefaultSource).dst = sender

\* spec.md 8.2: into_address(from_address(a)) = a.
EndpointRoundTrip == into_address(from_address(sender)) = sender

\* A datagram written to the endpoint built by from_address(a) (a peer's
\* configured endpoint) is sent to a.
SendsToConfiguredAddress ==
    sender.family = "V4" => Wire4(from_address(sender), DefaultSource).dst = sender

\* spec.md 4.2, 8.4: a reply to a received datagram leaves from the local
\* address that datagram was sent to.
ReplyFromAddressedLocal ==
    sender.family = "V4" => Wire4(Received, DefaultSource).from = local

=============================================================================
