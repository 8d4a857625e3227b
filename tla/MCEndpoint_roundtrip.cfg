\* spec.md 8.2 round trip of from_address and into_address.
CONSTANTS
    CMSG_HDR_LEN = 16
    Ips4 <- MCIps4
    Ips6 <- MCIps6
    Ports = {51820, 4660, 443, 1}
    LocalIps4 <- MCLocalIps4
    DefaultSource <- MCDefaultSource
    Interfaces = {1, 2}
SPECIFICATION Spec
INVARIANT EndpointRoundTrip
