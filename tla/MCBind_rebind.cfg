\* A bind dropped and replaced while its udp workers still hold its readers.
CONSTANTS
    Fds = {3, 4, 5, 6}
    EphemeralPorts = {40000, 40001}
    Foreign <- MCForeign
    Marks = {0, 7}
    NoFd = NoFd
    RequestPorts = {51820}
    SyscallFailures = FALSE
    MaxBinds = 2
SPECIFICATION Spec
INVARIANT ReaderOwnsSocket
CHECK_DEADLOCK FALSE
