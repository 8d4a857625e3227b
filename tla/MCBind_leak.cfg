\* A bind to a port another program holds for IPv6.
CONSTANTS
    Fds = {3, 4, 5, 6}
    EphemeralPorts = {40000, 40001}
    Foreign <- MCForeign
    Marks = {0, 7}
    NoFd = NoFd
    RequestPorts = {51820, 4660}
    SyscallFailures = FALSE
    MaxBinds = 2
SPECIFICATION Spec
INVARIANT NoFdLeak
CHECK_DEADLOCK FALSE
