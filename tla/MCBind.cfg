\* Binds to fixed ports, one of them taken for IPv6 by another program,
\* with spurious syscall failures, set_fwmark and drops.
CONSTANTS
    Fds = {3, 4, 5, 6}
    EphemeralPorts = {40000, 40001}
    Foreign <- MCForeign
    Marks = {0, 7}
    NoFd = NoFd
    RequestPorts = {51820, 4660}
    SyscallFailures = TRUE
    MaxBinds = 3
SPECIFICATION Spec
INVARIANT BindPortReported FwmarkOnSuccess WriterUsesOwnSocket
CHECK_DEADLOCK FALSE
