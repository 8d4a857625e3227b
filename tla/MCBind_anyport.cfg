\* spec.md S1: bind to port 0.
CONSTANTS
    Fds = {3, 4, 5, 6}
    EphemeralPorts = {40000, 40001}
    Foreign <- MCForeign
    Marks = {0, 7}
    NoFd = NoFd
    RequestPorts = {0}
    SyscallFailures = FALSE
    MaxBinds = 1
SPECIFICATION Spec
INVARIANT BindPortReported
CHECK_DEADLOCK FALSE
