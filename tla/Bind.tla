-------------------------------- MODULE Bind --------------------------------
(***************************************************************************)
(* LinuxUDP::bind, LinuxOwner (set_fwmark, drop) and the readers of         *)
(* src/src/platform/linux/udp.rs, over a model of the kernel's file        *)
(* descriptor table and UDP port space.  Sockets the code opens are        *)
(* tagged with the bind call that opened them (`gen`), which the program   *)
(* itself cannot see: readers and owners only hold raw fd numbers.         *)
(***************************************************************************)
EXTENDS Naturals, FiniteSets, FiniteSetsExt

CONSTANTS
    Fds,             \* descriptor numbers the process may use
    RequestPorts,    \* ports passed to bind (0 = any)
    EphemeralPorts,  \* ports the kernel picks for a bind to port 0
    Foreign,         \* [{"V4","V6"} -> ports held by other programs]
    Marks,           \* fwmark values passed to set_fwmark (0 = None)
    SyscallFailures, \* TRUE: setsockopt/getsockname may fail spuriously
    MaxBinds,        \* bound: calls of bind
    NoFd             \* model value: Option<RawFd>::None

Families == {"V4", "V6"}

ASSUME /\ Fds \subseteq Nat /\ Fds # {}
       /\ EphemeralPorts \subseteq Nat \ {0}
       /\ Foreign \in [Families -> SUBSET Nat]
       /\ 0 \in Marks
       /\ SyscallFailures \in BOOLEAN

NoWrite == [result |-> "none"]

ClosedSock == [state |-> "closed", family |-> "none", port |-> 0, mark |-> 0, gen |-> 0]

VARIABLES
    sock,     \* the fd table: sock[fd] is the socket behind fd
    owners,   \* live LinuxOwner values: [id, port, sock4, sock6]
    readers,  \* live LinuxUDPReader values of the udp workers: [fd, family, id]
    writers,  \* LinuxUDPWriter values handed out: [id, sock4, sock6]
    binds,    \* bind calls so far; the id of the next owner is binds + 1
    fwmark,   \* the last set_fwmark call: [id, mark, ok]
    lastWrite \* the outcome of the last write to a V4 endpoint

vars == <<sock, owners, readers, writers, binds, fwmark, lastWrite>>

-----------------------------------------------------------------------------
(* The kernel                                                              *)

\* socket(2) returns the lowest-numbered descriptor not open (POSIX).
FreeFds(tbl) == {f \in Fds : tbl[f].state = "closed"}

\* Ports a bind(2) of a socket with SO_REUSEADDR to `port` may end up on:
\* any free ephemeral port for 0, else the port unless another program
\* (without SO_REUSEADDR) holds it in that family.
PortChoices(family, port) ==
    IF port = 0 THEN EphemeralPorts \ Foreign[family]
    ELSE IF port \in Foreign[family] THEN {} ELSE {port}

\* setsockopt(2) returns 0, or -1 when SyscallFailures allows it
\* (setsockopt, udp.rs 136-168: a non-zero result becomes an io::Error).
SockoptResults == IF SyscallFailures THEN BOOLEAN ELSE {TRUE}

-----------------------------------------------------------------------------
(* bind6 / bind4 (udp.rs 387-528)                                          *)

\* Fault: the result of libc::bind not checked, so a socket whose bind
\* failed is returned unbound as if it were bound.
BindFamilyUnchecked(tbl, family, port, gen) ==
    IF FreeFds(tbl) = {} THEN {[ok |-> FALSE, tbl |-> tbl, fd |-> NoFd, port |-> port]}
    ELSE
    LET fd == Min(FreeFds(tbl))
        opened(p) == [tbl EXCEPT ![fd] = [state |-> "open", family |-> family,
                                          port |-> p, mark |-> 0, gen |-> gen]]
    IN  IF PortChoices(family, port) = {}
        THEN {[ok |-> TRUE, tbl |-> opened(0), fd |-> fd, port |-> port]}
        ELSE {[ok |-> TRUE, tbl |-> opened(p), fd |-> fd, port |-> port] :
                 p \in PortChoices(family, port)}

\* The outcomes of bind6 (family "V6") or bind4 (family "V4") called with
\* `port` on fd table tbl by bind call `gen`: socket() fails when no fd is
\* free; the setsockopt calls and getsockname may fail, and bind fails when
\* the port is taken.  Every error after socket() returns with `?` or
\* `return Err` and leaves the fd open.  getsockname is passed socklen = 0,
\* so the kernel copies no address back and new_port is the port requested.
BindFamily(tbl, family, port, gen) ==
    IF FreeFds(tbl) = {} THEN {[ok |-> FALSE, tbl |-> tbl, fd |-> NoFd, port |-> port]}
    ELSE
    LET fd == Min(FreeFds(tbl))
        opened(p) == [tbl EXCEPT ![fd] = [state |-> "open", family |-> family,
                                          port |-> p, mark |-> 0, gen |-> gen]]
        err(p) == [ok |-> FALSE, tbl |-> opened(p), fd |-> fd, port |-> port]
    IN  \* setsockopt_int(...)? fails
        (IF SyscallFailures THEN {err(0)} ELSE {})
        \* libc::bind fails
        \cup (IF SyscallFailures \/ PortChoices(family, port) = {}
              THEN {err(0)} ELSE {})
        \* bound, then getsockname fails
        \cup (IF SyscallFailures THEN {err(p) : p \in PortChoices(family, port)}
              ELSE {})
        \* Ok((new_port, fd)) with new_port read back from the unchanged sockaddr
        \cup {[ok |-> TRUE, tbl |-> opened(p), fd |-> fd, port |-> port] :
                 p \in PortChoices(family, port)}

\* Fault: the two descriptors of the writer swapped.
NewWriterSwapped(gen, r4, r6) ==
    [id |-> gen, sock4 |-> IF r6.ok THEN r6.fd ELSE NoFd,
                 sock6 |-> IF r4.ok THEN r4.fd ELSE NoFd]

\* The writer: sock4.unwrap_or(-1), sock6.unwrap_or(-1); NoFd stands for -1.
NewWriter(gen, r4, r6) ==
    [id |-> gen, sock4 |-> IF r4.ok THEN r4.fd ELSE NoFd,
                 sock6 |-> IF r6.ok THEN r6.fd ELSE NoFd]

\* PlatformUDP::bind (udp.rs 534-578): bind6 on the port, bind4 on the port
\* bind6 reported, fail with bind6's error when neither bound, else build
\* the owner (the port last reported), one reader per bound socket and the
\* writer.
Bind(port) ==
    /\ binds < MaxBinds
    /\ binds' = binds + 1
    /\ LET gen == binds + 1 IN
       \E r6 \in BindFamily(sock, "V6", port, gen) :
       LET port6 == IF r6.ok THEN r6.port ELSE port IN
       \E r4 \in BindFamily(r6.tbl, "V4", port6, gen) :
       LET port4 == IF r4.ok THEN r4.port ELSE port6 IN
       /\ sock' = r4.tbl
       /\ UNCHANGED <<fwmark, lastWrite>>
       /\ IF ~r6.ok /\ ~r4.ok
          THEN UNCHANGED <<owners, readers, writers>>
          ELSE /\ owners' = owners \cup
                   {[id |-> gen, port |-> port4,
                     sock6 |-> IF r6.ok THEN r6.fd ELSE NoFd,
                     sock4 |-> IF r4.ok THEN r4.fd ELSE NoFd]}
               /\ readers' = readers
                   \cup (IF r6.ok THEN {[fd |-> r6.fd, family |-> "V6", id |-> gen]} ELSE {})
                   \cup (IF r4.ok THEN {[fd |-> r4.fd, family |-> "V4", id |-> gen]} ELSE {})
               /\ writers' = writers \cup {NewWriter(gen, r4, r6)}

-----------------------------------------------------------------------------
(* LinuxOwner (udp.rs 340-367)                                             *)

OwnerFds(o) == {o.sock4, o.sock6} \ {NoFd}

\* Fault: set_mark applied to sock6 twice and never to sock4.
SetFwmarkSkip4(o, v) ==
    /\ o \in owners
    /\ \E ok6, ok4 \in SockoptResults :
         LET done6 == o.sock6 = NoFd \/ ok6
             done4 == o.sock6 = NoFd \/ ok4
             marked6 == IF o.sock6 # NoFd /\ ok6
                        THEN [sock EXCEPT ![o.sock6].mark = v] ELSE sock
         IN  /\ sock' = marked6
             /\ fwmark' = [id |-> o.id, mark |-> v, ok |-> done6 /\ done4]
    /\ UNCHANGED <<owners, readers, writers, binds, lastWrite>>

\* set_fwmark: SO_MARK on sock6, then, unless that failed, on sock4.
SetFwmark(o, v) ==
    /\ o \in owners
    /\ \E ok6, ok4 \in SockoptResults :
         LET done6 == o.sock6 = NoFd \/ ok6
             done4 == o.sock4 = NoFd \/ ok4
             marked6 == IF o.sock6 # NoFd /\ ok6
                        THEN [sock EXCEPT ![o.sock6].mark = v] ELSE sock
         IN  /\ sock' = IF o.sock4 # NoFd /\ done6 /\ ok4
                         THEN [marked6 EXCEPT ![o.sock4].mark = v] ELSE marked6
             /\ fwmark' = [id |-> o.id, mark |-> v, ok |-> done6 /\ done4]
    /\ UNCHANGED <<owners, readers, writers, binds, lastWrite>>

\* Drop for LinuxOwner: close sock4 and sock6.  The readers and the writer
\* keep the fd numbers.
DropOwner(o) ==
    /\ o \in owners
    /\ owners' = owners \ {o}
    /\ sock' = [f \in Fds |-> IF f \in OwnerFds(o) THEN ClosedSock ELSE sock[f]]
    /\ UNCHANGED <<readers, writers, binds, fwmark, lastWrite>>

\* A udp worker's reader.read on a closed fd fails with EBADF and the worker
\* returns (workers.rs 113-117); on an open fd it receives from whatever
\* socket the fd now names.
ReaderClosed(r) ==
    /\ r \in readers
    /\ sock[r.fd].state = "closed"
    /\ readers' = readers \ {r}
    /\ UNCHANGED <<sock, owners, writers, binds, fwmark, lastWrite>>

\* LinuxUDPWriter::write to a V4 endpoint: write4 on sock4 (udp.rs 316-338).
\* sendmsg fails with EBADF on -1 or a closed fd, with EAFNOSUPPORT when the
\* fd now names an IPv6 socket, and may fail transiently; otherwise the
\* datagram leaves from the socket the fd names.  (A V6 endpoint panics in
\* write6; that is modelled in Workers.)  `live` records whether the
\* writer's bind still had its owner at the time of the write.
Write4(w) ==
    /\ w \in writers
    /\ LET fd == w.sock4
           s == IF fd = NoFd THEN ClosedSock ELSE sock[fd]
           base == [id |-> w.id, live |-> \E o \in owners : o.id = w.id,
                    bound4 |-> fd # NoFd, gen |-> 0, port |-> 0,
                    result |-> "none"]
       IN  \/ /\ s.state = "closed"
              /\ lastWrite' = [base EXCEPT !.result = "EBADF"]
           \/ /\ s.state = "open" /\ s.family = "V6"
              /\ lastWrite' = [base EXCEPT !.result = "EAFNOSUPPORT"]
           \/ /\ s.state = "open" /\ s.family = "V4"
              /\ \E ok \in (IF SyscallFailures THEN BOOLEAN ELSE {TRUE}) :
                   lastWrite' = IF ok THEN [base EXCEPT !.result = "sent",
                                                        !.gen = s.gen, !.port = s.port]
                                      ELSE [base EXCEPT !.result = "transient"]
    /\ UNCHANGED <<sock, owners, readers, writers, binds, fwmark>>

Init ==
    /\ sock = [f \in Fds |-> ClosedSock]
    /\ owners = {}
    /\ readers = {}
    /\ writers = {}
    /\ binds = 0
    /\ fwmark = [id |-> 0, mark |-> 0, ok |-> TRUE]
    /\ lastWrite = NoWrite

Next ==
    \/ \E port \in RequestPorts : Bind(port)
    \/ \E o \in owners, v \in Marks : SetFwmark(o, v)
    \/ \E o \in owners : DropOwner(o)
    \/ \E r \in readers : ReaderClosed(r)
    \/ \E w \in writers : Write4(w)

Spec == Init /\ [][Next]_vars

-----------------------------------------------------------------------------
(* Properties                                                              *)

Sockets == [state : {"open"}, family : Families, port : Nat, mark : Marks,
            gen : 1..MaxBinds] \cup {ClosedSock}

TypeOK ==
    /\ sock \in [Fds -> Sockets]
    /\ \A o \in owners : o.id \in 1..MaxBinds /\ o.sock4 \in Fds \cup {NoFd}
                         /\ o.sock6 \in Fds \cup {NoFd}
    /\ \A r \in readers : r.fd \in Fds /\ r.family \in Families
    /\ binds \in 0..MaxBinds
    /\ fwmark.mark \in Marks /\ fwmark.ok \in BOOLEAN
    /\ \A w \in writers : w.id \in 1..MaxBinds /\ {w.sock4, w.sock6} \subseteq Fds \cup {NoFd}
    /\ lastWrite = NoWrite \/ lastWrite.result \in {"EBADF", "EAFNOSUPPORT", "transient", "sent"}

\* spec.md 4.2, 8.3, S1: the owner reports the port its sockets are bound to,
\* a non-zero port shared by both families, and each of its fds names a
\* socket this bind opened.
BindPortReported ==
    \A o \in owners :
        /\ o.port # 0
        /\ \A f \in OwnerFds(o) :
              sock[f].state = "open" /\ sock[f].gen = o.id /\ sock[f].port = o.port

\* When set_fwmark returned Ok, every socket of that bind carries the mark.
FwmarkOnSuccess ==
    \A o \in owners :
        (fwmark.id = o.id /\ fwmark.ok) =>
            \A f \in OwnerFds(o) : sock[f].mark = fwmark.mark

\* spec.md 4.2 ("a single writer capability" per bind) and 8.4: while its
\* bind is open, a reply through the writer that bind returned to an IPv4
\* endpoint fails only transiently, and leaves from that bind's IPv4
\* socket on the port the owner reports, whatever other binds, failed
\* binds and drops have done to the fd table.
WriterUsesOwnSocket ==
    (lastWrite # NoWrite /\ lastWrite.live /\ lastWrite.bound4) =>
        \/ lastWrite.result = "transient"
        \/ /\ lastWrite.result = "sent"
           /\ lastWrite.gen = lastWrite.id
           /\ \A o \in owners : o.id = lastWrite.id => o.port = lastWrite.port

\* spec.md 3 (iv): the sockets a bind opens are owned and closed by its
\* owner; no open socket is left without one.
NoFdLeak ==
    \A f \in Fds : sock[f].state = "open" => \E o \in owners : f \in OwnerFds(o)

\* spec.md 4.2: once its bind is closed a reader fails; it never reads from
\* a socket another bind opened.
ReaderOwnsSocket ==
    \A r \in readers : sock[r.fd].state = "open" => sock[r.fd].gen = r.id

=============================================================================
