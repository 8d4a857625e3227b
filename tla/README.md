# TLA+ models of the wireguard-rs workers and Linux UDP platform

This directory holds TLA+ models of two source files and the TLC
configurations that check them:

- `src/src/wireguard/workers.rs` has the TUN worker, the UDP workers and the
  handshake workers of a WireGuard device.
- `src/src/platform/linux/udp.rs` has the Linux UDP endpoint, bind, owner,
  reader and writer.

The handshake engine, the router and the peer timers are not in this
repository's sources. They appear only as the results and effects the
workers see, and those are modelled from `spec.md`.

## The system

A device runs the following threads:

- **A TUN worker.** It loads `wg.mtu` and sizes a buffer from it. It then
  blocks in `reader.read`, pads the IP packet to a multiple of 16 bytes,
  capped at the MTU it loaded, and hands the packet to the router.
- **One UDP worker per bound socket (IPv4 and IPv6).** Each loads the MTU
  and blocks in `recvmsg`. Datagrams that are short or of an unknown type
  are dropped. Transport messages go to the router. Handshake messages go
  to the bounded handshake channel; before sending one, the worker runs
  `pending.fetch_add(1)` and compares the old value with
  `THRESHOLD_UNDER_LOAD` to refresh `last_under_load`.
- **Several handshake workers** share the channel. For every job a worker
  receives it runs `pending.fetch_sub(1)`. What follows depends on the job:
  - A `Message` is fed to `device.process`. Any response is written through
    the writer. For an authenticated peer the worker then updates the
    peer's counters, endpoint and timers, and installs any new keypair,
    releasing the ids the router evicts.
  - A `New(pk)` job, queued by a timer (which counts it in `pending` too),
    starts an initiation and clears `handshake_queued`, when the peer still
    exists.
  - Each worker owns a `Receiver` of the crossbeam channel. A worker that
    panics drops it; once all are dropped the channel is disconnected and
    every `send` returns `Err` at once.

`LinuxUDP::bind` sets up the sockets:

- It calls `bind6` and then `bind4` on the port `bind6` reported.
- It returns the readers (raw fds), the writer (raw fds, `-1` for a family
  that did not bind) and the owner. Dropping the owner closes the fds.
  `set_fwmark` sets `SO_MARK` on sock6 and then on sock4.

## Modules

| Module | Models | State / actions |
|---|---|---|
| `Workers` | `udp_worker`, `handshake_worker` | See the list below. |
| `MCWorkers` | model values for `Workers` | |
| `HandshakeLoad` | the abstract under-load counter of `spec.md` 4.6 (i), 7 and S4/S5 | `inflight` is a multiset of handshake jobs. `Accept(m)` adds one and increments `pending`, and `Take(m)` removes one and decrements it. Each accepted job is weakly fair to be taken. |
| `TunWorker` | `tun_worker` | `TunLoad` (the MTU load), `TunRead` (read, pad, truncate, send), `TunReadError`, and the environment's `SetMtu`. Packet lengths come from the constant `PacketSizes`. |
| `UdpWorker` | `udp_worker` with datagram lengths | `UdpLoad` (the MTU load and `BufferSize`, `mtu + MAX_HANDSHAKE_MSG_SIZE`), `UdpRecv` (recvmsg cuts the datagram to the buffer, then `Demux`: the MTU-0 and short drops and the type match), `UdpReadError`, and `SetMtu`. The network may deliver a runt, an unknown type, each handshake message, and every transport length a peer with the current MTU sends (`TransportLen`). `lastRecv` records whether the datagram was cut and whether the buffer came from an MTU other than the current one; `staleReads` counts such reads since the last MTU change. |
| `Padding` | `padding` and its inner `min` | Pure operators, plus `RefPadding`, the reference definition they are checked against. |
| `MCTunWorker` | the TUN worker and a udp worker composed over the one `wg.mtu` (`DeviceSpec`: each worker steps alone, an MTU change is seen by both), and `padding` over all sizes and MTUs up to 40 | |
| `Endpoint` | `from_address`, `into_address`, `clear_src`, the endpoint `read4`/`read6` build (`RecvEndpoint`), and `write4`'s destination and source (`Wire4`) | Pure operators. A u32 is a list of 4 bytes in memory order, so every byte swap is a real `Reverse` and never the identity. |
| `MCEndpoint` | senders, local addresses and interfaces | |
| `Bind` | `bind6`, `bind4`, `bind`, `LinuxOwner::set_fwmark`, `drop`, a reader failing on a closed fd, the `LinuxUDPWriter` that `bind` returns and `write4` through it | `sock` is the kernel's fd table. `socket()` returns the lowest free fd. Each socket is tagged with the bind call that opened it, which the program cannot see. `writers` holds each writer's two fd numbers (`NoFd` for `-1`); `Write4` sends on `sock4` and records in `lastWrite` whether `sendmsg` failed with EBADF, EAFNOSUPPORT or transiently, or which socket and port the datagram left from. |
| `MCBind` | ports held by other programs | |

The state of `Workers`:

- `pending` is a `PendingWidth`-bit counter. The model uses a width of 3 so
  that wrapping shows. It uses `% 2^w`, as the `usize` atomic does.
- `queue` is the channel, bounded by `QUEUE_SIZE`.
- `udpPc`/`udpJob` and `hsPc`/`hsJob`/`hsRes` are the program counters of
  the threads. A UDP worker stops between the `fetch_add` and the channel
  send. A handshake worker stops between the receive and the `fetch_sub`,
  and between `process()` (with the response write) and the peer lookup,
  holding the result in `hsRes`. Those are the interleaving points that
  matter.
- `configured` is the set of peers in `wg.peers`. `endpoint` and
  `keypairs` hold the state of each peer.
- The engine's state, modelled from `spec.md`: `initStamp` is the stamp of
  the newest initiation accepted from each peer (replay protection), and
  `awaiting` says whether an initiation of ours waits for its response.
- `roaming` is a history variable. For each peer it holds the stamp and
  source of the last message the engine accepted from it.
  Message jobs carry a `seq` field, the datagram's arrival number, which
  stands for the peer's timestamp. It is set only when `TrackArrival` is
  TRUE, so the other runs pay nothing for it.
- `freeIds` holds the engine's free session ids.
- `respMarked` counts `sent_handshake_response` calls and `respWritten`
  counts writes that succeeded.

The actions of `Workers`:

- `UdpRecv` covers one `recvmsg` and what the worker does with the
  datagram: drop it, hand it to the router, or count it and hold it for the
  channel.
- `UdpEnqueue` is the channel send (`Send`): it blocks while the channel
  is full, and drops the job when the channel is disconnected.
- `UdpReadError` ends the worker.
- `HsDequeue` and `HsDecrement` are the receive and the `fetch_sub`.
- `HsProcess` is `process()` returning `Ok`, with the response write.
  The write outcome is `ok` or `err` for IPv4 and `panic` for IPv6
  (`write6` is `unimplemented!()`).
- `HsPeer` is the rest of the `Ok` arm: the lookup in `wg.peers`, and for
  a peer still there the counters, `set_endpoint`, the timers and the
  keypair install. A removed peer is skipped.
- `HsMessageErr` is the `Err` arm.
- `HsNew` handles a New job, for a configured or an unknown peer.
- The environment is modelled from the spec:
  - `TriggerHandshake`, the timer that sets `handshake_queued`, counts the
    job in `pending` and sends New;
  - `RemovePeer`, which drops the peer record and its keys; the engine
    releases every id it mapped to the peer;
  - `SetMtu`;
  - `SetWriter`.
- `process()` is abstracted to what it returns:
  - an initiation newer than the last one accepted from its peer gives
    the peer, a response and a keypair;
  - a response gives a peer and a keypair only while an initiation of
    ours awaits it, and consumes it;
  - a cookie reply gives neither;
  - any message may fail.
- `add_keypair` keeps the last `RouterSlots` ids and returns the ids it
  evicts.

Every operator named in `PROJECT.json` "map" gives the source lines it
translates. Operators whose names end in a fault (`UdpEnqueueUnbounded`,
`HsDecrementMissing`, `InstallKeypairNoRelease`, `HsMessageErrExits`,
`HsNewKeepsFlag`, `DisconnectedNever`, `paddingNoWrap`,
`RecvEndpointHostPort`, `BindFamilyUnchecked`, `SetFwmarkSkip4`,
`NewWriterSwapped`, `BufferSizePrefixOnly`, `UdpLoadOnce`) are plausible bugs of the definition that follows them.
They are used to confirm that each property can fail.

## Runs

### Passing runs

- **workers_pending** (`MCWorkers_pending.cfg`, about 250k states, 70 s)
  - Setup: one IPv4 UDP worker, two handshake workers, a 2-slot channel,
    2 datagrams of every kind, one initiation request, the removal of the
    peer, and one key slot.
  - `TypeOK`.
  - `LoadRefinement`: `Workers` implements `HandshakeLoad`.
    - The mapping sends `inflight` to the multiset of message jobs held
      before the channel send, queued, or received but not yet decremented,
      New jobs included. It sends `pending` to the code's counter.
    - Each `fetch_add` (with its send) is an `Accept` and each `fetch_sub`
      a `Take`. Every other step leaves both unchanged.
    - So no job is lost or duplicated between the two, `pending` is
      exact, and, under the workers' fairness, every accepted job is
      eventually taken.
  - `SessionIdsPartition`: every session id is free, held by one worker
    between `process()` and `add_keypair`, or in exactly one key slot,
    through evictions and through a peer removed while a worker holds a
    keypair for it.
- **workers_handshake** (`MCWorkers_handshake.cfg`, about 215k states)
  - Setup: a 1-slot channel, 2 handshake datagrams and 2 timer-initiated
    handshakes.
  - `HandshakeQueuedTracksJob`: the flag is set exactly while one New job
    exists.
  - `InitiationEventuallyHandled`.
- **workers_drain** (`MCWorkers_drain.cfg`, about 340k states)
  - Setup: an IPv4 and an IPv6 UDP worker, a 1-slot channel and 4
    initiations, so that both handshake workers can die in `write6` and a
    third and fourth message still need the channel.
  - `QueueDrains`: a UDP worker blocked on the channel always gets
    through, even once every handshake worker is dead, because the last
    dropped `Receiver` disconnects the channel. The mutant keeps a
    `Receiver` outside the workers (`DisconnectedNever`), and the sender
    then blocks forever.
- **tun** (`MCTunWorker.cfg`, about 216k states): the MTU moves between
  0, 40 and 160 under the TUN worker and a udp worker. Four properties are
  checked:
  - `NoTruncationAtLoadedMtu`: the udp worker's buffer holds every
    datagram sized for the MTU it loaded (the comment at workers.rs 107).
    A rise from 40 to 160 during `recvmsg` does cut a transport message,
    and the property shows that this is the only way one is cut. The
    mutant sizes the buffer as `mtu + SIZE_MESSAGE_PREFIX`.
  - `StaleReadAtMostOnce`: after an MTU change at most one datagram is read
    into a buffer from the old MTU (`spec.md` 5). The mutant loads the MTU
    once, before the loop.
  - `PaddingMatchesReference`: `padding` equals `RefPadding` for every
    size and MTU up to 40, and for the packet the TUN worker just padded,
    at MTU 160 too;
  - `PaddingIdempotent`, over the same inputs.
  - The parts over all sizes are constant definitions
    (`PaddingAgreesOnSizes`, `PaddingStableOnSizes`), which TLC evaluates
    once. That is why the device MTU variable is `wgMtu` and not `mtu`:
    TLC does not cache a constant definition that uses
    `padding(size, mtu)` while a state variable is named `mtu`.
  - `NoPacketTruncated` is not checked here: any MTU rise of more than 17
    bytes breaks it, which is what `tun_mtu` shows.
- **endpoint** (`MCEndpoint.cfg`): `ReplyToSender`, a reply to an
  endpoint that `read4` built goes to the sender's address and port.
- **bind** (`MCBind.cfg`, about 2.2M states, 40 s)
  - Setup: binds to fixed ports, failing syscalls, rebinds, fwmarks,
    drops and writes through every writer handed out.
  - `BindPortReported`: the owner's port is the port of its sockets.
  - `FwmarkOnSuccess`.
  - `WriterUsesOwnSocket`: while its bind is open, a write through the
    writer that bind returned fails only transiently and leaves from that
    bind's IPv4 socket and port, even after other binds failed, were
    dropped and had their fd numbers reused. The mutant swaps the
    writer's two fds (`NewWriterSwapped`).

### Violation runs

Each of these runs shows a bug in the code.

- **workers_threshold**: violates `UnderLoadNoticed`.
  - The old `fetch_add` value is compared (workers.rs 139).
  - THRESHOLD+1 messages in flight therefore do not mark the device under
    load (`spec.md` S4).
- **workers_response**: violates `ResponseMarkedOnlyWhenSent`.
  - `resp_len` is set before the writer is checked (workers.rs 202).
  - With no writer, or a failed write, the timers are still told a response
    was sent.
- **workers_ipv6**: violates `InitiationEventuallyHandled`.
  - A response to an IPv6 source panics each handshake worker (udp.rs 282).
  - The channel is then disconnected and every job is dropped, the
    timer's New job included, so `handshake_queued` stays set and no
    handshake completes again; `spec.md` 7 says a failed worker leaves the
    device working with reduced capability.
- **tun_mtu**: violates `NoPacketTruncated`.
  - The MTU is raised while the TUN worker is blocked in `read`
    (workers.rs 60-86).
  - The packet is then cut to the stale MTU, which is more than the "one
    suboptimal packet" of `spec.md` 5.
- **workers_roaming**: violates `EndpointIsLatest`.
  - Two initiations from one peer arrive from e1 and then from e2. Two
    handshake workers take them; the engine accepts the e1 one and then
    the newer e2 one, and the worker holding e2 reaches `set_endpoint`
    first.
  - `set_endpoint` then moves the peer back to e1 (workers.rs 229), although
    replies should go to "the address we last heard on" (`spec.md` 1 and
    4.6).
- **bind_rebind**: violates `ReaderOwnsSocket`.
  - After the owner is dropped and a new bind reuses the fd numbers, an old
    reader reads the new socket (udp.rs 364).

More bugs are stated as properties and shown with configurations that are
not among the runs above. TLC violates each one:

- `EndpointRoundTrip` (`MCEndpoint_roundtrip.cfg`): `into_address` reverses
  the address.
- `SendsToConfiguredAddress` (`MCEndpoint_configured.cfg`): `from_address`
  stores the port in host order.
- `ReplyFromAddressedLocal` (`MCEndpoint_source.cfg`): `msg_controllen: 1`
  drops `IP_PKTINFO`.
- `BindPortReported` with port 0 (`MCBind_anyport.cfg`): `getsockname` with
  `socklen` 0 means `bind(0)` reports 0.
- `NoFdLeak` (`MCBind_leak.cfg`): the error returns of `bind6`/`bind4` leak
  the fd.

## Bounds

- **Two handshake workers.** This is the least number that lets workers
  interleave on `pending` and the key slots.
- **Key slots and session ids.** `workers_pending` keeps one key slot,
  so the second keypair of a peer evicts the first, and an id that is not
  released is noticed; the other runs keep two slots and three ids.
- **A 3-bit counter.** `pending` is kept modular, as the `usize` is; with
  every job counted before it is taken it stays below 8.
- **A small channel.** A 1- or 2-slot channel makes the full-channel block
  reachable with 2 to 4 datagrams.
  - `workers_pending` uses 2 datagrams and one New job. That is enough to
    have two jobs held by the two handshake workers while a third waits in
    the channel, and to evict a keypair. Checking the refinement with its
    fairness makes larger instances too slow.
- **Two datagrams in `workers_roaming`.** Two is the least number that can
  reach `set_endpoint` out of order.
- **MTUs 0, 40 and 160 in `tun`.** The udp buffer is 116 bytes longer
  than the largest transport message of its own MTU, so only a rise of
  more than 116 can cut a datagram; 40 to 160 does. The TUN worker reads
  packets of the edge lengths 1, 15, 16, 17, 39, 40, 41, 159 and 160, at
  most two of them. The udp worker reads three datagrams; two are the
  least that let a worker that never reloads the MTU read twice from a
  stale buffer. `tun_mtu` reads every length from 1 to 40.
- **Padding inputs.** Sizes and MTUs up to 40 cover more than two multiples
  of 16 and an MTU that is not a multiple.
- **Four fds and two binds.** These are enough for reuse after a drop.

No run uses symmetry. The passing Workers runs check temporal
properties, and symmetry is not sound with liveness.

## Fairness

- Each handshake worker is weakly fair on its own steps. It is a thread
  that loops on the channel receive.
- Each UDP worker's channel send is weakly fair.
  - crossbeam's bounded `send` completes once there is room, or fails
    once the channel is disconnected.
- The network, the timers, MTU changes and writer changes get no
  fairness.
  - They may stop at any time.
  - So the liveness properties rest only on the workers' own progress.
- Deadlock checking is off. Bounded traffic ends with every thread blocked
  in a read, which the real program also does.

## Not modelled

- **The Noise handshake, cookies, the router and the timers.** They are not
  in these sources; only the results the workers see are modelled.
- **Logging.**
- **Lengths in `Workers`.** `Workers` keeps the UDP worker's pending
  counter and channel, and `UdpWorker` keeps its lengths. The two are not
  joined, because the truncation does not change what is queued.
- **The peer's MTU.** Transport messages are sized for the receiving
  device's current MTU. A peer configured with a larger MTU is an MTU
  mismatch, and `spec.md` rules out MTU discovery.
- **`read4`/`read6` on uninitialised control data.** The model assumes the
  kernel always delivers pktinfo.
- **`write6` through the writer.** It is `unimplemented!()`; the panic
  it causes is modelled in `Workers`, so `Bind` writes to IPv4 only.
- **The unused under-load signal.** `last_under_load` is computed, but
  `process()` is always called with `None`: the cookie check is commented
  out at workers.rs 188-196. Cookie validation belongs to the handshake
  engine, so no property can observe the difference.

