------------------------------ MODULE Workers ------------------------------
(***************************************************************************)
(* The worker threads of src/src/wireguard/workers.rs and the device state *)
(* they share: one udp_worker per bound socket family, a pool of           *)
(* handshake_worker threads draining the bounded handshake channel, the    *)
(* SeqCst `pending` counter, the per-peer `handshake_queued` flag, the     *)
(* writer slot and the router's keypair slots.                             *)
(*                                                                         *)
(* The handshake engine, the router and the peer timers are external       *)
(* collaborators (spec.md section 6): their observable contract is         *)
(* modelled here from the spec.  Payloads are abstracted to their message  *)
(* type and source endpoint.                                               *)
(***************************************************************************)
EXTENDS Naturals, Sequences, FiniteSets, SequencesExt

CONSTANTS
    UdpWorkers,           \* socket families with a udp_worker: SUBSET {"V4","V6"}
    HandshakeWorkers,     \* handshake_worker threads (model values)
    Peers,                \* public keys of configured peers (model values)
    Endpoints4,           \* IPv4 source endpoints datagrams arrive from
    Endpoints6,           \* IPv6 source endpoints datagrams arrive from
    SessionIds,           \* session ids the handshake engine hands out
    Mtus,                 \* MTU values the device can be set to (0 = down)
    THRESHOLD_UNDER_LOAD, \* constants::THRESHOLD_UNDER_LOAD
    QUEUE_SIZE,           \* capacity of the bounded handshake channel
    PendingWidth,         \* bit width of the usize `pending` counter
    RouterSlots,          \* keypairs the router keeps per peer
    DatagramKinds,        \* message types the network may deliver
    MaxDatagrams,         \* bound: datagrams delivered to the UDP readers
    MaxInitiations,       \* bound: locally triggered handshakes (New jobs)
    TrackArrival,         \* TRUE: stamp messages with their arrival order
    RemovablePeers,       \* peers the configuration may remove
    NoPeer, NoEndpoint    \* model values: "None"

HandshakeTypes == {"Initiation", "Response", "CookieReply"}
AllKinds == HandshakeTypes \cup {"Transport", "Unknown", "Short"}

ASSUME /\ UdpWorkers \subseteq {"V4", "V6"}
       /\ HandshakeWorkers # {}
       /\ DatagramKinds \subseteq AllKinds
       /\ 0 \in Mtus
       /\ QUEUE_SIZE \in Nat \ {0}
       /\ RouterSlots \in Nat \ {0}
       /\ PendingWidth \in Nat \ {0}
       /\ THRESHOLD_UNDER_LOAD \in Nat
       /\ RemovablePeers \subseteq Peers

Endpoints == Endpoints4 \cup Endpoints6
EndpointsOf(family) == IF family = "V4" THEN Endpoints4 ELSE Endpoints6

\* usize arithmetic of AtomicUsize::fetch_add / fetch_sub: wraps at 2^w
USIZE == 2 ^ PendingWidth
WrapAdd(x, d) == (x + d) % USIZE
WrapSub(x, d) == (x + USIZE - d) % USIZE

\* HandshakeJob<E>: Message(msg, src) abstracted to (type, src), or New(pk)
\* `seq` is a history field, not program state: the arrival number of the
\* datagram when TrackArrival holds, else 0.
MessageJob(kind, src, seq) == [tag |-> "Message", kind |-> kind, src |-> src, seq |-> seq]
NewJob(pk) == [tag |-> "New", pk |-> pk]
Stamps == IF TrackArrival THEN 0..MaxDatagrams ELSE {0}
Jobs == {MessageJob(k, e, n) : k \in HandshakeTypes, e \in Endpoints, n \in Stamps}
          \cup {NewJob(p) : p \in Peers}
NoJob == [tag |-> "None"]

\* What a handshake worker keeps between process() and the peer update:
\* the peer, the source, whether a response existed, the session id of a
\* new keypair (NoId for none).
NoId == 0
Result(pk, src, resp, id) == [pk |-> pk, src |-> src, resp |-> resp, id |-> id]
NoResult == Result(NoPeer, NoEndpoint, FALSE, NoId)

VARIABLES
    mtu,              \* wg.mtu (AtomicUsize)
    pending,          \* wg.pending (AtomicUsize, SeqCst)
    queue,            \* the bounded handshake channel, oldest first
    writer,           \* wg.send: TRUE when the Option<Writer> is Some
    udpPc,            \* per udp_worker: "recv" | "enqueue" | "exited"
    udpJob,           \* the job a udp_worker is about to send
    last_under_load,  \* per udp_worker: TRUE once refreshed from TIME_HORIZON
    hsPc,             \* per handshake_worker: "idle" | "dec" | "run" | "peer" | "dead"
    hsJob,            \* the job a handshake_worker has dequeued
    hsRes,            \* the Ok result a handshake_worker holds ("peer")
    configured,       \* wg.peers: the public keys with a peer record
    handshake_queued, \* peer.handshake_queued
    endpoint,         \* peer.router endpoint (set_endpoint)
    roaming,          \* history per peer: arrival stamp and source of the
                      \* last message the engine accepted from it
    initStamp,        \* engine: stamp of the newest initiation accepted
    awaiting,         \* engine: an initiation of ours awaits its response
    keypairs,         \* router key slots per peer: session ids, oldest first
    freeIds,          \* session ids not in use by the handshake engine
    respMarked,       \* per peer: sent_handshake_response() calls
    respWritten,      \* per peer: handshake responses the writer sent
    delivered,        \* bound counter: datagrams delivered so far
    initiations       \* bound counter: New jobs triggered so far

engineVars == <<roaming, initStamp, awaiting>>

vars == <<mtu, pending, queue, writer, udpPc, udpJob, last_under_load, hsPc,
          hsJob, hsRes, configured, handshake_queued, endpoint, engineVars,
          keypairs, freeIds, respMarked, respWritten, delivered, initiations>>

-----------------------------------------------------------------------------
(* The external collaborators, from their contract in spec.md section 6.  *)

\* Handshake engine `process(rng, msg, None)` when it returns Ok(pk, resp,
\* keypair) (it may also return Err for any message): an initiation from a
\* configured peer, newer than the last one accepted from it (replay
\* protection; stamps are tracked with TrackArrival only), yields a response
\* and a keypair; a response yields a keypair only while an initiation of
\* ours awaits it, and consumes it; a cookie reply yields neither.
ProcessResults(j) ==
    CASE j.kind = "Initiation" ->
            {[pk |-> p, resp |-> TRUE, kp |-> TRUE] :
                p \in {q \in configured : ~TrackArrival \/ j.seq > initStamp[q]}}
      [] j.kind = "Response" ->
            {[pk |-> p, resp |-> FALSE, kp |-> TRUE] :
                p \in {q \in configured : awaiting[q]}}
      [] OTHER ->
            {[pk |-> NoPeer, resp |-> FALSE, kp |-> FALSE]}

\* The engine's state after accepting job j from peer p.
Accepted(j, p) ==
    /\ roaming' = [roaming EXCEPT ![p] = [seq |-> j.seq, src |-> j.src]]
    /\ initStamp' = IF j.kind = "Initiation" THEN [initStamp EXCEPT ![p] = j.seq]
                                             ELSE initStamp
    /\ awaiting' = IF j.kind = "Response" THEN [awaiting EXCEPT ![p] = FALSE]
                                          ELSE awaiting

\* Router `add_keypair(kp)`: installs the keypair and returns the ids it
\* evicts, the oldest beyond RouterSlots.
AddKeypair(slots, id) ==
    LET s == Append(slots, id)
    IN  IF Len(s) > RouterSlots THEN SubSeq(s, Len(s) - RouterSlots + 1, Len(s))
                               ELSE s
Evicted(slots, id) == ToSet(Append(slots, id)) \ ToSet(AddKeypair(slots, id))

\* LinuxUDPWriter::write: a V4 endpoint is sent with sendmsg, which may fail;
\* write6 is `unimplemented!()` and panics the calling thread.
WriteResults(src) == IF src \in Endpoints4 THEN {"ok", "err"} ELSE {"panic"}

\* Fault: a Receiver kept outside the workers (a clone of rx held by the
\* device), so the channel never disconnects.
DisconnectedNever == FALSE

\* The crossbeam channel is disconnected once every Receiver is dropped:
\* each handshake_worker owns one (`rx`) and drops it when it dies.
Disconnected == \A h \in HandshakeWorkers : hsPc[h] = "dead"

\* queue.send(job): blocks while the bounded channel is full, and returns
\* Err at once, dropping the job, when it is disconnected.
Send(job) ==
    \/ ~Disconnected /\ Len(queue) < QUEUE_SIZE /\ queue' = Append(queue, job)
    \/ Disconnected /\ UNCHANGED queue

-----------------------------------------------------------------------------
Init ==
    /\ mtu = 0
    /\ pending = 0
    /\ queue = <<>>
    /\ writer \in BOOLEAN
    /\ udpPc = [u \in UdpWorkers |-> "recv"]
    /\ udpJob = [u \in UdpWorkers |-> NoJob]
    /\ last_under_load = [u \in UdpWorkers |-> FALSE]
    /\ hsPc = [h \in HandshakeWorkers |-> "idle"]
    /\ hsJob = [h \in HandshakeWorkers |-> NoJob]
    /\ hsRes = [h \in HandshakeWorkers |-> NoResult]
    /\ configured = Peers
    /\ handshake_queued = [p \in Peers |-> FALSE]
    /\ endpoint = [p \in Peers |-> NoEndpoint]
    /\ roaming = [p \in Peers |-> [seq |-> 0, src |-> NoEndpoint]]
    /\ initStamp = [p \in Peers |-> 0]
    /\ awaiting = [p \in Peers |-> FALSE]
    /\ keypairs = [p \in Peers |-> <<>>]
    /\ freeIds = SessionIds
    /\ respMarked = [p \in Peers |-> 0]
    /\ respWritten = [p \in Peers |-> 0]
    /\ delivered = 0
    /\ initiations = 0

-----------------------------------------------------------------------------
(* udp_worker (workers.rs 103-160)                                        *)

\* One iteration up to the channel send: load the MTU, receive a datagram
\* from this worker's socket, drop it when the device is down (mtu = 0) or
\* it is shorter than the 4-byte type, then demultiplex on the type.  A
\* handshake message increments `pending` (fetch_add returns the old value,
\* which is compared with THRESHOLD_UNDER_LOAD) and is then sent to the
\* channel in UdpEnqueue, where the worker may block.
UdpRecv(u) ==
    /\ udpPc[u] = "recv"
    /\ delivered < MaxDatagrams
    /\ delivered' = delivered + 1
    /\ \E kind \in DatagramKinds, src \in EndpointsOf(u) :
         \/ /\ mtu = 0 \/ kind \in {"Short", "Unknown"}
            /\ UNCHANGED <<pending, udpPc, udpJob, last_under_load>>
         \/ /\ mtu # 0 /\ kind = "Transport"
            \* router.recv(src, msg): decryption is the router's, errors logged
            /\ UNCHANGED <<pending, udpPc, udpJob, last_under_load>>
         \/ /\ mtu # 0 /\ kind \in HandshakeTypes
            /\ pending' = WrapAdd(pending, 1)
            /\ last_under_load' =
                 IF pending > THRESHOLD_UNDER_LOAD
                 THEN [last_under_load EXCEPT ![u] = TRUE]
                 ELSE last_under_load
            /\ udpPc' = [udpPc EXCEPT ![u] = "enqueue"]
            /\ udpJob' = [udpJob EXCEPT ![u] = MessageJob(kind, src, IF TrackArrival THEN delivered + 1 ELSE 0)]
    /\ UNCHANGED <<mtu, queue, writer, hsPc, hsJob, hsRes, configured, handshake_queued,
                   endpoint, engineVars, keypairs, freeIds, respMarked, respWritten,
                   initiations>>

\* Fault: an unbounded channel (the send never blocks).
UdpEnqueueUnbounded(u) ==
    /\ udpPc[u] = "enqueue"
    /\ queue' = Append(queue, udpJob[u])
    /\ udpPc' = [udpPc EXCEPT ![u] = "recv"]
    /\ udpJob' = [udpJob EXCEPT ![u] = NoJob]
    /\ UNCHANGED <<mtu, pending, writer, last_under_load, hsPc, hsJob, hsRes,
                   configured, handshake_queued, endpoint, engineVars, keypairs,
                   freeIds, respMarked, respWritten, delivered, initiations>>

\* wg.queue.send(HandshakeJob::Message(msg, src)), its result ignored.
UdpEnqueue(u) ==
    /\ udpPc[u] = "enqueue"
    /\ Send(udpJob[u])
    /\ udpPc' = [udpPc EXCEPT ![u] = "recv"]
    /\ udpJob' = [udpJob EXCEPT ![u] = NoJob]
    /\ UNCHANGED <<mtu, pending, writer, last_under_load, hsPc, hsJob, hsRes,
                   configured, handshake_queued, endpoint, engineVars, keypairs,
                   freeIds, respMarked, respWritten, delivered, initiations>>

\* reader.read fails once the bind's socket is closed: the worker returns.
UdpReadError(u) ==
    /\ udpPc[u] = "recv"
    /\ udpPc' = [udpPc EXCEPT ![u] = "exited"]
    /\ UNCHANGED <<mtu, pending, queue, writer, udpJob, last_under_load, hsPc,
                   hsJob, hsRes, configured, handshake_queued, endpoint, engineVars,
                   keypairs, freeIds, respMarked, respWritten, delivered, initiations>>

-----------------------------------------------------------------------------
(* handshake_worker (workers.rs 162-280)                                  *)

\* `for job in rx`: take the oldest job from the channel.
HsDequeue(h) ==
    /\ hsPc[h] = "idle"
    /\ queue # <<>>
    /\ hsJob' = [hsJob EXCEPT ![h] = Head(queue)]
    /\ queue' = Tail(queue)
    /\ hsPc' = [hsPc EXCEPT ![h] = "dec"]
    /\ UNCHANGED <<mtu, pending, writer, udpPc, udpJob, last_under_load, hsRes,
                   configured, handshake_queued, endpoint, engineVars, keypairs,
                   freeIds, respMarked, respWritten, delivered, initiations>>

\* Fault: the decrement lost (e.g. moved into an arm that is not taken).
HsDecrementMissing(h) ==
    /\ hsPc[h] = "dec"
    /\ hsPc' = [hsPc EXCEPT ![h] = "run"]
    /\ UNCHANGED <<mtu, pending, queue, writer, udpPc, udpJob, last_under_load,
                   hsJob, hsRes, configured, handshake_queued, endpoint, engineVars,
                   keypairs, freeIds, respMarked, respWritten, delivered, initiations>>

\* wg.pending.fetch_sub(1, SeqCst), done for every job whatever its kind.
HsDecrement(h) ==
    /\ hsPc[h] = "dec"
    /\ pending' = WrapSub(pending, 1)
    /\ hsPc' = [hsPc EXCEPT ![h] = "run"]
    /\ UNCHANGED <<mtu, queue, writer, udpPc, udpJob, last_under_load, hsJob, hsRes,
                   configured, handshake_queued, endpoint, engineVars, keypairs,
                   freeIds, respMarked, respWritten, delivered, initiations>>

\* HandshakeJob::Message(msg, src), up to the peer lookup (workers.rs
\* 179-217): process() returns Ok, allocating a session id for a new
\* keypair; a response is sent through the writer when one is present (a
\* failed send is only logged; a V6 destination panics the thread in write6,
\* and the id is never released).  With no authenticated peer the job ends.
HsProcess(h) ==
    /\ hsPc[h] = "run"
    /\ hsJob[h].tag = "Message"
    /\ LET j == hsJob[h] IN
       \E r \in ProcessResults(j) :
       \E id \in (IF r.kp THEN freeIds ELSE {NoId}) :
       \E w \in (IF r.resp /\ writer THEN WriteResults(j.src) ELSE {"none"}) :
         /\ freeIds' = freeIds \ {id}
         /\ hsPc' = [hsPc EXCEPT ![h] = CASE w = "panic"  -> "dead"
                                          [] r.pk = NoPeer -> "idle"
                                          [] OTHER         -> "peer"]
         /\ hsRes' = [hsRes EXCEPT ![h] = IF w = "panic" \/ r.pk = NoPeer THEN NoResult
                                          ELSE Result(r.pk, j.src, r.resp, id)]
         /\ respWritten' = IF w = "ok" THEN [respWritten EXCEPT ![r.pk] = @ + 1]
                                       ELSE respWritten
         /\ IF r.pk = NoPeer THEN UNCHANGED engineVars ELSE Accepted(j, r.pk)
    /\ hsJob' = [hsJob EXCEPT ![h] = NoJob]
    /\ UNCHANGED <<mtu, pending, queue, writer, udpPc, udpJob, last_under_load,
                   configured, handshake_queued, endpoint, keypairs, respMarked,
                   delivered, initiations>>

\* Fault: the evicted session ids are not handed back to the engine.
InstallKeypairNoRelease(pk, id, free) ==
    /\ keypairs' = [keypairs EXCEPT ![pk] = AddKeypair(@, id)]
    /\ freeIds' = free

\* keypair.map(...): timers_session_derived, then peer.router.add_keypair
\* and device.release for every id the router evicts.
InstallKeypair(pk, id, free) ==
    /\ keypairs' = [keypairs EXCEPT ![pk] = AddKeypair(@, id)]
    /\ freeIds' = free \cup Evicted(keypairs[pk], id)

\* wg.peers.read().get(pk) and, for a peer still configured, the update
\* (workers.rs 219-257): credit its byte counters, set its endpoint to src,
\* fire sent_handshake_response when a response existed (resp_len > 0) or
\* timers_handshake_complete otherwise, and install any new keypair.  A
\* peer removed since process() is skipped and the keypair dropped.
HsPeer(h) ==
    /\ hsPc[h] = "peer"
    /\ LET r == hsRes[h] IN
       IF r.pk \in configured
       THEN /\ endpoint' = [endpoint EXCEPT ![r.pk] = r.src]
            /\ respMarked' = IF r.resp THEN [respMarked EXCEPT ![r.pk] = @ + 1]
                                       ELSE respMarked
            /\ IF r.id # NoId THEN InstallKeypair(r.pk, r.id, freeIds)
                              ELSE UNCHANGED <<keypairs, freeIds>>
       ELSE UNCHANGED <<endpoint, respMarked, keypairs, freeIds>>
    /\ hsPc' = [hsPc EXCEPT ![h] = "idle"]
    /\ hsRes' = [hsRes EXCEPT ![h] = NoResult]
    /\ UNCHANGED <<mtu, pending, queue, writer, udpPc, udpJob, last_under_load,
                   hsJob, configured, handshake_queued, engineVars, respWritten,
                   delivered, initiations>>

\* Fault: the worker leaves its loop when process() fails.
HsMessageErrExits(h) ==
    /\ hsPc[h] = "run"
    /\ hsJob[h].tag = "Message"
    /\ hsPc' = [hsPc EXCEPT ![h] = "dead"]
    /\ hsJob' = [hsJob EXCEPT ![h] = NoJob]
    /\ UNCHANGED <<mtu, pending, queue, writer, udpPc, udpJob, last_under_load,
                   hsRes, configured, handshake_queued, endpoint, engineVars,
                   keypairs, freeIds, respMarked, respWritten, delivered, initiations>>

\* HandshakeJob::Message(msg, src) when process() returns Err: logged and
\* dropped (workers.rs 259).
HsMessageErr(h) ==
    /\ hsPc[h] = "run"
    /\ hsJob[h].tag = "Message"
    /\ hsPc' = [hsPc EXCEPT ![h] = "idle"]
    /\ hsJob' = [hsJob EXCEPT ![h] = NoJob]
    /\ UNCHANGED <<mtu, pending, queue, writer, udpPc, udpJob, last_under_load,
                   hsRes, configured, handshake_queued, endpoint, engineVars,
                   keypairs, freeIds, respMarked, respWritten, delivered, initiations>>

\* Fault: handshake_queued never reset after the initiation.
HsNewKeepsFlag(h) ==
    /\ hsPc[h] = "run"
    /\ hsJob[h].tag = "New"
    /\ hsPc' = [hsPc EXCEPT ![h] = "idle"]
    /\ hsJob' = [hsJob EXCEPT ![h] = NoJob]
    /\ awaiting' = IF hsJob[h].pk \in configured
                   THEN [awaiting EXCEPT ![hsJob[h].pk] = TRUE] ELSE awaiting
    /\ UNCHANGED <<mtu, pending, queue, writer, udpPc, udpJob, last_under_load,
                   hsRes, configured, handshake_queued, endpoint, roaming, initStamp,
                   keypairs, freeIds, respMarked, respWritten, delivered, initiations>>

\* HandshakeJob::New(pk): when the peer is still configured, begin() builds
\* an initiation that peer.router.send transmits (success or failure only
\* logged) and the engine now awaits its response; handshake_queued is
\* cleared whatever the send did.  An unknown peer is skipped (S5).
HsNew(h) ==
    /\ hsPc[h] = "run"
    /\ hsJob[h].tag = "New"
    /\ LET p == hsJob[h].pk IN
       IF p \in configured
       THEN /\ awaiting' = [awaiting EXCEPT ![p] = TRUE]
            /\ handshake_queued' = [handshake_queued EXCEPT ![p] = FALSE]
       ELSE UNCHANGED <<awaiting, handshake_queued>>
    /\ hsPc' = [hsPc EXCEPT ![h] = "idle"]
    /\ hsJob' = [hsJob EXCEPT ![h] = NoJob]
    /\ UNCHANGED <<mtu, pending, queue, writer, udpPc, udpJob, last_under_load,
                   hsRes, configured, endpoint, roaming, initStamp, keypairs,
                   freeIds, respMarked, respWritten, delivered, initiations>>

-----------------------------------------------------------------------------
(* The environment of the workers, from spec.md (code outside src/).      *)

\* A peer timer asks for a handshake: handshake_queued.swap(true) and, when
\* it was false, pending.fetch_add(1) and queue.send(HandshakeJob::New(pk))
\* (spec.md 4.6 (i) and S5: the worker's fetch_sub is matched).
TriggerHandshake(p) ==
    /\ p \in configured
    /\ initiations < MaxInitiations
    /\ ~handshake_queued[p]
    /\ handshake_queued' = [handshake_queued EXCEPT ![p] = TRUE]
    /\ pending' = WrapAdd(pending, 1)
    /\ Send(NewJob(p))
    /\ initiations' = initiations + 1
    /\ UNCHANGED <<mtu, writer, udpPc, udpJob, last_under_load, hsPc, hsJob, hsRes,
                   configured, endpoint, engineVars, keypairs, freeIds, respMarked,
                   respWritten, delivered>>

\* Removing a peer drops its record from wg.peers and its router keys;
\* the engine's remove releases every session id it mapped to the peer,
\* those of a keypair a worker holds between process() and the lookup too.
RemovePeer(p) ==
    /\ p \in configured \cap RemovablePeers
    /\ configured' = configured \ {p}
    /\ freeIds' = freeIds \cup ToSet(keypairs[p])
                    \cup ({hsRes[h].id : h \in {g \in HandshakeWorkers :
                                                  hsRes[g].pk = p}} \ {NoId})
    /\ keypairs' = [keypairs EXCEPT ![p] = <<>>]
    /\ UNCHANGED <<mtu, pending, queue, writer, udpPc, udpJob, last_under_load,
                   hsPc, hsJob, hsRes, handshake_queued, endpoint, engineVars,
                   respMarked, respWritten, delivered, initiations>>

\* Device up/down and MTU changes store a new value in wg.mtu.
SetMtu ==
    /\ \E m \in Mtus \ {mtu} : mtu' = m
    /\ UNCHANGED <<pending, queue, writer, udpPc, udpJob, last_under_load, hsPc,
                   hsJob, hsRes, configured, handshake_queued, endpoint, engineVars,
                   keypairs, freeIds, respMarked, respWritten, delivered, initiations>>

\* Reconfiguration replaces or clears the writer in wg.send.
SetWriter ==
    /\ writer' = ~writer
    /\ UNCHANGED <<mtu, pending, queue, udpPc, udpJob, last_under_load, hsPc,
                   hsJob, hsRes, configured, handshake_queued, endpoint, engineVars,
                   keypairs, freeIds, respMarked, respWritten, delivered, initiations>>

-----------------------------------------------------------------------------
Next ==
    \/ \E u \in UdpWorkers : UdpRecv(u) \/ UdpEnqueue(u) \/ UdpReadError(u)
    \/ \E h \in HandshakeWorkers :
         \/ HsDequeue(h) \/ HsDecrement(h) \/ HsProcess(h) \/ HsPeer(h)
         \/ HsMessageErr(h) \/ HsNew(h)
    \/ \E p \in Peers : TriggerHandshake(p) \/ RemovePeer(p)
    \/ SetMtu
    \/ SetWriter

\* The worker threads are OS threads: a runnable one is eventually scheduled.
\* A blocked channel send or receive proceeds once the channel allows it.
\* Datagram arrival, timers, reconfiguration and socket closure are the
\* environment's and are not fair.
Fairness ==
    /\ \A u \in UdpWorkers : WF_vars(UdpEnqueue(u))
    /\ \A h \in HandshakeWorkers :
         WF_vars(HsDequeue(h) \/ HsDecrement(h) \/ HsProcess(h) \/ HsPeer(h)
                 \/ HsMessageErr(h) \/ HsNew(h))

Spec == Init /\ [][Next]_vars /\ Fairness

-----------------------------------------------------------------------------
(* Properties                                                              *)

TypeOK ==
    /\ mtu \in Mtus
    /\ pending \in 0..(USIZE - 1)
    /\ queue \in Seq(Jobs) /\ Len(queue) <= QUEUE_SIZE
    /\ writer \in BOOLEAN
    /\ udpPc \in [UdpWorkers -> {"recv", "enqueue", "exited"}]
    /\ udpJob \in [UdpWorkers -> Jobs \cup {NoJob}]
    /\ last_under_load \in [UdpWorkers -> BOOLEAN]
    /\ hsPc \in [HandshakeWorkers -> {"idle", "dec", "run", "peer", "dead"}]
    /\ hsJob \in [HandshakeWorkers -> Jobs \cup {NoJob}]
    /\ hsRes \in [HandshakeWorkers -> {NoResult} \cup
                    [pk : Peers, src : Endpoints, resp : BOOLEAN, id : SessionIds \cup {NoId}]]
    /\ configured \subseteq Peers
    /\ handshake_queued \in [Peers -> BOOLEAN]
    /\ endpoint \in [Peers -> Endpoints \cup {NoEndpoint}]
    /\ roaming \in [Peers -> [seq : Stamps, src : Endpoints \cup {NoEndpoint}]]
    /\ initStamp \in [Peers -> Stamps] /\ awaiting \in [Peers -> BOOLEAN]
    /\ keypairs \in [Peers -> Seq(SessionIds)]
    /\ freeIds \subseteq SessionIds
    /\ respMarked \in [Peers -> Nat] /\ respWritten \in [Peers -> Nat]

\* The jobs counted by an enqueuer and not yet uncounted by a handshake
\* worker, as a multiset: held by a udp_worker before its channel send,
\* queued, or dequeued and waiting for the fetch_sub.
InFlightCount(m) ==
    Quantify(UdpWorkers, LAMBDA u : udpPc[u] = "enqueue" /\ udpJob[u] = m)
      + Len(SelectSeq(queue, LAMBDA j : j = m))
      + Quantify(HandshakeWorkers, LAMBDA h : hsPc[h] = "dec" /\ hsJob[h] = m)

HeldJobs ==
    {udpJob[u] : u \in {v \in UdpWorkers : udpPc[v] = "enqueue"}}
      \cup ToSet(queue)
      \cup {hsJob[h] : h \in {g \in HandshakeWorkers : hsPc[g] = "dec"}}

InFlightBag == [m \in HeldJobs |-> InFlightCount(m)]

Load == INSTANCE HandshakeLoad WITH Jobs <- Jobs,
                                    inflight <- InFlightBag,
                                    pending <- pending

\* Refinement (spec.md 4.6 (i), 7, S4/S5): the code's counter behaves as the
\* abstract under-load counter.  Every step of a udp_worker, a handshake
\* worker or a peer timer is either the acceptance of one job (fetch_add
\* and send), the taking of one (fetch_sub), or leaves both the multiset of
\* in-flight jobs and `pending` alone; no job is lost or duplicated between
\* the fetch_add and the fetch_sub, and every accepted job is eventually
\* taken.
LoadRefinement == Load!Spec

\* Session ids between process() and add_keypair, held by a worker for a
\* peer still configured.
HeldIds == {hsRes[h].id : h \in {g \in HandshakeWorkers :
                                   hsPc[g] = "peer" /\ hsRes[g].pk \in configured}}
             \ {NoId}

LiveIds == UNION {ToSet(keypairs[p]) : p \in Peers}

\* Session ids are never lost or shared: every id the handshake engine owns
\* is free, held by one worker between process() and add_keypair, or
\* installed in exactly one router key slot, so the ids add_keypair evicts
\* and those of a removed peer are all handed back.
SessionIdsPartition ==
    /\ freeIds \cap (LiveIds \cup HeldIds) = {}
    /\ freeIds \cup LiveIds \cup HeldIds = SessionIds
    /\ LiveIds \cap HeldIds = {}
    /\ \A g, h \in HandshakeWorkers :
         g # h /\ hsRes[g].id \in HeldIds => hsRes[g].id # hsRes[h].id
    /\ \A p \in Peers : Len(keypairs[p]) = Cardinality(ToSet(keypairs[p]))
    /\ \A p, q \in Peers : p # q => ToSet(keypairs[p]) \cap ToSet(keypairs[q]) = {}

NewJobsFor(p) ==
    Len(SelectSeq(queue, LAMBDA j : j = NewJob(p)))
      + Quantify(HandshakeWorkers, LAMBDA h : hsJob[h] = NewJob(p))

\* handshake_queued is set exactly while one New job for the peer is queued
\* or being processed: a timer never queues a second initiation for a peer,
\* and the flag is not left set once the worker has handled the job.
HandshakeQueuedTracksJob ==
    \A p \in configured : NewJobsFor(p) = IF handshake_queued[p] THEN 1 ELSE 0

\* A udp_worker blocked on the full handshake channel is eventually able to
\* send: the handshake workers keep draining it.
QueueDrains == \A u \in UdpWorkers : udpPc[u] = "enqueue" ~> udpPc[u] = "recv"

\* A queued initiation request for a configured peer is eventually handled
\* and handshake_queued cleared, so a later timer can request a new
\* handshake.
InitiationEventuallyHandled ==
    \A p \in Peers :
      (handshake_queued[p] /\ p \in configured)
        ~> (~handshake_queued[p] \/ p \notin configured)

\* spec.md 8, S4: once the counter exceeds THRESHOLD_UNDER_LOAD the UDP
\* worker has refreshed last_under_load.
UnderLoadNoticed ==
    pending > THRESHOLD_UNDER_LOAD => \E u \in UdpWorkers : last_under_load[u]

\* spec.md 4.6: the peer's timers are told "sent handshake response" only
\* for a response that was sent.
ResponseMarkedOnlyWhenSent == \A p \in Peers : respMarked[p] <= respWritten[p]

\* spec.md 1 and 4.6: replies go to "the address we last heard on": once no
\* handshake worker is between process() and set_endpoint for a peer, its
\* endpoint is the source of the last message the engine accepted from it.
EndpointIsLatest ==
    \A p \in configured :
      (\A h \in HandshakeWorkers : ~(hsPc[h] = "peer" /\ hsRes[h].pk = p))
        => endpoint[p] = roaming[p].src

=============================================================================
