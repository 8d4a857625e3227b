--------------------------- MODULE HandshakeLoad ---------------------------
(***************************************************************************)
(* What the device promises of its under-load counter (spec.md 4.4-4.6,    *)
(* 7 "Ordering guarantees", 8 S4/S5): `pending` counts the handshake jobs  *)
(* an enqueuer (a udp worker or a peer timer) has accepted and no          *)
(* handshake worker has taken yet, and every accepted job is eventually    *)
(* taken.  `inflight` is the multiset of those jobs.                       *)
(***************************************************************************)
EXTENDS Naturals, Bags, BagsExt

CONSTANT Jobs    \* the handshake jobs: messages and initiation requests

VARIABLES inflight, pending

vars == <<inflight, pending>>

Init == inflight = EmptyBag /\ pending = 0

\* An enqueuer accepts job m: the counter goes up by one.
Accept(m) ==
    /\ inflight' = BagAdd(inflight, m)
    /\ pending' = pending + 1

\* A handshake worker takes m off the queue: the counter goes down by one.
Take(m) ==
    /\ BagIn(m, inflight)
    /\ inflight' = BagRemove(inflight, m)
    /\ pending' = pending - 1

Next == \E m \in Jobs : Accept(m) \/ Take(m)

Spec == Init /\ [][Next]_vars /\ \A m \in Jobs : WF_vars(Take(m))

=============================================================================
