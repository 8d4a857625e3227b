----------------------------- MODULE MCWorkers -----------------------------
(* Instantiation of Workers for TLC: the constants the .cfg files give.    *)
EXTENDS Workers

CONSTANTS h1, h2, p1, p2, e1, e2, f1

MCHandshakeWorkers == {h1, h2}
MCPeers == {p1}
MCEndpoints4 == {e1, e2}
MCEndpoints6 == {f1}

=============================================================================
