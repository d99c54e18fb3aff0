--------------------------- MODULE MCPeerRegistry ---------------------------
(* One remote address that connects up to twice (a reconnect gets a new   *)
(* TcpPeer) and two sender goroutines.  Two WebSocket connections come    *)
(* from the same remote ip:port one after the other, so they get the same *)
(* peer ID.                                                                *)
EXTENDS PeerRegistry, TLC

CONSTANTS a1, p1, p2, w1, w2, id1, s1, s2

MCAddrs == {a1}
MCPeers == {p1, p2}
MCSenders == {s1, s2}
MCWsPeers == {w1, w2}
MCWsIds == {id1}
MCWsIdOf == [w \in MCWsPeers |-> id1]
=============================================================================
