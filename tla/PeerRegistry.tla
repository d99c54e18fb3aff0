---------------------------- MODULE PeerRegistry ----------------------------
(***************************************************************************)
(* The TCP side of the node's networking (src/Core/p2p): TcpPeer's         *)
(* lifecycle, the TCPServer's peers map and the address lookup table that  *)
(* MessageSender.SendMessageToAddress resolves.                            *)
(*                                                                         *)
(* A connection is accepted, handshaken and, once the HandshakeConfirm     *)
(* signature checks out, added to the lookup table under its wallet        *)
(* address; the server then registers it, starts its ReadLoop and waits    *)
(* on Done() to delete it from the peers map.  Nothing removes it from the *)
(* lookup table.  TcpPeer.Close sets alive to false, closes done and       *)
(* closes the connection; it is called by ReadLoop's defer, by Send on a   *)
(* write error and by TCPServer.Close.  A second close(done) panics, and   *)
(* an unrecovered panic ends the node process (panicked).                  *)
(*                                                                         *)
(* The WebSocketServer (src/Core/p2p/ws) shares the lookup table: its     *)
(* handshake adds the peer under the authenticated address, RegisterPeer   *)
(* keeps a map from peer ID to peer, and its Done monitor deletes the map  *)
(* entry only (lookupTable.Remove is commented out).  WebSocketPeer.Close  *)
(* runs its body once (sync.Once).  node.Stop calls TCPServer.Close and    *)
(* then WebSocketServer.Close.                                             *)
(*                                                                         *)
(* Each connection is a fresh TcpPeer (Peers) or WebSocketPeer (WsPeers);  *)
(* senders are goroutines that send to an address (handlers, notifiers).   *)
(***************************************************************************)
EXTENDS Naturals, FiniteSets

CONSTANTS
    Addrs,      \* wallet addresses of remote clients and nodes
    Peers,      \* TcpPeer objects, one per accepted connection
    Senders,    \* goroutines calling SendMessageToAddress
    WsPeers,    \* WebSocketPeer objects, one per upgraded connection
    WsIds,      \* WebSocketPeer IDs ("ws-in-<remote ip:port>-<local>")
    WsIdOf,     \* the ID each WebSocketPeer gets from its remote address
    None        \* model value: no peer

VARIABLES
    conn,       \* per peer: "unused", "open", "closed" (closed on our side)
    remote,     \* per peer: the remote end has gone away
    alive,      \* per peer: TcpPeer.alive
    done,       \* per peer: the done channel is closed
    rl,         \* per peer: its ReadLoop, "none", "pending" (WS, handshake
                \* done, not yet registered), "running", "exited"
    registered, \* the TCPServer's peers map
    lookup,     \* the LookupTable: address -> peer
    spc,        \* per sender: "idle" or "write" (passed the IsAlive check)
    tgt,        \* per sender: the peer it is sending to
    stopped,    \* TCPServer.Close has run (node.Stop)
    panicked,   \* a goroutine panicked: the node process is gone
    wsMap,      \* the WebSocketServer's peers map: ID -> peer
    monitored,  \* WS peers whose Done monitor goroutine is waiting
    toClose,    \* peersToClose of a running WebSocketServer.Close
    wsState     \* "listening", "closing" (map cleared), "stopped"

wsVars == <<wsMap, monitored, toClose, wsState>>
vars == <<conn, remote, alive, done, rl, registered, lookup, spc, tgt, stopped, panicked, wsVars>>

AllPeers == Peers \cup WsPeers

-----------------------------------------------------------------------------
(* LookupTable.Add: insert or replace the peer of an address.             *)
LookupAdd(a, p) == [lookup EXCEPT ![a] = p]

(* TcpPeer.Close: alive = false, close(p.done), p.conn.Close().  Closing   *)
(* a closed channel panics.                                                *)
TcpClose(p) ==
    /\ alive' = [alive EXCEPT ![p] = FALSE]
    /\ IF done[p] THEN panicked' = TRUE /\ UNCHANGED done
                  ELSE done' = [done EXCEPT ![p] = TRUE] /\ UNCHANGED panicked
    /\ conn' = [conn EXCEPT ![p] = "closed"]

(* WebSocketPeer.Close: inside closeOnce.Do, isClosed = true, close(done), *)
(* the close frame and conn.Close(); later calls do nothing.              *)
WsClose(p) ==
    /\ IF done[p]
       THEN UNCHANGED <<alive, done, conn>>
       ELSE /\ alive' = [alive EXCEPT ![p] = FALSE]
            /\ done' = [done EXCEPT ![p] = TRUE]
            /\ conn' = [conn EXCEPT ![p] = "closed"]
    /\ UNCHANGED panicked

Close(p) == IF p \in WsPeers THEN WsClose(p) ELSE TcpClose(p)

(* TCPServer.handleConnection for a new connection from the holder of      *)
(* address a: handshake builds TcpPeer p and on success calls              *)
(* lookupTable.Add(a, p); then the peers map and ReadLoop.  A failed       *)
(* handshake closes the bare connection and p is dropped.                  *)
HandleConnection(a, p) ==
    /\ ~panicked /\ ~stopped
    /\ p \in Peers /\ conn[p] = "unused"
    /\ \/ /\ conn' = [conn EXCEPT ![p] = "open"]
          /\ alive' = [alive EXCEPT ![p] = TRUE]
          /\ lookup' = LookupAdd(a, p)
          /\ registered' = registered \cup {p}
          /\ rl' = [rl EXCEPT ![p] = "running"]
       \/ /\ conn' = [conn EXCEPT ![p] = "closed"]
          /\ UNCHANGED <<alive, lookup, registered, rl>>
    /\ UNCHANGED <<remote, done, spc, tgt, stopped, panicked, wsVars>>

(* The remote end closes the connection or the network drops it.           *)
Disconnect(p) ==
    /\ ~panicked
    /\ conn[p] = "open" /\ ~remote[p]
    /\ remote' = [remote EXCEPT ![p] = TRUE]
    /\ UNCHANGED <<conn, alive, done, rl, registered, lookup, spc, tgt, stopped, panicked, wsVars>>

(* TcpPeer.ReadLoop: io.ReadFull fails once the connection is gone on      *)
(* either side; the loop breaks and the deferred Close runs.              *)
ReadLoopExit(p) ==
    /\ ~panicked
    /\ p \in Peers /\ rl[p] = "running"
    /\ remote[p] \/ conn[p] = "closed"
    /\ rl' = [rl EXCEPT ![p] = "exited"]
    /\ Close(p)
    /\ UNCHANGED <<remote, registered, lookup, spc, tgt, stopped, wsVars>>

(* WebSocketPeer.ReadLoop: ReadMessage fails once the connection is gone  *)
(* on either side and calls Close itself, or the ping tick finds the peer  *)
(* closed or fails to write the ping; the loop returns and the deferred    *)
(* Close runs.  Both calls go through closeOnce.                           *)
WsReadLoopExit(p) ==
    /\ ~panicked
    /\ p \in WsPeers /\ rl[p] = "running"
    /\ remote[p] \/ conn[p] = "closed"
    /\ rl' = [rl EXCEPT ![p] = "exited"]
    /\ WsClose(p)
    /\ UNCHANGED <<remote, registered, lookup, spc, tgt, stopped, wsVars>>

(* handleConnection after <-peer.Done(): delete(s.peers, peer.ID()).      *)
PeerDone(p) ==
    /\ ~panicked
    /\ p \in registered /\ done[p]
    /\ registered' = registered \ {p}
    /\ UNCHANGED <<conn, remote, alive, done, rl, lookup, spc, tgt, stopped, panicked, wsVars>>

(* SendMessageToAddress(a): lookupTable.Get(a), then TcpPeer.Send checks   *)
(* IsAlive.  An unknown address or a dead peer returns an error and        *)
(* changes nothing; otherwise Send marshals and goes for sendLock.         *)
SendToAddress(s, a) ==
    /\ ~panicked
    /\ spc[s] = "idle"
    /\ lookup[a] # None
    /\ alive[lookup[a]]
    /\ spc' = [spc EXCEPT ![s] = "write"]
    /\ tgt' = [tgt EXCEPT ![s] = lookup[a]]
    /\ UNCHANGED <<conn, remote, alive, done, rl, registered, lookup, stopped, panicked, wsVars>>

(* Send under sendLock: writing to a connection closed on our side fails;  *)
(* to one the remote dropped it may fail.  The writer is a bufio.Writer: a *)
(* failure in Write (a message larger than the buffer) calls Close, one    *)
(* that shows only in the final Flush is returned without Close.           *)
SendWrite(s) ==
    /\ ~panicked
    /\ spc[s] = "write"
    /\ spc' = [spc EXCEPT ![s] = "idle"]
    /\ LET p == tgt[s] IN
       \/ /\ conn[p] = "open"
          /\ UNCHANGED <<conn, alive, done, panicked>>
       \/ /\ conn[p] = "closed" \/ remote[p]
          /\ Close(p)
       \/ /\ conn[p] = "closed" \/ remote[p]
          /\ UNCHANGED <<conn, alive, done, panicked>>
    /\ UNCHANGED <<remote, rl, registered, lookup, tgt, stopped, wsVars>>

(* TCPServer.Close (node.Stop): under peerLock, Close every peer still in  *)
(* the peers map.                                                          *)
ServerClose ==
    /\ ~panicked /\ ~stopped
    /\ stopped' = TRUE
    /\ alive' = [p \in AllPeers |-> IF p \in registered THEN FALSE ELSE alive[p]]
    /\ done' = [p \in AllPeers |-> done[p] \/ p \in registered]
    /\ conn' = [p \in AllPeers |-> IF p \in registered THEN "closed" ELSE conn[p]]
    /\ panicked' = \E p \in registered : done[p]
    /\ UNCHANGED <<remote, rl, registered, lookup, spc, tgt, wsVars>>

-----------------------------------------------------------------------------
(* WebSocketServer.handleConnection after the HTTP upgrade:                *)
(* performServerHandshake builds WebSocketPeer p, and once the             *)
(* HandshakeConfirm signature matches the HandshakeInit address calls      *)
(* lookupTable.Add(a, p) and returns; RegisterPeer comes next.  A failed   *)
(* handshake writes a close frame and closes the bare connection.          *)
WsHandshake(a, p) ==
    /\ ~panicked /\ wsState # "stopped"
    /\ p \in WsPeers /\ conn[p] = "unused"
    /\ \/ /\ conn' = [conn EXCEPT ![p] = "open"]
          /\ alive' = [alive EXCEPT ![p] = TRUE]
          /\ lookup' = LookupAdd(a, p)
          /\ rl' = [rl EXCEPT ![p] = "pending"]
       \/ /\ conn' = [conn EXCEPT ![p] = "closed"]
          /\ UNCHANGED <<alive, lookup, rl>>
    /\ UNCHANGED <<remote, done, registered, spc, tgt, stopped, panicked, wsVars>>

(* WebSocketServer.RegisterPeer: a peer no longer alive (a send through    *)
(* the lookup entry already failed on it) is closed; under peerLock a peer *)
(* whose ID is already in the map, live or not yet cleaned up, is closed   *)
(* as redundant; otherwise it enters the map, and its ReadLoop and its     *)
(* Done monitor start.  The lookup entry stays in every case.              *)
WsRegisterPeer(p) ==
    /\ ~panicked
    /\ rl[p] = "pending"
    /\ \/ /\ ~alive[p] \/ wsMap[WsIdOf[p]] # None
          /\ rl' = [rl EXCEPT ![p] = "exited"]
          /\ Close(p)
          /\ UNCHANGED <<wsMap, monitored>>
       \/ /\ alive[p] /\ wsMap[WsIdOf[p]] = None
          /\ wsMap' = [wsMap EXCEPT ![WsIdOf[p]] = p]
          /\ monitored' = monitored \cup {p}
          /\ rl' = [rl EXCEPT ![p] = "running"]
          /\ UNCHANGED <<conn, alive, done, panicked>>
    /\ UNCHANGED <<remote, registered, lookup, spc, tgt, stopped, toClose, wsState>>

(* RegisterPeer's monitor goroutine after <-Done(): under peerLock it      *)
(* deletes the map entry if it is still this peer.                         *)
WsPeerDone(p) ==
    /\ ~panicked
    /\ p \in monitored /\ done[p]
    /\ monitored' = monitored \ {p}
    /\ wsMap' = IF wsMap[WsIdOf[p]] = p THEN [wsMap EXCEPT ![WsIdOf[p]] = None] ELSE wsMap
    /\ UNCHANGED <<conn, remote, alive, done, rl, registered, lookup, spc, tgt, stopped, panicked,
                   toClose, wsState>>

(* WebSocketServer.Close, after TCPServer.Close in node.Stop: under        *)
(* peerLock copy the map's peers to peersToClose and clear the map.        *)
WsServerCloseBegin ==
    /\ ~panicked /\ stopped /\ wsState = "listening"
    /\ toClose' = { wsMap[i] : i \in { j \in WsIds : wsMap[j] # None } }
    /\ wsMap' = [i \in WsIds |-> None]
    /\ wsState' = "closing"
    /\ UNCHANGED <<conn, remote, alive, done, rl, registered, lookup, spc, tgt, stopped, panicked,
                   monitored>>

(* The loop over peersToClose, one p.Close() at a time, outside the lock.  *)
WsServerClosePeer(p) ==
    /\ ~panicked
    /\ p \in toClose
    /\ toClose' = toClose \ {p}
    /\ Close(p)
    /\ UNCHANGED <<remote, rl, registered, lookup, spc, tgt, stopped, wsMap, monitored, wsState>>

(* httpServer.Shutdown: no more upgrades (the hijacked WebSocket           *)
(* connections are not closed by it).                                      *)
WsShutdown ==
    /\ ~panicked
    /\ wsState = "closing" /\ toClose = {}
    /\ wsState' = "stopped"
    /\ UNCHANGED <<conn, remote, alive, done, rl, registered, lookup, spc, tgt, stopped, panicked,
                   wsMap, monitored, toClose>>

Init ==
    /\ conn = [p \in AllPeers |-> "unused"]
    /\ remote = [p \in AllPeers |-> FALSE]
    /\ alive = [p \in AllPeers |-> FALSE]
    /\ done = [p \in AllPeers |-> FALSE]
    /\ rl = [p \in AllPeers |-> "none"]
    /\ registered = {}
    /\ lookup = [a \in Addrs |-> None]
    /\ spc = [s \in Senders |-> "idle"]
    /\ tgt = [s \in Senders |-> None]
    /\ stopped = FALSE
    /\ panicked = FALSE
    /\ wsMap = [i \in WsIds |-> None]
    /\ monitored = {}
    /\ toClose = {}
    /\ wsState = "listening"

Next ==
    \/ \E a \in Addrs, p \in Peers : HandleConnection(a, p)
    \/ \E p \in AllPeers : Disconnect(p) \/ ReadLoopExit(p) \/ WsReadLoopExit(p) \/ PeerDone(p)
    \/ \E a \in Addrs, p \in WsPeers : WsHandshake(a, p)
    \/ \E p \in WsPeers : WsRegisterPeer(p) \/ WsPeerDone(p) \/ WsServerClosePeer(p)
    \/ \E s \in Senders, a \in Addrs : SendToAddress(s, a)
    \/ \E s \in Senders : SendWrite(s)
    \/ ServerClose
    \/ WsServerCloseBegin
    \/ WsShutdown

Spec == Init /\ [][Next]_vars

-----------------------------------------------------------------------------
(* No goroutine of the p2p layer brings the node down: TcpPeer.Close is    *)
(* safe to call from ReadLoop's defer, from Send's write-error path and    *)
(* from TCPServer.Close, whichever comes first (its comment: "Ensure the   *)
(* peer is closed when the read loop exits").                              *)
NoClosePanic == ~panicked

=============================================================================
