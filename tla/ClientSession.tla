---------------------------- MODULE ClientSession ----------------------------
(***************************************************************************)
(* The request/response session of a Fichain client over its TCP          *)
(* connection to a node (src/Core/client, src/Core/handlers,               *)
(* src/Core/notifier/client_notifier.go).                                  *)
(*                                                                         *)
(* Client.SendTransaction asks the node for the account nonce, waits on    *)
(* the unbuffered NonceChan (no timeout), signs and sends the transaction, *)
(* then waits on the unbuffered ReceiptChan or 30 s.  The client's single  *)
(* read-loop routes every message from the node to a handler and runs the  *)
(* handler to completion: Nonce and TxReceipt push into those channels and *)
(* block until the caller takes the value; TxMined sends GetReceipt.  On   *)
(* the node the client's messages are handled in order by the read-loop of *)
(* its peer, and every mined transaction of, or to, the client's address   *)
(* is announced by a goroutine of the ClientNotifier.                      *)
(*                                                                         *)
(* The caller is left open: a module that EXTENDS this one calls           *)
(* SendTransaction(p) and reacts to the return of ReceiveReceipt or        *)
(* ReceiptTimeout.  The transaction of call p is [pay |-> p, nonce |-> n]; *)
(* distinct payloads make distinct hashes.                                 *)
(***************************************************************************)
EXTENDS Naturals, Sequences, FiniteSets

CONSTANTS
    OtherTxs,   \* transactions of other accounts whose recipient is the client
    NoMsg,      \* model value: the read-loop is not blocked in a handler
    NoTx        \* model value: no transaction

VARIABLES
    cpc,        \* the caller inside SendTransaction: "idle", "nonce", "receipt"
    cur,        \* the transaction of the current call
    result,     \* what the last SendTransaction returned
    reqs,       \* GetNonce requests sent so far (history: tags each reply)
    rlMsg,      \* the message the client read-loop's handler is pushing
    toNode,     \* the TCP stream client -> node
    toClient,   \* the TCP stream node -> client
    pool,       \* the node's mempool, as far as this client's traffic goes
    mined,      \* the receipts on chain: [tx, status]
    nonce,      \* the client account's nonce on chain
    notify,     \* TxMined sends started by the notifier and not yet written
    connected   \* the client's one TCP connection to the node is up

clientVars == <<cpc, cur, result, reqs, rlMsg, toNode, toClient, connected>>
nodeVars   == <<pool, mined, nonce, notify>>

MinedTxs == { r.tx : r \in mined }

OwnTx(t) == t \notin OtherTxs

-----------------------------------------------------------------------------
(* Messages.  The req field of GetNonce and Nonce is the history tag; the  *)
(* wire message carries only the address and the nonce.                    *)

GetNonceMsg(k)    == [type |-> "GetNonce", req |-> k]
SendTxMsg(t)      == [type |-> "SendTransaction", tx |-> t]
GetReceiptMsg(t)  == [type |-> "GetReceipt", tx |-> t]
NonceMsg(k, n)    == [type |-> "Nonce", req |-> k, nonce |-> n]
TxMinedMsg(t)     == [type |-> "TxMined", tx |-> t]
ReceiptMsg(r)     == [type |-> "Receipt", rcpt |-> r]

(* MessageSender.SendMessageToPeer: on a live connection the message is    *)
(* written after the ones before it; on a closed one Send fails ("peer is  *)
(* not alive") and nothing is written.                                    *)
SendMessageToPeer(stream, m) == IF connected THEN Append(stream, m) ELSE stream

-----------------------------------------------------------------------------
(* The caller: Client.SendTransaction.                                     *)

(* Send GetNonce for the wallet address and block on NonceChan.            *)
SendTransaction(p) ==
    /\ cpc = "idle"
    /\ reqs' = reqs + 1
    /\ toNode' = SendMessageToPeer(toNode, GetNonceMsg(reqs + 1))
    /\ cur' = [pay |-> p, nonce |-> 0]
    /\ cpc' = "nonce"
    /\ UNCHANGED <<result, rlMsg, toClient, connected, nodeVars>>

(* The nonce arrives: build, sign and send the transaction, then wait for  *)
(* the receipt.                                                            *)
ReceiveNonce ==
    /\ cpc = "nonce"
    /\ rlMsg # NoMsg /\ rlMsg.type = "Nonce"
    /\ connected
    /\ cur' = [cur EXCEPT !.nonce = rlMsg.nonce]
    /\ toNode' = SendMessageToPeer(toNode, SendTxMsg(cur'))
    /\ rlMsg' = NoMsg
    /\ cpc' = "receipt"
    /\ UNCHANGED <<result, reqs, toClient, connected, nodeVars>>

(* The nonce arrives but the connection is gone: SendMessageToPeer of the  *)
(* transaction fails and SendTransaction returns the error.               *)
SendTxFailed ==
    /\ cpc = "nonce"
    /\ rlMsg # NoMsg /\ rlMsg.type = "Nonce"
    /\ ~connected
    /\ result' = [kind |-> "error"]
    /\ rlMsg' = NoMsg
    /\ cpc' = "idle"
    /\ UNCHANGED <<cur, reqs, toNode, toClient, connected, nodeVars>>

(* Mutant: a deadline on the nonce wait as well, abandoning the request.   *)
ReceiptTimeoutAlsoNonce ==
    /\ cpc \in {"nonce", "receipt"}
    /\ result' = [kind |-> "timeout"]
    /\ cpc' = "idle"
    /\ UNCHANGED <<cur, reqs, rlMsg, toNode, toClient, connected, nodeVars>>

(* time.After(30 s) wins the select: "wait for receipt timeout".           *)
ReceiptTimeout ==
    /\ cpc = "receipt"
    /\ result' = [kind |-> "timeout"]
    /\ cpc' = "idle"
    /\ UNCHANGED <<cur, reqs, rlMsg, toNode, toClient, connected, nodeVars>>

(* A receipt is taken from ReceiptChan and returned, whatever its hash.    *)
ReceiveReceipt ==
    /\ cpc = "receipt"
    /\ rlMsg # NoMsg /\ rlMsg.type = "Receipt"
    /\ result' = [kind |-> "receipt", rcpt |-> rlMsg.rcpt]
    /\ rlMsg' = NoMsg
    /\ cpc' = "idle"
    /\ UNCHANGED <<cur, reqs, toNode, toClient, connected, nodeVars>>

-----------------------------------------------------------------------------
(* The client's read-loop: TcpPeer.ReadLoop, Router.Route and the          *)
(* ClientHandler, one message at a time, the handler run to completion.    *)

(* Nonce and TxReceipt: h.NonceChan <- num, h.ReceiptChan <- receipt.      *)
PushToChannel(m) == rlMsg' = m /\ UNCHANGED toNode

(* TxMined: send GetReceipt for the transaction's hash on the same peer.   *)
ClientTxMined(m) == toNode' = SendMessageToPeer(toNode, GetReceiptMsg(m.tx)) /\ UNCHANGED rlMsg

ClientReadLoop ==
    /\ rlMsg = NoMsg
    /\ toClient # <<>>
    /\ toClient' = Tail(toClient)
    /\ LET m == Head(toClient)
       IN IF m.type = "TxMined" THEN ClientTxMined(m) ELSE PushToChannel(m)
    /\ UNCHANGED <<cpc, cur, result, reqs, connected, nodeVars>>

-----------------------------------------------------------------------------
(* The node: the read-loop of the client's peer and its handlers.          *)

(* StateHandler.GetNonce: the account nonce of the state DB.               *)
GetNonce(m) ==
    /\ toClient' = SendMessageToPeer(toClient, NonceMsg(m.req, nonce))
    /\ UNCHANGED pool

(* TransactionHandler.Transaction: the transaction reaches a mempool.      *)
(* Whether it is pooled here or forwarded is left to BlockProduction; a    *)
(* drop there shows here as a transaction that is never mined.            *)
NodeTransaction(m) ==
    /\ pool' = pool \cup {m.tx}
    /\ UNCHANGED toClient

(* ReceiptHandler.GetReceipt: the receipt of a mined transaction (the      *)
(* client asks only after TxMined, so the lookup entry exists).            *)
GetReceipt(m) ==
    /\ toClient' = SendMessageToPeer(toClient, ReceiptMsg(CHOOSE r \in mined : r.tx = m.tx))
    /\ UNCHANGED pool

NodeReadLoop ==
    /\ toNode # <<>>
    /\ toNode' = Tail(toNode)
    /\ LET m == Head(toNode)
       IN CASE m.type = "GetNonce" -> GetNonce(m)
            [] m.type = "SendTransaction" -> NodeTransaction(m)
            [] m.type = "GetReceipt" -> GetReceipt(m)
    /\ UNCHANGED <<cpc, cur, result, reqs, rlMsg, connected, mined, nonce, notify>>

(* Another account submits a transaction to the client's address.          *)
OtherSend(o) ==
    /\ o \notin pool \cup MinedTxs
    /\ pool' = pool \cup {o}
    /\ UNCHANGED <<clientVars, mined, nonce, notify>>

(* A block: the builder takes the whole pool (GetPendingTransactions then  *)
(* Clear).  Of the client's transactions at most the one with the account  *)
(* nonce is included, or none (a pre-check fails); it succeeds or reverts. *)
(* The chain event reaches ClientNotifier.HandleChanEvent, which starts a  *)
(* NotifyTxMined goroutine for every included transaction.                *)
Mine ==
    /\ pool # {}
    /\ \E win \in { t \in pool : OwnTx(t) /\ t.nonce = nonce } \cup {NoTx},
          status \in {0, 1} :
         LET others == pool \cap OtherTxs
             inc    == others \cup (IF win = NoTx THEN {} ELSE {win})
         IN /\ mined' = mined \cup { [tx |-> o, status |-> 1] : o \in others }
                              \cup (IF win = NoTx THEN {} ELSE {[tx |-> win, status |-> status]})
            /\ nonce' = IF win = NoTx THEN nonce ELSE nonce + 1
            /\ notify' = notify \cup inc
    /\ pool' = {}
    /\ UNCHANGED clientVars

(* NotifyTxMined's goroutine: SendMessageToAddress finds the client's peer *)
(* in the lookup table and writes TxMined, in no order with other sends.   *)
NotifyTxMined(t) ==
    /\ t \in notify
    /\ notify' = notify \ {t}
    /\ toClient' = SendMessageToPeer(toClient, TxMinedMsg(t))
    /\ UNCHANGED <<cpc, cur, result, reqs, rlMsg, toNode, connected, pool, mined, nonce>>

-----------------------------------------------------------------------------
(* The client process stops and its connection with it: the node still     *)
(* handles the requests that reached it (a prefix of toNode: only the      *)
(* transactions matter) and its replies are lost.  TxMined sends in flight *)
(* reach the next connection of the same address (the lookup table maps   *)
(* the address to the newest peer) or are lost.                            *)
ConnectionLost ==
    /\ \E k \in 0..Len(toNode), lostSends \in SUBSET notify :
         /\ pool' = pool \cup { toNode[i].tx :
                                  i \in { j \in 1..k : toNode[j].type = "SendTransaction" } }
         /\ notify' = notify \ lostSends
    /\ cpc' = "idle"
    /\ rlMsg' = NoMsg
    /\ toNode' = <<>>
    /\ toClient' = <<>>
    /\ connected' = TRUE
    /\ UNCHANGED <<cur, result, reqs, mined, nonce>>

(* The node or the network closes the connection while the client process *)
(* lives: the node handles a prefix of what was sent, the rest and every  *)
(* reply not yet read are lost, and ReadLoop exits.  A handler blocked in *)
(* a channel push keeps its value.  Nothing dials again: NewClient        *)
(* connects once.                                                         *)
ConnectionDrop ==
    /\ connected
    /\ \E k \in 0..Len(toNode) :
         pool' = pool \cup { toNode[i].tx :
                                i \in { j \in 1..k : toNode[j].type = "SendTransaction" } }
    /\ connected' = FALSE
    /\ toNode' = <<>>
    /\ toClient' = <<>>
    /\ UNCHANGED <<cpc, cur, result, reqs, rlMsg, mined, nonce, notify>>

InitSession ==
    /\ cpc = "idle"
    /\ cur = NoTx
    /\ result = [kind |-> "none"]
    /\ reqs = 0
    /\ rlMsg = NoMsg
    /\ toNode = <<>>
    /\ toClient = <<>>
    /\ pool = {}
    /\ mined = {}
    /\ nonce = 0
    /\ notify = {}
    /\ connected = TRUE

(* Every step of the session other than the caller's SendTransaction.      *)
SessionNext ==
    \/ ReceiveNonce
    \/ SendTxFailed
    \/ ReceiptTimeout
    \/ ReceiveReceipt
    \/ ClientReadLoop
    \/ NodeReadLoop
    \/ Mine
    \/ \E t \in notify : NotifyTxMined(t)
    \/ \E o \in OtherTxs : OtherSend(o)
    \/ ConnectionDrop

(* The scheduling the code justifies: the two read-loops, the builder     *)
(* loop, the notifier goroutines and the 30 s timer all run; a caller      *)
(* blocked on a channel takes a value that is offered.  Other accounts    *)
(* need not send anything.                                                 *)
SessionFairness ==
    /\ WF_<<clientVars, nodeVars>>(ReceiveNonce)
    /\ WF_<<clientVars, nodeVars>>(SendTxFailed)
    /\ WF_<<clientVars, nodeVars>>(ReceiveReceipt)
    /\ WF_<<clientVars, nodeVars>>(ReceiptTimeout)
    /\ WF_<<clientVars, nodeVars>>(ClientReadLoop)
    /\ WF_<<clientVars, nodeVars>>(NodeReadLoop)
    /\ WF_<<clientVars, nodeVars>>(Mine)
    /\ WF_<<clientVars, nodeVars>>(\E t \in notify : NotifyTxMined(t))

-----------------------------------------------------------------------------

(* The nonce a call signs with is the node's answer to that call's own     *)
(* GetNonce, never a reply left over from an earlier call: replies come    *)
(* back in order on the connection and each one is taken by a caller.     *)
NonceAnswersCurrentCall ==
    [][cpc = "nonce" /\ cpc' = "receipt" => rlMsg.req = reqs]_<<clientVars, nodeVars>>

(* Spec 5 (cancellation and timeouts): the nonce query uses a deadline, so *)
(* a caller waiting for its nonce eventually stops waiting.               *)
NonceWaitEnds == cpc = "nonce" ~> cpc # "nonce"

=============================================================================
